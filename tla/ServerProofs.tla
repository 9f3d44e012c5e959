----------------------------- MODULE ServerProofs -----------------------------
(***************************************************************************)
(* What the components of Server owe, for any number of messages, jobs,    *)
(* models, chats, notices, days, backups and repeats: an inductive         *)
(* invariant for each of them, and the sum of them.  First the chat log:   *)
(* a turn starts from the whole branch in front of its message, each       *)
(* message once and by no words that were replaced or deleted.             *)
(***************************************************************************)
EXTENDS Server, SequenceTheorems, FiniteSetTheorems, WellFoundedInduction, TLAPS

-----------------------------------------------------------------------------
(* The rows of the conversation                                            *)

\* The types the proof needs.
RowTypes == [role : Roles, state : States, words : Nat, upTo : Nat, covers : SUBSET Nat]
JobTypes == [busy : BOOLEAN, upTo : Nat, covers : SUBSET Nat]

\* The messages of the branch up to a row.
Upto(rs, n) == {i \in Messages(rs) : i <= n}

\* A summary stands for the messages up to one of them, all of them, and was written after them.
Covers(rs) ==
  \A s \in Summaries(rs) : rs[s].upTo < s /\ rs[s].upTo \in Messages(rs) /\ rs[s].covers = Upto(rs, rs[s].upTo)

\* The words of the person are named after a row that is not younger, and sent once.
Words(rs) ==
  /\ \A i \in DOMAIN rs : rs[i].words <= i /\ (rs[i].role = "user" => rs[i].words # 0)
  /\ \A i, j \in Typed(rs) : i # j => rs[i].words # rs[j].words

Branch(rs) == rs \in Seq(RowTypes) /\ Len(rs) <= MaxRows /\ Covers(rs) /\ Words(rs)

\* A running turn has its row, and was given the branch in front of it.
Given ==
  /\ turn \in 0..Len(rows)
  /\ turn # 0 => rows[turn].role = "user"
  /\ HistoryIsWhole

\* What a compaction under way will write is still the branch up to its row; a turn's compaction ends with the turn.
Jobs ==
  /\ jobs \in [{"user", "turn"} -> JobTypes]
  /\ jobs["turn"].busy => turn # 0
  /\ exists => \A by \in DOMAIN jobs : jobs[by].busy =>
       jobs[by].upTo \in Messages(rows) /\ jobs[by].covers = Upto(rows, jobs[by].upTo)

IInv == Branch(rows) /\ Given /\ Jobs /\ exists \in BOOLEAN /\ NoOrphans

-----------------------------------------------------------------------------
(* The operators                                                           *)

\* A nonempty set of ids has a newest one.
LEMMA MaxExists ==
  ASSUME NEW n \in Nat, NEW Z, Z \subseteq 0..n, Z # {}
  PROVE  \E x \in Z : \A y \in Z : x >= y
<1> DEFINE T == {n - x : x \in Z}
           R == {ss \in Nat \X Nat : ss[1] < ss[2]}
<1>1. T \subseteq Nat /\ T # {}
  <2>1. \A x \in Z : n - x \in Nat  OBVIOUS
  <2>2. \A x \in Z : n - x \in T  OBVIOUS
  <2> QED  BY <2>1, <2>2
<1>2. PICK t \in T : \A u \in T : ~(<<u, t>> \in R)
  <2>1. IsWellFoundedOn(R, Nat)  BY NatLessThanWellFounded DEF OpToRel
  <2> HIDE DEF T, R
  <2>2. \A TT : TT \subseteq Nat /\ TT # {} => \E x \in TT : \A y \in TT : ~ (<<y, x>> \in R) BY <2>1, WFMin, Zenon
  <2> QED  BY <1>1, <2>2
<1>3. PICK x \in Z : t = n - x  BY <1>2
<1>4. \A y \in Z : n - y \in T /\ n - y \in Nat /\ t \in Nat  BY <1>1, <1>2
<1>5. \A y \in Z : ~(n - y < t)
  <2> HIDE DEF T
  <2> QED  BY <1>2, <1>4
<1> QED  BY <1>3, <1>5

LEMMA NewestIs ==
  ASSUME NEW n \in Nat, NEW Z, Z \subseteq 0..n, Z # {}
  PROVE  Newest(Z) \in Z /\ \A y \in Z : Newest(Z) >= y
<1> QED BY MaxExists DEF Newest, Max

LEMMA NewestIsId == ASSUME NEW n \in Nat, NEW Z, Z \subseteq 1..n
  PROVE  Newest(Z) \in Nat /\ (Newest(Z) # 0 => Newest(Z) \in Z) /\ (Newest(Z) = 0 => Z = {})
<1>1. CASE Z = {}  BY <1>1 DEF Newest
<1>2. CASE Z # {}
  <2>1. Newest(Z) \in Z  BY <1>2, NewestIs, Z \subseteq 0..n
  <2>2. Newest(Z) \in 1..n  BY <2>1
  <2> QED  BY <2>1, <2>2
<1> QED  BY <1>1, <1>2

LEMMA RowFacts ==
  ASSUME NEW rs, Branch(rs)
  PROVE  /\ DOMAIN rs = 1..Len(rs) /\ Len(rs) \in Nat
         /\ \A i \in DOMAIN rs : rs[i] \in RowTypes
         /\ Live(rs) \subseteq DOMAIN rs /\ Messages(rs) \subseteq Live(rs) /\ Summaries(rs) \subseteq Live(rs)
         /\ Typed(rs) \subseteq Messages(rs)
         /\ \A i \in DOMAIN rs : (i \in Summaries(rs) <=> rs[i].state = "active" /\ rs[i].role = "summary")
<1>1. rs \in Seq(RowTypes)  BY DEF Branch
<1> QED  BY <1>1, LenProperties DEF Live, Messages, Summaries, Typed

\* A cut leaves a branch: no summary stays that covers what was cut, and none loses what it covers.
LEMMA CutKeeps ==
  ASSUME NEW rs, Branch(rs), NEW from \in Nat, NEW states, "active" \in states, NEW to \in {"retired", "deleted"}
  PROVE  LET cs == CutFrom(rs, from, states, to) IN
         /\ Branch(cs) /\ Len(cs) = Len(rs)
         /\ \A i \in Typed(cs) : i < from /\ i \in Typed(rs) /\ cs[i] = rs[i]
<1> DEFINE cs == CutFrom(rs, from, states, to)
<1>1. /\ DOMAIN rs = 1..Len(rs) /\ Len(rs) \in Nat
      /\ \A i \in DOMAIN rs : rs[i] \in RowTypes
  BY RowFacts
<1>2. /\ DOMAIN cs = DOMAIN rs
      /\ \A i \in DOMAIN rs :
           cs[i] = IF i >= from /\ rs[i].state \in states /\ ~Spared(rs, i, from)
                   THEN [rs[i] EXCEPT !.state = to] ELSE rs[i]
  BY DEF CutFrom
<1> HIDE DEF cs
<1>3. ASSUME NEW i \in DOMAIN rs
      PROVE  /\ cs[i] \in RowTypes
             /\ cs[i].role = rs[i].role /\ cs[i].words = rs[i].words
             /\ cs[i].state = "active" => cs[i] = rs[i] /\ (i < from \/ Spared(rs, i, from))
             /\ i < from => cs[i] = rs[i]
  <2>1. rs[i] \in RowTypes /\ i \in Nat  BY <1>1, <1>3
  <2>2. CASE i >= from /\ rs[i].state \in states /\ ~Spared(rs, i, from)
    <3>1. cs[i] = [rs[i] EXCEPT !.state = to]  BY <1>2, <1>3, <2>2
    <3>2. to \in States /\ to # "active"  BY DEF States
    <3>3. cs[i].state = to /\ cs[i].role = rs[i].role /\ cs[i].words = rs[i].words /\ cs[i] \in RowTypes
      BY <2>1, <3>1, <3>2 DEF RowTypes
    <3> QED  BY <2>1, <2>2, <3>2, <3>3
  <2>3. CASE ~(i >= from /\ rs[i].state \in states /\ ~Spared(rs, i, from))
    <3>1. cs[i] = rs[i]  BY <1>2, <1>3, <2>3
    <3> QED  BY <2>1, <2>3, <3>1
  <2> QED  BY <2>2, <2>3
<1>4. cs \in Seq(RowTypes) /\ Len(cs) = Len(rs)
  <2>1. cs \in [1..Len(rs) -> RowTypes]
    <3>1. cs = [i \in DOMAIN cs |-> cs[i]]  BY DEF cs, CutFrom
    <3> QED  BY <3>1, <1>1, <1>2, <1>3
  <2> QED  BY <1>1, <2>1, SeqDef, LenProperties
<1>5. /\ Live(cs) = {i \in DOMAIN rs : cs[i].state = "active"}
      /\ Live(cs) \subseteq Live(rs)
  BY <1>2, <1>3 DEF Live
<1>6. Messages(cs) = {i \in Messages(rs) : cs[i].state = "active"}
  BY <1>3, <1>5 DEF Messages, Live
<1>7. Typed(cs) \subseteq Typed(rs)  BY <1>3, <1>6 DEF Typed, Messages, Live
<1>8. Covers(cs)
  <2> SUFFICES ASSUME NEW s \in Summaries(cs)
               PROVE  cs[s].upTo < s /\ cs[s].upTo \in Messages(cs) /\ cs[s].covers = Upto(cs, cs[s].upTo)
    BY DEF Covers
  <2>1. s \in DOMAIN rs /\ cs[s].state = "active" /\ cs[s].role = "summary"
    BY <1>5 DEF Summaries, Messages
  <2>2. cs[s] = rs[s] /\ (s < from \/ rs[s].upTo < from)
    BY <1>3, <2>1 DEF Spared
  <2>3. s \in Summaries(rs)  BY <2>1, <2>2 DEF Summaries, Messages, Live
  <2>4. rs[s].upTo < s /\ rs[s].upTo \in Messages(rs) /\ rs[s].covers = Upto(rs, rs[s].upTo)
    BY <2>3 DEF Covers, Branch
  <2>5. rs[s].upTo \in Nat /\ s \in Nat  BY <1>1, <2>1 DEF RowTypes
  <2>6. rs[s].upTo < from  BY <2>2, <2>4, <2>5
  <2>7. Upto(cs, rs[s].upTo) = Upto(rs, rs[s].upTo) /\ rs[s].upTo \in Messages(cs)
    <3>1. ASSUME NEW i \in Messages(rs), i <= rs[s].upTo  PROVE cs[i].state = "active"
      <4>1. i \in DOMAIN rs /\ i \in Nat /\ rs[i].state = "active"  BY <1>1 DEF Messages, Live
      <4>2. i < from  BY <2>5, <2>6, <3>1, <4>1
      <4> QED  BY <1>3, <4>1, <4>2
    <3>2. Upto(cs, rs[s].upTo) = Upto(rs, rs[s].upTo)  BY <1>6, <3>1 DEF Upto
    <3>3. rs[s].upTo \in Messages(cs)  BY <1>6, <2>4, <2>5, <3>1
    <3> QED  BY <3>2, <3>3
  <2> QED  BY <2>2, <2>4, <2>7
<1>9. Words(cs)
  <2>1. Words(rs)  BY DEF Branch
  <2>2. \A i \in Typed(rs) : i \in DOMAIN rs  BY RowFacts
  <2> QED  BY <1>2, <1>3, <1>7, <2>1, <2>2 DEF Words
<1>10. ASSUME NEW i \in Typed(cs)  PROVE i < from /\ i \in Typed(rs) /\ cs[i] = rs[i]
  <2>1. i \in DOMAIN rs /\ cs[i].state = "active" /\ cs[i].role = "user"
    BY <1>5 DEF Typed, Messages
  <2> QED  BY <1>3, <1>7, <2>1 DEF Spared
<1>11. Len(cs) <= MaxRows  BY <1>4 DEF Branch
<1> QED  BY <1>4, <1>8, <1>9, <1>10, <1>11 DEF Branch, cs

\* Appending a row keeps the branch, and what lies before it.
LEMMA AppendKeeps ==
  ASSUME NEW rs, Branch(rs), Len(rs) < MaxRows, NEW r \in RowTypes, r.state = "active",
         r.words <= Len(rs) + 1,
         r.role = "user" => r.words # 0 /\ \A i \in Typed(rs) : rs[i].words # r.words,
         r.role = "summary" => r.upTo \in Messages(rs) /\ r.covers = Upto(rs, r.upTo)
  PROVE  LET as == Append(rs, r) IN
         /\ Branch(as) /\ Len(as) = Len(rs) + 1 /\ as[Len(rs) + 1] = r
         /\ \A n \in 0..Len(rs) : Upto(as, n) = Upto(rs, n)
         /\ \A i \in 1..Len(rs) : as[i] = rs[i]
         /\ Messages(rs) \subseteq Messages(as)
<1> DEFINE as == Append(rs, r)
           n1 == Len(rs) + 1
<1>1. /\ DOMAIN rs = 1..Len(rs) /\ Len(rs) \in Nat
      /\ \A i \in DOMAIN rs : rs[i] \in RowTypes
  BY RowFacts
<1>2. /\ as \in Seq(RowTypes) /\ Len(as) = n1 /\ as[n1] = r
      /\ \A i \in 1..Len(rs) : as[i] = rs[i]
  <2>1. rs \in Seq(RowTypes)  BY DEF Branch
  <2> QED  BY <1>1, <2>1, AppendProperties
<1>3. DOMAIN as = 1..n1  BY <1>2, LenProperties
<1> HIDE DEF as
<1>4. /\ Live(as) = Live(rs) \cup {n1}
      /\ Messages(as) = Messages(rs) \cup (IF r.role = "summary" THEN {} ELSE {n1})
      /\ Summaries(as) = Summaries(rs) \cup (IF r.role = "summary" THEN {n1} ELSE {})
      /\ Typed(as) = Typed(rs) \cup (IF r.role = "user" THEN {n1} ELSE {})
  <2>2. Live(rs) \subseteq 1..Len(rs)  BY <1>1 DEF Live
  <2>3. n1 \notin 1..Len(rs) /\ 1..n1 = 1..Len(rs) \cup {n1}  BY <1>1
  <2>1. Live(as) = Live(rs) \cup {n1}
    <3>1. \A i \in 1..n1 : as[i].state = "active" <=> i = n1 \/ (i \in 1..Len(rs) /\ rs[i].state = "active")
      BY <1>2, <2>3
    <3> QED  BY <1>1, <1>3, <2>3, <3>1 DEF Live
  <2>4. \A i \in Live(rs) : as[i] = rs[i]  BY <1>2, <2>2
  <2>5. Messages(as) = Messages(rs) \cup (IF r.role = "summary" THEN {} ELSE {n1})
    BY <1>2, <2>1, <2>4 DEF Messages
  <2>6. Summaries(as) = Summaries(rs) \cup (IF r.role = "summary" THEN {n1} ELSE {})
    BY <2>1, <2>2, <2>3, <2>5 DEF Summaries, Messages
  <2>7. Typed(as) = Typed(rs) \cup (IF r.role = "user" THEN {n1} ELSE {})
    BY <1>2, <2>4, <2>5 DEF Typed, Messages
  <2> QED  BY <2>1, <2>5, <2>6, <2>7
<1>5. ASSUME NEW n \in 0..Len(rs)  PROVE Upto(as, n) = Upto(rs, n)
  <2>1. ~(n1 <= n)  BY <1>1, <1>5
  <2> QED  BY <1>4, <2>1 DEF Upto
<1>6. Covers(as)
  <2> SUFFICES ASSUME NEW s \in Summaries(as)
               PROVE  as[s].upTo < s /\ as[s].upTo \in Messages(as) /\ as[s].covers = Upto(as, as[s].upTo)
    BY DEF Covers
  <2>1. CASE s \in Summaries(rs)
    <3>1. s \in 1..Len(rs)  BY <1>1, <2>1, RowFacts
    <3>2. as[s] = rs[s] /\ rs[s].upTo \in Nat  BY <1>1, <1>2, <3>1 DEF RowTypes
    <3>3. rs[s].upTo < s /\ rs[s].upTo \in Messages(rs) /\ rs[s].covers = Upto(rs, rs[s].upTo)
      BY <2>1 DEF Covers, Branch
    <3>4. rs[s].upTo \in 0..Len(rs)  BY <1>1, <3>1, <3>2, <3>3
    <3>5. Upto(as, rs[s].upTo) = Upto(rs, rs[s].upTo)  BY <1>5, <3>4
    <3> QED  BY <1>4, <3>2, <3>3, <3>5
  <2>2. CASE s = n1 /\ r.role = "summary"
    <3>1. r.upTo \in 0..Len(rs)  BY <1>1, <2>2, RowFacts
    <3>2. as[s] = r  BY <1>2, <2>2
    <3>3. r.upTo < s  BY <1>1, <2>2, <3>1
    <3>4. Upto(as, r.upTo) = Upto(rs, r.upTo)  BY <1>5, <3>1
    <3> QED  BY <1>4, <2>2, <3>2, <3>3, <3>4
  <2> QED  BY <1>4, <2>1, <2>2
<1>7. Words(as)
  <2>1. Words(rs)  BY DEF Branch
  <2>2. ASSUME NEW i \in 1..n1  PROVE as[i].words <= i /\ (as[i].role = "user" => as[i].words # 0)
    <3>1. CASE i \in 1..Len(rs)  BY <1>1, <1>2, <2>1, <3>1 DEF Words
    <3>2. CASE i = n1  BY <1>2, <3>2
    <3>3. i \in 1..Len(rs) \/ i = n1  BY <1>1
    <3> QED  BY <3>1, <3>2, <3>3
  <2>3. \A i \in Typed(rs) : i \in 1..Len(rs) /\ as[i] = rs[i]  BY <1>1, <1>2, RowFacts
  <2>4. ASSUME NEW i \in Typed(as), NEW j \in Typed(as), i # j  PROVE as[i].words # as[j].words
    BY <1>2, <1>4, <2>1, <2>3, <2>4 DEF Words
  <2> QED  BY <1>3, <2>2, <2>4 DEF Words
<1>8. Len(as) <= MaxRows  BY <1>1, <1>2, RowsAssumption
<1>9. Branch(as)  BY <1>2, <1>6, <1>7, <1>8 DEF Branch
<1> QED  BY <1>2, <1>4, <1>5, <1>9 DEF as

\* What is loaded is the branch in front of a row, each message once.
LEMMA LoadIsWhole ==
  ASSUME NEW rs, Branch(rs), NEW before \in Nat
  PROVE  LET h == LoadLlmHistory(rs, before) IN
         /\ h.verbatim \cup h.told = {i \in Messages(rs) : i < before}
         /\ h.verbatim \cap h.told = {}
         /\ h.told \subseteq Nat /\ h.verbatim \subseteq Messages(rs)
         /\ \A i \in h.verbatim, j \in Messages(rs) : j <= i => j \in h.told \/ j \in h.verbatim
         /\ \A i \in h.verbatim, j \in h.told : j < i
<1> DEFINE Z == {i \in Summaries(rs) : rs[i].upTo < before}
           s == Newest(Z)
           h == LoadLlmHistory(rs, before)
<1>1. /\ DOMAIN rs = 1..Len(rs) /\ Len(rs) \in Nat
      /\ \A i \in DOMAIN rs : rs[i] \in RowTypes
      /\ Messages(rs) \subseteq 1..Len(rs) /\ Summaries(rs) \subseteq 1..Len(rs)
  BY RowFacts
<1>2. s \in Nat /\ (s # 0 => s \in Z)
  <2>1. Z \subseteq 1..Len(rs)  BY <1>1
  <2> HIDE DEF Z
  <2> QED  BY <1>1, <2>1, NewestIsId
<1>3. h = [verbatim |-> {i \in Messages(rs) : i < before /\ (s = 0 \/ i > rs[s].upTo)},
           told     |-> IF s = 0 THEN {} ELSE rs[s].covers]
  BY DEF LoadLlmHistory
<1> HIDE DEF s, h
<1>4. CASE s = 0
  <2>1. h.verbatim = {i \in Messages(rs) : i < before} /\ h.told = {}  BY <1>3, <1>4
  <2>2. \A i \in h.verbatim, j \in Messages(rs) : j <= i => j \in h.verbatim  BY <1>1, <2>1
  <2> QED  BY <1>1, <2>1, <2>2 DEF h
<1>5. CASE s # 0
  <2>1. s \in Summaries(rs) /\ rs[s].upTo < before /\ s \in 1..Len(rs)  BY <1>1, <1>2, <1>5
  <2>2. rs[s].covers = Upto(rs, rs[s].upTo) /\ rs[s].upTo \in Nat  BY <1>1, <2>1 DEF Branch, Covers, RowTypes
  <2>3. h.verbatim = {i \in Messages(rs) : i < before /\ i > rs[s].upTo} /\ h.told = {i \in Messages(rs) : i <= rs[s].upTo}
    BY <1>3, <1>5, <2>2 DEF Upto
  <2>4. \A i \in Messages(rs) : i \in Nat  BY <1>1
  <2> DEFINE u == rs[s].upTo
  <2> HIDE DEF u
  <2>5. u \in Nat /\ u < before /\ h.verbatim = {i \in Messages(rs) : i < before /\ i > u} /\ h.told = {i \in Messages(rs) : i <= u}
    BY <2>1, <2>2, <2>3 DEF u
  <2>6. h.verbatim \cup h.told = {i \in Messages(rs) : i < before}  BY <2>4, <2>5
  <2>7. h.verbatim \cap h.told = {}  BY <2>4, <2>5
  <2>8. h.told \subseteq Nat /\ h.verbatim \subseteq Messages(rs)  BY <2>4, <2>5
  <2>9. \A i \in h.verbatim, j \in Messages(rs) : j <= i => j \in h.told \/ j \in h.verbatim  BY <2>4, <2>5
  <2>10. \A i \in h.verbatim, j \in h.told : j < i  BY <2>4, <2>5
  <2> QED  BY <2>6, <2>7, <2>8, <2>9, <2>10 DEF h
<1> QED  BY <1>4, <1>5

\* What a compaction reads is the branch up to its last row.
LEMMA HeadIsBranch ==
  ASSUME NEW rs, Branch(rs), NEW before \in Nat, NEW cut \in Nat,
         {i \in LoadLlmHistory(rs, before).verbatim : i < cut} # {}
  PROVE  LET h == LoadLlmHistory(rs, before)
             head == {i \in h.verbatim : i < cut}
         IN /\ Newest(head) \in 1..Len(rs) /\ Newest(head) \in Messages(rs)
            /\ h.told \cup head = Upto(rs, Newest(head))
<1> DEFINE h == LoadLlmHistory(rs, before)
           head == {i \in h.verbatim : i < cut}
<1>1. /\ h.verbatim \cup h.told = {i \in Messages(rs) : i < before}
      /\ h.told \subseteq Nat /\ h.verbatim \subseteq Messages(rs)
      /\ \A i \in h.verbatim, j \in Messages(rs) : j <= i => j \in h.told \/ j \in h.verbatim
      /\ \A i \in h.verbatim, j \in h.told : j < i
  BY LoadIsWhole
<1>2. Messages(rs) \subseteq 1..Len(rs) /\ Len(rs) \in Nat  BY RowFacts
<1>3. head \subseteq 0..Len(rs) /\ head \subseteq 1..Len(rs) /\ head \subseteq h.verbatim  BY <1>1, <1>2
<1>4. PICK m \in head : m = Newest(head) /\ \A y \in head : m >= y  BY <1>2, <1>3, NewestIs
<1>5. m \in 1..Len(rs) /\ m \in h.verbatim /\ m \in Messages(rs) /\ m < cut  BY <1>1, <1>3, <1>4
<1>6. ASSUME NEW j \in h.told \cup head  PROVE j \in Messages(rs) /\ j <= m
  <2>1. CASE j \in head  BY <1>1, <1>2, <1>3, <1>4, <1>5, <2>1
  <2>2. CASE j \in h.told  BY <1>1, <1>2, <1>5, <2>2
  <2> QED  BY <1>6, <2>1, <2>2
<1>7. ASSUME NEW j \in Messages(rs), j <= m  PROVE j \in h.told \cup head
  <2>1. j \in h.told \/ j \in h.verbatim  BY <1>1, <1>5, <1>7
  <2>2. j \in Nat /\ m \in Nat /\ j < cut  BY <1>2, <1>5, <1>7
  <2> QED  BY <2>1, <2>2
<1> QED  BY <1>4, <1>5, <1>6, <1>7 DEF Upto

-----------------------------------------------------------------------------
(* The steps                                                               *)

\* Rows are added behind a branch.
Grows(rs, as) ==
  /\ Branch(as) /\ Len(as) >= Len(rs)
  /\ \A n \in 0..Len(rs) : Upto(as, n) = Upto(rs, n)
  /\ \A i \in 1..Len(rs) : as[i] = rs[i]
  /\ Messages(rs) \subseteq Messages(as)

\* A turn and the compactions under way do not notice rows that are added.
LEMMA GrowthKeeps ==
  ASSUME IInv, Grows(rows, rows')
  PROVE  /\ turn' = turn /\ given' = given /\ exists' = exists => Given'
         /\ \A by \in DOMAIN jobs : exists /\ jobs[by].busy =>
              jobs[by].upTo \in Messages(rows') /\ jobs[by].covers = Upto(rows', jobs[by].upTo)
<1>1. Len(rows) \in Nat /\ Len(rows') \in Nat  BY RowFacts DEF IInv, Grows
<1>2. turn \in 0..Len(rows) /\ (turn # 0 => rows[turn].role = "user") /\ HistoryIsWhole
  BY DEF IInv, Given
<1>3. /\ Len(rows') >= Len(rows)
      /\ \A n \in 0..Len(rows) : Upto(rows', n) = Upto(rows, n)
      /\ \A i \in 1..Len(rows) : rows'[i] = rows[i]
      /\ Messages(rows) \subseteq Messages(rows')
  BY DEF Grows
<1>4. ASSUME turn' = turn, given' = given, exists' = exists  PROVE Given'
  <2>1. turn' \in 0..Len(rows')  BY <1>1, <1>2, <1>3, <1>4
  <2>2. turn' # 0 => rows'[turn'].role = "user"  BY <1>1, <1>2, <1>3, <1>4
  <2>3. ASSUME turn # 0  PROVE {i \in Messages(rows') : i < turn} = {i \in Messages(rows) : i < turn}
    <3>1. turn - 1 \in 0..Len(rows)  BY <1>1, <1>2, <2>3
    <3>2. Upto(rows', turn - 1) = Upto(rows, turn - 1)  BY <1>3, <3>1
    <3>3. Messages(rows) \subseteq Nat /\ Messages(rows') \subseteq Nat
      BY RowFacts, <1>1 DEF IInv, Grows
    <3>4. \A i \in Nat : i < turn <=> i <= turn - 1  BY <1>1, <1>2
    <3> QED  BY <3>2, <3>3, <3>4 DEF Upto
  <2>4. HistoryIsWhole'  BY <1>2, <1>4, <2>3 DEF HistoryIsWhole
  <2> QED  BY <2>1, <2>2, <2>4 DEF Given
<1>5. ASSUME NEW by \in DOMAIN jobs, exists, jobs[by].busy
      PROVE  jobs[by].upTo \in Messages(rows') /\ jobs[by].covers = Upto(rows', jobs[by].upTo)
  <2>1. jobs[by].upTo \in Nat  BY DEF IInv, Jobs, JobTypes
  <2>2. jobs[by].upTo \in Messages(rows) /\ jobs[by].covers = Upto(rows, jobs[by].upTo)
    BY <1>5 DEF IInv, Jobs
  <2>3. jobs[by].upTo \in 0..Len(rows)  BY <1>1, <2>2, RowFacts DEF IInv
  <2> QED  BY <1>3, <2>2, <2>3
<1> QED  BY <1>4, <1>5

\* The row of a turn, of a reply or of a summary is added.
LEMMA RowAdded ==
  ASSUME NEW rs, Branch(rs), Len(rs) < MaxRows, NEW role \in Roles, NEW words \in Nat, NEW upTo \in Nat, NEW covers,
         covers \subseteq Nat, words <= Len(rs) + 1,
         role = "user" => words # 0 /\ \A i \in Typed(rs) : rs[i].words # words,
         role = "summary" => upTo \in Messages(rs) /\ covers = Upto(rs, upTo)
  PROVE  LET as == Append(rs, Row(role, words, upTo, covers)) IN
         Grows(rs, as) /\ Len(as) = Len(rs) + 1 /\ as[Len(rs) + 1].role = role
<1> DEFINE r == Row(role, words, upTo, covers)
<1>1. /\ r \in RowTypes /\ r.state = "active" /\ r.words = words /\ r.role = role
      /\ r.upTo = upTo /\ r.covers = covers
  BY DEF Row, RowTypes, States
<1> HIDE DEF r
<1>2. /\ Branch(Append(rs, r)) /\ Len(Append(rs, r)) = Len(rs) + 1 /\ Append(rs, r)[Len(rs) + 1] = r
      /\ \A n \in 0..Len(rs) : Upto(Append(rs, r), n) = Upto(rs, n)
      /\ \A i \in 1..Len(rs) : Append(rs, r)[i] = rs[i]
      /\ Messages(rs) \subseteq Messages(Append(rs, r))
  BY <1>1, AppendKeeps
<1>3. Len(rs) \in Nat  BY RowFacts
<1>4. Grows(rs, Append(rs, r))  BY <1>2, <1>3 DEF Grows
<1> QED  BY <1>1, <1>2, <1>4 DEF r

\* A turn starts on a branch: the whole of it, or what an edit or a second try has left.
LEMMA KickoffKeeps ==
  ASSUME IInv, exists, NEW rs, Branch(rs), Len(rs) = Len(rows), Len(rs) < MaxRows,
         rs = rows \/ ~IsBusy,
         NEW words \in Nat, words # 0, words <= Len(rs) + 1, \A i \in Typed(rs) : rs[i].words # words,
         NEW superseded, Kickoff(rs, words, superseded)
  PROVE  IInv'
<1>1. /\ rows' = Append(rs, Row("user", words, 0, {})) /\ turn' = Len(rs) + 1
      /\ given' = LoadLlmHistory(rs, Everything) /\ jobs' = jobs /\ exists' = exists
  BY DEF Kickoff
<1>2. Grows(rs, rows') /\ Len(rows') = Len(rs) + 1 /\ rows'[Len(rs) + 1].role = "user"
  BY <1>1, RowAdded DEF Roles
<1>3. Len(rs) \in Nat /\ Messages(rs) \subseteq 1..Len(rs)  BY RowFacts
<1>4. Branch(rows')  BY <1>2 DEF Grows
<1>5. Given'
  <2>1. turn' \in 0..Len(rows') /\ rows'[turn'].role = "user"  BY <1>1, <1>2, <1>3
  <2>2. given'.verbatim \cup given'.told = {i \in Messages(rs) : i < Everything} /\ given'.verbatim \cap given'.told = {}
    <3>1. Everything \in Nat  BY RowsAssumption DEF Everything
    <3> QED  BY <1>1, <3>1, LoadIsWhole
  <2>3. {i \in Messages(rs) : i < Everything} = Upto(rs, Len(rs))
    <3>1. \A i \in Messages(rs) : i < Everything /\ i <= Len(rs)
      BY <1>3, RowsAssumption DEF Everything, Branch
    <3> QED  BY <3>1 DEF Upto
  <2>4. Upto(rs, Len(rs)) = Upto(rows', Len(rs))  BY <1>2, <1>3 DEF Grows
  <2>5. Upto(rows', Len(rs)) = {i \in Messages(rows') : i < turn'}
    <3>1. Messages(rows') \subseteq 1..Len(rows')  BY <1>4, RowFacts
    <3>2. \A i \in 1..Len(rows') : i <= Len(rs) <=> i < turn'  BY <1>1, <1>2, <1>3
    <3> QED  BY <3>1, <3>2 DEF Upto
  <2> QED  BY <2>1, <2>2, <2>3, <2>4, <2>5 DEF Given, HistoryIsWhole
<1>6. Jobs'
  <2>1. jobs \in [{"user", "turn"} -> JobTypes]  BY DEF IInv, Jobs
  <2>2. turn' # 0  BY <1>1, <1>3
  <2>3. ASSUME NEW by \in DOMAIN jobs, jobs[by].busy
        PROVE  jobs[by].upTo \in Messages(rows') /\ jobs[by].covers = Upto(rows', jobs[by].upTo)
    <3>1. rs = rows  BY <2>3 DEF IsBusy
    <3> QED  BY <1>2, <2>3, <3>1, GrowthKeeps
  <2> QED  BY <1>1, <2>1, <2>2, <2>3 DEF Jobs
<1> QED  BY <1>1, <1>4, <1>5, <1>6 DEF IInv, NoOrphans

LEMMA InvFacts ==
  ASSUME IInv
  PROVE  /\ Branch(rows) /\ Words(rows) /\ Len(rows) \in Nat /\ DOMAIN rows = 1..Len(rows)
         /\ \A i \in DOMAIN rows : rows[i] \in RowTypes
         /\ Typed(rows) \subseteq 1..Len(rows) /\ Live(rows) \subseteq 1..Len(rows)
         /\ \A i \in Typed(rows) : rows[i].words \in Nat /\ rows[i].words <= i /\ rows[i].words # 0
         /\ \A i, j \in Typed(rows) : i # j => rows[i].words # rows[j].words
<1>1. Branch(rows) /\ Words(rows)  BY DEF IInv, Branch
<1>2. /\ Len(rows) \in Nat /\ DOMAIN rows = 1..Len(rows) /\ \A i \in DOMAIN rows : rows[i] \in RowTypes
      /\ Typed(rows) \subseteq DOMAIN rows /\ Live(rows) \subseteq DOMAIN rows
  BY <1>1, RowFacts
<1>3. \A i \in Typed(rows) : rows[i].role = "user"  BY DEF Typed
<1>4. \A i \in Typed(rows) : rows[i].words \in Nat  BY <1>2 DEF RowTypes
<1> QED  BY <1>1, <1>2, <1>3, <1>4 DEF Words

\* POST /message, and an answer that starts a turn
LEMMA SendKeeps == ASSUME IInv, Send \/ AnswerStarts  PROVE IInv'
<1>1. exists /\ Room(1) /\ Kickoff(rows, Len(rows) + 1, 0)  BY DEF Send, AnswerStarts
<1>2. Branch(rows) /\ Len(rows) \in Nat /\ Len(rows) < MaxRows
  BY <1>1, InvFacts, RowsAssumption DEF Room
<1>3. \A i \in Typed(rows) : rows[i].words # Len(rows) + 1
  <2>1. ASSUME NEW i \in Typed(rows)  PROVE rows[i].words # Len(rows) + 1
    <3>1. i \in 1..Len(rows) /\ rows[i].words \in Nat /\ rows[i].words <= i  BY InvFacts
    <3> QED  BY <1>2, <3>1
  <2> QED  BY <2>1
<1>4. Len(rows) + 1 \in Nat /\ Len(rows) + 1 # 0  BY <1>2
<1> QED  BY <1>1, <1>2, <1>3, <1>4, KickoffKeeps

\* regenerate and retry: the words of the anchor are sent again, and its row is retired.
LEMMA RegenerateKeeps == ASSUME IInv, NEW from, RegenerateFrom(from)  PROVE IInv'
<1> DEFINE anchor == FindRegenerationAnchor(rows, from)
           rs == DeactivateMessagesFrom(rows, anchor)
<1>1. exists /\ ~IsBusy /\ Room(1) /\ anchor # 0 /\ Kickoff(rs, rows[anchor].words, 0)
  BY DEF RegenerateFrom
<1>2. anchor \in Typed(rows)
  <2>1. {i \in Typed(rows) : i <= from} \subseteq 1..Len(rows)  BY InvFacts
  <2>2. anchor \in {i \in Typed(rows) : i <= from}  BY <1>1, <2>1, InvFacts, NewestIsId DEF FindRegenerationAnchor
  <2> QED  BY <2>2
<1> HIDE DEF anchor
<1>3. /\ anchor \in 1..Len(rows) /\ Len(rows) \in Nat /\ anchor \in Nat /\ Branch(rows)
      /\ rows[anchor].words \in Nat /\ rows[anchor].words <= anchor /\ rows[anchor].words # 0
  BY <1>2, InvFacts
<1>4. /\ Branch(rs) /\ Len(rs) = Len(rows)
      /\ \A i \in Typed(rs) : i < anchor /\ i \in Typed(rows) /\ rs[i] = rows[i]
  BY <1>3, CutKeeps DEF DeactivateMessagesFrom
<1> HIDE DEF rs
<1>5. \A i \in Typed(rs) : rs[i].words # rows[anchor].words
  <2>1. ASSUME NEW i \in Typed(rs)  PROVE i # anchor /\ i \in Typed(rows) /\ rs[i] = rows[i]
    BY <1>3, <1>4, InvFacts
  <2> QED  BY <1>2, <2>1, InvFacts
<1>6. Len(rs) < MaxRows /\ rows[anchor].words <= Len(rs) + 1
  BY <1>1, <1>3, <1>4, RowsAssumption DEF Room
<1> QED  BY <1>1, <1>3, <1>4, <1>5, <1>6, KickoffKeeps

\* POST /edit: whichever active message the view names, the branch up to it is left.
LEMMA EditKeeps == ASSUME IInv, NEW k \in 1..MaxRows, Edit(k)  PROVE IInv'
<1>1. PICK parent \in {0} \cup Live(rows), superseded \in Typed(rows) :
        exists /\ ~IsBusy /\ Room(1) /\ Kickoff(DeactivateMessagesFrom(rows, parent + 1), Len(rows) + 1, superseded)
  BY DEF Edit
<1>2. Branch(rows) /\ Len(rows) \in Nat /\ parent + 1 \in Nat  BY InvFacts
<1> DEFINE rs == DeactivateMessagesFrom(rows, parent + 1)
<1>3. /\ Branch(rs) /\ Len(rs) = Len(rows)
      /\ \A i \in Typed(rs) : i \in Typed(rows) /\ rs[i] = rows[i]
  BY <1>2, CutKeeps DEF DeactivateMessagesFrom
<1> HIDE DEF rs
<1>4. \A i \in Typed(rs) : rs[i].words # Len(rows) + 1
  <2>1. ASSUME NEW i \in Typed(rs)  PROVE rs[i].words # Len(rows) + 1
    <3>1. i \in Typed(rows) /\ rs[i] = rows[i]  BY <1>3
    <3>2. i \in 1..Len(rows) /\ rows[i].words \in Nat /\ rows[i].words <= i  BY <3>1, InvFacts
    <3> QED  BY <1>2, <3>1, <3>2
  <2> QED  BY <2>1
<1>5. Len(rs) < MaxRows /\ Len(rows) + 1 \in Nat /\ Len(rows) + 1 # 0 /\ Len(rows) + 1 <= Len(rs) + 1
  BY <1>1, <1>2, <1>3, RowsAssumption DEF Room
<1>6. exists /\ ~IsBusy /\ Kickoff(rs, Len(rows) + 1, superseded)  BY <1>1 DEF rs
<1> QED  BY <1>3, <1>4, <1>5, <1>6, KickoffKeeps

\* Nothing is under way: only the rows matter.
LEMMA IdleKeeps ==
  ASSUME IInv, ~IsBusy, exists, Branch(rows'), Len(rows') = Len(rows),
         UNCHANGED <<turn, given, edited, jobs, exists>>
  PROVE  IInv'
<1>1. turn = 0 /\ \A by \in DOMAIN jobs : ~jobs[by].busy  BY DEF IsBusy
<1>2. Len(rows) \in Nat  BY InvFacts
<1>3. Given'  BY <1>1, <1>2 DEF Given, HistoryIsWhole
<1>4. Jobs'  BY <1>1 DEF IInv, Jobs
<1> QED  BY <1>3, <1>4 DEF IInv, NoOrphans

LEMMA DeleteKeeps == ASSUME IInv, NEW i \in DOMAIN rows, Delete(i)  PROVE IInv'
<1>1. i \in Nat /\ Branch(rows)  BY InvFacts
<1>2. Branch(rows') /\ Len(rows') = Len(rows)  BY <1>1, CutKeeps DEF Delete, DeleteMessagesFrom
<1> QED  BY <1>2, IdleKeeps DEF Delete

\* All rows deleted: a branch without a row.
LEMMA AllDeleted ==
  ASSUME IInv, rows' = [i \in DOMAIN rows |-> [rows[i] EXCEPT !.state = "deleted"]]
  PROVE  Branch(rows') /\ Len(rows') = Len(rows) /\ Live(rows') = {}
         /\ \A i \in DOMAIN rows : rows'[i].role = rows[i].role
<1>1. Branch(rows) /\ Len(rows) \in Nat /\ DOMAIN rows = 1..Len(rows) /\ \A i \in DOMAIN rows : rows[i] \in RowTypes
  BY InvFacts
<1>2. ASSUME NEW i \in DOMAIN rows
      PROVE  /\ rows'[i] \in RowTypes /\ rows'[i].state = "deleted"
             /\ rows'[i].role = rows[i].role /\ rows'[i].words = rows[i].words
  BY <1>1 DEF RowTypes, States
<1>3. rows' \in [1..Len(rows) -> RowTypes] /\ DOMAIN rows' = DOMAIN rows
  <2>1. DOMAIN rows' = DOMAIN rows /\ rows' = [i \in DOMAIN rows' |-> rows'[i]]  OBVIOUS
  <2> QED  BY <1>1, <1>2, <2>1
<1>4. rows' \in Seq(RowTypes) /\ Len(rows') = Len(rows)  BY <1>1, <1>3, SeqDef, LenProperties
<1>5. Live(rows') = {}  BY <1>2, <1>3 DEF Live
<1>6. Covers(rows') /\ Typed(rows') = {}  BY <1>5 DEF Covers, Summaries, Typed, Messages
<1>7. Words(rows')  BY <1>2, <1>3, <1>6, InvFacts DEF Words
<1> QED  BY <1>1, <1>2, <1>4, <1>5, <1>6, <1>7 DEF Branch

LEMMA ClearKeeps == ASSUME IInv, Clear  PROVE IInv'
<1>1. Branch(rows') /\ Len(rows') = Len(rows)  BY AllDeleted DEF Clear
<1> QED  BY <1>1, IdleKeeps DEF Clear

LEMMA DeleteConversationKeeps == ASSUME IInv, DeleteConversation  PROVE IInv'
<1>1. /\ Branch(rows') /\ Len(rows') = Len(rows) /\ Live(rows') = {}
      /\ \A i \in DOMAIN rows : rows'[i].role = rows[i].role
  BY AllDeleted DEF DeleteConversation
<1>2. exists' = FALSE /\ turn' = turn /\ given' = given /\ jobs' = jobs  BY DEF DeleteConversation
<1>3. DOMAIN rows = 1..Len(rows) /\ Len(rows) \in Nat  BY InvFacts
<1>4. Given'
  <2>1. turn \in 0..Len(rows) /\ (turn # 0 => rows[turn].role = "user")  BY DEF IInv, Given
  <2> QED  BY <1>1, <1>2, <1>3, <2>1 DEF Given, HistoryIsWhole
<1>5. Jobs'  BY <1>2 DEF IInv, Jobs
<1> QED  BY <1>1, <1>2, <1>4, <1>5 DEF IInv, NoOrphans

\* The turn and the compactions go on; rows are added.
LEMMA GoesOnKeeps ==
  ASSUME IInv, exists, Grows(rows, rows'), UNCHANGED <<turn, given, edited, jobs, exists>>  PROVE IInv'
<1>1. Given'  BY GrowthKeeps
<1>2. Jobs'  BY GrowthKeeps DEF IInv, Jobs
<1>3. Branch(rows')  BY DEF Grows
<1> QED  BY <1>1, <1>2, <1>3 DEF IInv, NoOrphans

LEMMA TurnStepKeeps == ASSUME IInv, TurnStep  PROVE IInv'
<1> DEFINE a == Row("calls", 0, 0, {})
           b == Row("results", 0, 0, {})
           as == Append(rows, a)
<1>1. exists /\ Room(2) /\ rows' = rows \o <<a, b>> /\ UNCHANGED <<turn, given, edited, jobs, exists>>
  <2>1. Len(<<a, b>>) = 2  OBVIOUS
  <2> QED  BY <2>1 DEF TurnStep, AppendMessage
<1>2. Branch(rows) /\ Len(rows) \in Nat /\ rows \in Seq(RowTypes)  BY InvFacts DEF Branch
<1>3. Len(rows) + 2 <= MaxRows  BY <1>1 DEF Room
<1>4. a \in RowTypes /\ b \in RowTypes  BY DEF Row, RowTypes, Roles, States
<1>5. Grows(rows, as) /\ Len(as) = Len(rows) + 1
  BY <1>2, <1>3, RowAdded, RowsAssumption DEF Roles
<1>6. Grows(as, Append(as, b))
  <2>1. Branch(as) /\ Len(as) < MaxRows  BY <1>2, <1>3, <1>5, RowsAssumption DEF Grows
  <2> HIDE DEF as
  <2>2. Len(as) \in Nat /\ 0 <= Len(as) + 1  BY <1>2, <1>5
  <2>3. "results" \in Roles /\ {} \subseteq Nat /\ 0 \in Nat  BY DEF Roles
  <2>4. "results" # "user" /\ "results" # "summary"  OBVIOUS
  <2>5. Grows(as, Append(as, Row("results", 0, 0, {})))  BY <2>1, <2>2, <2>3, <2>4, RowAdded
  <2> QED  BY <2>5
<1>7. rows' = Append(as, b)
  <2>1. as \in Seq(RowTypes) /\ as = rows \o <<a>>  BY <1>2, <1>4, AppendProperties, AppendIsConcat
  <2>2. Append(as, b) = as \o <<b>>  BY <1>4, <2>1, AppendIsConcat
  <2>3. <<a>> \in Seq(RowTypes) /\ <<b>> \in Seq(RowTypes) /\ <<a>> \o <<b>> = <<a, b>>
    <3> HIDE DEF a, b
    <3>1. <<a>> \in Seq(RowTypes) /\ <<b>> \in Seq(RowTypes)  BY <1>4
    <3>2. Append(<<a>>, b) = <<a>> \o <<b>>  BY <1>4, <3>1, AppendIsConcat
    <3>3. Append(<<a>>, b) = <<a, b>>
      <4>1. /\ Append(<<a>>, b) \in Seq(RowTypes) /\ Len(Append(<<a>>, b)) = 2
            /\ Append(<<a>>, b)[1] = a /\ Append(<<a>>, b)[2] = b
        <5>1. Len(<<a>>) = 1 /\ <<a>>[1] = a  OBVIOUS
        <5> QED  BY <1>4, <3>1, <5>1, AppendProperties
      <4>2. <<a, b>> \in Seq(RowTypes) /\ Len(<<a, b>>) = 2 /\ <<a, b>>[1] = a /\ <<a, b>>[2] = b  BY <1>4
      <4>3. \A i \in 1..2 : Append(<<a>>, b)[i] = <<a, b>>[i]  BY <4>1, <4>2
      <4> QED  BY <4>1, <4>2, <4>3, SeqEqual
    <3> QED  BY <3>1, <3>2, <3>3
  <2>4. (rows \o <<a>>) \o <<b>> = rows \o (<<a>> \o <<b>>)  BY <1>2, <2>3, ConcatAssociative
  <2> QED  BY <1>1, <2>1, <2>2, <2>3, <2>4
<1> HIDE DEF as, a, b
<1>8. Grows(rows, rows')
  <2>1. Len(as) \in Nat /\ Len(rows') \in Nat  BY <1>5, <1>6, <1>7, RowFacts DEF Grows
  <2>2. \A n \in 0..Len(rows) : n \in 0..Len(as)  BY <1>2, <1>5
  <2>3. \A n \in 1..Len(rows) : n \in 1..Len(as)  BY <1>2, <1>5
  <2>4. Branch(rows') /\ Len(rows') >= Len(as)  BY <1>6, <1>7 DEF Grows
  <2>7. Len(rows') >= Len(rows)  BY <1>2, <1>5, <2>1, <2>4
  <2>5. \A n \in 0..Len(rows) : Upto(rows', n) = Upto(rows, n)  BY <1>5, <1>6, <1>7, <2>2 DEF Grows
  <2>6. \A n \in 1..Len(rows) : rows'[n] = rows[n]  BY <1>5, <1>6, <1>7, <2>3 DEF Grows
  <2>8. Messages(rows) \subseteq Messages(rows')  BY <1>5, <1>6, <1>7 DEF Grows
  <2> QED  BY <2>4, <2>5, <2>6, <2>7, <2>8 DEF Grows
<1> QED  BY <1>1, <1>8, GoesOnKeeps

\* A turn that ends has no compaction and is given nothing.
LEMMA EndKeeps ==
  ASSUME IInv, rows' = rows \/ (exists /\ Grows(rows, rows')), EndTurn, exists' = exists,
         jobs' = [jobs EXCEPT !["turn"] = NoJob] \/ (jobs' = jobs /\ ~jobs["turn"].busy)
  PROVE  IInv'
<1>1. turn' = 0  BY DEF EndTurn
<1>2. Branch(rows') /\ Len(rows') \in Nat  BY InvFacts, RowFacts DEF Grows
<1>3. Given'  BY <1>1, <1>2 DEF Given, HistoryIsWhole
<1>4. Jobs'
  <2>1. jobs \in [{"user", "turn"} -> JobTypes]  BY DEF IInv, Jobs
  <2>2. /\ jobs' \in [{"user", "turn"} -> JobTypes] /\ ~jobs'["turn"].busy
        /\ \A by \in DOMAIN jobs' : jobs'[by].busy => jobs'[by] = jobs[by]
    <3>1. NoJob \in JobTypes /\ ~NoJob.busy  BY DEF NoJob, JobTypes
    <3>2. CASE jobs' = jobs /\ ~jobs["turn"].busy  BY <2>1, <3>2
    <3>3. CASE jobs' = [jobs EXCEPT !["turn"] = NoJob]
      <4>1. jobs' \in [{"user", "turn"} -> JobTypes] /\ jobs'["turn"] = NoJob /\ jobs'["user"] = jobs["user"]
        BY <2>1, <3>1, <3>3
      <4> QED  BY <3>1, <4>1
    <3> QED  BY <3>2, <3>3
  <2>3. ASSUME NEW by \in DOMAIN jobs', exists', jobs'[by].busy
        PROVE  jobs'[by].upTo \in Messages(rows') /\ jobs'[by].covers = Upto(rows', jobs'[by].upTo)
    <3>1. by \in DOMAIN jobs /\ exists /\ jobs'[by] = jobs[by] /\ jobs[by].busy  BY <2>1, <2>2, <2>3
    <3>2. CASE rows' = rows  BY <3>1, <3>2 DEF IInv, Jobs
    <3>3. CASE Grows(rows, rows')  BY <3>1, <3>3, GrowthKeeps
    <3> QED  BY <3>2, <3>3
  <2> QED  BY <2>2, <2>3 DEF Jobs
<1> QED  BY <1>1, <1>2, <1>3, <1>4 DEF IInv, NoOrphans

LEMMA TurnRepliesKeeps == ASSUME IInv, TurnReplies  PROVE IInv'
<1>1. /\ exists /\ Room(1) /\ rows' = rows \o <<Row("reply", 0, 0, {})>>
      /\ EndTurn /\ jobs' = jobs /\ exists' = exists /\ ~jobs["turn"].busy
  <2>1. Len(<<Row("reply", 0, 0, {})>>) = 1  OBVIOUS
  <2> QED  BY <2>1 DEF TurnReplies, AppendMessage
<1>2. Branch(rows) /\ Len(rows) \in Nat /\ rows \in Seq(RowTypes)  BY InvFacts DEF Branch
<1>3. Row("reply", 0, 0, {}) \in RowTypes  BY DEF Row, RowTypes, Roles, States
<1>4. rows' = Append(rows, Row("reply", 0, 0, {}))  BY <1>1, <1>2, <1>3, AppendIsConcat
<1>5. Len(rows) < MaxRows /\ 0 <= Len(rows) + 1  BY <1>1, <1>2, RowsAssumption DEF Room
<1>6. Grows(rows, rows')  BY <1>2, <1>4, <1>5, RowAdded DEF Roles
<1> QED  BY <1>1, <1>6, EndKeeps

LEMMA TurnFailsKeeps == ASSUME IInv, TurnFails  PROVE IInv'
<1> QED  BY EndKeeps DEF TurnFails

\* compactNow: what it will summarise is the branch up to a row.
LEMMA CompactKeeps ==
  ASSUME IInv, NEW by \in {"user", "turn"}, NEW before \in Nat, NEW cut \in DOMAIN rows, Compact(by, before, cut),
         by = "turn" => turn # 0
  PROVE  IInv'
<1> DEFINE h == LoadLlmHistory(rows, before)
           head == {i \in h.verbatim : i < cut}
           newJob == [busy |-> TRUE, upTo |-> Max(head), covers |-> h.told \cup head]
<1>1. /\ exists /\ cut \in Cuts(rows, h.verbatim) /\ jobs' = [jobs EXCEPT ![by] = newJob]
      /\ UNCHANGED <<rows, turn, given, edited, exists>>
  BY DEF Compact
<1>2. Branch(rows) /\ Len(rows) \in Nat /\ cut \in Nat  BY InvFacts
<1>3. head # {}
  <2>1. PICK i \in Typed(rows) \cap h.verbatim : i < cut  BY <1>1 DEF Cuts
  <2> QED  BY <2>1
<1>4. /\ Newest(head) \in 1..Len(rows) /\ Newest(head) \in Messages(rows)
      /\ h.told \cup head = Upto(rows, Newest(head))
  BY <1>2, <1>3, HeadIsBranch
<1>5. Newest(head) = Max(head)  BY <1>3 DEF Newest
<1> HIDE DEF h, head
<1>6. /\ newJob \in JobTypes /\ newJob.busy /\ newJob.upTo \in Messages(rows) /\ newJob.covers = Upto(rows, newJob.upTo)
  <2>1. Upto(rows, Newest(head)) \subseteq Nat  BY <1>2, RowFacts DEF Upto
  <2> QED  BY <1>2, <1>4, <1>5, <2>1 DEF JobTypes
<1> HIDE DEF newJob
<1>7. jobs \in [{"user", "turn"} -> JobTypes] /\ (jobs["turn"].busy => turn # 0)
      /\ \A x \in DOMAIN jobs : jobs[x].busy => jobs[x].upTo \in Messages(rows) /\ jobs[x].covers = Upto(rows, jobs[x].upTo)
  BY <1>1 DEF IInv, Jobs
<1>8. /\ jobs' \in [{"user", "turn"} -> JobTypes] /\ jobs'[by] = newJob
      /\ \A x \in DOMAIN jobs \ {by} : jobs'[x] = jobs[x]
  BY <1>1, <1>6, <1>7
<1>9. jobs'["turn"].busy => turn # 0  BY <1>7, <1>8
<1>10. \A x \in DOMAIN jobs' : jobs'[x].busy => jobs'[x].upTo \in Messages(rows) /\ jobs'[x].covers = Upto(rows, jobs'[x].upTo)
  BY <1>6, <1>7, <1>8
<1>11. Jobs'  BY <1>1, <1>8, <1>9, <1>10 DEF Jobs
<1> QED  BY <1>1, <1>11 DEF IInv, Given, HistoryIsWhole, NoOrphans

LEMMA UserCompactsKeeps == ASSUME IInv, NEW cut \in DOMAIN rows, UserCompacts(cut)  PROVE IInv'
<1>1. Everything \in Nat  BY RowsAssumption DEF Everything
<1> QED  BY <1>1, CompactKeeps DEF UserCompacts

LEMMA TurnCompactsKeeps == ASSUME IInv, NEW cut \in DOMAIN rows, TurnCompacts(cut)  PROVE IInv'
<1>1. turn \in Nat  BY InvFacts DEF IInv, Given
<1> QED  BY <1>1, CompactKeeps DEF TurnCompacts

\* appendSummary; the turn then reads its history again.
LEMMA CompactDoneKeeps == ASSUME IInv, NEW by \in DOMAIN jobs, CompactDone(by)  PROVE IInv'
<1> DEFINE j == jobs[by]
           r == Row("summary", 0, j.upTo, j.covers)
<1>1. /\ j.busy /\ exists /\ Room(1) /\ rows' = rows \o <<r>> /\ jobs' = [jobs EXCEPT ![by] = NoJob]
      /\ given' = IF by = "turn" THEN LoadLlmHistory(rows', turn) ELSE given
      /\ turn' = turn /\ exists' = exists
  <2>1. Len(<<r>>) = 1  OBVIOUS
  <2> QED  BY <2>1 DEF CompactDone, AppendMessage
<1>2. Branch(rows) /\ Len(rows) \in Nat /\ rows \in Seq(RowTypes)  BY InvFacts DEF Branch
<1>3. /\ jobs \in [{"user", "turn"} -> JobTypes] /\ (jobs["turn"].busy => turn # 0)
      /\ j.upTo \in Messages(rows) /\ j.covers = Upto(rows, j.upTo)
  BY <1>1 DEF IInv, Jobs
<1>4. j.upTo \in Nat /\ j.covers \subseteq Nat  BY <1>3 DEF JobTypes
<1>5. rows' = Append(rows, r)
  <2>1. r \in RowTypes  BY <1>4 DEF Row, RowTypes, Roles, States
  <2> QED  BY <1>1, <1>2, <2>1, AppendIsConcat
<1>6. Grows(rows, rows')
  <2>1. Len(rows) < MaxRows /\ 0 <= Len(rows) + 1  BY <1>1, <1>2, RowsAssumption DEF Room
  <2>2. "summary" \in Roles /\ "summary" # "user"  BY DEF Roles
  <2> HIDE DEF j
  <2> QED  BY <1>2, <1>3, <1>4, <1>5, <2>1, <2>2, RowAdded
<1> HIDE DEF j, r
<1>7. Given'
  <2>1. CASE by # "turn"  BY <1>1, <1>6, <2>1, GrowthKeeps
  <2>2. CASE by = "turn"
    <3>1. turn # 0 /\ turn \in 0..Len(rows) /\ rows[turn].role = "user"  BY <1>1, <1>3, <2>2 DEF IInv, Given, j
    <3>2. turn' \in 0..Len(rows') /\ rows'[turn'].role = "user"
      <4>1. Len(rows') \in Nat /\ Len(rows') >= Len(rows)  BY <1>6, RowFacts DEF Grows
      <4>2. turn \in 1..Len(rows)  BY <1>2, <3>1
      <4>3. rows'[turn] = rows[turn]  BY <1>6, <4>2 DEF Grows
      <4> QED  BY <1>1, <1>2, <3>1, <4>1, <4>3
    <3>3. given' = LoadLlmHistory(rows', turn') /\ turn' \in Nat  BY <1>1, <1>2, <2>2, <3>1
    <3>4. Branch(rows')  BY <1>6 DEF Grows
    <3>5. given'.verbatim \cup given'.told = {i \in Messages(rows') : i < turn'} /\ given'.verbatim \cap given'.told = {}
      BY <3>3, <3>4, LoadIsWhole
    <3> QED  BY <3>2, <3>5 DEF Given, HistoryIsWhole
  <2> QED  BY <2>1, <2>2
<1>8. Jobs'
  <2>1. /\ jobs' \in [{"user", "turn"} -> JobTypes]
        /\ \A x \in DOMAIN jobs' : jobs'[x].busy => jobs'[x] = jobs[x]
    <3>1. NoJob \in JobTypes /\ ~NoJob.busy  BY DEF NoJob, JobTypes
    <3> QED  BY <1>1, <1>3, <3>1
  <2>2. jobs'["turn"].busy => turn' # 0  BY <1>1, <1>3, <2>1
  <2>3. ASSUME NEW x \in DOMAIN jobs', jobs'[x].busy
        PROVE  jobs'[x].upTo \in Messages(rows') /\ jobs'[x].covers = Upto(rows', jobs'[x].upTo)
    <3>1. x \in DOMAIN jobs /\ jobs'[x] = jobs[x] /\ jobs[x].busy  BY <1>3, <2>1, <2>3
    <3> QED  BY <1>1, <1>6, <3>1, GrowthKeeps
  <2> QED  BY <2>1, <2>2, <2>3 DEF Jobs
<1>9. Branch(rows')  BY <1>6 DEF Grows
<1> QED  BY <1>1, <1>7, <1>8, <1>9 DEF IInv, NoOrphans

LEMMA CompactFailsKeeps == ASSUME IInv, NEW by \in DOMAIN jobs, CompactFails(by)  PROVE IInv'
<1>1. jobs' = [jobs EXCEPT ![by] = NoJob] /\ UNCHANGED <<rows, turn, given, edited, exists>>  BY DEF CompactFails
<1>2. jobs \in [{"user", "turn"} -> JobTypes] /\ (jobs["turn"].busy => turn # 0)  BY DEF IInv, Jobs
<1>3. /\ jobs' \in [{"user", "turn"} -> JobTypes]
      /\ \A x \in DOMAIN jobs' : jobs'[x].busy => jobs'[x] = jobs[x]
  <2>1. NoJob \in JobTypes /\ ~NoJob.busy  BY DEF NoJob, JobTypes
  <2> QED  BY <1>1, <1>2, <2>1
<1>4. jobs'["turn"].busy => turn' # 0  BY <1>1, <1>2, <1>3
<1>5. ASSUME exists', NEW x \in DOMAIN jobs', jobs'[x].busy
      PROVE  jobs'[x].upTo \in Messages(rows') /\ jobs'[x].covers = Upto(rows', jobs'[x].upTo)
  <2>1. exists /\ rows' = rows /\ x \in DOMAIN jobs /\ jobs'[x] = jobs[x] /\ jobs[x].busy  BY <1>1, <1>2, <1>3, <1>5
  <2> QED  BY <2>1 DEF IInv, Jobs
<1>6. Jobs'  BY <1>3, <1>4, <1>5 DEF Jobs
<1> QED  BY <1>1, <1>6 DEF IInv, Given, HistoryIsWhole, NoOrphans

-----------------------------------------------------------------------------
LEMMA InitIInv == Init => IInv
<1> SUFFICES ASSUME Init  PROVE IInv  OBVIOUS
<1>1. rows \in Seq(RowTypes) /\ Len(rows) = 0 /\ DOMAIN rows = {}  BY DEF Init
<1>2. Live(rows) = {} /\ Messages(rows) = {} /\ Summaries(rows) = {} /\ Typed(rows) = {}
  BY <1>1 DEF Live, Messages, Summaries, Typed
<1>3. Branch(rows)  BY <1>1, <1>2, RowsAssumption DEF Branch, Covers, Words
<1>4. Given  BY <1>1 DEF Init, Given, HistoryIsWhole
<1>5. Jobs
  <2>1. NoJob \in JobTypes /\ ~NoJob.busy  BY DEF NoJob, JobTypes
  <2>2. jobs = [by \in {"user", "turn"} |-> NoJob]  BY DEF Init
  <2> QED  BY <2>1, <2>2 DEF Jobs
<1> QED  BY <1>2, <1>3, <1>4, <1>5 DEF Init, IInv, NoOrphans

LEMMA NextIInv == IInv /\ [Next]_vars => IInv'
<1> SUFFICES ASSUME IInv, [Next]_vars  PROVE IInv'  OBVIOUS
<1>1. CASE Send \/ AnswerStarts  BY <1>1, SendKeeps
<1>2. CASE Retry  BY <1>2, RegenerateKeeps DEF Retry
<1>3. CASE Clear  BY <1>3, ClearKeeps
<1>4. CASE DeleteConversation  BY <1>4, DeleteConversationKeeps
<1>5. ASSUME NEW i \in DOMAIN rows, Regenerate(i) \/ Delete(i) \/ UserCompacts(i) \/ TurnCompacts(i)  PROVE IInv'
  <2>1. CASE Regenerate(i)  BY <2>1, RegenerateKeeps DEF Regenerate
  <2>2. CASE Delete(i)  BY <2>2, DeleteKeeps
  <2>3. CASE UserCompacts(i)  BY <2>3, UserCompactsKeeps
  <2>4. CASE TurnCompacts(i)  BY <2>4, TurnCompactsKeeps
  <2> QED  BY <1>5, <2>1, <2>2, <2>3, <2>4
<1>6. ASSUME NEW k \in 1..MaxRows, Edit(k)  PROVE IInv'  BY <1>6, EditKeeps
<1>7. CASE TurnStep  BY <1>7, TurnStepKeeps
<1>8. CASE TurnReplies  BY <1>8, TurnRepliesKeeps
<1>9. CASE TurnFails  BY <1>9, TurnFailsKeeps
<1>10. ASSUME NEW by \in DOMAIN jobs, CompactDone(by) \/ CompactFails(by)  PROVE IInv'
  BY <1>10, CompactDoneKeeps, CompactFailsKeeps
<1>11. CASE UNCHANGED vars
  BY <1>11 DEF vars, IInv, Given, Jobs, HistoryIsWhole, NoOrphans
<1> QED  BY <1>1, <1>2, <1>3, <1>4, <1>5, <1>6, <1>7, <1>8, <1>9, <1>10, <1>11 DEF Next

LEMMA IInvIsTrue == IInv => HistoryIsTrue
<1> SUFFICES ASSUME IInv  PROVE HistoryIsTrue  OBVIOUS
<1>1. HistoryIsWhole /\ NoOrphans  BY DEF IInv, Given
<1>2. SummaryIsTrue
  <2>1. \A s \in Summaries(rows) : rows[s].covers = Upto(rows, rows[s].upTo)  BY DEF IInv, Branch, Covers
  <2> QED  BY <2>1 DEF SummaryIsTrue, Upto
<1>3. WordsOnce
  <2>1. \A i, j \in Typed(rows) : i # j => rows[i].words # rows[j].words  BY InvFacts
  <2>2. ASSUME turn # 0  PROVE rows[turn].words # 0
    <3>1. turn \in DOMAIN rows /\ rows[turn].role = "user"  BY <2>2, InvFacts DEF IInv, Given
    <3> QED  BY <3>1, InvFacts DEF Words
  <2> QED  BY <2>1, <2>2 DEF WordsOnce
<1> QED  BY <1>1, <1>2, <1>3 DEF HistoryIsTrue

\* A turn starts from the whole active branch, each message once; no summary and no second try brings back
\* words that were replaced or deleted; nothing is written to a chat that is gone: db.ts under the routes of server.ts.
THEOREM HistoryStaysTrue == Spec => []HistoryIsTrue
<1> QED  BY InitIInv, NextIInv, IInvIsTrue, PTL DEF Spec

-----------------------------------------------------------------------------
(* What a cut does to the summaries.                                       *)

LEMMA SummaryEnds ==
  ASSUME IInv, NEW s \in Summaries(rows)
  PROVE  /\ s \in DOMAIN rows /\ rows[s].state = "active" /\ rows[s].role = "summary"
         /\ rows[s].upTo \in Messages(rows) /\ rows[s].upTo \in DOMAIN rows /\ rows[s].upTo < s
         /\ rows[s].upTo \in rows[s].covers
<1>1. Branch(rows)  BY DEF IInv
<1>2. rows[s].upTo < s /\ rows[s].upTo \in Messages(rows) /\ rows[s].covers = Upto(rows, rows[s].upTo)
  BY <1>1 DEF Branch, Covers
<1>3. s \in DOMAIN rows /\ rows[s].state = "active" /\ rows[s].role = "summary"  BY <1>1, RowFacts
<1>4. rows[s].upTo \in DOMAIN rows /\ rows[s].upTo \in Nat  BY <1>1, <1>2, RowFacts
<1> QED  BY <1>2, <1>3, <1>4 DEF Upto

\* Rows that stay as they are take no summary away.
LEMMA RowsStay ==
  ASSUME IInv, \A i \in DOMAIN rows : i \in DOMAIN rows' /\ rows'[i] = rows[i]
  PROVE  SummaryIsKept
<1>1. ASSUME NEW s \in Summaries(rows)  PROVE s \in Summaries(rows')
  <2>1. s \in DOMAIN rows /\ rows[s].state = "active" /\ rows[s].role = "summary"  BY SummaryEnds
  <2> QED  BY <2>1 DEF Summaries, Messages, Live
<1> QED  BY <1>1 DEF SummaryIsKept

LEMMA RowsAppended ==
  ASSUME IInv, NEW batch \in Seq(RowTypes), rows' = rows \o batch
  PROVE  SummaryIsKept
<1>1. rows \in Seq(RowTypes) /\ Len(rows) \in Nat /\ DOMAIN rows = 1..Len(rows)  BY InvFacts DEF Branch
<1>2. Len(batch) \in Nat  BY LenProperties
<1>3. /\ DOMAIN rows' = 1..(Len(rows) + Len(batch))
      /\ \A i \in 1..(Len(rows) + Len(batch)) : i <= Len(rows) => rows'[i] = rows[i]
  BY <1>1, ConcatProperties, LenProperties
<1> QED  BY <1>1, <1>2, <1>3, RowsStay

\* A cut takes a summary away only with the row it ends with.
LEMMA CutSummaries ==
  ASSUME IInv, NEW from \in Nat, NEW states, NEW to \in {"retired", "deleted"}, "active" \in states,
         \A i \in DOMAIN rows : i \in DOMAIN rows' /\ rows'[i] = CutFrom(rows, from, states, to)[i]
  PROVE  SummaryIsKept
<1> SUFFICES ASSUME NEW s \in Summaries(rows), s \notin Summaries(rows')
             PROVE  rows[s].covers \cap Messages(rows') # rows[s].covers
  BY DEF SummaryIsKept
<1> DEFINE u == rows[s].upTo
<1>1. /\ s \in DOMAIN rows /\ rows[s].state = "active" /\ rows[s].role = "summary"
      /\ u \in Messages(rows) /\ u \in DOMAIN rows /\ u < s /\ u \in rows[s].covers
  BY SummaryEnds
<1>2. \A i \in DOMAIN rows :
        rows'[i] = IF i >= from /\ rows[i].state \in states /\ ~Spared(rows, i, from)
                   THEN [rows[i] EXCEPT !.state = to] ELSE rows[i]
  BY DEF CutFrom
<1>3. ~Spared(rows, s, from)
  <2>1. rows'[s] # rows[s]  BY <1>1 DEF Summaries, Messages, Live
  <2> QED  BY <1>1, <1>2, <2>1
<1>4. u \in Nat /\ u >= from  BY <1>1, <1>3, InvFacts DEF Spared
<1>5. rows[u].state = "active" /\ rows[u].role # "summary"  BY <1>1 DEF Messages, Live
<1>6. rows'[u] = [rows[u] EXCEPT !.state = to]  BY <1>1, <1>2, <1>4, <1>5 DEF Spared
<1>7. rows'[u].state = to
  <2>1. rows[u] \in RowTypes  BY <1>1, InvFacts
  <2> QED  BY <1>6, <2>1 DEF RowTypes
<1>8. u \notin Messages(rows')  BY <1>7 DEF Messages, Live
<1> QED  BY <1>1, <1>8

\* A turn that starts behind a cut
LEMMA KickoffSummaries ==
  ASSUME IInv, NEW from \in Nat, NEW words \in Nat, NEW superseded, Kickoff(DeactivateMessagesFrom(rows, from), words, superseded)
  PROVE  SummaryIsKept
<1> DEFINE rs == DeactivateMessagesFrom(rows, from)
           r == Row("user", words, 0, {})
<1>1. rs \in Seq(RowTypes) /\ Len(rs) = Len(rows) /\ Len(rows) \in Nat /\ DOMAIN rows = 1..Len(rows)
  BY InvFacts, CutKeeps DEF DeactivateMessagesFrom, Branch
<1>2. r \in RowTypes  BY DEF Row, RowTypes, Roles, States
<1>3. rows' = Append(rs, r)  BY DEF Kickoff
<1>4. rs = CutFrom(rows, from, {"active"}, "retired")  BY DEF DeactivateMessagesFrom
<1> HIDE DEF rs, r
<1>5. /\ DOMAIN rows' = 1..(Len(rows) + 1) /\ \A i \in 1..Len(rows) : rows'[i] = rs[i]
  BY <1>1, <1>2, <1>3, AppendProperties, LenProperties
<1>6. \A i \in DOMAIN rows : i \in DOMAIN rows' /\ rows'[i] = CutFrom(rows, from, {"active"}, "retired")[i]
  BY <1>1, <1>4, <1>5
<1> QED  BY <1>6, CutSummaries

LEMMA StartSummaries == ASSUME IInv, Send \/ AnswerStarts  PROVE SummaryIsKept
<1> DEFINE r == Row("user", Len(rows) + 1, 0, {})
<1>1. rows \in Seq(RowTypes) /\ Len(rows) \in Nat  BY InvFacts DEF Branch
<1>2. r \in RowTypes  BY <1>1 DEF Row, RowTypes, Roles, States
<1>3. rows' = Append(rows, r)  BY DEF Send, AnswerStarts, Kickoff
<1> HIDE DEF r
<1>4. rows' = rows \o <<r>> /\ <<r>> \in Seq(RowTypes)  BY <1>1, <1>2, <1>3, AppendIsConcat
<1> QED  BY <1>4, RowsAppended

LEMMA RegenerateSummaries == ASSUME IInv, NEW from, RegenerateFrom(from)  PROVE SummaryIsKept
<1> DEFINE anchor == FindRegenerationAnchor(rows, from)
<1>1. anchor # 0 /\ Kickoff(DeactivateMessagesFrom(rows, anchor), rows[anchor].words, 0)  BY DEF RegenerateFrom
<1>2. anchor \in Typed(rows)
  <2>1. {i \in Typed(rows) : i <= from} \subseteq 1..Len(rows)  BY InvFacts
  <2>2. anchor \in {i \in Typed(rows) : i <= from}  BY <1>1, <2>1, InvFacts, NewestIsId DEF FindRegenerationAnchor
  <2> QED  BY <2>2
<1> HIDE DEF anchor
<1>3. anchor \in Nat /\ rows[anchor].words \in Nat  BY <1>2, InvFacts
<1> QED  BY <1>1, <1>3, KickoffSummaries

LEMMA EditSummaries == ASSUME IInv, NEW k \in 1..MaxRows, Edit(k)  PROVE SummaryIsKept
<1>1. PICK parent \in {0} \cup Live(rows), superseded \in Typed(rows) :
        Kickoff(DeactivateMessagesFrom(rows, parent + 1), Len(rows) + 1, superseded)
  BY DEF Edit
<1>2. parent + 1 \in Nat /\ Len(rows) + 1 \in Nat  BY InvFacts
<1> QED  BY <1>1, <1>2, KickoffSummaries

LEMMA ClearSummaries ==
  ASSUME IInv, rows' = [i \in DOMAIN rows |-> [rows[i] EXCEPT !.state = "deleted"]]
  PROVE  SummaryIsKept
<1>1. Messages(rows') = {}  BY AllDeleted DEF Messages
<1> QED  BY <1>1, SummaryEnds DEF SummaryIsKept

LEMMA TurnSummaries == ASSUME IInv, TurnStep \/ TurnReplies  PROVE SummaryIsKept
<1>1. /\ Row("calls", 0, 0, {}) \in RowTypes /\ Row("results", 0, 0, {}) \in RowTypes
      /\ Row("reply", 0, 0, {}) \in RowTypes
  BY DEF Row, RowTypes, Roles, States
<1>2. <<Row("calls", 0, 0, {}), Row("results", 0, 0, {})>> \in Seq(RowTypes) /\ <<Row("reply", 0, 0, {})>> \in Seq(RowTypes)
  BY <1>1
<1> QED  BY <1>2, RowsAppended DEF TurnStep, TurnReplies, AppendMessage

LEMMA CompactDoneSummaries == ASSUME IInv, NEW by \in DOMAIN jobs, CompactDone(by)  PROVE SummaryIsKept
<1> DEFINE r == Row("summary", 0, jobs[by].upTo, jobs[by].covers)
<1>1. jobs[by] \in JobTypes  BY DEF IInv, Jobs
<1>2. r \in RowTypes  BY <1>1 DEF JobTypes, Row, RowTypes, Roles, States
<1>3. rows' = rows \o <<r>>  BY DEF CompactDone, AppendMessage
<1> HIDE DEF r
<1>4. <<r>> \in Seq(RowTypes)  BY <1>2
<1> QED  BY <1>3, <1>4, RowsAppended

LEMMA NextSummaries == ASSUME IInv, Next  PROVE SummaryIsKept
<1>1. CASE Send \/ AnswerStarts  BY <1>1, StartSummaries
<1>2. CASE Retry  BY <1>2, RegenerateSummaries DEF Retry
<1>3. CASE Clear \/ DeleteConversation  BY <1>3, ClearSummaries DEF Clear, DeleteConversation
<1>4. ASSUME NEW i \in DOMAIN rows, Regenerate(i)  PROVE SummaryIsKept
  BY <1>4, RegenerateSummaries DEF Regenerate
<1>5. ASSUME NEW i \in DOMAIN rows, Delete(i)  PROVE SummaryIsKept
  <2>1. rows' = CutFrom(rows, i, {"active", "retired"}, "deleted")  BY <1>5 DEF Delete, DeleteMessagesFrom
  <2>2. i \in Nat /\ DOMAIN rows' = DOMAIN rows  BY <2>1, InvFacts DEF CutFrom
  <2> QED  BY <2>1, <2>2, CutSummaries
<1>6. ASSUME NEW i \in DOMAIN rows, UserCompacts(i) \/ TurnCompacts(i)  PROVE SummaryIsKept
  BY <1>6, RowsStay DEF UserCompacts, TurnCompacts, Compact
<1>7. ASSUME NEW k \in 1..MaxRows, Edit(k)  PROVE SummaryIsKept  BY <1>7, EditSummaries
<1>8. CASE TurnStep \/ TurnReplies  BY <1>8, TurnSummaries
<1>9. CASE TurnFails  BY <1>9, RowsStay DEF TurnFails
<1>10. ASSUME NEW by \in DOMAIN jobs, CompactDone(by) \/ CompactFails(by)  PROVE SummaryIsKept
  <2>1. CASE CompactDone(by)  BY <2>1, CompactDoneSummaries
  <2>2. CASE CompactFails(by)  BY <2>2, RowsStay DEF CompactFails
  <2> QED  BY <1>10, <2>1, <2>2
<1> QED  BY <1>1, <1>2, <1>3, <1>4, <1>5, <1>6, <1>7, <1>8, <1>9, <1>10 DEF Next

\* A summary that was paid for goes only with a message that it covers: CutFrom, the cuts of db.ts.
THEOREM SummariesStay == Spec => [][SummaryIsKept]_vars
<1>1. IInv /\ [Next]_vars => [SummaryIsKept]_vars  BY NextSummaries
<1> QED  BY <1>1, InitIInv, NextIInv, PTL DEF Spec

-----------------------------------------------------------------------------
(* The types.                                                              *)

Bounded(rs) == \A i \in DOMAIN rs : rs[i].upTo \in 0..MaxRows /\ rs[i].covers \subseteq Ids
GivenTypes == [verbatim : SUBSET Ids, told : SUBSET Ids]
Bounds ==
  /\ Bounded(rows) /\ given \in GivenTypes /\ edited \in 0..MaxRows
  /\ \A by \in DOMAIN jobs : jobs[by].upTo \in 0..MaxRows /\ jobs[by].covers \subseteq Ids

LEMMA BoundTypes == ASSUME IInv, Bounds  PROVE TypeOK
<1>1. Len(rows) \in Nat /\ Len(rows) <= MaxRows /\ DOMAIN rows = 1..Len(rows)  BY InvFacts DEF Branch
<1>2. ASSUME NEW i \in 1..Len(rows)
      PROVE  rows[i] \in [role : Roles, state : States, words : 0..MaxRows, upTo : 0..MaxRows, covers : SUBSET Ids]
  <2>1. rows[i] \in RowTypes /\ rows[i].words <= i  BY <1>1, InvFacts DEF Words
  <2>2. rows[i].words \in 0..MaxRows  BY <1>1, <2>1, RowsAssumption DEF RowTypes
  <2>3. rows[i].upTo \in 0..MaxRows /\ rows[i].covers \in SUBSET Ids  BY <1>1 DEF Bounds, Bounded
  <2> QED  BY <2>1, <2>2, <2>3 DEF RowTypes
<1>3. rows \in Seq([role : Roles, state : States, words : 0..MaxRows, upTo : 0..MaxRows, covers : SUBSET Ids])
  <2> DEFINE T == [role : Roles, state : States, words : 0..MaxRows, upTo : 0..MaxRows, covers : SUBSET Ids]
  <2>1. \A i \in 1..Len(rows) : rows[i] \in T  BY <1>2
  <2>2. rows \in Seq(RowTypes)  BY InvFacts DEF Branch
  <2> HIDE DEF T
  <2>3. rows \in [1..Len(rows) -> T]  BY <1>1, <2>1, <2>2
  <2>4. rows \in Seq(T)  BY <1>1, <2>3
  <2> QED  BY <2>4 DEF T
<1>4. turn \in 0..MaxRows  BY <1>1, RowsAssumption DEF IInv, Given
<1>5. jobs \in [{"user", "turn"} -> [busy : BOOLEAN, upTo : 0..MaxRows, covers : SUBSET Ids]]
  <2>1. jobs \in [{"user", "turn"} -> JobTypes]  BY DEF IInv, Jobs
  <2>2. ASSUME NEW by \in {"user", "turn"}  PROVE jobs[by] \in [busy : BOOLEAN, upTo : 0..MaxRows, covers : SUBSET Ids]
    <3>1. jobs[by] \in JobTypes /\ jobs[by].upTo \in 0..MaxRows /\ jobs[by].covers \in SUBSET Ids  BY <2>1 DEF Bounds
    <3> QED  BY <3>1 DEF JobTypes
  <2> QED  BY <2>1, <2>2
<1> QED  BY <1>3, <1>4, <1>5 DEF TypeOK, Bounds, GivenTypes, IInv

LEMMA LoadBounded ==
  ASSUME NEW rs, Branch(rs), Bounded(rs), NEW before  PROVE LoadLlmHistory(rs, before) \in GivenTypes
<1> DEFINE Z == {i \in Summaries(rs) : rs[i].upTo < before}
<1>1. Messages(rs) \subseteq 1..Len(rs) /\ Summaries(rs) \subseteq 1..Len(rs) /\ Len(rs) \in Nat /\ Len(rs) <= MaxRows
      /\ DOMAIN rs = 1..Len(rs)
  BY RowFacts DEF Branch
<1>2. 1..Len(rs) \subseteq Ids  BY <1>1, RowsAssumption DEF Ids
<1>3. Z \subseteq 1..Len(rs)  BY <1>1
<1>4. Newest(Z) # 0 => Newest(Z) \in Z  BY <1>1, <1>3, NewestIsId
<1>5. Newest(Z) # 0 => rs[Newest(Z)].covers \subseteq Ids  BY <1>1, <1>3, <1>4 DEF Bounded
<1> HIDE DEF Z
<1>6. {i \in Messages(rs) : i < before /\ (Newest(Z) = 0 \/ i > rs[Newest(Z)].upTo)} \subseteq Ids  BY <1>1, <1>2
<1> QED  BY <1>5, <1>6 DEF LoadLlmHistory, GivenTypes, Z

LEMMA CutBounded ==
  ASSUME NEW rs, Branch(rs), Bounded(rs), NEW from, NEW states, NEW to  PROVE Bounded(CutFrom(rs, from, states, to))
<1>1. \A i \in DOMAIN rs : rs[i] \in RowTypes  BY RowFacts
<1>2. ASSUME NEW i \in DOMAIN rs
      PROVE  [rs[i] EXCEPT !.state = to].upTo = rs[i].upTo /\ [rs[i] EXCEPT !.state = to].covers = rs[i].covers
  BY <1>1 DEF RowTypes
<1> QED  BY <1>2 DEF Bounded, CutFrom

LEMMA AppendBounded ==
  ASSUME NEW rs, Branch(rs), Bounded(rs), NEW batch \in Seq(RowTypes), Bounded(batch)  PROVE Bounded(rs \o batch)
<1>1. rs \in Seq(RowTypes)  BY DEF Branch
<1> HIDE DEF RowTypes
<1>2. /\ DOMAIN rs = 1..Len(rs) /\ DOMAIN batch = 1..Len(batch) /\ Len(rs) \in Nat /\ Len(batch) \in Nat
      /\ DOMAIN (rs \o batch) = 1..Len(rs) + Len(batch)
      /\ \A i \in 1..Len(rs) + Len(batch) : (rs \o batch)[i] = IF i <= Len(rs) THEN rs[i] ELSE batch[i - Len(rs)]
  BY <1>1
<1>3. ASSUME NEW i \in 1..Len(rs) + Len(batch)
      PROVE  (rs \o batch)[i].upTo \in 0..MaxRows /\ (rs \o batch)[i].covers \subseteq Ids
  <2>1. CASE i <= Len(rs)
    <3>1. i \in DOMAIN rs /\ (rs \o batch)[i] = rs[i]  BY <1>2, <2>1
    <3> QED  BY <3>1 DEF Bounded
  <2>2. CASE ~(i <= Len(rs))
    <3>1. i - Len(rs) \in DOMAIN batch /\ (rs \o batch)[i] = batch[i - Len(rs)]  BY <1>2, <2>2
    <3> QED  BY <3>1 DEF Bounded
  <2> QED  BY <2>1, <2>2
<1> QED  BY <1>2, <1>3 DEF Bounded

LEMMA RowBounded ==
  ASSUME NEW role \in Roles, NEW words \in Nat, NEW upTo \in 0..MaxRows, NEW covers, covers \subseteq Ids
  PROVE  Row(role, words, upTo, covers) \in RowTypes /\ Bounded(<<Row(role, words, upTo, covers)>>)
<1>1. Row(role, words, upTo, covers).upTo = upTo /\ Row(role, words, upTo, covers).covers = covers  BY DEF Row
<1>2. Row(role, words, upTo, covers) \in RowTypes  BY RowsAssumption DEF Row, RowTypes, States, Ids
<1> DEFINE r == Row(role, words, upTo, covers)
<1> HIDE DEF r
<1>3. DOMAIN <<r>> = {1} /\ <<r>>[1] = r  OBVIOUS
<1> QED  BY <1>1, <1>2, <1>3 DEF Bounded, r

LEMMA KickoffBounds ==
  ASSUME IInv, Bounds, NEW rs, Branch(rs), Bounded(rs), NEW words \in Nat, NEW superseded \in 0..MaxRows, Kickoff(rs, words, superseded)
  PROVE  Bounds'
<1>1. /\ rows' = Append(rs, Row("user", words, 0, {})) /\ given' = LoadLlmHistory(rs, Everything) /\ edited' = superseded /\ jobs' = jobs
  BY DEF Kickoff
<1>2. Row("user", words, 0, {}) \in RowTypes /\ Bounded(<<Row("user", words, 0, {})>>)  BY RowBounded, RowsAssumption DEF Roles
<1>3. rows' = rs \o <<Row("user", words, 0, {})>>
  <2>1. rs \in Seq(RowTypes)  BY DEF Branch
  <2> QED  BY <1>1, <1>2, <2>1, AppendIsConcat
<1>4. Bounded(rows')
  <2>1. <<Row("user", words, 0, {})>> \in Seq(RowTypes)  BY <1>2
  <2> QED  BY <1>2, <1>3, <2>1, AppendBounded
<1>5. given' \in GivenTypes  BY <1>1, LoadBounded
<1> QED  BY <1>1, <1>4, <1>5 DEF Bounds

LEMMA BatchBounds ==
  ASSUME IInv, Bounds, NEW batch \in Seq(RowTypes), Bounded(batch), rows' = rows \o batch, jobs' = jobs,
         \/ UNCHANGED <<given, edited>>
         \/ EndTurn
  PROVE  Bounds'
<1>1. Bounded(rows')  BY InvFacts, AppendBounded DEF Bounds
<1>2. given' \in GivenTypes /\ edited' \in 0..MaxRows  BY RowsAssumption DEF Bounds, EndTurn, Nothing, GivenTypes
<1> QED  BY <1>1, <1>2 DEF Bounds

LEMMA StateBounds ==
  ASSUME IInv, Bounds, UNCHANGED <<given, edited, jobs>>,
         \/ \E i \in DOMAIN rows : rows' = DeleteMessagesFrom(rows, i)
         \/ rows' = [i \in DOMAIN rows |-> [rows[i] EXCEPT !.state = "deleted"]]
  PROVE  Bounds'
<1>1. CASE \E i \in DOMAIN rows : rows' = DeleteMessagesFrom(rows, i)
  <2>1. Bounded(rows')  BY <1>1, InvFacts, CutBounded DEF DeleteMessagesFrom, Bounds
  <2> QED  BY <2>1 DEF Bounds
<1>2. CASE rows' = [i \in DOMAIN rows |-> [rows[i] EXCEPT !.state = "deleted"]]
  <2>1. ASSUME NEW i \in DOMAIN rows
        PROVE  [rows[i] EXCEPT !.state = "deleted"].upTo = rows[i].upTo /\ [rows[i] EXCEPT !.state = "deleted"].covers = rows[i].covers
    BY InvFacts DEF RowTypes
  <2>2. Bounded(rows')  BY <1>2, <2>1 DEF Bounds, Bounded
  <2> QED  BY <2>2 DEF Bounds
<1> QED  BY <1>1, <1>2

\* A job begins with what the branch is (IInv'), or is nothing.
LEMMA JobBounds ==
  ASSUME IInv, Bounds, IInv', UNCHANGED <<rows, given, edited>>,
         NEW by \in DOMAIN jobs, NEW j, jobs' = [jobs EXCEPT ![by] = j], j = NoJob \/ (j.busy /\ exists')
  PROVE  Bounds'
<1>1. DOMAIN jobs = {"user", "turn"}  BY DEF IInv, Jobs
<1>2. jobs'[by] = j /\ DOMAIN jobs' = DOMAIN jobs /\ \A x \in DOMAIN jobs : x # by => jobs'[x] = jobs[x]  BY <1>1
<1>3. j.upTo \in 0..MaxRows /\ j.covers \subseteq Ids
  <2>1. CASE j = NoJob  BY <2>1, RowsAssumption DEF NoJob
  <2>2. CASE j.busy /\ exists'
    <3>1. j.upTo \in Messages(rows') /\ j.covers = Upto(rows', j.upTo)  BY <1>2, <2>2 DEF IInv, Jobs
    <3>2. Branch(rows)' /\ rows' = rows  BY DEF IInv
    <3>3. Branch(rows)  BY DEF IInv
    <3>4. Messages(rows) \subseteq 1..Len(rows) /\ Len(rows) \in Nat /\ Len(rows) <= MaxRows  BY <3>3, RowFacts DEF Branch
    <3>5. Messages(rows) \subseteq Ids  BY <3>4, RowsAssumption DEF Ids
    <3>6. j.upTo \in Messages(rows) /\ j.covers \subseteq Messages(rows)  BY <3>1, <3>2 DEF Upto
    <3> QED  BY <3>5, <3>6 DEF Ids
  <2> QED  BY <2>1, <2>2
<1> QED  BY <1>2, <1>3 DEF Bounds

LEMMA CompactDoneBounds == ASSUME IInv, Bounds, IInv', NEW by \in DOMAIN jobs, CompactDone(by)  PROVE Bounds'
<1> DEFINE r == Row("summary", 0, jobs[by].upTo, jobs[by].covers)
<1>1. /\ rows' = rows \o <<r>> /\ jobs' = [jobs EXCEPT ![by] = NoJob] /\ edited' = edited
      /\ given' = IF by = "turn" THEN LoadLlmHistory(rows', turn) ELSE given
  BY DEF CompactDone, AppendMessage
<1>2. jobs[by].upTo \in 0..MaxRows /\ jobs[by].covers \subseteq Ids  BY DEF Bounds
<1>3. r \in RowTypes /\ Bounded(<<r>>)  BY <1>2, RowBounded, RowsAssumption DEF Roles
<1> HIDE DEF r
<1>4. Bounded(rows')
  <2>1. <<r>> \in Seq(RowTypes)  BY <1>3
  <2> QED  BY <1>1, <1>3, <2>1, InvFacts, AppendBounded DEF Bounds
<1>5. Branch(rows')  BY DEF IInv
<1>6. given' \in GivenTypes  BY <1>1, <1>4, <1>5, LoadBounded DEF Bounds
<1>7. \A x \in DOMAIN jobs' : jobs'[x].upTo \in 0..MaxRows /\ jobs'[x].covers \subseteq Ids
  <2>1. jobs \in [{"user", "turn"} -> JobTypes]  BY DEF IInv, Jobs
  <2>2. NoJob.upTo \in 0..MaxRows /\ NoJob.covers \subseteq Ids  BY RowsAssumption DEF NoJob
  <2> QED  BY <1>1, <2>1, <2>2 DEF Bounds
<1> QED  BY <1>1, <1>4, <1>6, <1>7 DEF Bounds

LEMMA BoundsKept == ASSUME IInv, Bounds, Next  PROVE Bounds'
<1>0. IInv'  BY NextIInv
<1>a. Branch(rows) /\ Bounded(rows) /\ Len(rows) \in Nat  BY InvFacts DEF Bounds
<1>1. CASE Send \/ AnswerStarts  BY <1>1, <1>a, KickoffBounds, RowsAssumption DEF Send, AnswerStarts
<1>2. ASSUME NEW from, RegenerateFrom(from)  PROVE Bounds'
  <2> DEFINE anchor == FindRegenerationAnchor(rows, from)
  <2>1. anchor # 0 /\ Kickoff(DeactivateMessagesFrom(rows, anchor), rows[anchor].words, 0)  BY <1>2 DEF RegenerateFrom
  <2>2. anchor \in Typed(rows)
    <3>1. {i \in Typed(rows) : i <= from} \subseteq 1..Len(rows)  BY InvFacts
    <3>2. anchor \in {i \in Typed(rows) : i <= from}  BY <2>1, <3>1, <1>a, NewestIsId DEF FindRegenerationAnchor
    <3> QED  BY <3>2
  <2> HIDE DEF anchor
  <2>3. anchor \in Nat /\ rows[anchor].words \in Nat  BY <2>2, InvFacts
  <2>4. Branch(DeactivateMessagesFrom(rows, anchor))  BY <1>a, <2>3, CutKeeps DEF DeactivateMessagesFrom
  <2>5. Bounded(DeactivateMessagesFrom(rows, anchor))  BY <1>a, CutBounded DEF DeactivateMessagesFrom
  <2>6. 0 \in 0..MaxRows  BY RowsAssumption
  <2> QED  BY <2>1, <2>3, <2>4, <2>5, <2>6, KickoffBounds
<1>3. CASE Clear \/ DeleteConversation  BY <1>3, StateBounds DEF Clear, DeleteConversation
<1>4. ASSUME NEW i \in DOMAIN rows, Delete(i)  PROVE Bounds'  BY <1>4, StateBounds DEF Delete
<1>5. ASSUME NEW by \in {"user", "turn"}, NEW before, NEW cut, Compact(by, before, cut)  PROVE Bounds'
  <2>1. by \in DOMAIN jobs  BY DEF IInv, Jobs
  <2> DEFINE h == LoadLlmHistory(rows, before)
             head == {i \in h.verbatim : i < cut}
             busyJob == [busy |-> TRUE, upTo |-> Max(head), covers |-> h.told \cup head]
  <2>2. jobs' = [jobs EXCEPT ![by] = busyJob] /\ busyJob.busy  BY <1>5 DEF Compact
  <2>3. UNCHANGED <<rows, given, edited>> /\ exists'  BY <1>5 DEF Compact
  <2> HIDE DEF busyJob
  <2> QED  BY <1>0, <2>1, <2>2, <2>3, JobBounds
<1>6. ASSUME NEW k \in 1..MaxRows, Edit(k)  PROVE Bounds'
  <2>1. PICK parent \in {0} \cup Live(rows), superseded \in Typed(rows) :
          Kickoff(DeactivateMessagesFrom(rows, parent + 1), Len(rows) + 1, superseded)
    BY <1>6 DEF Edit
  <2>2. parent + 1 \in Nat /\ Len(rows) + 1 \in Nat  BY InvFacts
  <2>3. superseded \in 0..MaxRows
    <3>1. superseded \in 1..Len(rows) /\ Len(rows) <= MaxRows  BY InvFacts DEF Branch
    <3> QED  BY <1>a, <3>1, RowsAssumption
  <2>4. Branch(DeactivateMessagesFrom(rows, parent + 1))  BY <1>a, <2>2, CutKeeps DEF DeactivateMessagesFrom
  <2>5. Bounded(DeactivateMessagesFrom(rows, parent + 1))  BY <1>a, CutBounded DEF DeactivateMessagesFrom
  <2> QED  BY <2>1, <2>2, <2>3, <2>4, <2>5, KickoffBounds
<1>7. CASE TurnStep \/ TurnReplies
  <2> DEFINE c == Row("calls", 0, 0, {})
             s == Row("results", 0, 0, {})
             p == Row("reply", 0, 0, {})
  <2>1. c \in RowTypes /\ s \in RowTypes /\ p \in RowTypes /\ Bounded(<<c>>) /\ Bounded(<<s>>) /\ Bounded(<<p>>)
    BY RowBounded, RowsAssumption DEF Roles
  <2>2. /\ jobs' = jobs
        /\ \/ rows' = rows \o <<c, s>> /\ UNCHANGED <<given, edited>>
           \/ rows' = rows \o <<p>> /\ EndTurn
    <3>1. CASE TurnStep
      <4>1. rows' = rows \o <<c, s>>  BY <3>1 DEF TurnStep, AppendMessage
      <4>2. jobs' = jobs /\ UNCHANGED <<given, edited>>  BY <3>1 DEF TurnStep
      <4> QED  BY <4>1, <4>2
    <3>2. CASE TurnReplies  BY <3>2 DEF TurnReplies, AppendMessage
    <3> QED  BY <1>7, <3>1, <3>2
  <2> HIDE DEF c, s, p
  <2>3. <<c, s>> \in Seq(RowTypes) /\ <<p>> \in Seq(RowTypes) /\ Bounded(<<c, s>>)
    <3>1. <<c, s>> \in Seq(RowTypes) /\ <<p>> \in Seq(RowTypes)  BY <2>1
    <3>2. c.upTo \in 0..MaxRows /\ c.covers \subseteq Ids /\ s.upTo \in 0..MaxRows /\ s.covers \subseteq Ids
      BY RowsAssumption DEF c, s, Row
    <3>3. DOMAIN <<c, s>> = {1, 2} /\ <<c, s>>[1] = c /\ <<c, s>>[2] = s  OBVIOUS
    <3>4. ASSUME NEW i \in {1, 2}  PROVE <<c, s>>[i].upTo \in 0..MaxRows /\ <<c, s>>[i].covers \subseteq Ids
      BY <3>2, <3>3
    <3> QED  BY <3>1, <3>3, <3>4 DEF Bounded
  <2> QED  BY <2>1, <2>2, <2>3, BatchBounds
<1>8. CASE TurnFails
  <2>1. "turn" \in DOMAIN jobs /\ jobs' = [jobs EXCEPT !["turn"] = NoJob] /\ rows' = rows /\ given' = Nothing /\ edited' = 0
    BY <1>8 DEF TurnFails, EndTurn, IInv, Jobs
  <2>2. NoJob.upTo \in 0..MaxRows /\ NoJob.covers \subseteq Ids  BY RowsAssumption DEF NoJob
  <2>3. \A x \in DOMAIN jobs' : jobs'[x].upTo \in 0..MaxRows /\ jobs'[x].covers \subseteq Ids
    <3>1. jobs \in [{"user", "turn"} -> JobTypes]  BY DEF IInv, Jobs
    <3> QED  BY <2>1, <2>2, <3>1 DEF Bounds
  <2> QED  BY <2>1, <2>3, RowsAssumption DEF Bounds, Nothing, GivenTypes
<1>9. ASSUME NEW by \in DOMAIN jobs, CompactDone(by) \/ CompactFails(by)  PROVE Bounds'
  <2>1. CASE CompactDone(by)  BY <1>0, <2>1, CompactDoneBounds
  <2>2. CASE CompactFails(by)
    <3>1. jobs' = [jobs EXCEPT ![by] = NoJob] /\ UNCHANGED <<rows, given, edited>>  BY <2>2 DEF CompactFails
    <3> QED  BY <1>0, <3>1, JobBounds
  <2> QED  BY <1>9, <2>1, <2>2
<1> QED  BY <1>1, <1>2, <1>3, <1>4, <1>5, <1>6, <1>7, <1>8, <1>9
     DEF Next, Retry, Regenerate, UserCompacts, TurnCompacts

LEMMA BoundsStart == Init => Bounds
<1> SUFFICES ASSUME Init  PROVE Bounds  OBVIOUS
<1>1. DOMAIN rows = {}  BY DEF Init
<1>2. NoJob.upTo \in 0..MaxRows /\ NoJob.covers \subseteq Ids  BY RowsAssumption DEF NoJob
<1>3. \A by \in DOMAIN jobs : jobs[by] = NoJob  BY DEF Init
<1> QED  BY <1>1, <1>2, <1>3, RowsAssumption DEF Init, Bounds, Bounded, Nothing, GivenTypes

\* The rows, what the turn was given and the jobs stay what db.ts declares them to be.
THEOREM HistoryKeepsToTypes == Spec => []TypeOK
<1>1. IInv /\ Bounds /\ [Next]_vars => (IInv /\ Bounds)'
  <2> SUFFICES ASSUME IInv, Bounds, [Next]_vars  PROVE Bounds'  BY NextIInv
  <2>1. CASE UNCHANGED vars  BY <2>1 DEF vars, Bounds, Bounded
  <2> QED  BY <2>1, BoundsKept
<1>2. IInv /\ Bounds => TypeOK  BY BoundTypes
<1> QED  BY InitIInv, BoundsStart, <1>1, <1>2, PTL DEF Spec

-----------------------------------------------------------------------------
(* What is sent to the provider                                            *)

\* The calls of one message: their ids follow each other.
Span(a, n) == a .. a + n - 1
Spans == {Span(a, n) : a \in Nat, n \in Nat}
ContextMessage == [role : {"user", "assistant"}, text : Nat, uses : Spans, results : Seq([id : Nat, chars : Lengths])]

\* The person speaks first and the model never twice in a row, only the model calls, and the results follow their calls.
AlternateInv ==
  /\ messages \in Seq(ContextMessage) /\ Len(messages) <= MaxMessages
  /\ messages # <<>> => messages[1].role = "user"
  /\ \A i \in 1 .. Len(messages) - 1 : messages[i].role = messages[i + 1].role => C!IsUserTurn(messages[i + 1])
  /\ \A i \in DOMAIN messages :
       /\ messages[i].role = "user" => messages[i].uses = {}
       /\ C!CarriesResults(messages[i]) => i > 1 /\ C!Ids(messages[i].results) = messages[i - 1].uses
  /\ \A i \in 1 .. Len(messages) - 1 : messages[i].uses # {} => C!CarriesResults(messages[i + 1])

\* A compaction under way: what it cuts begins a turn of the person, and its answers so far are whole.
CompactionInv ==
  /\ job.at \in {"none", "asking"} /\ job.attempt \in 0 .. 1
  /\ job.at = "asking" =>
       /\ job.cut \in DOMAIN messages /\ C!IsUserTurn(messages[job.cut])
       /\ job.chunks = C!Chunks(job.cut)
       /\ job.done \in Seq({"whole"}) /\ Len(job.done) <= Len(job.chunks)
       /\ job = [at |-> "asking", cut |-> job.cut, chunks |-> job.chunks, done |-> job.done, attempt |-> job.attempt]

ContextInv == AlternateInv /\ CompactionInv /\ summary \in Nat /\ nextId \in Nat \ {0} /\ compactions \in 0 .. MaxJobs

LEMMA ContextTypes == ASSUME ContextInv  PROVE C!TypeOK
<1>1. \A i \in DOMAIN messages : messages[i] \in ContextMessage  BY DEF ContextInv, AlternateInv
<1>2. \A i \in DOMAIN messages : messages[i].role \in {"user", "assistant"}  BY <1>1 DEF ContextMessage
<1> QED  BY <1>2 DEF ContextInv, AlternateInv, CompactionInv, C!TypeOK

LEMMA ContextStart == ASSUME C!Init  PROVE ContextInv
BY ContextAssumption DEF C!Init, C!NoJob, ContextInv, AlternateInv, CompactionInv

-----------------------------------------------------------------------------
(* Counting and dividing                                                   *)

UpFrom(A, i) == {j \in A : j >= i}

LEMMA SubsetCount ==
  ASSUME NEW m \in Nat, NEW A, A \subseteq 1..m  PROVE IsFiniteSet(A) /\ Cardinality(A) \in Nat
<1>1. IsFiniteSet(1..m)  BY FS_Interval
<1> QED  BY <1>1, FS_Subset, FS_CardinalityType

LEMMA LeastExists ==
  ASSUME NEW A, A \subseteq Nat, A # {}  PROVE \E x \in A : \A y \in A : x <= y
<1> DEFINE R == {ss \in Nat \X Nat : ss[1] < ss[2]}
<1>1. IsWellFoundedOn(R, Nat)  BY NatLessThanWellFounded DEF OpToRel
<1>2. PICK x \in A : \A y \in A : ~ (<<y, x>> \in R)
  <2> HIDE DEF R
  <2> QED  BY <1>1, WFMin, Zenon
<1>3. \A y \in A : ~(y < x) /\ y \in Nat /\ x \in Nat  BY <1>2
<1> QED  BY <1>3

\* The last n of a finite set of places begin somewhere in it.
LEMMA LastBegin ==
  ASSUME NEW m \in Nat, NEW A, A \subseteq 1..m, NEW n \in Nat, n >= 1, n < Cardinality(A)
  PROVE  \E i \in A : Cardinality(UpFrom(A, i)) = n
<1> DEFINE B == {i \in A : Cardinality(UpFrom(A, i)) <= n}
<1>1. \A i : IsFiniteSet(UpFrom(A, i)) /\ Cardinality(UpFrom(A, i)) \in Nat
  <2>1. \A i : UpFrom(A, i) \subseteq 1..m  BY DEF UpFrom
  <2> QED  BY <2>1, SubsetCount
<1>2. Cardinality(A) \in Nat /\ A # {}
  <2>1. Cardinality(A) \in Nat  BY SubsetCount
  <2>2. Cardinality({}) = 0  BY FS_EmptySet
  <2> QED  BY <2>1, <2>2
<1>3. B # {}
  <2>1. PICK x \in A : \A y \in A : x >= y  BY <1>2, A \subseteq 0..m, MaxExists
  <2>2. UpFrom(A, x) = {x}
    <3>1. \A y \in A : y >= x => y = x  BY <2>1
    <3> QED  BY <2>1, <3>1 DEF UpFrom
  <2>3. Cardinality({x}) = 1  BY FS_Singleton
  <2> QED  BY <2>2, <2>3
<1>4. PICK i \in B : \A j \in B : i <= j
  <2>1. B \subseteq A /\ \A x \in A : x \in Nat  OBVIOUS
  <2> HIDE DEF B
  <2> QED  BY <1>3, <2>1, LeastExists
<1>5. i \in A /\ Cardinality(UpFrom(A, i)) <= n  BY <1>4
<1>6. CASE Cardinality(UpFrom(A, i)) < n
  <2> DEFINE L == A \ UpFrom(A, i)
  <2>1. L # {}
    <3>1. UpFrom(A, i) \subseteq A  BY DEF UpFrom
    <3>2. L = {} => UpFrom(A, i) = A  BY <3>1
    <3>3. Cardinality(UpFrom(A, i)) # Cardinality(A)  BY <1>1, <1>2, <1>6
    <3> QED  BY <3>2, <3>3
  <2>2. L \subseteq 0..m
    <3>1. \A x \in A : x \in 0..m  OBVIOUS
    <3>2. L \subseteq A  OBVIOUS
    <3> QED  BY <3>1, <3>2
  <2>3. PICK x \in L : \A y \in L : x >= y
    <3> HIDE DEF L
    <3> QED  BY <2>1, <2>2, MaxExists
  <2>4. x \in A /\ x < i /\ x \in Nat /\ i \in Nat  BY <1>5, <2>3 DEF UpFrom
  <2>5. UpFrom(A, x) = UpFrom(A, i) \cup {x}
    <3>1. ASSUME NEW y \in A, y >= x, y # x  PROVE y >= i
      <4>1. y \in L \/ y >= i  BY <3>1 DEF UpFrom
      <4>2. y \in L => x >= y  BY <2>3
      <4> QED  BY <2>4, <3>1, <4>1, <4>2
    <3>2. ASSUME NEW y \in A, y >= i  PROVE y >= x  BY <2>4, <3>2
    <3>3. \A y \in A : y >= x <=> y >= i \/ y = x  BY <2>4, <3>1, <3>2
    <3>4. \A y : y \in UpFrom(A, x) <=> y \in UpFrom(A, i) \cup {x}  BY <2>4, <3>3 DEF UpFrom
    <3> QED  BY <3>4
  <2>6. x \notin UpFrom(A, i)  BY <2>4 DEF UpFrom
  <2>7. Cardinality(UpFrom(A, x)) = Cardinality(UpFrom(A, i)) + 1  BY <1>1, <2>5, <2>6, FS_AddElement
  <2>8. x \in B  BY <1>1, <1>6, <2>4, <2>7
  <2> HIDE DEF B
  <2>9. i <= x  BY <1>4, <2>8
  <2> QED  BY <2>4, <2>9
<1> QED  BY <1>1, <1>5, <1>6

LEMMA Divided ==
  ASSUME NEW a \in Nat, NEW d \in Nat \ {0}
  PROVE  a \div d \in Nat /\ d * (a \div d) <= a /\ a < d * (a \div d) + d
OBVIOUS

\* The last part lies in the last chunk.
LEMMA ChunksReach ==
  ASSUME NEW a \in Nat, NEW b \in Nat, a < b, NEW d \in Nat \ {0}
  PROVE  a \div d < (b + d - 1) \div d
<1> DEFINE q == a \div d
           n == (b + d - 1) \div d
<1>1. b + d - 1 \in Nat  OBVIOUS
<1>2. q \in Nat /\ d * q <= a  BY Divided
<1>3. n \in Nat /\ b + d - 1 < d * n + d  BY <1>1, Divided
<1> HIDE DEF q, n
<1>4. d * q < d * n
  <2>1. d * q \in Nat /\ d * n \in Nat  BY <1>2, <1>3
  <2> QED  BY <1>2, <1>3, <2>1
<1>5. q < n
  <2> SUFFICES ASSUME q >= n  PROVE FALSE  BY <1>2, <1>3
  <2>1. q - n \in Nat  BY <1>2, <1>3
  <2>2. d * (q - n) \in Nat  BY <2>1
  <2>3. d * (q - n) = d * q - d * n  BY <1>2, <1>3
  <2>4. d * q \in Nat /\ d * n \in Nat  BY <1>2, <1>3
  <2> QED  BY <1>4, <2>2, <2>3, <2>4
<1> QED  BY <1>5 DEF q, n

LEMMA ChunksCover ==
  ASSUME NEW cut \in Nat \ {0}
  PROVE  /\ Len(C!Chunks(cut)) \in Nat /\ DOMAIN C!Chunks(cut) = 1 .. Len(C!Chunks(cut))
         /\ UNION C!Range(C!Chunks(cut)) = {C!Rendered(i) : i \in 1 .. cut - 1}
<1> DEFINE n == (cut - 1 + ChunkParts - 1) \div ChunkParts
           cs == C!Chunks(cut)
           Of(c) == {j \in 1 .. cut - 1 : (j - 1) \div ChunkParts = c - 1}
<1>1. n \in Nat
  <2>1. cut - 1 + ChunkParts - 1 \in Nat  BY ContextAssumption
  <2> QED  BY <2>1, ContextAssumption, Divided
<1>2. cs = [c \in 1 .. n |-> {C!Rendered(i) : i \in Of(c)}]  BY DEF C!Chunks
<1> HIDE DEF cs
<1>3. DOMAIN cs = 1 .. n /\ \A c \in 1 .. n : cs[c] = {C!Rendered(i) : i \in Of(c)}  BY <1>2
<1>4. Len(cs) = n  BY <1>1, <1>2
<1>5. ASSUME NEW i \in 1 .. cut - 1  PROVE \E c \in 1 .. n : i \in Of(c)
  <2> DEFINE c == (i - 1) \div ChunkParts + 1
  <2>1. i - 1 \in Nat /\ cut - 1 \in Nat /\ i - 1 < cut - 1  OBVIOUS
  <2>2. (i - 1) \div ChunkParts \in Nat  BY <2>1, ContextAssumption, Divided
  <2>3. (i - 1) \div ChunkParts < n  BY <2>1, ContextAssumption, ChunksReach
  <2> HIDE DEF n
  <2>4. c \in 1 .. n /\ (i - 1) \div ChunkParts = c - 1  BY <1>1, <2>2, <2>3
  <2> QED  BY <2>4
<1>6. \A c : Of(c) \subseteq 1 .. cut - 1  OBVIOUS
<1> HIDE DEF n, Of
<1>7. C!Range(cs) = {cs[c] : c \in 1 .. n}  BY <1>3 DEF C!Range
<1>8. UNION {cs[c] : c \in 1 .. n} = {C!Rendered(i) : i \in 1 .. cut - 1}
  <2> HIDE DEF C!Rendered
  <2>1. \A c \in 1 .. n : cs[c] \subseteq {C!Rendered(i) : i \in 1 .. cut - 1}  BY <1>3, <1>6
  <2>2. \A i \in 1 .. cut - 1 : \E c \in 1 .. n : C!Rendered(i) \in cs[c]  BY <1>3, <1>5
  <2> QED  BY <2>1, <2>2
<1> QED  BY <1>1, <1>3, <1>4, <1>7, <1>8 DEF cs

\* The beginning of a message is shown, and of the rest is told how long it is.
LEMMA ClipTells ==
  ASSUME NEW chars \in Nat, NEW limit \in Nat  PROVE C!Told(C!Clip(chars, limit), chars, limit)
BY DEF C!Told, C!Clip

LEMMA RenderedTells ==
  ASSUME NEW i \in DOMAIN messages, messages[i] \in ContextMessage
  PROVE  LET p == C!Rendered(i)
         IN /\ p.at = i /\ C!Told(p.text, messages[i].text, TextChars) /\ DOMAIN p.tools = DOMAIN messages[i].results
            /\ \A k \in DOMAIN p.tools : C!Told(p.tools[k], messages[i].results[k].chars, ToolChars)
<1> DEFINE rs == messages[i].results
           p == C!Rendered(i)
<1>1. messages[i].text \in Nat /\ rs \in Seq([id : Nat, chars : Lengths])  BY DEF ContextMessage
<1>2. p.at = i /\ p.text = C!Clip(messages[i].text, TextChars) /\ p.tools = [k \in DOMAIN rs |-> C!Clip(rs[k].chars, ToolChars)]
  BY DEF C!Rendered
<1>3. \A k \in DOMAIN rs : rs[k].chars \in Nat
  <2> DEFINE Results == [id : Nat, chars : Lengths]
  <2>1. rs \in Seq(Results)  BY <1>1
  <2> HIDE DEF rs, Results
  <2>2. \A k \in DOMAIN rs : rs[k] \in Results  BY <2>1
  <2> QED  BY <2>2, ContextAssumption DEF Results
<1> HIDE DEF rs, p
<1>4. TextChars \in Nat /\ ToolChars \in Nat  BY ContextAssumption
<1>5. \A k \in DOMAIN rs : C!Told(C!Clip(rs[k].chars, ToolChars), rs[k].chars, ToolChars)  BY <1>3, <1>4, ClipTells
<1>6. C!Told(p.text, messages[i].text, TextChars)  BY <1>1, <1>2, <1>4, ClipTells
<1> QED  BY <1>2, <1>5, <1>6 DEF rs, p

LEMMA SpanFacts ==
  ASSUME NEW a \in Nat, NEW n \in Nat, n >= 1
  PROVE  /\ a \in Span(a, n) /\ C!Cardinality(Span(a, n)) = n /\ C!Min(Span(a, n)) = a
         /\ {a + k - 1 : k \in 1 .. n} = Span(a, n)
<1>1. a \in Span(a, n) /\ \A x \in Span(a, n) : a <= x  BY DEF Span
<1>2. Cardinality(a .. a + n - 1) = n
  <2>1. a + n - 1 \in Int /\ a \in Int  OBVIOUS
  <2>2. Cardinality(a .. a + n - 1) = IF a > a + n - 1 THEN 0 ELSE (a + n - 1) - a + 1  BY <2>1, FS_Interval
  <2> QED  BY <2>2
<1>3. C!Cardinality(Span(a, n)) = n  BY <1>2 DEF C!Cardinality, Cardinality, Span
<1>4. C!Min(Span(a, n)) = a
  <2>1. \A x \in Span(a, n) : (\A y \in Span(a, n) : x <= y) => x = a  BY <1>1 DEF Span
  <2> QED  BY <1>1, <2>1 DEF C!Min
<1>5. {a + k - 1 : k \in 1 .. n} = Span(a, n)
  <2>1. ASSUME NEW x \in Span(a, n)  PROVE x \in {a + k - 1 : k \in 1 .. n}
    <3>1. x - a + 1 \in 1 .. n /\ x = a + (x - a + 1) - 1  BY <2>1 DEF Span
    <3> QED  BY <3>1
  <2>2. \A k \in 1 .. n : a + k - 1 \in Span(a, n)  BY DEF Span
  <2> QED  BY <2>1, <2>2
<1> QED  BY <1>1, <1>3, <1>4, <1>5

-----------------------------------------------------------------------------
(* The steps                                                               *)

LEMMA MessageFacts ==
  ASSUME AlternateInv
  PROVE  /\ Len(messages) \in Nat /\ DOMAIN messages = 1 .. Len(messages)
         /\ messages # <<>> => Len(messages) \in DOMAIN messages
         /\ \A i \in DOMAIN messages : messages[i] \in ContextMessage
BY DEF AlternateInv

\* A message is added: it answers the one before it, which it carries the results of, if that one calls.
LEMMA AddKeeps ==
  ASSUME ContextInv, C!Idle, NEW m \in ContextMessage, C!Add(m), nextId' \in Nat \ {0},
         m.role = "user" => m.uses = {},
         messages = <<>> => m.role = "user" /\ ~C!CarriesResults(m),
         messages # <<>> => /\ m.role = C!Newest.role => C!IsUserTurn(m)
                            /\ C!CarriesResults(m) => C!Ids(m.results) = C!Newest.uses
                            /\ C!Newest.uses # {} => C!CarriesResults(m)
  PROVE  ContextInv'
<1> DEFINE n == Len(messages)
<1>1. messages' = Append(messages, m) /\ UNCHANGED <<summary, job, compactions>> /\ job.at = "none" /\ n < MaxMessages
  BY DEF C!Add, C!Idle
<1>2. n \in Nat /\ DOMAIN messages = 1 .. n /\ (messages # <<>> => n \in DOMAIN messages) /\ (messages = <<>> => n = 0)
  BY MessageFacts DEF ContextInv
<1>3. /\ messages' \in Seq(ContextMessage) /\ Len(messages') = n + 1 /\ DOMAIN messages' = 1 .. n + 1
      /\ messages'[n + 1] = m /\ \A i \in 1 .. n : messages'[i] = messages[i]
  <2>1. messages \in Seq(ContextMessage)  BY DEF ContextInv, AlternateInv
  <2> HIDE DEF ContextMessage
  <2> QED  BY <1>1, <2>1
<1>4. ASSUME NEW i \in 1 .. n, messages'[i].role = messages'[i + 1].role  PROVE C!IsUserTurn(messages'[i + 1])
  <2>1. messages'[i] = messages[i]  BY <1>3
  <2>2. CASE i = n
    <3>1. messages # <<>>  BY <1>2
    <3> QED  BY <1>3, <1>4, <2>1, <2>2, <3>1 DEF C!Newest
  <2>3. CASE i # n
    <3>0. n \in Nat  BY <1>2
    <3> HIDE DEF n
    <3>1. i \in 1 .. n - 1 /\ i + 1 \in 1 .. n  BY <3>0, <2>3
    <3> USE DEF n
    <3>2. messages'[i + 1] = messages[i + 1]  BY <1>3, <3>1
    <3>3. C!IsUserTurn(messages[i + 1])  BY <1>4, <2>1, <3>1, <3>2 DEF ContextInv, AlternateInv
    <3> QED  BY <3>2, <3>3
  <2> QED  BY <2>2, <2>3
<1>5. ASSUME NEW i \in 1 .. n + 1
      PROVE  /\ messages'[i].role = "user" => messages'[i].uses = {}
             /\ C!CarriesResults(messages'[i]) => i > 1 /\ C!Ids(messages'[i].results) = messages'[i - 1].uses
  <2>1. CASE i \in 1 .. n
    <3>1. i > 1 => i - 1 \in 1 .. n  BY <1>2, <2>1
    <3>2. messages'[i] = messages[i] /\ (i > 1 => messages'[i - 1] = messages[i - 1])  BY <1>3, <2>1, <3>1
    <3>3. /\ messages[i].role = "user" => messages[i].uses = {}
          /\ C!CarriesResults(messages[i]) => i > 1 /\ C!Ids(messages[i].results) = messages[i - 1].uses
      BY <1>2, <2>1 DEF ContextInv, AlternateInv
    <3> QED  BY <3>2, <3>3
  <2>2. CASE i = n + 1
    <3>1. messages'[i] = m  BY <1>3, <2>2
    <3>2. C!CarriesResults(m) => messages # <<>> /\ C!Ids(m.results) = messages[n].uses  BY DEF C!Newest
    <3>3. messages # <<>> => i > 1 /\ i - 1 = n /\ messages'[n] = messages[n]  BY <1>2, <1>3, <2>2
    <3> QED  BY <2>2, <3>1, <3>2, <3>3
  <2> QED  BY <1>2, <2>1, <2>2
<1>6. ASSUME NEW i \in 1 .. n, messages'[i].uses # {}  PROVE C!CarriesResults(messages'[i + 1])
  <2>1. messages'[i] = messages[i]  BY <1>3
  <2>2. CASE i = n
    <3>1. messages # <<>>  BY <1>2
    <3> QED  BY <1>3, <1>6, <2>1, <2>2, <3>1 DEF C!Newest
  <2>3. CASE i # n
    <3>0. n \in Nat  BY <1>2
    <3> HIDE DEF n
    <3>1. i \in 1 .. n - 1 /\ i + 1 \in 1 .. n  BY <3>0, <2>3
    <3> USE DEF n
    <3>2. C!CarriesResults(messages[i + 1])  BY <1>6, <2>1, <3>1 DEF ContextInv, AlternateInv
    <3> QED  BY <1>3, <3>1, <3>2
  <2> QED  BY <2>2, <2>3
<1>7. n + 1 <= MaxMessages /\ n + 1 - 1 = n  BY <1>1, <1>2, ContextAssumption
<1>8. AlternateInv'
  <2>1. messages'[1].role = "user"
    <3>1. CASE messages = <<>>  BY <1>2, <1>3, <3>1
    <3>2. CASE messages # <<>>
      <4>1. messages'[1] = messages[1] /\ messages[1].role = "user"  BY <1>2, <1>3, <3>2 DEF ContextInv, AlternateInv
      <4> QED  BY <4>1
    <3> QED  BY <3>1, <3>2
  <2> HIDE DEF ContextMessage
  <2>2. \A i \in 1 .. Len(messages') - 1 : messages'[i].role = messages'[i + 1].role => C!IsUserTurn(messages'[i + 1])
    <3>1. Len(messages') - 1 = n
      <4>1. n \in Nat /\ Len(messages') = n + 1  BY <1>2, <1>3
      <4> HIDE DEF n
      <4> QED  BY <4>1
    <3> QED  BY <1>4, <3>1, Zenon
  <2> QED  BY <1>3, <1>5, <1>6, <1>7, <2>1, <2>2 DEF AlternateInv
<1>9. CompactionInv'  BY <1>1 DEF ContextInv, CompactionInv
<1> QED  BY <1>1, <1>8, <1>9 DEF ContextInv

LEMMA TalkKeeps == ASSUME ContextInv, C!Ask \/ C!Reply \/ C!Call \/ C!Results  PROVE ContextInv'
<1>1. nextId \in Nat \ {0}  BY DEF ContextInv
<1>2. {} \in Spans
  <2>1. Span(1, 0) = {}  BY DEF Span
  <2> QED  BY <2>1 DEF Spans
<1>3. <<>> \in Seq([id : Nat, chars : Lengths])  OBVIOUS
<1>4. messages # <<>> => C!Newest \in ContextMessage /\ (C!Newest.role = "user" => C!Newest.uses = {})
  BY MessageFacts DEF C!Newest, ContextInv, AlternateInv
<1>5. CASE C!Ask
  <2> DEFINE m == C!Message("user", 2, {}, <<>>)
  <2>1. m \in ContextMessage /\ m.role = "user" /\ m.uses = {} /\ ~C!CarriesResults(m) /\ C!IsUserTurn(m)
    BY <1>2, <1>3 DEF C!Message, C!CarriesResults, C!IsUserTurn, ContextMessage
  <2>2. C!Idle /\ C!Add(m) /\ (messages # <<>> => C!Newest.uses = {}) /\ UNCHANGED nextId
    BY <1>5 DEF C!Ask
  <2> HIDE DEF m
  <2> QED  BY <1>1, <2>1, <2>2, AddKeeps
<1>6. CASE C!Reply
  <2> DEFINE m == C!Message("assistant", 2, {}, <<>>)
  <2>1. m \in ContextMessage /\ m.role = "assistant" /\ m.uses = {} /\ ~C!CarriesResults(m)
    BY <1>2, <1>3 DEF C!Message, C!CarriesResults, ContextMessage
  <2>2. C!Idle /\ C!Add(m) /\ messages # <<>> /\ C!Newest.role = "user" /\ UNCHANGED nextId
    BY <1>6 DEF C!Reply
  <2> HIDE DEF m
  <2> QED  BY <1>1, <1>4, <2>1, <2>2, AddKeeps
<1>7. CASE C!Call
  <2>1. PICK n \in 1 .. 2 : C!Add(C!Message("assistant", 0, nextId .. nextId + n - 1, <<>>)) /\ nextId' = nextId + n
    BY <1>7 DEF C!Call
  <2> DEFINE m == C!Message("assistant", 0, nextId .. nextId + n - 1, <<>>)
  <2>2. nextId .. nextId + n - 1 \in Spans
    <3>1. Span(nextId, n) \in Spans  BY <1>1 DEF Spans
    <3> QED  BY <3>1 DEF Span
  <2>3. m \in ContextMessage /\ m.role = "assistant" /\ ~C!CarriesResults(m)
    BY <1>3, <2>2 DEF C!Message, C!CarriesResults, ContextMessage
  <2>4. C!Idle /\ messages # <<>> /\ C!Newest.role = "user" /\ nextId' \in Nat \ {0}
    BY <1>1, <1>7, <2>1 DEF C!Call
  <2>5. C!Add(m)  BY <2>1
  <2> HIDE DEF m
  <2> QED  BY <1>4, <2>3, <2>4, <2>5, AddKeeps
<1>8. CASE C!Results
  <2>1. C!Idle /\ messages # <<>> /\ C!Newest.uses # {} /\ UNCHANGED nextId  BY <1>8 DEF C!Results
  <2>2. PICK size \in [C!Newest.uses -> Lengths], note \in {0, 2} :
          C!Add(C!Message("user", note, {}, [k \in 1 .. C!Cardinality(C!Newest.uses) |->
                LET id == C!Min(C!Newest.uses) + k - 1 IN [id |-> id, chars |-> size[id]]]))
    BY <1>8 DEF C!Results
  <2>3. PICK a \in Nat, n \in Nat : C!Newest.uses = Span(a, n)
    <3>1. C!Newest.uses \in Spans  BY <1>4, <2>1 DEF ContextMessage
    <3> QED  BY <3>1 DEF Spans
  <2>4. n >= 1
    <3>1. Span(a, 0) = {}  BY DEF Span
    <3> QED  BY <2>1, <2>3, <3>1
  <2>5. /\ C!Cardinality(C!Newest.uses) = n /\ C!Min(C!Newest.uses) = a /\ {a + k - 1 : k \in 1 .. n} = C!Newest.uses
    <3>1. /\ C!Cardinality(Span(a, n)) = n /\ C!Min(Span(a, n)) = a /\ {a + k - 1 : k \in 1 .. n} = Span(a, n)
      BY <2>4, SpanFacts
    <3> QED  BY <2>3, <3>1, Zenon
  <2> DEFINE rs == [k \in 1 .. n |-> [id |-> a + k - 1, chars |-> size[a + k - 1]]]
             m == C!Message("user", note, {}, rs)
  <2>6. rs \in Seq([id : Nat, chars : Lengths]) /\ rs # <<>> /\ C!Ids(rs) = C!Newest.uses
    <3>1. ASSUME NEW k \in 1 .. n  PROVE [id |-> a + k - 1, chars |-> size[a + k - 1]] \in [id : Nat, chars : Lengths]
      <4>1. a + k - 1 \in C!Newest.uses /\ a + k - 1 \in Nat  BY <2>5
      <4>2. size[a + k - 1] \in Lengths  BY <4>1
      <4> QED  BY <4>1, <4>2
    <3>2. DOMAIN rs = 1 .. n /\ \A k \in 1 .. n : rs[k] = [id |-> a + k - 1, chars |-> size[a + k - 1]]  OBVIOUS
    <3>3. rs \in [1 .. n -> [id : Nat, chars : Lengths]]  BY <3>1
    <3>4. rs \in Seq([id : Nat, chars : Lengths])  BY <3>3
    <3> HIDE DEF rs
    <3>5. rs # <<>>  BY <2>4, <3>2
    <3>6. C!Ids(rs) = {a + k - 1 : k \in 1 .. n}  BY <3>2 DEF C!Ids
    <3> QED  BY <2>5, <3>4, <3>5, <3>6
  <2>7. C!Add(m)  BY <2>2, <2>5
  <2> HIDE DEF rs
  <2>8. m \in ContextMessage /\ m.role = "user" /\ m.uses = {} /\ C!CarriesResults(m) /\ m.results = rs
    BY <1>2, <2>6 DEF C!Message, C!CarriesResults, ContextMessage
  <2>9. C!Newest.role # "user" /\ C!Newest.role \in {"user", "assistant"}  BY <1>4, <2>1 DEF ContextMessage
  <2> HIDE DEF m
  <2> QED  BY <1>1, <2>1, <2>6, <2>7, <2>8, <2>9, AddKeeps
<1> QED  BY <1>5, <1>6, <1>7, <1>8

\* Where a conversation is cut a turn of the person begins.
LEMMA CutIsTurn ==
  ASSUME AlternateInv, NEW target, C!PlanCompaction(messages, target) # 0
  PROVE  C!PlanCompaction(messages, target) \in DOMAIN messages /\ C!IsUserTurn(messages[C!PlanCompaction(messages, target)])
<1> DEFINE fits == {n \in 1 .. KeepTurns : n < C!Cardinality(C!Turns(messages)) /\ C!Sensible(messages, n, target)}
           k == C!Max(fits)
<1>1. fits # {} /\ C!PlanCompaction(messages, target) = C!From(messages, k)  BY DEF C!PlanCompaction
<1>2. k \in fits
  <2>1. fits \subseteq 0 .. KeepTurns  BY ContextAssumption
  <2> HIDE DEF fits
  <2>2. \E x \in fits : \A y \in fits : x >= y  BY <1>1, <2>1, ContextAssumption, MaxExists
  <2> QED  BY <2>2 DEF C!Max
<1> HIDE DEF k
<1>3. k \in Nat /\ k >= 1 /\ k < C!Cardinality(C!Turns(messages))  BY <1>2, ContextAssumption
<1>4. C!Turns(messages) \subseteq 1 .. Len(messages) /\ Len(messages) \in Nat  BY MessageFacts DEF C!Turns
<1>5. k < Cardinality(C!Turns(messages))  BY <1>3 DEF C!Cardinality, Cardinality
<1>6. \E i \in C!Turns(messages) : Cardinality(UpFrom(C!Turns(messages), i)) = k  BY <1>3, <1>4, <1>5, LastBegin
<1>7. \A i : C!Cardinality({j \in C!Turns(messages) : j >= i}) = Cardinality(UpFrom(C!Turns(messages), i))
  BY DEF C!Cardinality, Cardinality, UpFrom
<1>8. C!From(messages, k) \in C!Turns(messages)  BY <1>6, <1>7 DEF C!From
<1> QED  BY <1>1, <1>8 DEF C!Turns

LEMMA Asking ==
  ASSUME UNCHANGED messages, NEW cut, NEW chunks, NEW done, NEW attempt \in 0 .. 1,
         job' = [at |-> "asking", cut |-> cut, chunks |-> chunks, done |-> done, attempt |-> attempt],
         cut \in DOMAIN messages, C!IsUserTurn(messages[cut]), chunks = C!Chunks(cut),
         done \in Seq({"whole"}), Len(done) <= Len(chunks)
  PROVE  CompactionInv'
<1>1. job'.at = "asking" /\ job'.cut = cut /\ job'.chunks = chunks /\ job'.done = done /\ job'.attempt = attempt  OBVIOUS
<1>2. C!IsUserTurn(messages[job.cut])' <=> C!IsUserTurn(messages[cut])  BY <1>1 DEF C!IsUserTurn, C!CarriesResults
<1>3. C!Chunks(job.cut)' = C!Chunks(cut)  BY <1>1 DEF C!Chunks, C!Rendered
<1> HIDE DEF C!Chunks, C!IsUserTurn
<1> QED  BY <1>1, <1>2, <1>3 DEF CompactionInv

LEMMA CompactionStarts == ASSUME ContextInv, NEW target \in Targets, C!Compact(target)  PROVE ContextInv'
<1> DEFINE cut == C!PlanCompaction(messages, target)
<1>1. /\ UNCHANGED <<messages, summary, nextId>> /\ compactions < MaxJobs /\ compactions' = compactions + 1 /\ cut # 0
      /\ job' = [at |-> "asking", cut |-> cut, chunks |-> C!Chunks(cut), done |-> <<>>, attempt |-> 0]
  BY DEF C!Compact
<1>2. cut \in DOMAIN messages /\ C!IsUserTurn(messages[cut])  BY <1>1, CutIsTurn DEF ContextInv
<1> HIDE DEF cut
<1>3. cut \in Nat \ {0}  BY <1>2, MessageFacts DEF ContextInv
<1>4. Len(C!Chunks(cut)) \in Nat  BY <1>3, ChunksCover
<1>5. CompactionInv'
  <2>1. <<>> \in Seq({"whole"}) /\ Len(<<>>) = 0  OBVIOUS
  <2>2. 0 <= Len(C!Chunks(cut))  BY <1>4
  <2> DEFINE chunks == C!Chunks(cut)
             done == <<>>
             attempt == 0
  <2>3. job' = [at |-> "asking", cut |-> cut, chunks |-> chunks, done |-> done, attempt |-> attempt]  BY <1>1
  <2>4. UNCHANGED messages /\ attempt \in 0 .. 1 /\ chunks = C!Chunks(cut) /\ Len(done) <= Len(chunks) /\ done \in Seq({"whole"})
    BY <1>1, <2>1, <2>2
  <2> HIDE DEF chunks, done, attempt
  <2> QED  BY <1>2, <2>3, <2>4, Asking
<1>6. AlternateInv'  BY <1>1 DEF ContextInv, AlternateInv
<1>7. compactions' \in 0 .. MaxJobs  BY <1>1, ContextAssumption DEF ContextInv
<1> QED  BY <1>1, <1>5, <1>6, <1>7 DEF ContextInv

LEMMA AnsweredKeeps == ASSUME ContextInv, NEW answer, C!Answered(answer)  PROVE ContextInv'
<1>1. /\ UNCHANGED <<messages, summary, nextId, compactions>> /\ job.at = "asking" /\ Len(job.done) < Len(job.chunks)
      /\ job' = IF C!Usable(answer) THEN [job EXCEPT !.done = Append(@, answer), !.attempt = 0]
                ELSE IF answer = "cut off" /\ job.attempt = 0 THEN [job EXCEPT !.attempt = 1]
                ELSE C!NoJob
  BY DEF C!Answered
<1>2. AlternateInv'  BY <1>1 DEF ContextInv, AlternateInv
<1>3. /\ job.cut \in DOMAIN messages /\ C!IsUserTurn(messages[job.cut])
      /\ job.chunks = C!Chunks(job.cut)
      /\ job.done \in Seq({"whole"}) /\ Len(job.done) <= Len(job.chunks)
      /\ job = [at |-> "asking", cut |-> job.cut, chunks |-> job.chunks, done |-> job.done, attempt |-> job.attempt]
  BY <1>1 DEF ContextInv, CompactionInv
<1>4. Len(job.chunks) \in Nat
  <2>1. job.cut \in Nat \ {0}  BY <1>3, MessageFacts DEF ContextInv
  <2> QED  BY <1>3, <2>1, ChunksCover
<1>5. CompactionInv'
  <2>1. CASE C!Usable(answer)
    <3>1. answer = "whole"  BY <2>1 DEF C!Usable
    <3> DEFINE more == Append(job.done, "whole")
    <3>2. more \in Seq({"whole"}) /\ Len(more) = Len(job.done) + 1 /\ Len(job.done) \in Nat  BY <1>3
    <3>3. job' = [at |-> "asking", cut |-> job.cut, chunks |-> job.chunks, done |-> more, attempt |-> 0]
      BY <1>1, <1>3, <2>1, <3>1
    <3> HIDE DEF more
    <3>4. Len(job.done) < Len(job.chunks)  BY <1>1
    <3>5. Len(more) <= Len(job.chunks)  BY <1>4, <3>2, <3>4
    <3>6. UNCHANGED messages  BY <1>1
    <3>7. 0 \in 0 .. 1  OBVIOUS
    <3> QED  BY <1>3, <3>2, <3>3, <3>5, <3>6, <3>7, Asking
  <2>2. CASE ~C!Usable(answer) /\ answer = "cut off" /\ job.attempt = 0
    <3>1. job' = [at |-> "asking", cut |-> job.cut, chunks |-> job.chunks, done |-> job.done, attempt |-> 1]
      BY <1>1, <1>3, <2>2
    <3>2. UNCHANGED messages  BY <1>1
    <3>7. 1 \in 0 .. 1  OBVIOUS
    <3> QED  BY <1>3, <3>1, <3>2, <3>7, Asking
  <2>3. CASE ~C!Usable(answer) /\ ~(answer = "cut off" /\ job.attempt = 0)
    <3>1. job' = C!NoJob  BY <1>1, <2>3
    <3> QED  BY <3>1 DEF CompactionInv, C!NoJob
  <2> QED  BY <2>1, <2>2, <2>3
<1> QED  BY <1>1, <1>2, <1>5 DEF ContextInv

LEMMA StoreKeeps == ASSUME ContextInv, C!StoreSummary  PROVE ContextInv' /\ C!HeadWasRead
<1> DEFINE n == Len(messages)
           cut == job.cut
<1>1. /\ UNCHANGED <<nextId, compactions>> /\ job.at = "asking" /\ Len(job.done) = Len(job.chunks) /\ job' = C!NoJob
      /\ messages' = SubSeq(messages, cut, n) /\ summary' = summary + cut - 1
  BY DEF C!StoreSummary, C!Kept
<1>2. n \in Nat /\ DOMAIN messages = 1 .. n /\ n <= MaxMessages /\ \A i \in 1 .. n : messages[i] \in ContextMessage
  BY MessageFacts DEF ContextInv, AlternateInv
<1>3. /\ cut \in 1 .. n /\ C!IsUserTurn(messages[cut]) /\ job.chunks = C!Chunks(cut) /\ job.done \in Seq({"whole"})
  BY <1>1, <1>2 DEF ContextInv, CompactionInv
<1> HIDE DEF cut
<1>4. /\ Len(messages') = n - cut + 1 /\ DOMAIN messages' = 1 .. n - cut + 1
      /\ \A i \in 1 .. n - cut + 1 : messages'[i] = messages[cut + i - 1]
      /\ messages' \in Seq(ContextMessage)
  <2>1. messages \in Seq(ContextMessage)  BY DEF ContextInv, AlternateInv
  <2> HIDE DEF ContextMessage
  <2>2. messages' \in Seq(ContextMessage)  BY <1>1, <1>2, <1>3, <2>1
  <2>3. Len(messages') = n - cut + 1  BY <1>1, <1>2, <1>3, <2>1
  <2>4. \A i \in 1 .. n - cut + 1 : messages'[i] = messages[cut + i - 1]  BY <1>1, <1>2, <1>3, <2>1
  <2> QED  BY <2>2, <2>3, <2>4
<1>5. messages[cut].role = "user" /\ ~C!CarriesResults(messages[cut])
  BY <1>2, <1>3 DEF ContextInv, AlternateInv, C!IsUserTurn
<1>6. ASSUME NEW i \in 1 .. n - cut + 1
      PROVE  /\ messages'[i].role = "user" => messages'[i].uses = {}
             /\ C!CarriesResults(messages'[i]) => i > 1 /\ C!Ids(messages'[i].results) = messages'[i - 1].uses
  <2> DEFINE j == cut + i - 1
  <2>1. j \in 1 .. n /\ messages'[i] = messages[j]  BY <1>2, <1>3, <1>4
  <2>2. /\ messages[j].role = "user" => messages[j].uses = {}
        /\ C!CarriesResults(messages[j]) => j > 1 /\ C!Ids(messages[j].results) = messages[j - 1].uses
    BY <1>2, <2>1 DEF ContextInv, AlternateInv
  <2>4. i > 1 => i - 1 \in 1 .. n - cut + 1 /\ messages'[i - 1] = messages[j - 1]
    <3>1. i > 1 => i - 1 \in 1 .. n - cut + 1 /\ cut + (i - 1) - 1 = j - 1  BY <1>2, <1>3
    <3> QED  BY <1>4, <3>1
  <2>5. i = 1 => j = cut  BY <1>2, <1>3
  <2>6. i = 1 \/ i > 1  BY <1>2, <1>3
  <2> HIDE DEF j
  <2> QED  BY <1>5, <2>1, <2>2, <2>4, <2>5, <2>6
<1>7. ASSUME NEW i \in 1 .. n - cut
      PROVE  /\ messages'[i].uses # {} => C!CarriesResults(messages'[i + 1])
             /\ messages'[i].role = messages'[i + 1].role => C!IsUserTurn(messages'[i + 1])
  <2>1. /\ i \in 1 .. n - cut + 1 /\ i + 1 \in 1 .. n - cut + 1 /\ cut + i - 1 \in 1 .. n - 1 /\ cut + (i + 1) - 1 = cut + i - 1 + 1
    BY <1>2, <1>3
  <2>2. messages'[i] = messages[cut + i - 1] /\ messages'[i + 1] = messages[cut + i - 1 + 1]  BY <1>4, <2>1
  <2> QED  BY <2>1, <2>2 DEF ContextInv, AlternateInv
<1>8. n - cut + 1 <= MaxMessages /\ n - cut + 1 - 1 = n - cut  BY <1>2, <1>3, ContextAssumption
<1>9. AlternateInv'
  <2>0. Len(messages') = n - cut + 1  BY <1>4
  <2>1. Len(messages') - 1 = n - cut
    <3>1. n \in Nat /\ cut \in Nat  BY <1>2, <1>3
    <3> HIDE DEF n
    <3> QED  BY <2>0, <3>1
  <2>2. \A i \in 1 .. Len(messages') - 1 : messages'[i].uses # {} => C!CarriesResults(messages'[i + 1])  BY <1>7, <2>1, Zenon
  <2>3. Len(messages') <= MaxMessages  BY <1>4, <1>8
  <2>4. messages'[1].role = "user"
    <3>1. 1 \in 1 .. n - cut + 1 /\ cut + 1 - 1 = cut  BY <1>2, <1>3
    <3>2. messages'[1] = messages[cut]  BY <1>4, <3>1
    <3> QED  BY <1>5, <3>2
  <2>5. \A i \in 1 .. Len(messages') - 1 : messages'[i].role = messages'[i + 1].role => C!IsUserTurn(messages'[i + 1])
    BY <1>7, <2>1, Zenon
  <2> HIDE DEF ContextMessage
  <2> QED  BY <1>4, <1>6, <2>2, <2>3, <2>4, <2>5 DEF AlternateInv
<1>10. CompactionInv'  BY <1>1 DEF CompactionInv, C!NoJob
<1>11. summary' \in Nat  BY <1>1, <1>2, <1>3 DEF ContextInv
<1>12. ContextInv'  BY <1>1, <1>9, <1>10, <1>11 DEF ContextInv
<1>13. C!HeadWasRead
  <2> DEFINE shown == UNION C!Range(job.chunks)
  <2>1. cut \in Nat \ {0}  BY <1>2, <1>3
  <2>2. n - (n - cut + 1) = cut - 1  BY <1>2, <1>3
  <2>3. shown = {C!Rendered(i) : i \in 1 .. cut - 1}  BY <1>3, <2>1, ChunksCover
  <2>4. DOMAIN job.chunks = 1 .. Len(job.done)  BY <1>1, <1>3, <2>1, ChunksCover
  <2>5. \A k \in 1 .. Len(job.done) : job.done[k] = "whole"
    <3>1. \A k \in 1 .. Len(job.done) : job.done[k] \in {"whole"}  BY <1>3
    <3> QED  BY <3>1
  <2>6. ASSUME NEW i \in 1 .. cut - 1
        PROVE  LET p == C!Rendered(i)
               IN /\ p.at = i /\ C!Told(p.text, messages[i].text, TextChars) /\ DOMAIN p.tools = DOMAIN messages[i].results
                  /\ \A k \in DOMAIN p.tools : C!Told(p.tools[k], messages[i].results[k].chars, ToolChars)
    <3>1. i \in 1 .. n  BY <1>2, <1>3
    <3> QED  BY <1>2, <3>1, RenderedTells, Zenon
  <2> HIDE DEF shown, C!Rendered, C!Told
  <2>7. {p.at : p \in shown} = 1 .. cut - 1
    <3>1. \A i \in 1 .. cut - 1 : C!Rendered(i).at = i  BY <2>6
    <3> QED  BY <2>3, <3>1
  <2>8. \A p \in shown :
           /\ C!Told(p.text, messages[p.at].text, TextChars)
           /\ DOMAIN p.tools = DOMAIN messages[p.at].results
           /\ \A k \in DOMAIN p.tools : C!Told(p.tools[k], messages[p.at].results[k].chars, ToolChars)
    BY <2>3, <2>6
  <2>9. 1 .. cut - 1 = 1 .. n - Len(messages')  BY <1>4, <2>2
  <2> QED  BY <2>4, <2>5, <2>7, <2>8, <2>9 DEF C!HeadWasRead, shown
<1> QED  BY <1>12, <1>13

LEMMA ContextKeep == ASSUME ContextInv, C!Next  PROVE ContextInv' /\ C!HeadWasRead
<1>1. CASE C!Ask \/ C!Reply \/ C!Call \/ C!Results
  <2>1. ContextInv'  BY <1>1, TalkKeeps
  <2>2. UNCHANGED summary  BY <1>1 DEF C!Ask, C!Reply, C!Call, C!Results, C!Add
  <2> QED  BY <2>1, <2>2 DEF C!HeadWasRead
<1>2. CASE C!StoreSummary  BY <1>2, StoreKeeps
<1>3. CASE \E t \in Targets : C!Compact(t)
  <2>1. PICK t \in Targets : C!Compact(t)  BY <1>3
  <2>2. UNCHANGED summary  BY <2>1 DEF C!Compact
  <2> QED  BY <2>1, <2>2, CompactionStarts DEF C!HeadWasRead
<1>4. CASE \E a \in {"whole", "cut off", "empty", "failed"} : C!Answered(a)
  <2>1. PICK a : C!Answered(a)  BY <1>4
  <2>2. UNCHANGED summary  BY <2>1 DEF C!Answered
  <2> QED  BY <2>1, <2>2, AnsweredKeeps DEF C!HeadWasRead
<1> QED  BY <1>1, <1>2, <1>3, <1>4 DEF C!Next

\* What is sent is the stored conversation, with the summary in its first message.
LEMMA ContextValid == ASSUME ContextInv  PROVE C!RequestIsValid
<1> DEFINE ms == C!WithSummary
<1>1. DOMAIN messages = 1 .. Len(messages) /\ Len(messages) \in Nat /\ \A i \in DOMAIN messages : messages[i] \in ContextMessage
  BY MessageFacts DEF ContextInv
<1>2. CASE messages = <<>> /\ summary # 0
  <2>1. ms = <<C!Note>>  BY <1>2 DEF C!WithSummary
  <2>2. C!Note.role = "user" /\ ~C!CarriesResults(C!Note)  BY DEF C!Note, C!Message, C!CarriesResults
  <2> HIDE DEF ms
  <2>3. Len(ms) = 1 /\ DOMAIN ms = {1} /\ ms[1] = C!Note  BY <2>1
  <2>4. C!Doubled(ms) = {} /\ C!Doubled(messages) = {}
    <3>1. Len(messages) = 0  BY <1>2
    <3> QED  BY <2>3, <3>1 DEF C!Doubled
  <2> QED  BY <2>2, <2>3, <2>4 DEF C!RequestIsValid, ms
<1>3. CASE ~(messages = <<>> /\ summary # 0)
  <2>1. /\ DOMAIN ms = DOMAIN messages /\ Len(ms) = Len(messages)
        /\ \A i \in DOMAIN messages : ms[i].role = messages[i].role /\ ms[i].uses = messages[i].uses /\ ms[i].results = messages[i].results
    <3>1. CASE summary = 0  BY <3>1 DEF C!WithSummary
    <3>2. CASE summary # 0
      <4>1. messages # <<>> /\ 1 \in DOMAIN messages  BY <1>1, <1>3, <3>2
      <4>2. messages[1].role = "user"  BY <4>1 DEF ContextInv, AlternateInv
      <4>3. ms = [messages EXCEPT ![1].text = @ + C!Note.text]  BY <3>2, <4>1, <4>2 DEF C!WithSummary
      <4>4. ms = [messages EXCEPT ![1] = [messages[1] EXCEPT !.text = @ + C!Note.text]]  BY <4>3
      <4> DEFINE first == [messages[1] EXCEPT !.text = @ + C!Note.text]
      <4>5. first.role = messages[1].role /\ first.uses = messages[1].uses /\ first.results = messages[1].results
        BY <1>1, <4>1 DEF ContextMessage
      <4> HIDE DEF first, ms
      <4>6. DOMAIN ms = DOMAIN messages /\ \A i \in DOMAIN messages : ms[i] = IF i = 1 THEN first ELSE messages[i]
        BY <4>4 DEF first
      <4>7. Len(ms) = Len(messages)
        <5>1. messages \in Seq(ContextMessage)  BY DEF ContextInv, AlternateInv
        <5>2. ms \in [1 .. Len(messages) -> {ms[i] : i \in DOMAIN messages}]  BY <1>1, <4>4, <4>6
        <5> QED  BY <1>1, <5>2
      <4> QED  BY <4>5, <4>6, <4>7
    <3> QED  BY <3>1, <3>2
  <2> HIDE DEF ms
  <2>2. \A i \in DOMAIN messages : C!CarriesResults(ms[i]) <=> C!CarriesResults(messages[i])  BY <2>1 DEF C!CarriesResults
  <2>3. ms # <<>> => ms[1].role = "user"
    <3>1. ms # <<>> => messages # <<>>  BY <1>3, <2>1 DEF ms, C!WithSummary
    <3>2. messages # <<>> => 1 \in DOMAIN messages /\ messages[1].role = "user"  BY <1>1 DEF ContextInv, AlternateInv
    <3> QED  BY <2>1, <3>1, <3>2
  <2>6. C!Doubled(ms) = C!Doubled(messages)
    <3>1. \A i \in 1 .. Len(messages) - 1 : i \in DOMAIN messages /\ i + 1 \in DOMAIN messages  BY <1>1
    <3> QED  BY <2>1, <3>1 DEF C!Doubled
  <2>7. ASSUME NEW i \in C!Doubled(ms)  PROVE C!IsUserTurn(ms[i + 1])
    <3>1. i \in 1 .. Len(messages) - 1 /\ messages[i].role = messages[i + 1].role  BY <2>6 DEF C!Doubled
    <3>2. C!IsUserTurn(messages[i + 1]) /\ i + 1 \in DOMAIN messages  BY <1>1, <3>1 DEF ContextInv, AlternateInv
    <3> QED  BY <2>1, <2>2, <3>2 DEF C!IsUserTurn
  <2>4. ASSUME NEW i \in DOMAIN ms, C!CarriesResults(ms[i])  PROVE i > 1 /\ C!Ids(ms[i].results) = ms[i - 1].uses
    <3>1. i > 1 /\ C!Ids(messages[i].results) = messages[i - 1].uses  BY <2>1, <2>2, <2>4 DEF ContextInv, AlternateInv
    <3>2. i - 1 \in DOMAIN messages  BY <1>1, <2>1, <3>1
    <3> QED  BY <2>1, <3>1, <3>2
  <2>5. ASSUME NEW i \in 1 .. Len(ms) - 1, ms[i].uses # {}  PROVE C!CarriesResults(ms[i + 1])
    <3>1. i \in DOMAIN messages /\ i + 1 \in DOMAIN messages /\ i \in 1 .. Len(messages) - 1  BY <1>1, <2>1
    <3>2. C!CarriesResults(messages[i + 1])  BY <2>1, <2>5, <3>1 DEF ContextInv, AlternateInv
    <3> QED  BY <2>2, <3>1, <3>2
  <2> QED  BY <2>3, <2>4, <2>5, <2>6, <2>7 DEF C!RequestIsValid, ms
<1> QED  BY <1>2, <1>3



-----------------------------------------------------------------------------
(* Going through a sequence                                                *)

LEMMA Climb ==
  ASSUME NEW m \in Nat, NEW G, 0 \in G, \A i \in 1 .. m : i - 1 \in G => i \in G
  PROVE  \A i \in 0 .. m : i \in G
<1> DEFINE B == {i \in 0 .. m : i \notin G}
<1>1. ASSUME B # {}  PROVE FALSE
  <2>1. B \subseteq Nat  OBVIOUS
  <2>2. PICK i \in B : \A x \in B : i <= x
    <3> HIDE DEF B
    <3> QED  BY <1>1, <2>1, LeastExists
  <2>3. i \in 1 .. m /\ i - 1 \in 0 .. m /\ ~(i <= i - 1)  BY <2>2
  <2>4. i - 1 \in G  BY <2>2, <2>3
  <2> QED  BY <2>2, <2>3, <2>4
<1> QED  BY <1>1

\* What is computed place by place is computed.
HasFold(m, A, z, step) == \E f \in [0 .. m -> A] : f[0] = z /\ \A i \in 1 .. m : f[i] = step[i][f[i - 1]]

LEMMA FoldExists == ASSUME NEW m \in Nat, NEW A, NEW z \in A, NEW step \in [1 .. m -> [A -> A]]  PROVE HasFold(m, A, z, step)
<1> DEFINE G == {n \in 0 .. m : \E f \in [0 .. n -> A] : f[0] = z /\ \A i \in 1 .. n : f[i] = step[i][f[i - 1]]}
<1>1. 0 \in G
  <2> DEFINE f == [i \in 0 .. 0 |-> z]
  <2>1. f \in [0 .. 0 -> A] /\ f[0] = z /\ 1 .. 0 = {}  OBVIOUS
  <2> HIDE DEF f
  <2> QED  BY <2>1
<1>2. ASSUME NEW n \in 1 .. m, n - 1 \in G  PROVE n \in G
  <2>1. PICK g \in [0 .. n - 1 -> A] : g[0] = z /\ \A i \in 1 .. n - 1 : g[i] = step[i][g[i - 1]]  BY <1>2
  <2> DEFINE f == [i \in 0 .. n |-> IF i = n THEN step[n][g[n - 1]] ELSE g[i]]
  <2>2. n \in Nat /\ n > 0 /\ n - 1 \in 0 .. n - 1 /\ 0 \in 0 .. n /\ n \in 0 .. n  BY <1>2
  <2>3. step[n][g[n - 1]] \in A
    <3>1. g[n - 1] \in A  BY <2>1, <2>2
    <3> QED  BY <1>2, <3>1
  <2>4. \A i \in 0 .. n : i # n => i \in 0 .. n - 1  BY <2>2
  <2>5. f \in [0 .. n -> A]  BY <2>1, <2>3, <2>4
  <2>6. f[n] = step[n][g[n - 1]] /\ \A i \in 0 .. n - 1 : i \in 0 .. n /\ f[i] = g[i]
    <3>1. \A i \in 0 .. n - 1 : i \in 0 .. n /\ i # n  BY <2>2
    <3> QED  BY <2>2, <3>1
  <2> HIDE DEF f
  <2>7. f[0] = z  BY <2>1, <2>2, <2>6
  <2>8. ASSUME NEW i \in 1 .. n  PROVE f[i] = step[i][f[i - 1]]
    <3>1. CASE i = n  BY <2>2, <2>6, <3>1
    <3>2. CASE i # n
      <4>1. i \in 1 .. n - 1 /\ i \in 0 .. n - 1 /\ i - 1 \in 0 .. n - 1  BY <2>2, <3>2
      <4> QED  BY <2>1, <2>6, <4>1
    <3> QED  BY <3>1, <3>2
  <2>9. n \in 0 .. m  BY <1>2
  <2> QED  BY <2>5, <2>7, <2>8, <2>9
<1> HIDE DEF G
<1>3. m \in G
  <2>1. \A i \in 0 .. m : i \in G  BY <1>1, <1>2, Climb
  <2> QED  BY <2>1
<1> QED  BY <1>3 DEF G, HasFold

SumUp(f, s) == f = [n \in 0 .. Len(s) |-> IF n = 0 THEN 0 ELSE f[n - 1] + s[n]]

LEMMA SumIs ==
  ASSUME NEW s \in Seq(Nat)
  PROVE  \E f \in [0 .. Len(s) -> Nat] : f[0] = 0 /\ (\A i \in 1 .. Len(s) : f[i] = f[i - 1] + s[i]) /\ C!Sum(s) = f[Len(s)]
<1> DEFINE n == Len(s)
           step == [i \in 1 .. n |-> [a \in Nat |-> a + s[i]]]
           f == CHOOSE ff : SumUp(ff, s)
<1>1. n \in Nat /\ \A i \in 1 .. n : s[i] \in Nat  OBVIOUS
<1>2. \E ff : SumUp(ff, s)
  <2>1. step \in [1 .. n -> [Nat -> Nat]]  BY <1>1
  <2>2. \A i \in 1 .. n, a \in Nat : step[i][a] = a + s[i]  OBVIOUS
  <2> HIDE DEF step, n
  <2>3. PICK g \in [0 .. n -> Nat] : g[0] = 0 /\ \A i \in 1 .. n : g[i] = step[i][g[i - 1]]
    <3>1. n \in Nat /\ 0 \in Nat  BY <1>1
    <3>2. HasFold(n, Nat, 0, step)  BY <2>1, <3>1, FoldExists, Zenon
    <3> QED  BY <3>2 DEF HasFold
  <2>4. ASSUME NEW i \in 0 .. n  PROVE g[i] = IF i = 0 THEN 0 ELSE g[i - 1] + s[i]
    <3>1. CASE i = 0  BY <2>3, <3>1
    <3>2. CASE i # 0
      <4>1. i \in 1 .. n /\ i - 1 \in 0 .. n  BY <1>1, <3>2
      <4>2. g[i - 1] \in Nat  BY <2>3, <4>1
      <4> QED  BY <2>2, <2>3, <3>2, <4>1, <4>2
    <3> QED  BY <3>1, <3>2
  <2>5. g = [i \in 0 .. n |-> g[i]]  BY <2>3
  <2>6. g = [i \in 0 .. n |-> IF i = 0 THEN 0 ELSE g[i - 1] + s[i]]  BY <2>4, <2>5
  <2> QED  BY <2>6 DEF SumUp, n
<1>3. SumUp(f, s)  BY <1>2
<1>4. C!Sum(s) = f[n]  BY DEF C!Sum, SumUp
<1> HIDE DEF f
<1>5. f[0] = 0 /\ \A i \in 1 .. n : f[i] = f[i - 1] + s[i]
  <2>1. \A i \in 0 .. n : f[i] = IF i = 0 THEN 0 ELSE f[i - 1] + s[i]  BY <1>3 DEF SumUp
  <2>2. 0 \in 0 .. n /\ \A i \in 1 .. n : i \in 0 .. n /\ i # 0  BY <1>1
  <2> QED  BY <2>1, <2>2
<1>6. f \in [0 .. n -> Nat]
  <2> DEFINE G == {i \in 0 .. n : f[i] \in Nat}
  <2>1. 0 \in G  BY <1>1, <1>5
  <2>2. \A i \in 1 .. n : i - 1 \in G => i \in G  BY <1>1, <1>5
  <2> HIDE DEF G, n
  <2>3. \A i \in 0 .. n : i \in G  BY <1>1, <2>1, <2>2, Climb
  <2>4. \A i \in 0 .. n : f[i] \in Nat  BY <2>3 DEF G
  <2>5. f = [i \in 0 .. n |-> f[i]]  BY <1>3 DEF SumUp, n
  <2> QED  BY <2>4, <2>5
<1> QED  BY <1>4, <1>5, <1>6

\* One summand is changed.
LEMMA SumChanged ==
  ASSUME NEW s \in Seq(Nat), NEW t \in Seq(Nat), Len(t) = Len(s), NEW i \in 1 .. Len(s),
         \A j \in 1 .. Len(s) : j # i => t[j] = s[j]
  PROVE  C!Sum(s) \in Nat /\ C!Sum(t) \in Nat /\ C!Sum(t) + s[i] = C!Sum(s) + t[i]
<1> DEFINE n == Len(s)
<1>1. n \in Nat /\ (\A j \in 1 .. n : s[j] \in Nat /\ t[j] \in Nat) /\ i \in 1 .. n /\ Len(t) = n
      /\ \A j \in 1 .. n : j # i => t[j] = s[j]
  OBVIOUS
<1>2. PICK f \in [0 .. n -> Nat] : f[0] = 0 /\ (\A j \in 1 .. n : f[j] = f[j - 1] + s[j]) /\ C!Sum(s) = f[n]  BY SumIs
<1>3. PICK g \in [0 .. n -> Nat] : g[0] = 0 /\ (\A j \in 1 .. n : g[j] = g[j - 1] + t[j]) /\ C!Sum(t) = g[n]
  <2>1. PICK g \in [0 .. Len(t) -> Nat] : g[0] = 0 /\ (\A j \in 1 .. Len(t) : g[j] = g[j - 1] + t[j]) /\ C!Sum(t) = g[Len(t)]  BY SumIs
  <2> QED  BY <1>1, <2>1
<1> DEFINE G == {j \in 0 .. n : IF j < i THEN g[j] = f[j] ELSE g[j] + s[i] = f[j] + t[i]}
<1> HIDE DEF n
<1>4. 0 \in G  BY <1>1, <1>2, <1>3
<1>5. ASSUME NEW j \in 1 .. n, j - 1 \in G  PROVE j \in G
  <2>1. j \in 0 .. n /\ j - 1 \in 0 .. n /\ j \in Nat /\ i \in Nat  BY <1>1, <1>5
  <2>2. f[j] \in Nat /\ g[j] \in Nat /\ f[j - 1] \in Nat /\ g[j - 1] \in Nat  BY <1>2, <1>3, <2>1
  <2>3. f[j] = f[j - 1] + s[j] /\ g[j] = g[j - 1] + t[j] /\ s[j] \in Nat /\ t[j] \in Nat /\ s[i] \in Nat /\ t[i] \in Nat
    BY <1>1, <1>2, <1>3, <1>5
  <2>4. IF j - 1 < i THEN g[j - 1] = f[j - 1] ELSE g[j - 1] + s[i] = f[j - 1] + t[i]  BY <1>5
  <2>5. CASE j < i
    <3>1. t[j] = s[j] /\ j - 1 < i  BY <1>1, <1>5, <2>1, <2>5
    <3> QED  BY <2>1, <2>3, <2>4, <2>5, <3>1
  <2>6. CASE j = i
    <3>1. j - 1 < i /\ ~(j < i)  BY <2>1, <2>6
    <3>2. g[j - 1] = f[j - 1]  BY <2>4, <3>1
    <3> DEFINE a == f[j]  b == g[j]  u == s[i]  v == t[i]  x == f[j - 1]
    <3>3. a \in Nat /\ b \in Nat /\ u \in Nat /\ v \in Nat /\ x \in Nat /\ a = x + u /\ b = x + v
      BY <2>2, <2>3, <2>6, <3>2
    <3> HIDE DEF a, b, u, v, x
    <3>4. b + u = a + v  BY <3>3
    <3>5. g[j] + s[i] = f[j] + t[i]  BY <3>4 DEF a, b, u, v
    <3> QED  BY <2>1, <3>1, <3>5
  <2>7. CASE j > i
    <3>1. t[j] = s[j] /\ ~(j - 1 < i) /\ ~(j < i)  BY <1>1, <1>5, <2>1, <2>7
    <3>2. g[j - 1] + s[i] = f[j - 1] + t[i]  BY <2>4, <3>1
    <3> DEFINE a == f[j]  b == g[j]  u == s[i]  v == t[i]  x == f[j - 1]  y == g[j - 1]  w == s[j]
    <3>3. /\ a \in Nat /\ b \in Nat /\ u \in Nat /\ v \in Nat /\ x \in Nat /\ y \in Nat /\ w \in Nat
          /\ a = x + w /\ b = y + w /\ y + u = x + v
      BY <2>2, <2>3, <3>1, <3>2
    <3> HIDE DEF a, b, u, v, x, y, w
    <3>4. b + u = a + v
      <4>1. b + u = (y + u) + w  BY <3>3
      <4>2. (y + u) + w = (x + v) + w  BY <3>3
      <4>3. (x + v) + w = a + v  BY <3>3
      <4> QED  BY <4>1, <4>2, <4>3
    <3>5. g[j] + s[i] = f[j] + t[i]  BY <3>4 DEF a, b, u, v
    <3> QED  BY <2>1, <3>1, <3>5
  <2> QED  BY <2>1, <2>5, <2>6, <2>7
<1>6. n \in G
  <2> HIDE DEF G
  <2>1. \A j \in 0 .. n : j \in G  BY <1>1, <1>4, <1>5, Climb
  <2> QED  BY <1>1, <2>1
<1>7. ~(n < i) /\ n \in 0 .. n  BY <1>1
<1>8. g[n] + s[i] = f[n] + t[i]  BY <1>6, <1>7
<1> QED  BY <1>2, <1>3, <1>7, <1>8

-----------------------------------------------------------------------------
(* What a stub saves                                                       *)

Block == [id : Nat, chars : Nat]
\* A message of a view: its outputs may be stubs.
ViewMessage == [role : {"user", "assistant"}, text : Nat, uses : Spans, results : Seq(Block)]
Stubbed(m) == [m EXCEPT !.results = [k \in DOMAIN m.results |-> C!Dropped(m.results[k])]]
\* The first i outputs that are long enough to be dropped.
Fat(rs, i) == {k \in 1 .. i : ~C!Tiny(rs[k].chars)}

LEMMA Rounded ==
  ASSUME NEW d \in Nat  PROVE C!Tokens(d) \in Nat /\ 2 * d <= 7 * C!Tokens(d) /\ 7 * C!Tokens(d) <= 2 * d + 6
<1>1. 2 * d + 6 \in Nat /\ 7 \in Nat \ {0}  OBVIOUS
<1>2. /\ (2 * d + 6) \div 7 \in Nat /\ 7 * ((2 * d + 6) \div 7) <= 2 * d + 6
      /\ 2 * d + 6 < 7 * ((2 * d + 6) \div 7) + 7
  BY <1>1, Divided
<1> QED  BY <1>2 DEF C!Tokens

LEMMA SpanCount == ASSUME NEW u \in Spans  PROVE C!Cardinality(u) \in Nat
<1>1. PICK a \in Nat, n \in Nat : u = a .. a + n - 1  BY DEF Spans, Span
<1>2. a \in Int /\ a + n - 1 \in Int  BY <1>1
<1>3. IsFiniteSet(a .. a + n - 1)  BY <1>2, FS_Interval
<1>4. Cardinality(u) \in Nat  BY <1>1, <1>3, FS_CardinalityType
<1> QED  BY <1>4 DEF C!Cardinality, Cardinality

LEMMA DroppedIs ==
  ASSUME NEW r \in Block
  PROVE  /\ C!Dropped(r) \in Block /\ C!Dropped(r).id = r.id
         /\ C!Dropped(r).chars = IF C!Tiny(r.chars) THEN r.chars ELSE StubChars
         /\ ~C!Tiny(r.chars) => r.chars > StubChars /\ C!Dropped(r) # r
         /\ C!Tiny(r.chars) => C!Dropped(r) = r
<1>1. StubChars \in Nat /\ r.chars \in Nat  BY ContextAssumption DEF Block
<1>2. CASE C!Tiny(r.chars)  BY <1>2 DEF C!Dropped
<1>3. CASE ~C!Tiny(r.chars)
  <2>1. r.chars > StubChars  BY <1>1, <1>3 DEF C!Tiny
  <2>2. C!Dropped(r) = [r EXCEPT !.chars = StubChars]  BY <1>3 DEF C!Dropped
  <2>3. C!Dropped(r) \in Block /\ C!Dropped(r).id = r.id /\ C!Dropped(r).chars = StubChars  BY <1>1, <2>2 DEF Block
  <2> QED  BY <1>1, <1>3, <2>1, <2>3
<1> QED  BY <1>2, <1>3

\* The estimate falls by what the rounded gains say, but for less than a token each.
LEMMA OutputsSave ==
  ASSUME NEW rs \in Seq(Block)
  PROVE  LET n == Len(rs)
             old == C!Sum([k \in DOMAIN rs |-> rs[k].chars])
             new == C!Sum([k \in DOMAIN rs |-> C!Dropped(rs[k]).chars])
             gain == C!Sum([k \in DOMAIN rs |-> IF C!Tiny(rs[k].chars) THEN 0 ELSE C!Tokens(rs[k].chars - StubChars)])
             fat == Cardinality(Fat(rs, n))
         IN /\ old \in Nat /\ new \in Nat /\ gain \in Nat /\ fat \in Nat
            /\ 2 * old <= 2 * new + 7 * gain /\ 2 * new + 7 * gain <= 2 * old + 6 * fat
<1> DEFINE n == Len(rs)
           a == [k \in DOMAIN rs |-> rs[k].chars]
           b == [k \in DOMAIN rs |-> C!Dropped(rs[k]).chars]
           c == [k \in DOMAIN rs |-> IF C!Tiny(rs[k].chars) THEN 0 ELSE C!Tokens(rs[k].chars - StubChars)]
<1>1. n \in Nat /\ DOMAIN rs = 1 .. n /\ \A k \in 1 .. n : rs[k] \in Block  OBVIOUS
<1>2. ASSUME NEW k \in 1 .. n
      PROVE  /\ a[k] \in Nat /\ b[k] \in Nat /\ c[k] \in Nat
             /\ C!Tiny(rs[k].chars) => a[k] = b[k] /\ c[k] = 0
             /\ 2 * a[k] <= 2 * b[k] + 7 * c[k] /\ 2 * b[k] + 7 * c[k] <= 2 * a[k] + 6
  <2>1. /\ rs[k].chars \in Nat /\ StubChars \in Nat /\ a[k] = rs[k].chars /\ b[k] = C!Dropped(rs[k]).chars
        /\ c[k] = IF C!Tiny(rs[k].chars) THEN 0 ELSE C!Tokens(rs[k].chars - StubChars)
    BY <1>1, <1>2, ContextAssumption DEF Block
  <2> HIDE DEF a, b, c
  <2>2. CASE C!Tiny(rs[k].chars)
    <3>1. b[k] = rs[k].chars /\ c[k] = 0  BY <1>1, <2>1, <2>2, DroppedIs
    <3> QED  BY <2>1, <3>1
  <2>3. CASE ~C!Tiny(rs[k].chars)
    <3> DEFINE d == rs[k].chars - StubChars
    <3>1. b[k] = StubChars /\ rs[k].chars > StubChars  BY <1>1, <2>1, <2>3, DroppedIs
    <3>2. d \in Nat /\ a[k] = b[k] + d  BY <2>1, <3>1
    <3>3. c[k] = C!Tokens(d)  BY <2>1, <2>3
    <3> HIDE DEF d
    <3>4. c[k] \in Nat /\ 2 * d <= 7 * c[k] /\ 7 * c[k] <= 2 * d + 6  BY <3>2, <3>3, Rounded
    <3>5. a[k] \in Nat /\ b[k] \in Nat  BY <2>1, <3>1
    <3> DEFINE x == a[k]  y == b[k]  w == c[k]
    <3>6. x \in Nat /\ y \in Nat /\ w \in Nat /\ x = y + d /\ 2 * d <= 7 * w /\ 7 * w <= 2 * d + 6  BY <3>2, <3>4, <3>5
    <3> HIDE DEF x, y, w
    <3>7. 2 * x <= 2 * y + 7 * w /\ 2 * y + 7 * w <= 2 * x + 6  BY <3>2, <3>6
    <3> QED  BY <2>3, <3>4, <3>5, <3>7 DEF x, y, w
  <2> QED  BY <2>2, <2>3
<1>3. a \in Seq(Nat) /\ b \in Seq(Nat) /\ c \in Seq(Nat) /\ Len(a) = n /\ Len(b) = n /\ Len(c) = n
  <2>1. a \in [1 .. n -> Nat] /\ b \in [1 .. n -> Nat] /\ c \in [1 .. n -> Nat]
    <3>1. DOMAIN a = 1 .. n /\ DOMAIN b = 1 .. n /\ DOMAIN c = 1 .. n  BY <1>1
    <3>2. a = [k \in 1 .. n |-> a[k]] /\ b = [k \in 1 .. n |-> b[k]] /\ c = [k \in 1 .. n |-> c[k]]  BY <1>1
    <3> HIDE DEF a, b, c
    <3> QED  BY <1>2, <3>1, <3>2
  <2> HIDE DEF a, b, c, n
  <2>2. ASSUME NEW t \in [1 .. n -> Nat]  PROVE t \in Seq(Nat) /\ Len(t) = n  BY <1>1
  <2> QED  BY <2>1, <2>2
<1> HIDE DEF a, b, c
<1>4. PICK f \in [0 .. n -> Nat] : f[0] = 0 /\ (\A i \in 1 .. n : f[i] = f[i - 1] + a[i]) /\ C!Sum(a) = f[n]
  BY <1>3, SumIs
<1>5. PICK g \in [0 .. n -> Nat] : g[0] = 0 /\ (\A i \in 1 .. n : g[i] = g[i - 1] + b[i]) /\ C!Sum(b) = g[n]
  BY <1>3, SumIs
<1>6. PICK h \in [0 .. n -> Nat] : h[0] = 0 /\ (\A i \in 1 .. n : h[i] = h[i - 1] + c[i]) /\ C!Sum(c) = h[n]
  BY <1>3, SumIs
<1>7. \A i \in 0 .. n : IsFiniteSet(Fat(rs, i)) /\ Cardinality(Fat(rs, i)) \in Nat
  <2>1. \A i \in 0 .. n : i \in Nat /\ Fat(rs, i) \subseteq 1 .. i  BY <1>1 DEF Fat
  <2> QED  BY <2>1, SubsetCount
<1> DEFINE In(i) == 2 * f[i] <= 2 * g[i] + 7 * h[i] /\ 2 * g[i] + 7 * h[i] <= 2 * f[i] + 6 * Cardinality(Fat(rs, i))
           G == {i \in 0 .. n : In(i)}
<1> HIDE DEF n
<1>8. 0 \in G
  <2>1. Cardinality(Fat(rs, 0)) = 0
    <3>1. Fat(rs, 0) = {}  BY DEF Fat
    <3> QED  BY <3>1, FS_EmptySet
  <2> QED  BY <1>1, <1>4, <1>5, <1>6, <2>1
<1>9. ASSUME NEW i \in 1 .. n, i - 1 \in G  PROVE i \in G
  <2>1. i \in Nat /\ i \in 0 .. n /\ i - 1 \in 0 .. n  BY <1>1
  <2> DEFINE x == f[i - 1]  y == g[i - 1]  z == h[i - 1]  u == a[i]  v == b[i]  w == c[i]
             p == Cardinality(Fat(rs, i - 1))  q == Cardinality(Fat(rs, i))
  <2>2. x \in Nat /\ y \in Nat /\ z \in Nat /\ p \in Nat /\ q \in Nat  BY <1>4, <1>5, <1>6, <1>7, <2>1
  <2>3. f[i] = x + u /\ g[i] = y + v /\ h[i] = z + w  BY <1>4, <1>5, <1>6
  <2>4. /\ u \in Nat /\ v \in Nat /\ w \in Nat /\ (C!Tiny(rs[i].chars) => u = v /\ w = 0)
        /\ 2 * u <= 2 * v + 7 * w /\ 2 * v + 7 * w <= 2 * u + 6
    BY <1>2
  <2>5. 2 * x <= 2 * y + 7 * z /\ 2 * y + 7 * z <= 2 * x + 6 * p  BY <1>9
  <2>6. q = IF C!Tiny(rs[i].chars) THEN p ELSE p + 1
    <3>1. CASE C!Tiny(rs[i].chars)
      <4>1. Fat(rs, i) = Fat(rs, i - 1)
        <5>1. \A k \in 1 .. i : ~C!Tiny(rs[k].chars) => k \in 1 .. i - 1
          <6> SUFFICES ASSUME NEW k \in 1 .. i, ~C!Tiny(rs[k].chars)  PROVE k \in 1 .. i - 1  OBVIOUS
          <6>1. k # i  BY <3>1
          <6> QED  BY <2>1, <6>1
        <5>2. \A k \in 1 .. i - 1 : k \in 1 .. i  BY <2>1
        <5> QED  BY <5>1, <5>2 DEF Fat
      <4> QED  BY <3>1, <4>1
    <3>2. CASE ~C!Tiny(rs[i].chars)
      <4>1. Fat(rs, i) = Fat(rs, i - 1) \cup {i}
        <5>1. \A k \in 1 .. i : k \in 1 .. i - 1 \/ k = i  BY <2>1
        <5>2. i \in 1 .. i /\ \A k \in 1 .. i - 1 : k \in 1 .. i  BY <2>1
        <5> QED  BY <3>2, <5>1, <5>2 DEF Fat
      <4>2. i \notin Fat(rs, i - 1)  BY <2>1 DEF Fat
      <4>3. IsFiniteSet(Fat(rs, i - 1))  BY <1>7, <2>1
      <4> QED  BY <3>2, <4>1, <4>2, <4>3, FS_AddElement
    <3> QED  BY <3>1, <3>2
  <2> HIDE DEF x, y, z, u, v, w, p, q
  <2>7. /\ 2 * (x + u) <= 2 * (y + v) + 7 * (z + w)
        /\ 2 * (y + v) + 7 * (z + w) <= 2 * (x + u) + 6 * q
    <3>1. CASE C!Tiny(rs[i].chars)
      <4>1. q = p /\ u = v /\ w = 0  BY <2>4, <2>6, <3>1
      <4> QED  BY <2>2, <2>4, <2>5, <4>1
    <3>2. CASE ~C!Tiny(rs[i].chars)
      <4>1. q = p + 1  BY <2>6, <3>2
      <4> QED  BY <2>2, <2>4, <2>5, <4>1
    <3> QED  BY <3>1, <3>2
  <2>8. In(i)  BY <2>3, <2>7 DEF q
  <2> HIDE DEF In
  <2> QED  BY <2>1, <2>8
<1>10. n \in G
  <2> HIDE DEF G
  <2>1. \A i \in 0 .. n : i \in G  BY <1>1, <1>8, <1>9, Climb
  <2> QED  BY <1>1, <2>1
<1>11. n \in 0 .. n  BY <1>1
<1> QED  BY <1>4, <1>5, <1>6, <1>7, <1>10, <1>11 DEF n, a, b, c

Heavy(m) == {k \in DOMAIN m.results : ~C!Tiny(m.results[k].chars)}

LEMMA StubIs ==
  ASSUME NEW m \in ViewMessage
  PROVE  /\ Stubbed(m) \in ViewMessage /\ Stubbed(m).uses = m.uses /\ C!Ids(Stubbed(m).results) = C!Ids(m.results)
         /\ Stubbed(m) = m <=> Heavy(m) = {}
         /\ C!Chars(m) \in Nat /\ C!Chars(Stubbed(m)) \in Nat /\ C!Gain(m) \in Nat /\ C!Cardinality(Heavy(m)) \in Nat
         /\ 2 * C!Chars(m) <= 2 * C!Chars(Stubbed(m)) + 7 * C!Gain(m)
         /\ 2 * C!Chars(Stubbed(m)) + 7 * C!Gain(m) <= 2 * C!Chars(m) + 6 * C!Cardinality(Heavy(m))
<1> DEFINE rs == m.results
           n == Len(rs)
           ds == [k \in DOMAIN rs |-> C!Dropped(rs[k])]
<1>1. /\ rs \in Seq(Block) /\ m.text \in Nat /\ m.uses \in Spans /\ n \in Nat /\ DOMAIN rs = 1 .. n
      /\ \A k \in 1 .. n : rs[k] \in Block
  BY DEF ViewMessage
<1>2. Stubbed(m) = [m EXCEPT !.results = ds]  BY DEF Stubbed
<1> HIDE DEF rs
<1>3. DOMAIN ds = 1 .. n /\ \A k \in 1 .. n : ds[k] = C!Dropped(rs[k]) /\ ds[k] \in Block /\ ds[k].id = rs[k].id
  <2>1. DOMAIN ds = 1 .. n /\ \A k \in 1 .. n : ds[k] = C!Dropped(rs[k])  BY <1>1
  <2> HIDE DEF ds
  <2> QED  BY <1>1, <2>1, DroppedIs
<1>4. ds \in Seq(Block)
  <2>1. ds = [k \in 1 .. n |-> ds[k]]  BY <1>1
  <2> HIDE DEF ds, n
  <2>2. ds \in [1 .. n -> Block]  BY <1>3, <2>1
  <2> QED  BY <1>1, <2>2
<1>5. /\ Stubbed(m) \in ViewMessage /\ Stubbed(m).uses = m.uses /\ Stubbed(m).results = ds /\ Stubbed(m).text = m.text
  <2> HIDE DEF ds
  <2> QED  BY <1>2, <1>4 DEF ViewMessage
<1> HIDE DEF ds
<1>6. C!Ids(ds) = C!Ids(rs)  BY <1>1, <1>3 DEF C!Ids
<1>7. Heavy(m) = Fat(rs, n)  BY <1>1 DEF Heavy, Fat, rs
<1>8. Stubbed(m) = m <=> Heavy(m) = {}
  <2>1. ASSUME NEW k \in Heavy(m), Stubbed(m) = m  PROVE FALSE
    <3>1. k \in 1 .. n /\ ~C!Tiny(rs[k].chars)  BY <1>7, <2>1 DEF Fat
    <3>2. C!Dropped(rs[k]) # rs[k]  BY <1>1, <3>1, DroppedIs
    <3>3. ds = rs  BY <1>5, <2>1 DEF rs
    <3> QED  BY <1>3, <3>1, <3>2, <3>3
  <2>2. ASSUME Heavy(m) = {}  PROVE Stubbed(m) = m
    <3>1. \A k \in 1 .. n : C!Tiny(rs[k].chars)  BY <1>7, <2>2 DEF Fat
    <3>2. \A k \in 1 .. n : ds[k] = rs[k]  BY <1>1, <1>3, <3>1, DroppedIs
    <3>3. rs = [k \in 1 .. n |-> rs[k]] /\ ds = [k \in 1 .. n |-> ds[k]]  BY <1>1, <1>3 DEF ds
    <3>4. ds = rs  BY <3>2, <3>3
    <3> QED  BY <1>2, <3>4 DEF ViewMessage, rs
  <2> QED  BY <2>1, <2>2
<1> DEFINE old == C!Sum([k \in DOMAIN rs |-> rs[k].chars])
           new == C!Sum([k \in DOMAIN rs |-> C!Dropped(rs[k]).chars])
           gain == C!Sum([k \in DOMAIN rs |-> IF C!Tiny(rs[k].chars) THEN 0 ELSE C!Tokens(rs[k].chars - StubChars)])
           fat == Cardinality(Fat(rs, n))
           calls == C!Cardinality(m.uses)
<1>9. /\ old \in Nat /\ new \in Nat /\ gain \in Nat /\ fat \in Nat
      /\ 2 * old <= 2 * new + 7 * gain /\ 2 * new + 7 * gain <= 2 * old + 6 * fat
  BY <1>1, OutputsSave
<1>10. calls \in Nat  BY <1>1, SpanCount
<1>11. C!Chars(m) = m.text + old + 2 * calls  BY DEF C!Chars, rs
<1>12. C!Chars(Stubbed(m)) = m.text + new + 2 * calls
  <2>1. C!Chars(Stubbed(m)) = m.text + C!Sum([k \in DOMAIN ds |-> ds[k].chars]) + 2 * calls  BY <1>5 DEF C!Chars
  <2>2. [k \in DOMAIN ds |-> ds[k].chars] = [k \in DOMAIN rs |-> C!Dropped(rs[k]).chars]  BY <1>1, <1>3
  <2> QED  BY <2>1, <2>2
<1>13. C!Gain(m) = gain  BY DEF C!Gain, rs
<1>14. C!Cardinality(Heavy(m)) = fat  BY <1>7 DEF C!Cardinality, Cardinality
<1> DEFINE text == m.text
<1> HIDE DEF old, new, gain, fat, calls, text, n
<1>15. text \in Nat /\ C!Chars(m) = text + old + 2 * calls /\ C!Chars(Stubbed(m)) = text + new + 2 * calls
  BY <1>1, <1>11, <1>12 DEF text
<1>16. /\ 2 * (text + old + 2 * calls) <= 2 * (text + new + 2 * calls) + 7 * gain
       /\ 2 * (text + new + 2 * calls) + 7 * gain <= 2 * (text + old + 2 * calls) + 6 * fat
       /\ text + old + 2 * calls \in Nat /\ text + new + 2 * calls \in Nat
  BY <1>9, <1>10, <1>15
<1> QED  BY <1>5, <1>6, <1>8, <1>9, <1>13, <1>14, <1>15, <1>16 DEF rs

Weights(ms) == [i \in DOMAIN ms |-> C!Chars(ms[i]) + 1]

LEMMA WeightsAre ==
  ASSUME NEW ms \in Seq(ViewMessage)
  PROVE  /\ Weights(ms) \in Seq(Nat) /\ Len(Weights(ms)) = Len(ms) /\ \A i \in DOMAIN ms : Weights(ms)[i] = C!Chars(ms[i]) + 1
         /\ C!EstimateTokens(ms) = C!Tokens(C!Sum(Weights(ms))) /\ C!EstimateTokens(ms) \in Nat
<1> DEFINE n == Len(ms)
           w == Weights(ms)
<1>1. n \in Nat /\ DOMAIN ms = 1 .. n /\ \A i \in 1 .. n : ms[i] \in ViewMessage
  <2> HIDE DEF ViewMessage
  <2> QED  OBVIOUS
<1>2. DOMAIN w = 1 .. n /\ w = [i \in 1 .. n |-> w[i]] /\ \A i \in 1 .. n : w[i] = C!Chars(ms[i]) + 1  BY <1>1 DEF Weights
<1>3. C!EstimateTokens(ms) = C!Tokens(C!Sum(w))  BY DEF C!EstimateTokens, Weights
<1> HIDE DEF w, n
<1>4. \A i \in 1 .. n : w[i] \in Nat
  <2>1. \A i \in 1 .. n : C!Chars(ms[i]) \in Nat  BY <1>1, StubIs
  <2> QED  BY <1>2, <2>1
<1>5. w \in [1 .. n -> Nat]  BY <1>2, <1>4
<1>6. w \in Seq(Nat) /\ Len(w) = n  BY <1>1, <1>5
<1>7. PICK f \in [0 .. Len(w) -> Nat] : C!Sum(w) = f[Len(w)]  BY <1>6, SumIs
<1>8. C!Sum(w) \in Nat  BY <1>6, <1>7
<1>9. C!EstimateTokens(ms) \in Nat  BY <1>3, <1>8, Rounded
<1> QED  BY <1>1, <1>2, <1>3, <1>6, <1>9 DEF w, n

\* Lengths before and after, of all messages and of one of them; its gain, its outputs; the estimates.
Account(a, b, x, y, gain, fat, e, f) ==
  /\ a \in Nat /\ b \in Nat /\ x \in Nat /\ y \in Nat /\ gain \in Nat /\ fat \in Nat /\ e \in Nat /\ f \in Nat
  /\ b + (x + 1) = a + (y + 1)
  /\ 2 * x <= 2 * y + 7 * gain /\ 2 * y + 7 * gain <= 2 * x + 6 * fat
  /\ 2 * a <= 7 * e /\ 7 * e <= 2 * a + 6
  /\ 2 * b <= 7 * f /\ 7 * f <= 2 * b + 6

LEMMA Balance ==
  ASSUME NEW a, NEW b, NEW x, NEW y, NEW gain, NEW fat, NEW e, NEW f, Account(a, b, x, y, gain, fat, e, f)
  PROVE  e <= f + gain /\ f + gain <= e + fat
BY DEF Account

\* One message is stubbed.
LEMMA EstimateFalls ==
  ASSUME NEW ms \in Seq(ViewMessage), NEW i \in DOMAIN ms, NEW out, out = [ms EXCEPT ![i] = Stubbed(ms[i])]
  PROVE  /\ out \in Seq(ViewMessage) /\ C!EstimateTokens(ms) \in Nat /\ C!EstimateTokens(out) \in Nat
         /\ C!EstimateTokens(ms) <= C!EstimateTokens(out) + C!Gain(ms[i])
         /\ C!EstimateTokens(out) + C!Gain(ms[i]) <= C!EstimateTokens(ms) + C!Cardinality(Heavy(ms[i]))
<1> DEFINE n == Len(ms)
<1>1. n \in Nat /\ DOMAIN ms = 1 .. n /\ i \in 1 .. n /\ ms[i] \in ViewMessage /\ Stubbed(ms[i]) \in ViewMessage
  <2>1. n \in Nat /\ DOMAIN ms = 1 .. n /\ i \in 1 .. n /\ ms[i] \in ViewMessage
    <3> HIDE DEF ViewMessage
    <3> QED  OBVIOUS
  <2> QED  BY <2>1, StubIs
<1>2. out \in Seq(ViewMessage) /\ Len(out) = n /\ DOMAIN out = 1 .. n /\ out[i] = Stubbed(ms[i]) /\ \A j \in 1 .. n : j # i => out[j] = ms[j]
  <2> HIDE DEF ViewMessage
  <2> QED  BY <1>1
<1> DEFINE v == Weights(ms)
           w == Weights(out)
           a == C!Sum(v)
           b == C!Sum(w)
           x == C!Chars(ms[i])
           y == C!Chars(Stubbed(ms[i]))
<1>3. /\ v \in Seq(Nat) /\ Len(v) = n /\ (\A j \in 1 .. n : v[j] = C!Chars(ms[j]) + 1) /\ C!EstimateTokens(ms) = C!Tokens(a)
  BY <1>1, WeightsAre
<1>4. /\ w \in Seq(Nat) /\ Len(w) = n /\ (\A j \in 1 .. n : w[j] = C!Chars(out[j]) + 1) /\ C!EstimateTokens(out) = C!Tokens(b)
  BY <1>2, WeightsAre
<1> HIDE DEF n, v, w
<1>5. i \in 1 .. Len(v) /\ \A j \in 1 .. Len(v) : j # i => w[j] = v[j]  BY <1>1, <1>2, <1>3, <1>4
<1>6. a \in Nat /\ b \in Nat /\ b + v[i] = a + w[i]  BY <1>3, <1>4, <1>5, SumChanged
<1>7. v[i] = x + 1 /\ w[i] = y + 1  BY <1>1, <1>2, <1>3, <1>4
<1> DEFINE gain == C!Gain(ms[i])
           fat == C!Cardinality(Heavy(ms[i]))
           e == C!Tokens(a)
           f == C!Tokens(b)
<1>8. /\ x \in Nat /\ y \in Nat /\ gain \in Nat /\ fat \in Nat
      /\ 2 * x <= 2 * y + 7 * gain /\ 2 * y + 7 * gain <= 2 * x + 6 * fat
  BY <1>1, StubIs
<1>9. e \in Nat /\ 2 * a <= 7 * e /\ 7 * e <= 2 * a + 6  BY <1>6, Rounded
<1>10. f \in Nat /\ 2 * b <= 7 * f /\ 7 * f <= 2 * b + 6  BY <1>6, Rounded
<1>11. b + (x + 1) = a + (y + 1)  BY <1>6, <1>7
<1> HIDE DEF a, b, x, y, gain, fat, e, f
<1>12. Account(a, b, x, y, gain, fat, e, f)  BY <1>6, <1>8, <1>9, <1>10, <1>11 DEF Account
<1>13. e <= f + gain /\ f + gain <= e + fat  BY <1>12, Balance
<1> QED  BY <1>2, <1>3, <1>4, <1>9, <1>10, <1>13 DEF e, f, gain, fat

-----------------------------------------------------------------------------
(* The view                                                                *)

\* The conversation with the candidates among the first p messages stubbed.
View(p) == [j \in DOMAIN messages |-> IF j \in C!Candidates(messages) /\ j <= p THEN Stubbed(messages[j]) ELSE messages[j]]

LEMMA ViewIs ==
  ASSUME AlternateInv, NEW p \in Nat
  PROVE  /\ messages \in Seq(ViewMessage) /\ View(p) \in Seq(ViewMessage) /\ DOMAIN View(p) = DOMAIN messages
         /\ \A j \in DOMAIN messages :
              View(p)[j] = IF j \in C!Candidates(messages) /\ j <= p THEN Stubbed(messages[j]) ELSE messages[j]
<1>1. Len(messages) \in Nat /\ DOMAIN messages = 1 .. Len(messages) /\ \A j \in DOMAIN messages : messages[j] \in ContextMessage
  BY MessageFacts
<1>2. \A m \in ContextMessage : m \in ViewMessage
  <2>1. TAKE m \in ContextMessage
  <2>2. m.results \in Seq([id : Nat, chars : Lengths])  BY DEF ContextMessage
  <2>3. m.results \in Seq(Block)
    <3> DEFINE rs == m.results
    <3>1. rs \in Seq([id : Nat, chars : Lengths])  BY <2>2
    <3>2. [id : Nat, chars : Lengths] \subseteq Block  BY ContextAssumption DEF Block
    <3> HIDE DEF rs, Block
    <3>3. rs \in Seq(Block)
      <4> DEFINE R == [id : Nat, chars : Lengths]
      <4>1. rs \in Seq(R) /\ R \subseteq Block  BY <3>1, <3>2
      <4> HIDE DEF R
      <4> QED  BY <4>1
    <3> QED  BY <3>3 DEF rs
  <2> HIDE DEF Block
  <2> QED  BY <2>3 DEF ContextMessage, ViewMessage
<1>3. \A j \in DOMAIN messages : messages[j] \in ViewMessage /\ Stubbed(messages[j]) \in ViewMessage
  <2>1. \A j \in DOMAIN messages : messages[j] \in ViewMessage  BY <1>1, <1>2
  <2> QED  BY <2>1, StubIs
<1> DEFINE v == View(p)
<1>4. DOMAIN v = DOMAIN messages /\ \A j \in DOMAIN messages :
        v[j] = IF j \in C!Candidates(messages) /\ j <= p THEN Stubbed(messages[j]) ELSE messages[j]
  BY DEF View
<1>5. v = [j \in DOMAIN messages |-> v[j]]  BY DEF View
<1> HIDE DEF v, ViewMessage
<1>6. v \in [1 .. Len(messages) -> ViewMessage]  BY <1>1, <1>3, <1>4, <1>5
<1>7. v \in Seq(ViewMessage)  BY <1>1, <1>6
<1>8. messages \in Seq(ViewMessage)
  <2>1. messages \in [1 .. Len(messages) -> ViewMessage]
    <3>1. messages \in Seq(ContextMessage)  BY DEF AlternateInv
    <3> HIDE DEF ContextMessage
    <3>2. messages = [j \in 1 .. Len(messages) |-> messages[j]]  BY <3>1
    <3> QED  BY <1>1, <1>3, <3>2
  <2> QED  BY <1>1, <2>1
<1> QED  BY <1>4, <1>7, <1>8 DEF v

\* After i messages: the estimate kept up to date lies below the true one, by at most a token for each dropped output,
\* and every drop was needed.
Trimmed(i, acc, target) ==
  /\ acc.total \in Nat /\ acc.trimmed \in Nat
  /\ acc.total <= C!EstimateTokens(acc.out) /\ C!EstimateTokens(acc.out) <= acc.total + acc.trimmed
  /\ \E p \in 0 .. i : /\ acc.out = View(p) /\ (p = i \/ acc.total <= target)
                        /\ \A q \in 1 .. p : q \in C!Candidates(messages) => C!EstimateTokens(View(q - 1)) > target

LEMMA TrimStep ==
  ASSUME AlternateInv, NEW target \in Targets, NEW i \in DOMAIN messages, NEW acc, Trimmed(i - 1, acc, target)
  PROVE  Trimmed(i, IF i \in C!Candidates(messages) THEN C!TrimOne(acc, i, target) ELSE acc, target)
<1> DEFINE K == C!Candidates(messages)
<1>1. i \in Nat /\ i > 0 /\ target \in Nat /\ DOMAIN messages = 1 .. Len(messages) /\ Len(messages) \in Nat
  BY MessageFacts, ContextAssumption
<1>2. PICK p \in 0 .. i - 1 :
        /\ acc.out = View(p) /\ (p = i - 1 \/ acc.total <= target)
        /\ \A q \in 1 .. p : q \in K => C!EstimateTokens(View(q - 1)) > target
  BY DEF Trimmed
<1>3. /\ acc.total \in Nat /\ acc.trimmed \in Nat
      /\ acc.total <= C!EstimateTokens(acc.out) /\ C!EstimateTokens(acc.out) <= acc.total + acc.trimmed
  BY DEF Trimmed
<1> HIDE DEF K
<1>4. CASE acc.total <= target
  <2>1. p \in 0 .. i  BY <1>1, <1>2
  <2>2. Trimmed(i, acc, target)  BY <1>2, <1>3, <1>4, <2>1 DEF Trimmed, K
  <2>3. C!TrimOne(acc, i, target) = acc  BY <1>4 DEF C!TrimOne
  <2> QED  BY <2>2, <2>3
<1>5. CASE ~(acc.total <= target) /\ i \notin K
  <2>1. p = i - 1  BY <1>2, <1>5
  <2>2. View(i) = View(p)
    <3>1. \A j \in DOMAIN messages : j \in K => (j <= i <=> j <= p)  BY <1>1, <1>5, <2>1
    <3>2. \A j \in DOMAIN messages :
            (IF j \in K /\ j <= i THEN Stubbed(messages[j]) ELSE messages[j]) = (IF j \in K /\ j <= p THEN Stubbed(messages[j]) ELSE messages[j])
      BY <3>1
    <3> QED  BY <3>2 DEF View, K
  <2>3. \A q \in 1 .. i : q \in K => q \in 1 .. p  BY <1>1, <1>5, <2>1
  <2>4. i \in 0 .. i  BY <1>1
  <2>5. Trimmed(i, acc, target)  BY <1>2, <1>3, <2>2, <2>3, <2>4 DEF Trimmed, K
  <2> QED  BY <1>5, <2>5 DEF K
<1>6. CASE ~(acc.total <= target) /\ i \in K
  <2> DEFINE m == messages[i]
             out == [acc.out EXCEPT ![i] = Stubbed(m)]
             total == IF C!Gain(m) > acc.total THEN 0 ELSE acc.total - C!Gain(m)
             fat == C!Cardinality(Heavy(m))
             new == C!TrimOne(acc, i, target)
  <2>1. p = i - 1 /\ p \in Nat  BY <1>1, <1>2, <1>6
  <2>2. /\ View(p) \in Seq(ViewMessage) /\ DOMAIN View(p) = DOMAIN messages /\ View(p)[i] = m /\ messages \in Seq(ViewMessage)
        /\ \A j \in DOMAIN messages : View(p)[j] = IF j \in K /\ j <= p THEN Stubbed(messages[j]) ELSE messages[j]
    <3>1. ~(i <= p)  BY <1>1, <2>1
    <3> QED  BY <2>1, <3>1, ViewIs DEF K
  <2>3. m \in ViewMessage
    <3> HIDE DEF ViewMessage
    <3> QED  BY <2>2
  <2>4. /\ out \in Seq(ViewMessage) /\ C!EstimateTokens(acc.out) \in Nat /\ C!EstimateTokens(out) \in Nat
        /\ C!EstimateTokens(acc.out) <= C!EstimateTokens(out) + C!Gain(m)
        /\ C!EstimateTokens(out) + C!Gain(m) <= C!EstimateTokens(acc.out) + fat
    BY <1>2, <2>2, EstimateFalls
  <2>5. new.out = out /\ new.total = total /\ new.trimmed = acc.trimmed + fat
    <3>1. acc.out[i] = m  BY <1>2, <2>2
    <3>2. [acc.out EXCEPT ![i].results = [k \in DOMAIN @ |-> C!Dropped(@[k])]] = out
      BY <3>1, Zenon DEF Stubbed
    <3> HIDE DEF out, total, fat, m
    <3>3. new = [out |-> out, total |-> total, trimmed |-> acc.trimmed + fat]
      BY <1>6, <3>1, <3>2 DEF C!TrimOne, total, fat, Heavy
    <3> QED  BY <3>3
  <2>6. out = View(i)
    <3>1. \A j \in DOMAIN messages : out[j] = IF j \in K /\ j <= i THEN Stubbed(messages[j]) ELSE messages[j]
      <4>1. TAKE j \in DOMAIN messages
      <4>2. j # i => (j <= i <=> j <= p)  BY <1>1, <2>1
      <4>3. out[j] = IF j = i THEN Stubbed(m) ELSE View(p)[j]  BY <1>2, <2>2
      <4>4. i <= i  BY <1>1
      <4> QED  BY <1>6, <2>2, <4>2, <4>3, <4>4
    <3>2. out = [j \in DOMAIN messages |-> out[j]]  BY <1>2, <2>2
    <3> HIDE DEF out
    <3> QED  BY <3>1, <3>2 DEF View, K
  <2>7. C!Gain(m) \in Nat /\ fat \in Nat  BY <2>3, StubIs
  <2> DEFINE old == acc.total  gain == C!Gain(m)  e == C!EstimateTokens(acc.out)  f == C!EstimateTokens(out)  tr == acc.trimmed
  <2>8. /\ old \in Nat /\ gain \in Nat /\ fat \in Nat /\ tr \in Nat /\ e \in Nat /\ f \in Nat
        /\ total = IF gain > old THEN 0 ELSE old - gain
        /\ old <= e /\ e <= old + tr /\ e <= f + gain /\ f + gain <= e + fat
    BY <1>3, <2>4, <2>7
  <2> HIDE DEF old, gain, e, f, tr, total, fat
  <2>9. total \in Nat /\ total <= f /\ f <= total + (tr + fat) /\ tr + fat \in Nat
    <3>1. CASE gain > old
      <4>1. total = 0  BY <2>8, <3>1
      <4> QED  BY <2>8, <3>1, <4>1
    <3>2. CASE ~(gain > old)
      <4>1. total \in Nat /\ old = total + gain  BY <2>8, <3>2
      <4> QED  BY <2>8, <4>1
    <3> QED  BY <3>1, <3>2
  <2>10. e > target  BY <1>1, <1>6, <2>8 DEF old
  <2>11. \A q \in 1 .. i : q \in K => C!EstimateTokens(View(q - 1)) > target
    <3>1. \A q \in 1 .. i : q \in 1 .. p \/ q - 1 = p  BY <1>1, <2>1
    <3>2. C!EstimateTokens(View(p)) > target  BY <1>2, <2>10 DEF e
    <3> QED  BY <1>2, <3>1, <3>2
  <2>12. i \in 0 .. i  BY <1>1
  <2> HIDE DEF out, new
  <2>13. /\ new.total \in Nat /\ new.trimmed \in Nat
         /\ new.total <= C!EstimateTokens(new.out) /\ C!EstimateTokens(new.out) <= new.total + new.trimmed
    BY <2>5, <2>9 DEF f, tr
  <2>14. Trimmed(i, new, target)  BY <2>5, <2>6, <2>11, <2>12, <2>13 DEF Trimmed, K
  <2> QED  BY <1>6, <2>14 DEF K, new
<1> QED  BY <1>4, <1>5, <1>6

TrimUp(f, target) ==
  f = [i \in 0 .. Len(messages) |->
         IF i = 0 THEN [out |-> messages, total |-> C!EstimateTokens(messages), trimmed |-> 0]
         ELSE IF i \in C!Candidates(messages) THEN C!TrimOne(f[i - 1], i, target) ELSE f[i - 1]]

TrimAcc == [out : [DOMAIN messages -> ViewMessage], total : Nat, trimmed : Nat]

LEMMA TrimOneTypes ==
  ASSUME AlternateInv, NEW target, NEW i \in DOMAIN messages, NEW acc \in TrimAcc  PROVE C!TrimOne(acc, i, target) \in TrimAcc
<1>1. CASE acc.total <= target  BY <1>1 DEF C!TrimOne
<1>2. CASE ~(acc.total <= target)
  <2> DEFINE m == acc.out[i]
             out == [acc.out EXCEPT ![i] = Stubbed(m)]
             total == IF C!Gain(m) > acc.total THEN 0 ELSE acc.total - C!Gain(m)
             fat == C!Cardinality(Heavy(m))
  <2>1. acc.out \in [DOMAIN messages -> ViewMessage] /\ acc.total \in Nat /\ acc.trimmed \in Nat
    <3> HIDE DEF ViewMessage
    <3> QED  BY DEF TrimAcc
  <2>2. m \in ViewMessage
    <3> HIDE DEF ViewMessage
    <3> QED  BY <2>1
  <2>3. Stubbed(m) \in ViewMessage /\ C!Gain(m) \in Nat /\ fat \in Nat  BY <2>2, StubIs
  <2>4. out \in [DOMAIN messages -> ViewMessage]
    <3> HIDE DEF ViewMessage, m
    <3> QED  BY <2>1, <2>3
  <2>5. total \in Nat /\ acc.trimmed + fat \in Nat  BY <2>1, <2>3
  <2>6. [acc.out EXCEPT ![i].results = [k \in DOMAIN @ |-> C!Dropped(@[k])]] = out  BY Zenon DEF Stubbed
  <2>7. C!TrimOne(acc, i, target) = [out |-> out, total |-> total, trimmed |-> acc.trimmed + fat]
    <3> HIDE DEF out
    <3> QED  BY <1>2, <2>6 DEF C!TrimOne, Heavy
  <2> HIDE DEF out, total, fat, ViewMessage
  <2> QED  BY <2>4, <2>5, <2>7 DEF TrimAcc
<1> QED  BY <1>1, <1>2

LEMMA TrimUpExists == ASSUME AlternateInv, NEW target  PROVE \E f : TrimUp(f, target)
<1> DEFINE n == Len(messages)
           K == C!Candidates(messages)
           start == [out |-> messages, total |-> C!EstimateTokens(messages), trimmed |-> 0]
           step == [i \in 1 .. n |-> [acc \in TrimAcc |-> IF i \in K THEN C!TrimOne(acc, i, target) ELSE acc]]
<1>1. n \in Nat /\ DOMAIN messages = 1 .. n  BY MessageFacts
<1>2. start \in TrimAcc
  <2>1. messages \in Seq(ViewMessage)  BY ViewIs, 0 \in Nat
  <2>2. messages \in [DOMAIN messages -> ViewMessage]
    <3> HIDE DEF ViewMessage
    <3> QED  BY <2>1
  <2>3. C!EstimateTokens(messages) \in Nat  BY <2>1, WeightsAre
  <2> HIDE DEF ViewMessage
  <2> QED  BY <2>2, <2>3 DEF TrimAcc
<1>3. step \in [1 .. n -> [TrimAcc -> TrimAcc]]
  <2>1. \A i \in 1 .. n, acc \in TrimAcc : C!TrimOne(acc, i, target) \in TrimAcc  BY <1>1, TrimOneTypes
  <2> HIDE DEF TrimAcc, K, n
  <2> QED  BY <2>1
<1>4. \A i \in 1 .. n, acc \in TrimAcc : step[i][acc] = IF i \in K THEN C!TrimOne(acc, i, target) ELSE acc  OBVIOUS
<1> HIDE DEF step, start, K, TrimAcc
<1>5. HasFold(n, TrimAcc, start, step)  BY <1>1, <1>2, <1>3, FoldExists, Zenon
<1>6. PICK f \in [0 .. n -> TrimAcc] : f[0] = start /\ \A i \in 1 .. n : f[i] = step[i][f[i - 1]]  BY <1>5 DEF HasFold
<1> HIDE DEF n
<1>7. ASSUME NEW i \in 0 .. n
      PROVE  f[i] = IF i = 0 THEN start ELSE IF i \in K THEN C!TrimOne(f[i - 1], i, target) ELSE f[i - 1]
  <2>1. CASE i = 0  BY <1>6, <2>1
  <2>2. CASE i # 0
    <3>1. i \in 1 .. n /\ i - 1 \in 0 .. n  BY <1>1, <2>2
    <3>2. f[i - 1] \in TrimAcc  BY <1>6, <3>1
    <3> QED  BY <1>4, <1>6, <2>2, <3>1, <3>2
  <2> QED  BY <2>1, <2>2
<1>8. f = [i \in 0 .. n |-> f[i]]  BY <1>6
<1>9. f = [i \in 0 .. n |-> IF i = 0 THEN start ELSE IF i \in K THEN C!TrimOne(f[i - 1], i, target) ELSE f[i - 1]]
  BY <1>7, <1>8, Zenon
<1>10. TrimUp(f, target)  BY <1>9, Zenon DEF TrimUp, n, start, K
<1> QED  BY <1>10

LEMMA TrimIs == ASSUME AlternateInv, NEW target \in Targets  PROVE Trimmed(Len(messages), C!TrimForContext(messages, target), target)
<1> DEFINE n == Len(messages)
           K == C!Candidates(messages)
           start == [out |-> messages, total |-> C!EstimateTokens(messages), trimmed |-> 0]
           f == CHOOSE ff : TrimUp(ff, target)
<1>1. n \in Nat /\ DOMAIN messages = 1 .. n  BY MessageFacts
<1>2. TrimUp(f, target)  BY TrimUpExists
<1>3. C!TrimForContext(messages, target) = f[n]  BY DEF C!TrimForContext, TrimUp
<1> HIDE DEF f
<1>4. f[0] = start /\ \A i \in 1 .. n : f[i] = IF i \in K THEN C!TrimOne(f[i - 1], i, target) ELSE f[i - 1]
  <2>1. f = [i \in 0 .. n |-> IF i = 0 THEN start ELSE IF i \in K THEN C!TrimOne(f[i - 1], i, target) ELSE f[i - 1]]
    BY <1>2, Zenon DEF TrimUp
  <2> HIDE DEF n, start, K
  <2>2. \A i \in 0 .. n : f[i] = IF i = 0 THEN start ELSE IF i \in K THEN C!TrimOne(f[i - 1], i, target) ELSE f[i - 1]
    BY <2>1, Zenon
  <2>3. 0 \in 0 .. n /\ \A i \in 1 .. n : i \in 0 .. n /\ i # 0  BY <1>1
  <2> QED  BY <2>2, <2>3
<1> DEFINE G == {i \in 0 .. n : Trimmed(i, f[i], target)}
<1>5. 0 \in G
  <2>1. messages \in Seq(ViewMessage) /\ View(0) \in Seq(ViewMessage) /\ DOMAIN View(0) = DOMAIN messages
        /\ \A j \in DOMAIN messages : View(0)[j] = IF j \in K /\ j <= 0 THEN Stubbed(messages[j]) ELSE messages[j]
    BY ViewIs, 0 \in Nat
  <2>2. View(0) = messages
    <3>1. \A j \in DOMAIN messages : ~(j <= 0)  BY <1>1
    <3>2. \A j \in DOMAIN messages : View(0)[j] = messages[j]  BY <2>1, <3>1
    <3>3. messages = [j \in DOMAIN messages |-> messages[j]]
      <4> DEFINE T == ViewMessage
      <4>1. messages \in Seq(T)  BY <2>1
      <4> HIDE DEF T
      <4> QED  BY <4>1
    <3>4. View(0) = [j \in DOMAIN messages |-> View(0)[j]]  BY DEF View
    <3> QED  BY <3>2, <3>3, <3>4, Zenon
  <2>3. C!EstimateTokens(messages) \in Nat  BY <2>1, WeightsAre
  <2>4. f[0].out = messages /\ f[0].total = C!EstimateTokens(messages) /\ f[0].trimmed = 0  BY <1>4
  <2>5. Trimmed(0, f[0], target)
    <3>1. 0 \in 0 .. 0 /\ 1 .. 0 = {}  OBVIOUS
    <3> QED  BY <2>2, <2>3, <2>4, <3>1 DEF Trimmed
  <2> QED  BY <1>1, <2>5
<1>6. ASSUME NEW i \in 1 .. n, i - 1 \in G  PROVE i \in G
  <2>1. Trimmed(i - 1, f[i - 1], target) /\ i \in DOMAIN messages /\ i \in 0 .. n  BY <1>1, <1>6
  <2>2. Trimmed(i, IF i \in K THEN C!TrimOne(f[i - 1], i, target) ELSE f[i - 1], target)  BY <2>1, TrimStep
  <2> HIDE DEF K, n
  <2> QED  BY <1>4, <1>6, <2>1, <2>2
<1>7. n \in G
  <2> HIDE DEF G
  <2>1. \A i \in 0 .. n : i \in G  BY <1>1, <1>5, <1>6, Climb
  <2> QED  BY <1>1, <2>1
<1> QED  BY <1>3, <1>7

LEMMA TrimNeeded == ASSUME AlternateInv  PROVE C!TrimIsLeast
<1> SUFFICES ASSUME NEW target \in Targets
    PROVE  LET r    == C!TrimForContext(messages, target)
               cut  == {i \in DOMAIN messages : r.out[i] # messages[i]}
               back == [r.out EXCEPT ![C!Max(cut)] = messages[C!Max(cut)]]
               big  == {i \in C!Candidates(messages) : \E k \in DOMAIN messages[i].results : ~C!Tiny(messages[i].results[k].chars)}
               last == IF C!ResultMsgs(messages) = {} THEN 0 ELSE C!Max(C!ResultMsgs(messages))
           IN /\ \A i \in DOMAIN messages : r.out[i].uses = messages[i].uses /\ C!Ids(r.out[i].results) = C!Ids(messages[i].results)
              /\ last \notin cut
              /\ \A i \in big, j \in cut : i < j => i \in cut
              /\ C!EstimateTokens(r.out) <= target + r.trimmed \/ cut = big
              /\ cut # {} => C!EstimateTokens(back) > target
  BY DEF C!TrimIsLeast
<1> DEFINE r    == C!TrimForContext(messages, target)
           cut  == {i \in DOMAIN messages : r.out[i] # messages[i]}
           top  == C!Max(cut)
           back == [r.out EXCEPT ![top] = messages[top]]
           K    == C!Candidates(messages)
           big  == {i \in K : \E k \in DOMAIN messages[i].results : ~C!Tiny(messages[i].results[k].chars)}
           last == IF C!ResultMsgs(messages) = {} THEN 0 ELSE C!Max(C!ResultMsgs(messages))
           n    == Len(messages)
<1>1. n \in Nat /\ DOMAIN messages = 1 .. n /\ target \in Nat  BY MessageFacts, ContextAssumption
<1>2. Trimmed(n, r, target)  BY TrimIs
<1> HIDE DEF r
<1>3. PICK p \in 0 .. n : /\ r.out = View(p) /\ (p = n \/ r.total <= target)
                          /\ \A q \in 1 .. p : q \in K => C!EstimateTokens(View(q - 1)) > target
  BY <1>2 DEF Trimmed
<1>4. p \in Nat /\ p <= n
  <2>1. p \in 0 .. n  BY <1>3
  <2> HIDE DEF n
  <2> QED  BY <1>1, <2>1
<1>5. /\ messages \in Seq(ViewMessage) /\ View(p) \in Seq(ViewMessage) /\ DOMAIN View(p) = 1 .. n
      /\ \A j \in 1 .. n : r.out[j] = IF j \in K /\ j <= p THEN Stubbed(messages[j]) ELSE messages[j]
  BY <1>1, <1>3, <1>4, ViewIs
<1>6. \A j \in 1 .. n : messages[j] \in ViewMessage
  <2> HIDE DEF ViewMessage
  <2> QED  BY <1>1, <1>5
<1>7. K \subseteq 1 .. n  BY <1>1 DEF C!Candidates, C!ResultMsgs
<1> HIDE DEF n, K
<1>8. big = {i \in K : Heavy(messages[i]) # {}}  BY DEF Heavy
<1>9. cut = {i \in big : i <= p}
  <2>1. \A i \in 1 .. n : Stubbed(messages[i]) = messages[i] <=> Heavy(messages[i]) = {}  BY <1>6, StubIs
  <2>2. \A i \in 1 .. n : i \in cut <=> i \in K /\ i <= p /\ Heavy(messages[i]) # {}
    <3>1. TAKE i \in 1 .. n
    <3>2. r.out[i] = IF i \in K /\ i <= p THEN Stubbed(messages[i]) ELSE messages[i]  BY <1>5
    <3>3. i \in cut <=> r.out[i] # messages[i]  BY <1>1
    <3> QED  BY <2>1, <3>2, <3>3
  <2>3. cut \subseteq 1 .. n /\ big \subseteq 1 .. n  BY <1>1, <1>7
  <2> HIDE DEF cut, big
  <2> QED  BY <1>8, <2>2, <2>3
<1>10. \A i \in 1 .. n : r.out[i].uses = messages[i].uses /\ C!Ids(r.out[i].results) = C!Ids(messages[i].results)
  <2>1. TAKE i \in 1 .. n
  <2>2. r.out[i] = Stubbed(messages[i]) \/ r.out[i] = messages[i]  BY <1>5
  <2>3. messages[i] \in ViewMessage  BY <1>6
  <2>4. Stubbed(messages[i]).uses = messages[i].uses /\ C!Ids(Stubbed(messages[i]).results) = C!Ids(messages[i].results)
    BY <2>3, StubIs
  <2> QED  BY <2>2, <2>4
<1>11. last \notin cut
  <2>1. last \notin K /\ cut \subseteq K
    <3>1. cut \subseteq K  BY <1>8, <1>9
    <3>2. last \notin K  BY <1>1, <1>7 DEF K, n, C!Candidates, C!ResultMsgs
    <3> QED  BY <3>1, <3>2
  <2> QED  BY <2>1
<1> HIDE DEF cut, big
<1>12. ASSUME NEW i \in big, NEW j \in cut, i < j  PROVE i \in cut
  <2>1. i \in 1 .. n /\ j \in 1 .. n /\ j <= p  BY <1>7, <1>8, <1>9
  <2>2. i <= p  BY <1>4, <1>12, <2>1
  <2> QED  BY <1>9, <2>2
<1>13. C!EstimateTokens(r.out) <= target + r.trimmed \/ cut = big
  <2>1. CASE p = n
    <3>1. \A i \in big : i <= p  BY <1>1, <1>7, <1>8, <2>1
    <3> QED  BY <1>9, <3>1
  <2>2. CASE r.total <= target
    <3>1. r.total \in Nat /\ r.trimmed \in Nat /\ C!EstimateTokens(r.out) <= r.total + r.trimmed  BY <1>2 DEF Trimmed
    <3>2. C!EstimateTokens(r.out) \in Nat  BY <1>3, <1>5, WeightsAre
    <3> QED  BY <1>1, <2>2, <3>1, <3>2
  <2> QED  BY <1>3, <2>1, <2>2
<1>14. ASSUME cut # {}  PROVE C!EstimateTokens(back) > target
  <2>1. top \in cut /\ \A j \in cut : top >= j
    <3>1. cut \subseteq 0 .. n
      <4>1. cut \subseteq K  BY <1>8, <1>9
      <4>2. \A i \in K : i \in 1 .. n  BY <1>7
      <4>3. \A i \in 1 .. n : i \in 0 .. n  BY <1>1
      <4> QED  BY <4>1, <4>2, <4>3
    <3>2. \E x \in cut : \A y \in cut : x >= y  BY <1>1, <1>14, <3>1, MaxExists
    <3> QED  BY <3>2 DEF C!Max
  <2> HIDE DEF top
  <2>2. top \in 1 .. n /\ top \in 1 .. p /\ top \in K  BY <1>4, <1>7, <1>8, <1>9, <2>1
  <2>3. C!EstimateTokens(View(top - 1)) > target  BY <1>3, <2>2
  <2>4. back = View(top - 1)
    <3>1. top - 1 \in Nat /\ top \in Nat  BY <2>2
    <3>2. /\ DOMAIN View(top - 1) = 1 .. n
          /\ \A j \in 1 .. n : View(top - 1)[j] = IF j \in K /\ j <= top - 1 THEN Stubbed(messages[j]) ELSE messages[j]
      BY <1>1, <3>1, ViewIs DEF K
    <3>3. DOMAIN back = 1 .. n /\ \A j \in 1 .. n : back[j] = IF j = top THEN messages[top] ELSE r.out[j]
      BY <1>3, <1>5, <2>2
    <3>4. ASSUME NEW j \in 1 .. n  PROVE back[j] = View(top - 1)[j]
      <4>1. CASE j = top
        <5>1. ~(j <= top - 1)  BY <3>1, <4>1
        <5> QED  BY <3>2, <3>3, <4>1, <5>1
      <4>2. CASE j < top
        <5>1. j <= top - 1 /\ j <= p /\ j # top  BY <1>4, <2>2, <3>1, <4>2
        <5>2. r.out[j] = IF j \in K /\ j <= p THEN Stubbed(messages[j]) ELSE messages[j]  BY <1>5
        <5>3. View(top - 1)[j] = IF j \in K /\ j <= top - 1 THEN Stubbed(messages[j]) ELSE messages[j]  BY <3>2
        <5>4. back[j] = r.out[j]  BY <3>3, <5>1
        <5> QED  BY <5>1, <5>2, <5>3, <5>4
      <4>3. CASE j > top
        <5>1. ~(j <= top - 1) /\ j # top /\ j \notin cut  BY <2>1, <3>1, <4>3
        <5>2. r.out[j] = messages[j]  BY <1>1, <5>1 DEF cut
        <5> QED  BY <3>2, <3>3, <5>1, <5>2
      <4> QED  BY <3>1, <4>1, <4>2, <4>3
    <3>5. back = [j \in 1 .. n |-> back[j]]
      <4>1. r.out = [j \in 1 .. n |-> r.out[j]]  BY <1>1, <1>3 DEF View
      <4> QED  BY <3>3, <4>1
    <3>6. View(top - 1) = [j \in 1 .. n |-> View(top - 1)[j]]  BY <1>1 DEF View
    <3> HIDE DEF back
    <3> QED  BY <3>4, <3>5, <3>6
  <2> QED  BY <2>3, <2>4
<1> QED  BY <1>1, <1>10, <1>11, <1>12, <1>13, <1>14 DEF r, cut, top, big, last, K

-----------------------------------------------------------------------------
LEMMA ContextStutters == ASSUME ContextInv, UNCHANGED C!vars  PROVE ContextInv'
BY DEF C!vars, ContextInv, AlternateInv, CompactionInv, C!IsUserTurn, C!CarriesResults, C!Chunks, C!Rendered

\* A request can be sent: roles in turn, each result behind its call; no more is dropped from it than it takes to fit;
\* and a summary stands for what was read to the end, and for that only (context.ts).
THEOREM RequestsAreValid == C!Spec => [](C!TypeOK /\ C!RequestIsValid /\ C!TrimIsLeast) /\ [][C!HeadWasRead]_(C!vars)
<1>1. C!Init => ContextInv  BY ContextStart
<1>2. ContextInv /\ [C!Next]_(C!vars) => ContextInv'  BY ContextKeep, ContextStutters
<1>3. ContextInv /\ [C!Next]_(C!vars) => [C!HeadWasRead]_(C!vars)  BY ContextKeep
<1>4. ContextInv => C!TypeOK /\ C!RequestIsValid /\ C!TrimIsLeast  BY ContextTypes, ContextValid, TrimNeeded DEF ContextInv
<1> QED  BY <1>1, <1>2, <1>3, <1>4, PTL DEF C!Spec

-----------------------------------------------------------------------------
(* The provider adapter                                                    *)

WireText == Texts \cup {<<>>, <<"prose">>}
WireMessage == [role : {"user", "assistant"}, text : WireText, call : P!Ids \cup {P!NoCall}, results : BOOLEAN, step : Nat, thought : BOOLEAN]
RequestType == [at : {"idle", "out", "body", "pause", "failed"}, stream : BOOLEAN, tools : BOOLEAN, attempt : Nat, budget : Nat, left : Nat,
                posts : Nat, mode : {"undecided", "stream", "hold"}, why : {"none", "busy", "network", "refused", "aborted"}]

\* Without a budget the attempts are counted, within one every attempt takes some of it; a pause leaves some.
AttemptsInv ==
  /\ request.budget = 0 => request.left = 0 /\ request.attempt <= MaxRetries
  /\ request.budget > 0 => request.left + request.attempt <= request.budget
  /\ request.at = "pause" /\ request.budget > 0 => request.left > 0

Pieces == {"ws", "prose", "call", "code"}

ProviderInv ==
  /\ wire \in Seq(WireMessage) /\ wire # <<>> /\ meta \in [P!Ids -> P!Steps \cup {P!NoStep}]
  /\ request \in RequestType /\ AttemptsInv
  /\ request.at \in {"out", "body", "pause"} => P!Answers < MaxSteps
  /\ reply \in P!Replies \cup {P!NoReply} /\ stopped \in BOOLEAN
  /\ P!AnswerIsWhole

LEMMA WireIsFinite == ASSUME ProviderInv  PROVE P!Answers \in Nat /\ Len(wire) \in Nat /\ Len(wire) > 0
<1>1. Len(wire) \in Nat /\ Len(wire) > 0 /\ DOMAIN wire = 1..Len(wire)  BY DEF ProviderInv
<1> DEFINE A == {i \in DOMAIN wire : wire[i].role = "assistant"}
<1>2. IsFiniteSet(1..Len(wire))  BY <1>1, FS_Interval
<1>3. A \subseteq 1..Len(wire)  BY <1>1
<1>4. Cardinality(A) \in Nat  BY <1>2, <1>3, FS_Subset, FS_CardinalityType
<1>5. P!Answers = Cardinality(A)  BY DEF P!Answers, P!Cardinality, Cardinality
<1> QED  BY <1>1, <1>4, <1>5

LEMMA ProviderTypes == ASSUME ProviderInv  PROVE P!TypeOK
<1>1. request.left \in 0..request.budget /\ request.attempt \in 0..(MaxRetries + request.budget)
  BY ProviderAssumption DEF ProviderInv, AttemptsInv, RequestType
<1>2. \A i \in DOMAIN wire : wire[i] \in WireMessage  BY DEF ProviderInv
<1> QED  BY <1>1, <1>2 DEF ProviderInv, RequestType, WireMessage, P!TypeOK, P!NoCall

LEMMA ProviderStart == ASSUME P!Init  PROVE ProviderInv
<1>1. P!User(<<"prose">>) \in WireMessage  BY DEF P!User, WireMessage, WireText
<1>2. wire \in Seq(WireMessage) /\ wire # <<>> /\ wire[Len(wire)].role = "user"
  <2>1. wire = <<P!User(<<"prose">>)>>  BY DEF P!Init
  <2> HIDE DEF WireMessage
  <2>2. wire \in Seq(WireMessage) /\ Len(wire) = 1 /\ wire[1] = P!User(<<"prose">>)  BY <1>1, <2>1
  <2> QED  BY <2>2 DEF P!User
<1>3. P!AnswerIsWhole  BY <1>2 DEF P!AnswerIsWhole, P!Ended
<1>4. request \in RequestType /\ AttemptsInv /\ request.at = "idle"
  BY ProviderAssumption DEF P!Init, P!Idle, RequestType, AttemptsInv
<1>5. meta \in [P!Ids -> P!Steps \cup {P!NoStep}] /\ reply = P!NoReply /\ stopped = FALSE
  BY DEF P!Init
<1> QED  BY <1>2, <1>3, <1>4, <1>5 DEF ProviderInv

\* What a step of the request alone has to keep.
LEMMA RequestStep ==
  ASSUME ProviderInv, UNCHANGED <<wire, meta>>, request' \in RequestType, AttemptsInv', request'.at # "idle",
         request'.at \in {"out", "body", "pause"} => P!Answers < MaxSteps,
         reply' \in P!Replies \cup {P!NoReply}, stopped' \in BOOLEAN
  PROVE  ProviderInv'
BY DEF ProviderInv, P!AnswerIsWhole, P!Ended, P!Answers

LEMMA SentKeeps ==
  ASSUME ProviderInv, NEW st \in BOOLEAN, NEW tl \in BOOLEAN, NEW b \in Budgets, P!Send(st, tl, b)
  PROVE  ProviderInv' /\ P!RepeatsAreBounded
<1>1. request' \in RequestType /\ request'.at = "out" /\ request'.attempt = 0 /\ request'.budget = b /\ request'.left = b
  BY ProviderAssumption DEF P!Send, RequestType
<1>2. AttemptsInv'  BY <1>1, ProviderAssumption DEF AttemptsInv
<1>3. ProviderInv'  BY <1>1, <1>2, RequestStep DEF P!Send, ProviderInv
<1> QED  BY <1>3 DEF P!Send, P!RepeatsAreBounded

LEMMA SameAttempt ==
  ASSUME ProviderInv, UNCHANGED <<wire, meta>>, request' \in RequestType, request'.at \in {"out", "body", "failed"},
         request.at \in {"out", "body", "pause"}, request'.budget = request.budget,
         \/ request'.attempt = request.attempt /\ request'.left = request.left
         \/ request'.attempt = 0 /\ request'.left = request.budget,
         reply' \in P!Replies \cup {P!NoReply}, stopped' \in BOOLEAN
  PROVE  ProviderInv'
<1>1. AttemptsInv'  BY ProviderAssumption DEF ProviderInv, AttemptsInv, RequestType
<1> QED  BY <1>1, RequestStep DEF ProviderInv

LEMMA FailKeeps ==
  ASSUME ProviderInv, NEW w \in {"none", "busy", "network", "refused", "aborted"}, P!Fail(w), request.at \in {"out", "body", "pause"}
  PROVE  ProviderInv' /\ request'.posts = request.posts
<1>1. request' = [request EXCEPT !.at = "failed", !.why = w] /\ UNCHANGED <<wire, meta, reply, stopped>>  BY DEF P!Fail
<1>2. request \in RequestType  BY DEF ProviderInv
<1>3. request' \in RequestType /\ request'.at = "failed" /\ request'.budget = request.budget /\ request'.attempt = request.attempt
      /\ request'.left = request.left /\ request'.posts = request.posts
  BY <1>1, <1>2 DEF RequestType
<1> QED  BY <1>1, <1>3, SameAttempt DEF ProviderInv

LEMMA RepeatKeeps ==
  ASSUME ProviderInv, NEW p \in 0..2, P!Repeat(p), request.at = "out"
  PROVE  ProviderInv'
<1>1. /\ request' = [request EXCEPT !.at = "pause", !.attempt = @ + 1, !.left = IF @ > p THEN @ - p ELSE 0]
      /\ UNCHANGED <<wire, meta, reply, stopped>> /\ P!MayPause(p)
  BY DEF P!Repeat
<1>2. request \in RequestType  BY DEF ProviderInv
<1>3. p \in (IF request.budget = 0 THEN {0} ELSE 1..2) /\ IF request.budget = 0 THEN request.attempt < MaxRetries ELSE request.left > p
  BY <1>1 DEF P!MayPause, P!Pauses
<1>4. request.left \in Nat /\ request.attempt \in Nat /\ request.budget \in Nat  BY <1>2 DEF RequestType
<1>5. request' \in RequestType /\ request'.at = "pause" /\ request'.budget = request.budget /\ request'.attempt = request.attempt + 1
      /\ request'.left = IF request.left > p THEN request.left - p ELSE 0
  <2>1. (IF request.left > p THEN request.left - p ELSE 0) \in Nat /\ request.attempt + 1 \in Nat  BY <1>4
  <2> QED  BY <1>1, <1>2, <2>1 DEF RequestType
<1>6. AttemptsInv'
  <2>1. AttemptsInv  BY DEF ProviderInv
  <2>2. CASE request.budget = 0  BY <1>3, <1>4, <1>5, <2>1, <2>2, ProviderAssumption DEF AttemptsInv
  <2>3. CASE request.budget > 0  BY <1>3, <1>4, <1>5, <2>1, <2>3, ProviderAssumption DEF AttemptsInv
  <2> QED  BY <1>4, <2>2, <2>3
<1> QED  BY <1>1, <1>5, <1>6, RequestStep DEF ProviderInv

LEMMA AgainKeeps ==
  ASSUME ProviderInv, NEW p \in 0..2, P!Busy(p) \/ P!NetworkFails(p)
  PROVE  ProviderInv' /\ P!RepeatsAreBounded
<1>1. request.at = "out"  BY DEF P!Busy, P!NetworkFails
<1>2. P!Repeat(p) \/ P!Fail("busy") \/ P!Fail("network")  BY DEF P!Busy, P!NetworkFails, P!GiveUp
<1>3. ProviderInv'  BY <1>1, <1>2, RepeatKeeps, FailKeeps
<1> QED  BY <1>1, <1>3 DEF P!RepeatsAreBounded

LEMMA OpensKeeps ==
  ASSUME ProviderInv, NEW r \in P!Replies, P!Opens(r) \/ P!AnswersWhole(r)
  PROVE  ProviderInv' /\ P!RepeatsAreBounded
<1>1. request.at = "out" /\ reply' = r /\ UNCHANGED <<wire, meta, stopped>>  BY DEF P!Opens, P!AnswersWhole, P!Says
<1>2. request' = [request EXCEPT !.at = "body"] \/ request' = [request EXCEPT !.at = "body", !.stream = FALSE]
  BY DEF P!Opens, P!AnswersWhole
<1>3. request \in RequestType  BY DEF ProviderInv
<1>4. request' \in RequestType /\ request'.at = "body" /\ request'.budget = request.budget /\ request'.attempt = request.attempt
      /\ request'.left = request.left
  BY <1>2, <1>3 DEF RequestType
<1>5. ProviderInv'  BY <1>1, <1>4, SameAttempt DEF ProviderInv
<1> QED  BY <1>1, <1>5 DEF P!RepeatsAreBounded

\* The answer that ends a request.
LEMMA AnswerKeeps ==
  ASSUME ProviderInv, request.at = "body", NEW text, text = reply.text, P!Finish(text), UNCHANGED <<reply, stopped>>
  PROVE  ProviderInv' /\ P!RepeatsAreBounded
<1> DEFINE msg == P!fromChatResponse(text)
<1>1. /\ wire' = Append(wire, msg)
      /\ meta' = (IF msg.call # P!NoCall /\ reply.thinks THEN [meta EXCEPT ![msg.call] = msg.step] ELSE meta)
      /\ request' = [request EXCEPT !.at = "idle"]
  BY DEF P!Finish
<1>2. P!Answers \in Nat /\ P!Answers + 1 \in P!Steps
  <2>1. P!Answers \in Nat  BY WireIsFinite
  <2>2. P!Answers < MaxSteps  BY DEF ProviderInv
  <2> QED  BY <2>1, <2>2, ProviderAssumption DEF P!Steps
<1>3. P!CallId \in P!Ids \cup {P!NoCall}
  BY <1>2 DEF P!CallId, P!Ids
<1>4. reply.text \in WireText
  <2>1. CASE reply \in P!Replies  BY <2>1 DEF P!Replies, WireText
  <2>2. CASE reply = P!NoReply  BY <2>2 DEF P!NoReply, WireText
  <2> QED  BY <2>1, <2>2 DEF ProviderInv
<1>b. reply.thinks \in BOOLEAN
  <2>1. CASE reply \in P!Replies  BY <2>1 DEF P!Replies
  <2>2. CASE reply = P!NoReply  BY <2>2 DEF P!NoReply
  <2> QED  BY <2>1, <2>2 DEF ProviderInv
<1>5. /\ msg.role = "assistant" /\ msg.call = P!CallId /\ msg.step = P!Answers + 1
      /\ msg.text = IF P!Recovered THEN <<>> ELSE text
  BY DEF P!fromChatResponse
<1>6. msg \in WireMessage
  <2>1. (IF P!Recovered THEN <<>> ELSE text) \in WireText  BY <1>4 DEF WireText
  <2> QED  BY <1>2, <1>3, <1>b, <2>1 DEF P!fromChatResponse, P!Steps, WireMessage
<1> HIDE DEF msg
<1>7. wire' \in Seq(WireMessage) /\ wire' # <<>> /\ wire'[Len(wire')] = msg
  <2>1. wire \in Seq(WireMessage)  BY DEF ProviderInv
  <2> HIDE DEF WireMessage
  <2>2. wire' \in Seq(WireMessage) /\ Len(wire') = Len(wire) + 1 /\ wire'[Len(wire) + 1] = msg /\ Len(wire) \in Nat  BY <1>1, <1>6, <2>1
  <2> QED  BY <2>2
<1>8. meta' \in [P!Ids -> P!Steps \cup {P!NoStep}]
  <2>1. meta \in [P!Ids -> P!Steps \cup {P!NoStep}]  BY DEF ProviderInv
  <2>2. msg.step \in P!Steps  BY <1>2, <1>5
  <2> QED  BY <1>1, <2>1, <2>2
<1>9. request \in RequestType  BY DEF ProviderInv
<1>10. request' \in RequestType /\ request'.at = "idle" /\ request'.budget = request.budget /\ request'.attempt = request.attempt /\ request'.left = request.left
  BY <1>1, <1>9 DEF RequestType
<1>11. AttemptsInv'  BY <1>10 DEF ProviderInv, AttemptsInv
<1>12. P!AnswerIsWhole'
  <2>1. CASE P!Recovered
    <3>1. P!CallId.by = "uuid" /\ P!IsCall(reply.text)
      BY <2>1 DEF P!Recovered, P!recoverJsonToolCalls, P!CallId
    <3>2. P!IsCall(reply'.text) <=> P!IsCall(reply.text)  BY DEF P!IsCall, P!Spoken
    <3> QED  BY <1>5, <1>7, <3>1, <3>2 DEF P!AnswerIsWhole
  <2>2. CASE ~P!Recovered  BY <1>5, <1>7, <2>2 DEF P!AnswerIsWhole
  <2> QED  BY <2>1, <2>2
<1>13. ProviderInv'  BY <1>7, <1>8, <1>10, <1>11, <1>12 DEF ProviderInv
<1> QED  BY <1>13 DEF P!RepeatsAreBounded

LEMMA PieceKeeps == ASSUME ProviderInv, P!Piece  PROVE ProviderInv' /\ P!RepeatsAreBounded
<1>1. PICK mode \in {"undecided", "stream", "hold"} : request' = [request EXCEPT !.mode = mode]
  <2>1. request.mode \in {"undecided", "stream", "hold"}  BY DEF ProviderInv, RequestType
  <2>2. \A t : P!ModeOf(t) \in {"undecided", "stream", "hold"}  BY DEF P!ModeOf
  <2> QED  BY <2>1, <2>2 DEF P!Piece
<1>2. request.at = "body" /\ UNCHANGED <<wire, meta, reply, stopped>>  BY DEF P!Piece
<1>3. request \in RequestType  BY DEF ProviderInv
<1>4. request' \in RequestType /\ request'.at = "body" /\ request'.budget = request.budget /\ request'.attempt = request.attempt /\ request'.left = request.left
  BY <1>1, <1>2, <1>3 DEF RequestType
<1>5. ProviderInv'  BY <1>2, <1>4, SameAttempt DEF ProviderInv
<1> QED  BY <1>2, <1>5 DEF P!RepeatsAreBounded

LEMMA BeginsAnew == ASSUME ProviderInv, P!StreamRefused \/ P!CannotParse  PROVE ProviderInv' /\ P!RepeatsAreBounded
<1>1. request.at = "out" /\ UNCHANGED <<wire, meta, reply, stopped>>  BY DEF P!StreamRefused, P!CannotParse
<1>2. request \in RequestType  BY DEF ProviderInv
<1>3. \/ request' = [request EXCEPT !.stream = FALSE, !.attempt = 0, !.left = request.budget, !.posts = @ + 1]
      \/ request' = [request EXCEPT !.tools = FALSE, !.attempt = 0, !.left = request.budget, !.posts = @ + 1]
  BY DEF P!StreamRefused, P!CannotParse
<1>4. request' \in RequestType /\ request'.at = "out" /\ request'.budget = request.budget /\ request'.attempt = 0 /\ request'.left = request.budget
  <2>1. request.posts + 1 \in Nat /\ request.budget \in Nat  BY <1>2 DEF RequestType
  <2>2. CASE request' = [request EXCEPT !.stream = FALSE, !.attempt = 0, !.left = request.budget, !.posts = @ + 1]
    BY <1>1, <1>2, <2>1, <2>2 DEF RequestType
  <2>3. CASE request' = [request EXCEPT !.tools = FALSE, !.attempt = 0, !.left = request.budget, !.posts = @ + 1]
    BY <1>1, <1>2, <2>1, <2>3 DEF RequestType
  <2> QED  BY <1>3, <2>2, <2>3
<1>5. ProviderInv'  BY <1>1, <1>4, SameAttempt DEF ProviderInv
<1> QED  BY <1>1, <1>5 DEF P!RepeatsAreBounded

LEMMA WakeKeeps == ASSUME ProviderInv, P!Wake  PROVE ProviderInv' /\ P!RepeatsAreBounded
<1>1. request.at = "pause" /\ UNCHANGED <<wire, meta, reply, stopped>> /\ ~stopped /\ request' = [request EXCEPT !.at = "out", !.posts = @ + 1]
  BY DEF P!Wake
<1>2. request \in RequestType  BY DEF ProviderInv
<1>3. request' \in RequestType /\ request'.at = "out" /\ request'.budget = request.budget /\ request'.attempt = request.attempt /\ request'.left = request.left
  <2>1. request.posts + 1 \in Nat  BY <1>2 DEF RequestType
  <2> QED  BY <1>1, <1>2, <2>1 DEF RequestType
<1>4. ProviderInv'  BY <1>1, <1>3, SameAttempt DEF ProviderInv
<1> QED  BY <1>1, <1>4 DEF P!RepeatsAreBounded, ProviderInv, AttemptsInv

\* The tool loop and the user.
LEMMA SaysKeeps ==
  ASSUME ProviderInv, NEW msg \in WireMessage, msg.role = "user", request.at = "idle", wire' = Append(wire, msg),
         UNCHANGED <<meta, request, reply, stopped>>
  PROVE  ProviderInv' /\ P!RepeatsAreBounded
<1>1. wire' \in Seq(WireMessage) /\ wire' # <<>> /\ wire'[Len(wire')] = msg
  <2>1. wire \in Seq(WireMessage)  BY DEF ProviderInv
  <2> HIDE DEF WireMessage
  <2>2. wire' \in Seq(WireMessage) /\ Len(wire') = Len(wire) + 1 /\ wire'[Len(wire) + 1] = msg /\ Len(wire) \in Nat  BY <2>1
  <2> QED  BY <2>2
<1>2. P!AnswerIsWhole'  BY <1>1 DEF P!AnswerIsWhole, P!Ended
<1>3. AttemptsInv'  BY DEF ProviderInv, AttemptsInv
<1> QED  BY <1>1, <1>2, <1>3 DEF ProviderInv, P!RepeatsAreBounded

LEMMA ProviderKeep == ASSUME ProviderInv, P!Next  PROVE ProviderInv' /\ P!RepeatsAreBounded
<1>1. CASE \E s, t \in BOOLEAN, b \in Budgets : P!Send(s, t, b)  BY <1>1, SentKeeps
<1>2. CASE \E r \in P!Replies : P!Opens(r) \/ P!AnswersWhole(r)  BY <1>2, OpensKeeps
<1>3. CASE \E p \in 0..2 : P!Busy(p) \/ P!NetworkFails(p)  BY <1>3, AgainKeeps
<1>4. CASE P!Whole \/ P!StreamEnds  BY <1>4, AnswerKeeps DEF P!Whole, P!StreamEnds, P!Complete
<1>5. CASE P!StreamBreaks \/ P!BodyLost \/ P!Refused \/ P!Aborted
  <2>1. request.at \in {"out", "body", "pause"} /\ (P!Fail("busy") \/ P!Fail("network") \/ P!Fail("refused") \/ P!Fail("aborted"))
    BY <1>5 DEF P!StreamBreaks, P!BodyLost, P!Refused, P!Aborted
  <2>2. ProviderInv' /\ request'.posts = request.posts  BY <2>1, FailKeeps
  <2>3. request.posts \in Nat  BY DEF ProviderInv, RequestType
  <2> QED  BY <2>2, <2>3 DEF P!RepeatsAreBounded
<1>6. CASE P!Piece \/ P!StreamRefused \/ P!CannotParse \/ P!Wake  BY <1>6, PieceKeeps, BeginsAnew, WakeKeeps
<1>7. CASE P!Stop
  <2>1. UNCHANGED <<wire, meta, request, reply>> /\ stopped' = TRUE /\ request.at \in {"out", "body", "pause"}  BY <1>7 DEF P!Stop
  <2>2. AttemptsInv'  BY <2>1 DEF ProviderInv, AttemptsInv
  <2>3. ProviderInv'  BY <2>1, <2>2, RequestStep DEF ProviderInv
  <2>4. request.posts \in Nat  BY DEF ProviderInv, RequestType
  <2> QED  BY <2>1, <2>3, <2>4 DEF P!RepeatsAreBounded
<1>8. CASE P!NextTurn
  <2>1. P!User(<<"prose">>) \in WireMessage /\ P!User(<<"prose">>).role = "user"  BY DEF P!User, WireMessage, WireText
  <2> QED  BY <1>8, <2>1, SaysKeeps DEF P!NextTurn
<1>9. CASE \E w \in {<<>>, <<"prose">>} : P!ToolsRan(w)
  <2>1. PICK w \in {<<>>, <<"prose">>} : P!ToolsRan(w)  BY <1>9
  <2>2. wire[Len(wire)] \in WireMessage  BY WireIsFinite DEF ProviderInv
  <2> DEFINE msg == [P!User(w) EXCEPT !.call = wire[Len(wire)].call, !.results = TRUE]
  <2>3. msg \in WireMessage /\ msg.role = "user"  BY <2>2 DEF P!User, WireMessage, WireText
  <2>4. wire' = Append(wire, msg) /\ request.at = "idle" /\ UNCHANGED <<meta, request, reply, stopped>>  BY <2>1 DEF P!ToolsRan
  <2> QED  BY <2>3, <2>4, SaysKeeps
<1> QED  BY <1>1, <1>2, <1>3, <1>4, <1>5, <1>6, <1>7, <1>8, <1>9 DEF P!Next

-----------------------------------------------------------------------------
(* What is shown                                                           *)

\* While a stream comes in: text that is shown is all that came and cannot turn out to be a call; text held back is
\* not shown; text not yet decided on is white space.
ShownInv ==
  /\ request.at = "out" /\ request.stream =>
       /\ pieces = <<>> /\ display = <<>>
       /\ (request.mode = "stream" /\ ~request.tools) \/ request.mode = "undecided"
  /\ request.at = "pause" => ~request.stream
  /\ request.at = "body" /\ request.stream =>
       /\ Len(pieces) <= Len(reply.text) /\ pieces = SubSeq(reply.text, 1, Len(pieces))
       /\ request.mode = "stream" => display = pieces /\ (request.tools => \E i \in P!Spoken(pieces) : pieces[i] # "call")
       /\ request.mode = "undecided" => P!Spoken(pieces) = {} /\ display = <<>>
       /\ request.mode = "hold" => display = <<>>
  /\ P!ShownIsKept

LEMMA NotShown ==
  ASSUME \/ ~request'.stream
         \/ request'.at = "failed"
         \/ request'.at = "idle" /\ wire'[Len(wire')].role = "user"
  PROVE  ShownInv'
BY DEF ShownInv, P!ShownIsKept, P!Ended

LEMMA ReplyText == ASSUME ProviderInv  PROVE reply.text \in Seq(Pieces)
<1>1. CASE reply \in P!Replies  BY <1>1, ProviderAssumption DEF P!Replies, Pieces
<1>2. CASE reply = P!NoReply  BY <1>2 DEF P!NoReply
<1> QED  BY <1>1, <1>2 DEF ProviderInv

LEMMA PieceShows == ASSUME ProviderInv, ShownInv, P!Piece  PROVE ShownInv'
<1> DEFINE n == Len(pieces) + 1
           text == SubSeq(reply.text, 1, n)
           mode == IF request.mode = "undecided" THEN P!ModeOf(text) ELSE request.mode
<1>1. /\ request.at = "body" /\ request.stream /\ Len(pieces) < Len(reply.text)
      /\ pieces' = text /\ request' = [request EXCEPT !.mode = mode]
      /\ display' = IF mode = "stream" THEN text ELSE display
      /\ UNCHANGED <<wire, reply>>
  BY DEF P!Piece
<1>2. reply.text \in Seq(Pieces) /\ request \in RequestType  BY ReplyText DEF ProviderInv
<1>3. pieces = SubSeq(reply.text, 1, Len(pieces)) /\ Len(pieces) \in Nat
  <2>1. pieces = SubSeq(reply.text, 1, Len(pieces)) /\ Len(pieces) < Len(reply.text)  BY <1>1 DEF ShownInv
  <2>2. pieces \in Seq(Pieces)  BY <1>2, <2>1
  <2> QED  BY <2>1, <2>2
<1>4. n \in 1 .. Len(reply.text) /\ Len(text) = n /\ DOMAIN text = 1 .. n /\ \A i \in 1 .. n : text[i] = reply.text[i]
  BY <1>1, <1>2, <1>3
<1>5. DOMAIN pieces = 1 .. n - 1 /\ \A i \in 1 .. n - 1 : pieces[i] = text[i]
  BY <1>1, <1>2, <1>3, <1>4
<1>6. Len(pieces') = n /\ pieces' = SubSeq(reply'.text, 1, Len(pieces')) /\ Len(pieces') <= Len(reply'.text)
  BY <1>1, <1>4
<1>7. mode \in {"undecided", "stream", "hold"}
  BY <1>2 DEF RequestType, P!ModeOf
<1>8. mode = "stream" /\ request.tools => \E i \in P!Spoken(text) : text[i] # "call"
  <2>1. CASE request.mode = "stream"
    BY <1>1, <1>4, <1>5, <2>1 DEF ShownInv, P!Spoken
  <2>2. CASE request.mode = "undecided"
    <3> SUFFICES ASSUME P!ModeOf(text) = "stream"  PROVE \E i \in P!Spoken(text) : text[i] # "call"
      BY <2>2
    <3>1. P!Spoken(text) # {} /\ ~P!OpensLikeCall(text)  BY DEF P!ModeOf
    <3>2. P!Spoken(text) \subseteq Nat  BY <1>4 DEF P!Spoken
    <3>3. PICK i \in P!Spoken(text) : \A j \in P!Spoken(text) : i <= j  BY <3>1, <3>2, LeastExists
    <3> QED  BY <3>1, <3>3 DEF P!OpensLikeCall
  <2>3. CASE request.mode = "hold"  BY <2>3
  <2> QED  BY <1>2, <2>1, <2>2, <2>3 DEF RequestType
<1>9. mode = "undecided" => P!Spoken(text) = {} /\ display = <<>>
  BY <1>1 DEF ShownInv, P!ModeOf
<1>10. mode = "hold" => display = <<>>
  BY <1>1, <1>2 DEF ShownInv, P!ModeOf, RequestType
<1> HIDE DEF text, mode, n
<1>11. request'.at = "body" /\ request'.mode = mode /\ request'.stream = request.stream /\ request'.tools = request.tools
  BY <1>1, <1>2 DEF RequestType
<1> QED  BY <1>1, <1>6, <1>8, <1>9, <1>10, <1>11 DEF ShownInv, P!ShownIsKept, P!Ended, P!Spoken

LEMMA EndShows == ASSUME ProviderInv, ShownInv, P!StreamEnds  PROVE ShownInv'
<1> DEFINE msg == P!fromChatResponse(pieces)
<1>1. /\ request.at = "body" /\ request.stream /\ pieces = reply.text
      /\ wire' = Append(wire, msg) /\ request' = [request EXCEPT !.at = "idle"]
      /\ display' = IF request.mode = "hold" /\ ~P!Recovered THEN pieces ELSE display
  BY DEF P!StreamEnds, P!Complete, P!Finish
<1>2. request \in RequestType /\ wire \in Seq(WireMessage)  BY DEF ProviderInv
<1>3. msg.text = IF P!Recovered THEN <<>> ELSE pieces  BY DEF P!fromChatResponse
<1>4. P!Recovered => request.tools /\ P!IsCall(pieces)  BY <1>1 DEF P!Recovered, P!recoverJsonToolCalls
<1>5. display' = msg.text \/ (P!Spoken(display') = {} /\ P!Spoken(msg.text) = {})
  <2>1. CASE request.mode = "stream"
    <3>1. ~P!Recovered  BY <1>1, <1>4, <2>1 DEF ShownInv, P!IsCall
    <3> QED  BY <1>1, <1>3, <2>1, <3>1 DEF ShownInv
  <2>2. CASE request.mode = "undecided"
    <3>1. P!Spoken(pieces) = {} /\ display = <<>>  BY <1>1, <2>2 DEF ShownInv
    <3>2. ~P!Recovered  BY <1>4, <3>1 DEF P!IsCall
    <3>3. P!Spoken(<<>>) = {}  BY DEF P!Spoken
    <3> QED  BY <1>1, <1>3, <2>2, <3>1, <3>2, <3>3
  <2>3. CASE request.mode = "hold"
    BY <1>1, <1>3, <2>3 DEF ShownInv
  <2> QED  BY <1>2, <2>1, <2>2, <2>3 DEF RequestType
<1> HIDE DEF msg
<1>6. wire'[Len(wire')] = msg
  <2> HIDE DEF WireMessage
  <2> QED  BY <1>1, <1>2
<1>7. request'.at = "idle"  BY <1>1, <1>2 DEF RequestType
<1>8. P!ShownIsKept'  BY <1>5, <1>6 DEF P!ShownIsKept, P!Spoken
<1> QED  BY <1>7, <1>8 DEF ShownInv

LEMMA ShownKeep == ASSUME ProviderInv, ShownInv, P!Next  PROVE ShownInv'
<1>0. request \in RequestType  BY DEF ProviderInv
<1>1. CASE \E s, t \in BOOLEAN, b \in Budgets : P!Send(s, t, b)
  <2>1. PICK s \in BOOLEAN, t \in BOOLEAN, b \in Budgets : P!Send(s, t, b)  BY <1>1
  <2>2. /\ request'.at = "out" /\ request'.stream = s /\ request'.tools = t /\ pieces' = <<>> /\ display' = <<>>
        /\ request'.mode = IF s /\ t THEN "undecided" ELSE "stream"
    BY <2>1 DEF P!Send
  <2> QED  BY <2>2 DEF ShownInv, P!ShownIsKept, P!Ended
<1>2. CASE \E r \in P!Replies : P!Opens(r) \/ P!AnswersWhole(r)
  <2>1. PICK r \in P!Replies : P!Opens(r) \/ P!AnswersWhole(r)  BY <1>2
  <2>2. CASE P!AnswersWhole(r)
    <3>1. ~request'.stream  BY <1>0, <2>2 DEF P!AnswersWhole, RequestType
    <3> QED  BY <3>1, NotShown
  <2>3. CASE P!Opens(r)
    <3>1. /\ request.at = "out" /\ request.stream /\ reply' = r /\ UNCHANGED <<pieces, display>>
          /\ request' = [request EXCEPT !.at = "body"]
      BY <2>3 DEF P!Opens, P!Says
    <3>2. request'.at = "body" /\ request'.mode = request.mode /\ request'.tools = request.tools
      BY <1>0, <3>1 DEF RequestType
    <3>3. /\ pieces = <<>> /\ display = <<>>
          /\ (request.mode = "stream" /\ ~request.tools) \/ request.mode = "undecided"
      BY <3>1 DEF ShownInv
    <3>4. r.text \in Seq(Pieces)  BY <2>1, ProviderAssumption DEF P!Replies, Pieces
    <3>5. Len(<<>>) = 0 /\ SubSeq(r.text, 1, 0) = <<>> /\ Len(r.text) >= 0  BY <3>4
    <3>6. P!Spoken(<<>>) = {}  BY DEF P!Spoken
    <3> QED  BY <3>1, <3>2, <3>3, <3>5, <3>6 DEF ShownInv, P!ShownIsKept, P!Ended
  <2> QED  BY <2>1, <2>2, <2>3
<1>3. CASE \E p \in 0..2 : P!Busy(p) \/ P!NetworkFails(p)
  <2>1. PICK p \in 0..2 : P!Busy(p) \/ P!NetworkFails(p)  BY <1>3
  <2>2. (~request.stream /\ P!Repeat(p)) \/ P!Fail("busy") \/ P!Fail("network")  BY <2>1 DEF P!Busy, P!NetworkFails, P!GiveUp
  <2>3. ~request'.stream \/ request'.at = "failed"  BY <1>0, <2>2 DEF P!Repeat, P!Fail, RequestType
  <2> QED  BY <2>3, NotShown
<1>4. CASE P!Whole \/ P!StreamRefused \/ P!CannotParse \/ P!Wake
  <2>1. ~request'.stream  BY <1>0, <1>4 DEF P!Whole, P!Finish, P!StreamRefused, P!CannotParse, P!Wake, ShownInv, RequestType
  <2> QED  BY <2>1, NotShown
<1>5. CASE P!StreamBreaks \/ P!BodyLost \/ P!Refused \/ P!Aborted
  <2>1. request'.at = "failed"
    BY <1>0, <1>5 DEF P!StreamBreaks, P!BodyLost, P!Refused, P!Aborted, P!Fail, RequestType
  <2> QED  BY <2>1, NotShown
<1>6. CASE P!Stop
  <2>1. UNCHANGED <<wire, request, reply, pieces, display>>  BY <1>6 DEF P!Stop
  <2> QED  BY <2>1 DEF ShownInv, P!ShownIsKept, P!Ended, P!Spoken
<1>7. CASE P!NextTurn \/ \E w \in {<<>>, <<"prose">>} : P!ToolsRan(w)
  <2>1. request'.at = "idle" /\ wire \in Seq(WireMessage)  BY <1>7 DEF P!NextTurn, P!ToolsRan, ProviderInv
  <2>2. \E msg : wire' = Append(wire, msg) /\ msg.role = "user"
    <3>1. CASE P!NextTurn
      <4>1. wire' = Append(wire, P!User(<<"prose">>)) /\ P!User(<<"prose">>).role = "user"  BY <3>1 DEF P!NextTurn, P!User
      <4> QED  BY <4>1
    <3>2. ASSUME NEW w, P!ToolsRan(w)  PROVE \E msg : wire' = Append(wire, msg) /\ msg.role = "user"
      <4> DEFINE m == [P!User(w) EXCEPT !.call = wire[Len(wire)].call, !.results = TRUE]
      <4>1. wire' = Append(wire, m)  BY <3>2 DEF P!ToolsRan
      <4>2. m.role = "user"  BY DEF P!User
      <4> QED  BY <4>1, <4>2
    <3> QED  BY <1>7, <3>1, <3>2
  <2>3. PICK msg : wire' = Append(wire, msg) /\ msg.role = "user"  BY <2>2
  <2>4. wire'[Len(wire')] = msg
    <3> HIDE DEF WireMessage
    <3> QED  BY <2>1, <2>3
  <2> QED  BY <2>1, <2>3, <2>4, NotShown
<1> QED  BY <1>1, <1>2, <1>3, <1>4, <1>5, <1>6, <1>7, PieceShows, EndShows DEF P!Next
-----------------------------------------------------------------------------
(* What is sent                                                            *)

Calls(i) == wire[i].role = "assistant" /\ wire[i].call # P!NoCall

\* Results stand right behind the call they answer, and a call has its results unless it is the newest message.
ThreadInv ==
  /\ \A i \in DOMAIN wire : wire[i].role = "user" /\ wire[i].results => i > 1 /\ Calls(i - 1) /\ wire[i - 1].call = wire[i].call
  /\ \A i \in DOMAIN wire : Calls(i) /\ i < Len(wire) => wire[i + 1].role = "user" /\ wire[i + 1].results
  /\ request.at # "idle" => wire[Len(wire)].role = "user"

OutType == [role : {"user", "assistant", "tool"}, call : P!Ids \cup {P!NoCall}, echo : P!Steps \cup {P!NoStep}]

\* What one message becomes on the wire.
LEMMA MessageParts ==
  ASSUME ProviderInv, NEW i \in DOMAIN wire
  PROVE  /\ P!MessageOut(i) \in Seq(OutType) /\ Len(P!MessageOut(i)) <= 2
         /\ \A k \in DOMAIN P!MessageOut(i) : P!MessageOut(i)[k].role = "tool" => wire[i].role = "user" /\ k = 1 /\ P!MessageOut(i)[k].call = wire[i].call
         /\ \A k \in DOMAIN P!MessageOut(i) : P!MessageOut(i)[k].role = "assistant" =>
              wire[i].role = "assistant" /\ k = 1 /\ Len(P!MessageOut(i)) = 1 /\ P!MessageOut(i)[k].call = wire[i].call
         /\ wire[i].role = "user" /\ wire[i].results => Len(P!MessageOut(i)) > 0 /\ P!MessageOut(i)[1].role = "tool"
         /\ wire[i].role = "user" /\ ~wire[i].results => \A k \in DOMAIN P!MessageOut(i) : P!MessageOut(i)[k].role = "user"
         /\ Calls(i) => Len(P!MessageOut(i)) = 1 /\ P!MessageOut(i)[1].role = "assistant"
<1> DEFINE o == P!MessageOut(i)
<1>1. wire[i] \in WireMessage /\ meta \in [P!Ids -> P!Steps \cup {P!NoStep}]  BY DEF ProviderInv
<1>2. wire[i].call \in P!Ids \cup {P!NoCall} /\ wire[i].role \in {"user", "assistant"} /\ wire[i].results \in BOOLEAN  BY <1>1 DEF WireMessage
<1>3. CASE wire[i].role = "user"
  <2> DEFINE res == [role |-> "tool", call |-> wire[i].call, echo |-> P!NoStep]
             own == [role |-> "user", call |-> P!NoCall, echo |-> P!NoStep]
  <2>1. res \in OutType /\ own \in OutType  BY <1>2 DEF OutType
  <2>2. res.role = "tool" /\ res.call = wire[i].call /\ own.role = "user"  OBVIOUS
  <2>3. o = (IF wire[i].results THEN <<res>> ELSE <<>>) \o (IF wire[i].text = <<>> THEN <<>> ELSE <<own>>)
    BY <1>3 DEF P!MessageOut, P!UserOut
  <2> HIDE DEF res, own, o, OutType
  <2>4. CASE wire[i].results
    <3>1. CASE wire[i].text = <<>>
      <4>1. o = <<res>>  BY <2>1, <2>3, <2>4, <3>1
      <4> QED  BY <1>3, <2>1, <2>2, <2>4, <4>1 DEF o, Calls
    <3>2. CASE wire[i].text # <<>>
      <4>1. o = <<res>> \o <<own>>  BY <2>3, <2>4, <3>2
      <4>2. <<res>> \in Seq(OutType) /\ <<own>> \in Seq(OutType) /\ Len(<<res>>) = 1 /\ Len(<<own>>) = 1  BY <2>1
      <4>3. o \in Seq(OutType) /\ Len(o) = 2 /\ o[1] = res /\ o[2] = own  BY <4>1, <4>2
      <4>4. DOMAIN o = {1, 2}  BY <4>3
      <4> QED  BY <1>3, <2>2, <2>4, <4>3, <4>4 DEF o, Calls
    <3> QED  BY <3>1, <3>2
  <2>5. CASE ~wire[i].results
    <3>1. o = <<>> \/ o = <<own>>  BY <2>1, <2>3, <2>5
    <3>2. CASE o = <<>>
      <4>1. o \in Seq(OutType) /\ Len(o) = 0 /\ DOMAIN o = {}  BY <3>2
      <4> QED  BY <1>3, <2>5, <4>1 DEF o, Calls
    <3>3. CASE o = <<own>>
      <4>1. o \in Seq(OutType) /\ Len(o) = 1 /\ DOMAIN o = 1 .. 1 /\ o[1] = own  BY <2>1, <3>3
      <4> QED  BY <1>3, <2>2, <2>5, <4>1 DEF o, Calls
    <3> QED  BY <3>1, <3>2, <3>3
  <2> QED  BY <2>4, <2>5
<1>4. CASE wire[i].role = "assistant"
  <2> DEFINE echo == IF wire[i].call # P!NoCall /\ i > P!currentTurnStart THEN meta[wire[i].call] ELSE P!NoStep
             said == [role |-> "assistant", call |-> wire[i].call, echo |-> echo]
  <2>1. echo \in P!Steps \cup {P!NoStep}  BY <1>1, <1>2
  <2>2. said \in OutType /\ said.role = "assistant" /\ said.call = wire[i].call
    <3> HIDE DEF echo
    <3> QED  BY <1>2, <2>1 DEF OutType
  <2>3. o = IF wire[i].text = <<>> /\ wire[i].call = P!NoCall THEN <<>> ELSE <<said>>
    BY <1>4 DEF P!MessageOut, P!AssistantOut
  <2> HIDE DEF said, o, OutType
  <2>4. CASE o = <<>>
    <3>1. ~Calls(i)  BY <2>3, <2>4 DEF Calls
    <3> QED  BY <1>4, <2>4, <3>1 DEF o
  <2>5. CASE o = <<said>>  BY <1>4, <2>2, <2>5 DEF o
  <2> QED  BY <2>3, <2>4, <2>5
<1> QED  BY <1>2, <1>3, <1>4

\* The wire after message i: what may follow depends on whether message i calls a tool.
Good(s, i) ==
  /\ \A k \in DOMAIN s : s[k].role = "tool" => k > 1 /\ s[k - 1].role = "assistant" /\ s[k - 1].call = s[k].call
  /\ \A k \in DOMAIN s : s[k].role = "assistant" /\ s[k].call # P!NoCall =>
       \/ k < Len(s) /\ s[k + 1].role = "tool"
       \/ k = Len(s) /\ i > 0 /\ Calls(i)
  /\ i > 0 /\ Calls(i) => Len(s) > 0 /\ s[Len(s)].role = "assistant" /\ s[Len(s)].call = wire[i].call

LEMMA GoodStep ==
  ASSUME ProviderInv, ThreadInv, NEW i \in 1 .. Len(wire), NEW s \in Seq(OutType), Good(s, i - 1)
  PROVE  s \o P!MessageOut(i) \in Seq(OutType) /\ Good(s \o P!MessageOut(i), i)
<1> DEFINE o == P!MessageOut(i)
           t == s \o o
           n == Len(s)
<1>1. DOMAIN wire = 1 .. Len(wire) /\ Len(wire) \in Nat /\ i \in DOMAIN wire /\ i \in Nat /\ i > 0
  BY DEF ProviderInv
<1>2. wire[i].role \in {"user", "assistant"} /\ wire[i].results \in BOOLEAN
  <2>1. wire[i] \in WireMessage  BY <1>1 DEF ProviderInv
  <2> QED  BY <2>1 DEF WireMessage
<1>3. /\ o \in Seq(OutType) /\ Len(o) <= 2
      /\ \A k \in DOMAIN o : o[k].role = "tool" => wire[i].role = "user" /\ k = 1 /\ o[k].call = wire[i].call
      /\ \A k \in DOMAIN o : o[k].role = "assistant" => wire[i].role = "assistant" /\ k = 1 /\ Len(o) = 1 /\ o[k].call = wire[i].call
      /\ wire[i].role = "user" /\ wire[i].results => Len(o) > 0 /\ o[1].role = "tool"
      /\ wire[i].role = "user" /\ ~wire[i].results => \A k \in DOMAIN o : o[k].role = "user"
      /\ Calls(i) => Len(o) = 1 /\ o[1].role = "assistant"
  BY <1>1, MessageParts
<1> HIDE DEF o
<1>4. /\ t \in Seq(OutType) /\ Len(t) = n + Len(o) /\ n \in Nat /\ Len(o) \in Nat /\ DOMAIN t = 1 .. Len(t)
      /\ DOMAIN o = 1 .. Len(o) /\ DOMAIN s = 1 .. n
      /\ \A k \in 1 .. n : t[k] = s[k]
      /\ \A k \in 1 .. Len(o) : t[n + k] = o[k]
  <2> HIDE DEF OutType
  <2> QED  BY <1>3
<1>5. \A k \in DOMAIN t : k \in 1 .. n \/ \E j \in 1 .. Len(o) : k = n + j
  <2> SUFFICES ASSUME NEW k \in DOMAIN t, k > n  PROVE k - n \in 1 .. Len(o) /\ k = n + (k - n)
    BY <1>4
  <2> QED  BY <1>4
<1> HIDE DEF t, n
\* Results begin what follows a call, and follow nothing else.
<1>6. wire[i].role = "user" /\ wire[i].results <=> i > 1 /\ Calls(i - 1)
  <2>1. wire[i].role = "user" /\ wire[i].results => i > 1 /\ Calls(i - 1)  BY <1>1 DEF ThreadInv
  <2>2. ASSUME i > 1, Calls(i - 1)  PROVE wire[i].role = "user" /\ wire[i].results
    <3>1. i - 1 \in DOMAIN wire /\ i - 1 < Len(wire) /\ (i - 1) + 1 = i  BY <1>1, <2>2
    <3> QED  BY <2>2, <3>1 DEF ThreadInv
  <2> QED  BY <2>1, <2>2
<1>7. wire[i].role = "user" /\ wire[i].results => wire[i - 1].call = wire[i].call  BY <1>1 DEF ThreadInv
<1>8. i > 1 /\ Calls(i - 1) => n > 0 /\ s[n].role = "assistant" /\ s[n].call = wire[i - 1].call
  BY <1>1 DEF Good, n
<1>9. ASSUME NEW k \in DOMAIN t, t[k].role = "tool"  PROVE k > 1 /\ t[k - 1].role = "assistant" /\ t[k - 1].call = t[k].call
  <2>1. CASE k \in 1 .. n
    <3>1. s[k].role = "tool" /\ k \in DOMAIN s  BY <1>4, <1>9, <2>1
    <3>2. k > 1 /\ s[k - 1].role = "assistant" /\ s[k - 1].call = s[k].call  BY <3>1 DEF Good
    <3>3. k - 1 \in 1 .. n  BY <1>4, <2>1, <3>2
    <3> QED  BY <1>4, <2>1, <3>2, <3>3
  <2>2. ASSUME NEW j \in 1 .. Len(o), k = n + j  PROVE k > 1 /\ t[k - 1].role = "assistant" /\ t[k - 1].call = t[k].call
    <3>1. t[k] = o[j] /\ j \in DOMAIN o  BY <1>4, <2>2
    <3>2. wire[i].role = "user" /\ j = 1 /\ o[j].call = wire[i].call  BY <1>3, <1>9, <3>1
    <3>3. wire[i].results  BY <1>2, <1>3, <1>9, <3>1, <3>2
    <3>4. n > 0 /\ s[n].role = "assistant" /\ s[n].call = wire[i].call  BY <1>6, <1>7, <1>8, <3>2, <3>3
    <3>5. k - 1 = n /\ n \in 1 .. n /\ k > 1  BY <1>4, <2>2, <3>2, <3>4
    <3> QED  BY <1>4, <3>1, <3>2, <3>4, <3>5
  <2> QED  BY <1>5, <2>1, <2>2
<1>10. ASSUME NEW k \in DOMAIN t, t[k].role = "assistant", t[k].call # P!NoCall
       PROVE  (k < Len(t) /\ t[k + 1].role = "tool") \/ (k = Len(t) /\ Calls(i))
  <2>1. CASE k \in 1 .. n
    <3>1. t[k] = s[k] /\ k \in DOMAIN s  BY <1>4, <2>1
    <3>2. \/ k < n /\ s[k + 1].role = "tool"
          \/ k = n /\ i - 1 > 0 /\ Calls(i - 1)
      BY <1>10, <3>1, Zenon DEF Good, n
    <3>3. CASE k < n /\ s[k + 1].role = "tool"
      <4>1. k + 1 \in 1 .. n /\ k < Len(t)  BY <1>4, <2>1, <3>3
      <4> QED  BY <1>4, <3>3, <4>1
    <3>4. CASE k = n /\ i - 1 > 0 /\ Calls(i - 1)
      <4>1. Len(o) > 0 /\ o[1].role = "tool"  BY <1>1, <1>3, <1>6, <3>4
      <4>2. 1 \in 1 .. Len(o) /\ k < Len(t)  BY <1>4, <3>4, <4>1
      <4> QED  BY <1>4, <3>4, <4>1, <4>2
    <3> QED  BY <3>2, <3>3, <3>4
  <2>2. ASSUME NEW j \in 1 .. Len(o), k = n + j  PROVE k = Len(t) /\ Calls(i)
    <3>1. t[k] = o[j] /\ j \in DOMAIN o  BY <1>4, <2>2
    <3>2. wire[i].role = "assistant" /\ j = 1 /\ Len(o) = 1 /\ o[j].call = wire[i].call  BY <1>3, <1>10, <3>1
    <3> QED  BY <1>4, <1>10, <2>2, <3>1, <3>2 DEF Calls
  <2> QED  BY <1>5, <2>1, <2>2
<1>11. ASSUME Calls(i)  PROVE Len(t) > 0 /\ t[Len(t)].role = "assistant" /\ t[Len(t)].call = wire[i].call
  <2>1. Len(o) = 1 /\ o[1].role = "assistant"  BY <1>3, <1>11
  <2>2. 1 \in DOMAIN o /\ 1 \in 1 .. Len(o) /\ Len(t) = n + 1 /\ Len(t) > 0  BY <1>4, <2>1
  <2>3. t[Len(t)] = o[1]  BY <1>4, <2>2
  <2> QED  BY <1>3, <2>1, <2>2, <2>3
<1>12. Good(t, i)  BY <1>1, <1>9, <1>10, <1>11 DEF Good
<1> QED  BY <1>4, <1>12 DEF t, o

\* The recursion of toChatMessages has a solution.
UpTo(f, n) == f = [i \in 0 .. n |-> IF i = 0 THEN <<>> ELSE f[i - 1] \o P!MessageOut(i)]

LEMMA UpToExists == ASSUME ProviderInv  PROVE \E f : UpTo(f, Len(wire))
<1> DEFINE n == Len(wire)
           A == Seq(OutType)
           step == [i \in 1 .. n |-> [s \in A |-> s \o P!MessageOut(i)]]
<1>1. n \in Nat /\ DOMAIN wire = 1 .. n /\ <<>> \in A  BY WireIsFinite DEF ProviderInv
<1>2. \A i \in 1 .. n, s \in A : s \o P!MessageOut(i) \in A
  <2>1. \A i \in 1 .. n : P!MessageOut(i) \in Seq(OutType)  BY <1>1, MessageParts
  <2> HIDE DEF OutType
  <2> QED  BY <2>1
<1> HIDE DEF n, A
<1>3. step \in [1 .. n -> [A -> A]] /\ \A i \in 1 .. n, s \in A : step[i][s] = s \o P!MessageOut(i)  BY <1>2
<1> HIDE DEF step
<1>4. HasFold(n, A, <<>>, step)  BY <1>1, <1>3, FoldExists, Zenon
<1>5. PICK f \in [0 .. n -> A] : f[0] = <<>> /\ \A i \in 1 .. n : f[i] = step[i][f[i - 1]]  BY <1>4 DEF HasFold
<1>6. ASSUME NEW i \in 0 .. n  PROVE f[i] = IF i = 0 THEN <<>> ELSE f[i - 1] \o P!MessageOut(i)
  <2>1. CASE i = 0  BY <1>5, <2>1
  <2>2. CASE i # 0
    <3>1. i \in 1 .. n /\ i - 1 \in 0 .. n  BY <1>1, <2>2
    <3>2. f[i - 1] \in A  BY <1>5, <3>1
    <3> QED  BY <1>3, <1>5, <2>2, <3>1, <3>2
  <2> QED  BY <2>1, <2>2
<1>7. f = [i \in 0 .. n |-> f[i]]  BY <1>5
<1>8. f = [i \in 0 .. n |-> IF i = 0 THEN <<>> ELSE f[i - 1] \o P!MessageOut(i)]  BY <1>6, <1>7, Zenon
<1>9. UpTo(f, n)  BY <1>8, Zenon DEF UpTo
<1> QED  BY <1>9 DEF n

LEMMA SentIsGood ==
  ASSUME ProviderInv, ThreadInv
  PROVE  P!toChatMessages \in Seq(OutType) /\ Good(P!toChatMessages, Len(wire))
<1> DEFINE n == Len(wire)
           f == CHOOSE ff : UpTo(ff, n)
<1>1. n \in Nat  BY WireIsFinite
<1>2. UpTo(f, n)  BY UpToExists
<1>3. P!toChatMessages = f[n]  BY DEF P!toChatMessages, UpTo
<1> HIDE DEF f
<1>4. f[0] = <<>> /\ \A i \in 1 .. n : f[i] = f[i - 1] \o P!MessageOut(i)
  <2> HIDE DEF n
  <2>1. \A i \in 0 .. n : f[i] = IF i = 0 THEN <<>> ELSE f[i - 1] \o P!MessageOut(i)  BY <1>2 DEF UpTo
  <2>2. 0 \in 0 .. n /\ \A i \in 1 .. n : i \in 0 .. n /\ i # 0  BY <1>1
  <2> QED  BY <2>1, <2>2
<1> DEFINE G == {i \in 0 .. n : f[i] \in Seq(OutType) /\ Good(f[i], i)}
<1>5. 0 \in G
  <2>1. <<>> \in Seq(OutType) /\ DOMAIN <<>> = {}  OBVIOUS
  <2>2. Good(<<>>, 0)  BY <2>1 DEF Good
  <2>3. 0 \in 0 .. n  BY <1>1
  <2> HIDE DEF OutType, n
  <2>4. f[0] \in Seq(OutType) /\ Good(f[0], 0)  BY <1>4, <2>1, <2>2, Zenon
  <2> QED  BY <2>3, <2>4, Zenon
<1>6. ASSUME NEW i \in 1 .. n, i - 1 \in G  PROVE i \in G
  <2>1. f[i - 1] \in Seq(OutType) /\ Good(f[i - 1], i - 1) /\ i \in 0 .. n  BY <1>1, <1>6
  <2>2. f[i - 1] \o P!MessageOut(i) \in Seq(OutType) /\ Good(f[i - 1] \o P!MessageOut(i), i)  BY <2>1, GoodStep
  <2> HIDE DEF OutType
  <2> QED  BY <1>4, <2>1, <2>2
<1>7. n \in G
  <2> HIDE DEF G, n
  <2>1. \A i \in 0 .. n : i \in G  BY <1>1, <1>5, <1>6, Climb
  <2> QED  BY <1>1, <2>1
<1> QED  BY <1>3, <1>7

LEMMA SentInOrder == ASSUME ProviderInv, ThreadInv  PROVE P!ResultsFollowCalls
<1> SUFFICES ASSUME request.at = "out"  PROVE P!ResultsFollowCalls
  BY DEF P!ResultsFollowCalls
<1> DEFINE out == P!toChatMessages
<1>1. Good(out, Len(wire)) /\ out \in Seq(OutType)  BY SentIsGood
<1>2. ~Calls(Len(wire))  BY DEF ThreadInv, Calls
<1> HIDE DEF out
<1>3. \A i \in DOMAIN out :
        /\ out[i].role = "tool" => i > 1 /\ out[i - 1].role = "assistant" /\ out[i - 1].call = out[i].call
        /\ out[i].role = "assistant" /\ out[i].call # P!NoCall => i < Len(out) /\ out[i + 1].role = "tool"
  BY <1>1, <1>2 DEF Good
<1> QED  BY <1>3 DEF P!ResultsFollowCalls, out

\* A message is appended: what it answers stands right in front of it.
LEMMA ThreadGrows ==
  ASSUME ProviderInv, ThreadInv, NEW msg, wire' = Append(wire, msg), request'.at = "idle",
         msg.role = "user" => (msg.results <=> Calls(Len(wire))) /\ (msg.results => msg.call = wire[Len(wire)].call),
         msg.role = "assistant" => wire[Len(wire)].role = "user", msg.role \in {"user", "assistant"}, msg.results \in BOOLEAN
  PROVE  ThreadInv'
<1> DEFINE n == Len(wire)
<1>1. n \in Nat /\ n > 0 /\ DOMAIN wire = 1 .. n  BY WireIsFinite DEF ProviderInv
<1>2. Len(wire') = n + 1 /\ DOMAIN wire' = 1 .. n + 1 /\ wire'[n + 1] = msg /\ \A i \in 1 .. n : wire'[i] = wire[i]
  <2>1. wire \in Seq(WireMessage)  BY DEF ProviderInv
  <2> HIDE DEF WireMessage
  <2> QED  BY <1>1, <2>1
<1> HIDE DEF n
<1>3. \A i \in 1 .. n : Calls(i)' <=> Calls(i)  BY <1>2 DEF Calls
<1>4. ASSUME NEW i \in DOMAIN wire', wire'[i].role = "user", wire'[i].results
      PROVE  i > 1 /\ Calls(i - 1)' /\ wire'[i - 1].call = wire'[i].call
  <2>1. CASE i = n + 1
    <3>1. Calls(n) /\ wire[n].call = msg.call  BY <1>2, <1>4, <2>1 DEF n
    <3>2. i - 1 = n /\ n \in 1 .. n /\ i > 1  BY <1>1, <2>1
    <3> QED  BY <1>2, <1>3, <2>1, <3>1, <3>2
  <2>2. CASE i \in 1 .. n
    <3>1. i > 1 /\ Calls(i - 1) /\ wire[i - 1].call = wire[i].call  BY <1>1, <1>2, <1>4, <2>2 DEF ThreadInv
    <3>2. i - 1 \in 1 .. n  BY <1>1, <2>2, <3>1
    <3> QED  BY <1>2, <1>3, <2>2, <3>1, <3>2
  <2> QED  BY <1>1, <1>2, <2>1, <2>2
<1>5. ASSUME NEW i \in DOMAIN wire', Calls(i)', i < Len(wire')  PROVE wire'[i + 1].role = "user" /\ wire'[i + 1].results
  <2>1. i \in 1 .. n /\ Calls(i)  BY <1>1, <1>2, <1>3, <1>5
  <2>2. CASE i = n
    <3>1. msg.role # "assistant"  BY <2>1, <2>2 DEF Calls, n
    <3> QED  BY <1>2, <2>1, <2>2, <3>1 DEF n
  <2>3. CASE i # n
    <3>1. i < Len(wire) /\ i \in DOMAIN wire /\ i + 1 \in 1 .. n  BY <1>1, <2>1, <2>3 DEF n
    <3>2. wire[i + 1].role = "user" /\ wire[i + 1].results  BY <2>1, <3>1 DEF ThreadInv
    <3> QED  BY <1>2, <3>1, <3>2
  <2> QED  BY <2>2, <2>3
<1> QED  BY <1>4, <1>5 DEF ThreadInv

LEMMA ThreadKeep == ASSUME ProviderInv, ThreadInv, P!Next  PROVE ThreadInv'
<1>0. request \in RequestType  BY DEF ProviderInv
<1>1. CASE P!Whole \/ P!StreamEnds
  <2>1. PICK text : P!Finish(text) /\ request.at = "body"  BY <1>1 DEF P!Whole, P!StreamEnds
  <2> DEFINE msg == P!fromChatResponse(text)
  <2>2. wire' = Append(wire, msg) /\ request'.at = "idle"  BY <1>0, <2>1 DEF P!Finish, RequestType
  <2>3. msg.role = "assistant" /\ msg.results = FALSE  BY DEF P!fromChatResponse
  <2>4. wire[Len(wire)].role = "user"  BY <2>1 DEF ThreadInv
  <2> HIDE DEF msg
  <2> QED  BY <2>2, <2>3, <2>4, ThreadGrows
<1>2. CASE P!NextTurn
  <2> DEFINE msg == P!User(<<"prose">>)
  <2>1. /\ wire' = Append(wire, msg) /\ request'.at = "idle" /\ wire[Len(wire)].call = P!NoCall
        /\ msg.role = "user" /\ msg.results = FALSE
    BY <1>2 DEF P!NextTurn, P!User
  <2> HIDE DEF msg
  <2> QED  BY <2>1, ThreadGrows DEF Calls
<1>3. CASE \E w \in {<<>>, <<"prose">>} : P!ToolsRan(w)
  <2>1. PICK w : P!ToolsRan(w)  BY <1>3
  <2> DEFINE msg == [P!User(w) EXCEPT !.call = wire[Len(wire)].call, !.results = TRUE]
  <2>2. wire' = Append(wire, msg) /\ request'.at = "idle" /\ Calls(Len(wire))  BY <2>1 DEF P!ToolsRan, Calls
  <2>3. msg.role = "user" /\ msg.results = TRUE /\ msg.call = wire[Len(wire)].call  BY DEF P!User
  <2> HIDE DEF msg
  <2> QED  BY <2>2, <2>3, ThreadGrows
<1>4. ASSUME UNCHANGED wire, request'.at # "idle" => wire[Len(wire)].role = "user"  PROVE ThreadInv'
  BY <1>4 DEF ThreadInv, Calls
<1>5. CASE \E s, t \in BOOLEAN, b \in Budgets : P!Send(s, t, b)  BY <1>4, <1>5 DEF P!Send
<1>6. CASE \E r \in P!Replies : P!Opens(r) \/ P!AnswersWhole(r)  BY <1>4, <1>6 DEF P!Opens, P!AnswersWhole, ThreadInv
<1>7. CASE \E p \in 0..2 : P!Busy(p) \/ P!NetworkFails(p)
  BY <1>4, <1>7 DEF P!Busy, P!NetworkFails, P!GiveUp, P!Repeat, P!Fail, ThreadInv
<1>8. CASE P!StreamBreaks \/ P!BodyLost \/ P!Refused \/ P!Aborted
  BY <1>4, <1>8 DEF P!StreamBreaks, P!BodyLost, P!Refused, P!Aborted, P!Fail, ThreadInv
<1>9. CASE P!Piece \/ P!StreamRefused \/ P!CannotParse \/ P!Wake \/ P!Stop
  BY <1>4, <1>9 DEF P!Piece, P!StreamRefused, P!CannotParse, P!Wake, P!Stop, ThreadInv
<1> QED  BY <1>1, <1>2, <1>3, <1>5, <1>6, <1>7, <1>8, <1>9 DEF P!Next

-----------------------------------------------------------------------------
LEMMA ProviderStutters == ASSUME ProviderInv, UNCHANGED P!providerVars  PROVE ProviderInv'
<1>1. UNCHANGED <<wire, meta, request, reply, pieces, display, stopped>>  BY DEF P!providerVars
<1>2. UNCHANGED P!Answers  BY <1>1, Zenon DEF P!Answers
<1>3. P!AnswerIsWhole'
  <2>1. P!IsCall(reply'.text) <=> P!IsCall(reply.text)  BY <1>1
  <2> QED  BY <1>1, <2>1 DEF ProviderInv, P!AnswerIsWhole, P!Ended
<1>4. UNCHANGED AttemptsInv  BY <1>1, Zenon DEF AttemptsInv
<1> QED  BY <1>1, <1>2, <1>3, <1>4, Zenon DEF ProviderInv

LEMMA WireStutters == ASSUME ShownInv, ThreadInv, UNCHANGED P!providerVars  PROVE ShownInv' /\ ThreadInv'
<1>1. UNCHANGED <<wire, meta, request, reply, pieces, display, stopped>>  BY DEF P!providerVars
<1>2. ShownInv'  BY <1>1 DEF ShownInv, P!ShownIsKept, P!Ended, P!Spoken
<1>3. ThreadInv'  BY <1>1 DEF ThreadInv, Calls
<1> QED  BY <1>2, <1>3

LEMMA WireStart == ASSUME P!Init  PROVE ShownInv /\ ThreadInv
<1>1. Len(wire) = 1 /\ DOMAIN wire = {1} /\ wire[1].role = "user" /\ wire[1].results = FALSE
  <2> DEFINE first == P!User(<<"prose">>)
  <2>1. wire = <<first>>  BY DEF P!Init
  <2>2. first.role = "user" /\ first.results = FALSE  BY DEF P!User
  <2> HIDE DEF first
  <2> QED  BY <2>1, <2>2
<1>2. request.at = "idle" /\ ~request.stream  BY DEF P!Init, P!Idle
<1> QED  BY <1>1, <1>2 DEF ShownInv, ThreadInv, Calls, P!ShownIsKept, P!Ended

\* An answer that is kept is the whole answer and what was shown of it; results follow their calls; attempts are
\* bounded and end with a stop (openai-compat.ts).
THEOREM AnswersAreWhole ==
  P!Spec => [](P!TypeOK /\ P!ShownIsKept /\ P!AnswerIsWhole /\ P!ResultsFollowCalls) /\ [][P!RepeatsAreBounded]_(P!providerVars)
<1> DEFINE Inv == ProviderInv /\ ShownInv /\ ThreadInv
<1>1. P!Init => Inv  BY ProviderStart, WireStart
<1>2. Inv /\ [P!Next]_(P!providerVars) => Inv'
  BY ProviderKeep, ShownKeep, ThreadKeep, ProviderStutters, WireStutters
<1>3. Inv /\ [P!Next]_(P!providerVars) => [P!RepeatsAreBounded]_(P!providerVars)  BY ProviderKeep
<1>4. Inv => P!TypeOK /\ P!ShownIsKept /\ P!AnswerIsWhole /\ P!ResultsFollowCalls
  BY ProviderTypes, SentInOrder DEF ProviderInv, ShownInv
<1> QED  BY <1>1, <1>2, <1>3, <1>4, PTL DEF P!Spec

-----------------------------------------------------------------------------
(* The registry and ghost chats                                            *)

ProviderType == [addr : Addrs \cup {"none"}, on : BOOLEAN, local : BOOLEAN, said : Addrs \cup {"none"}, keyless : BOOLEAN]
RowType == [src : {"none", "discovered", "manual"}, on : BOOLEAN, rep : M!Local, from : Addrs \cup {"none"}, ov : M!Local]

\* A statement is about the address it stands beside; what is not in the catalog has no edit.
StatementsStand == \A p \in Slugs : provider[p].local => provider[p].said = provider[p].addr
NoRowNoEdit == \A m \in M!Ids : catalog[m].src = "none" => catalog[m].ov = "none"

\* The project of a chat is there, and a chat in a ghost project is a ghost by itself.
ChatIsPlaced ==
  chat.at = "kept" /\ chat.folder # "none" =>
    /\ chat.folder \in Folders /\ folder[chat.folder] # "none"
    /\ folder[chat.folder] = "ghost" => chat.ghost

RegistryInv == /\ provider \in [Slugs -> ProviderType] /\ catalog \in [M!Ids -> RowType]
               /\ StatementsStand /\ NoRowNoEdit
KeysInv == vault \in [Slugs -> Keys \cup {"none"}] /\ keyCache \in [Slugs -> Keys \cup {"none"}] /\ M!CacheIsVault
ChatInv == /\ folder \in [Folders -> {"none", "open", "ghost"}]
           /\ chat \in [at : {"none", "kept", "gone"}, ghost : BOOLEAN, folder : Folders \cup {"none"}, model : M!Ids \cup {M!NoModel}]
           /\ ChatIsPlaced
RestInv == /\ refreshes \subseteq Slugs \X Addrs
           /\ slot \in [{"helper", "agents", "chat"} -> M!Ids \cup {M!NoModel}]
           /\ talk \in [at : {"none", "starting", "running"}, model : M!Ids \cup {M!NoModel}]
           /\ workers \subseteq M!Ids /\ edits \in 0..MaxEdits
HeardType == [addr : Addrs, by : {"user", "report", "statement", "nobody"}, about : Addrs \cup {"none"}]
HeardInv == heard \subseteq HeardType /\ M!OnlyVouchedHear /\ M!StatementIsOfAddress

ModelsInv == RegistryInv /\ KeysInv /\ ChatInv /\ RestInv /\ HeardInv

\* What a list of models, late or not, leaves of the registry.
LEMMA LookedKeeps ==
  ASSUME KeysInv, NEW ps, M!Looked(ps), UNCHANGED vault
  PROVE  KeysInv'
<1>1. \A p \in Slugs : keyCache'[p] = keyCache[p] \/ keyCache'[p] = vault[p]  BY DEF M!Looked, M!Key
<1>2. keyCache' = [p \in Slugs |-> IF p \in ps /\ M!Exists(p) THEN M!Key(p) ELSE keyCache[p]]  BY DEF M!Looked
<1>3. keyCache' \in [Slugs -> Keys \cup {"none"}]
  <2>1. \A p \in Slugs : M!Key(p) \in Keys \cup {"none"}  BY DEF M!Key, KeysInv
  <2> QED  BY <1>2, <2>1 DEF KeysInv
<1> QED  BY <1>1, <1>3 DEF KeysInv, M!CacheIsVault

\* A model that is called local has somebody who called it that, and an address.
LEMMA LocalIsVouched ==
  ASSUME RegistryInv, NEW m \in M!Ids, M!IsLocal(m)
  PROVE  M!Vouch(m) \in HeardType /\ M!Vouch(m).by # "nobody" /\ (M!Vouch(m).by = "statement" => M!Vouch(m).about = M!Vouch(m).addr)
<1> DEFINE p == provider[m[1]]
           row == catalog[m]
<1>1. m[1] \in Slugs /\ p \in ProviderType /\ row \in RowType  BY DEF RegistryInv, M!Ids
<1>2. p.addr \in Addrs /\ p.said \in Addrs \cup {"none"} /\ p.local \in BOOLEAN  BY <1>1 DEF M!IsLocal, M!Known, M!Exists, ProviderType
<1>3. row.ov \in {"none", "local", "cloud"} /\ row.rep \in {"none", "local", "cloud"} /\ row.from \in Addrs \cup {"none"}
  BY <1>1 DEF RowType, M!Local
<1>4. p.local => p.said = p.addr  BY <1>1 DEF RegistryInv, StatementsStand
<1>5. \/ row.ov = "local"
      \/ row.ov = "none" /\ row.rep = "local"
      \/ row.ov = "none" /\ row.rep = "none" /\ p.local
  BY <1>3 DEF M!IsLocal, M!Locality
<1> HIDE DEF p, row
<1>6. M!Vouch(m) = [addr |-> p.addr,
        by |-> CASE row.ov = "local" -> "user"
                 [] row.ov = "none" /\ row.rep = "local" -> "report"
                 [] row.ov = "none" /\ row.rep = "none" /\ p.local -> "statement"
                 [] OTHER -> "nobody",
        about |-> IF row.ov = "none" /\ row.rep = "local" THEN row.from
                  ELSE IF row.ov = "none" /\ row.rep = "none" /\ p.local THEN p.said ELSE "none"]
  BY DEF M!Vouch, p, row
<1>7. CASE row.ov = "local"
  BY <1>2, <1>6, <1>7 DEF HeardType
<1>8. CASE row.ov = "none" /\ row.rep = "local"
  BY <1>2, <1>3, <1>6, <1>8 DEF HeardType
<1>9. CASE row.ov = "none" /\ row.rep = "none" /\ p.local
  BY <1>2, <1>4, <1>6, <1>9 DEF HeardType
<1> QED  BY <1>5, <1>7, <1>8, <1>9

LEMMA TellKeeps ==
  ASSUME RegistryInv, HeardInv, NEW m \in M!Ids, M!IsGhost => M!IsLocal(m), M!Tell(m, M!IsGhost)
  PROVE  HeardInv'
<1>1. heard' = heard \/ (M!IsLocal(m) /\ heard' = heard \cup {M!Vouch(m)})  BY DEF M!Tell
<1> QED  BY <1>1, LocalIsVouched DEF HeardInv, M!OnlyVouchedHear, M!StatementIsOfAddress

-----------------------------------------------------------------------------
LEMMA CreateKeeps ==
  ASSUME ModelsInv, NEW p \in Slugs, NEW a \in Addrs, NEW local \in BOOLEAN, NEW keyless \in BOOLEAN,
         NEW key \in Keys \cup {"none"}, M!Create(p, a, local, keyless, key)
  PROVE  ModelsInv'
<1> DEFINE row == [addr |-> a, on |-> TRUE, local |-> local, said |-> IF local THEN a ELSE "none", keyless |-> keyless]
<1>1. row \in ProviderType /\ (row.local => row.said = row.addr)  BY DEF ProviderType
<1>2. provider' = [provider EXCEPT ![p] = row]  BY DEF M!Create
<1> HIDE DEF row
<1>3. RegistryInv'  BY <1>1, <1>2 DEF ModelsInv, RegistryInv, M!Create, StatementsStand, NoRowNoEdit, M!Ids
<1>4. KeysInv'
  <2>1. CASE key = "none"  BY <2>1 DEF M!Create, ModelsInv, KeysInv, M!CacheIsVault
  <2>2. CASE key # "none"
    <3>1. vault' = [vault EXCEPT ![p] = key] /\ keyCache' = [keyCache EXCEPT ![p] = key]  BY <2>2 DEF M!Create
    <3> QED  BY <3>1 DEF ModelsInv, KeysInv, M!CacheIsVault
  <2> QED  BY <2>1, <2>2
<1>5. RestInv'
  <2>1. edits' \in 0..MaxEdits  BY ModelsAssumption DEF M!Create, M!Edit, ModelsInv, RestInv
  <2>2. refreshes' \subseteq Slugs \X Addrs  BY DEF M!Create, ModelsInv, RestInv
  <2> QED  BY <2>1, <2>2 DEF M!Create, M!chatState, ModelsInv, RestInv, M!Ids
<1> QED  BY <1>3, <1>4, <1>5 DEF M!Create, M!chatState, ModelsInv, ChatInv, ChatIsPlaced, HeardInv, M!OnlyVouchedHear, M!StatementIsOfAddress, M!Ids

LEMMA UpdateKeeps ==
  ASSUME ModelsInv, NEW p \in Slugs, NEW a \in Addrs, NEW local \in {"none", "yes", "no"}, NEW on \in BOOLEAN,
         M!Update(p, a, local, on)
  PROVE  ModelsInv'
<1> DEFINE said == IF a # provider[p].addr /\ local = "none" THEN "no" ELSE local
           row == [addr |-> a, on |-> on, local |-> IF said = "none" THEN provider[p].local ELSE said = "yes",
                   said |-> IF said = "none" THEN provider[p].said ELSE IF said = "yes" THEN a ELSE "none",
                   keyless |-> provider[p].keyless]
<1>1. provider[p] \in ProviderType /\ (provider[p].local => provider[p].said = provider[p].addr)
  BY DEF ModelsInv, RegistryInv, StatementsStand
<1>2. row \in ProviderType /\ (row.local => row.said = row.addr)
  <2>1. said \in {"none", "yes", "no"} /\ (said = "none" => a = provider[p].addr)  OBVIOUS
  <2> HIDE DEF said
  <2> QED  BY <1>1, <2>1 DEF ProviderType
<1>3. provider' = [provider EXCEPT ![p] = row]  BY Zenon DEF M!Update
<1> HIDE DEF row
<1>4. RegistryInv'
  <2>1. provider \in [Slugs -> ProviderType] /\ StatementsStand  BY DEF ModelsInv, RegistryInv
  <2>2. provider' \in [Slugs -> ProviderType] /\ StatementsStand'  BY <1>2, <1>3, <2>1 DEF StatementsStand
  <2>3. catalog' = catalog  BY DEF M!Update
  <2> QED  BY <2>2, <2>3 DEF ModelsInv, RegistryInv, NoRowNoEdit
<1>5. edits' \in 0..MaxEdits  BY ModelsAssumption DEF M!Update, M!Edit, ModelsInv, RestInv
<1> QED  BY <1>4, <1>5 DEF M!Update, M!chatState, ModelsInv, RestInv, ChatInv, KeysInv, ChatIsPlaced, HeardInv, M!CacheIsVault, M!OnlyVouchedHear, M!StatementIsOfAddress, M!Ids

LEMMA NoProviderTyped == M!NoProvider \in ProviderType /\ ~M!NoProvider.local /\ M!NoRow \in RowType /\ M!NoRow.ov = "none"
BY DEF M!NoProvider, ProviderType, M!NoRow, RowType, M!Local

LEMMA RemoveKeeps == ASSUME ModelsInv, NEW p \in Slugs, M!Remove(p)  PROVE ModelsInv'
<1>1. provider' = [provider EXCEPT ![p] = M!NoProvider] /\ catalog' = [m \in M!Ids |-> IF m[1] = p THEN M!NoRow ELSE catalog[m]]
  BY DEF M!Remove
<1>2. RegistryInv'  BY <1>1, NoProviderTyped DEF ModelsInv, RegistryInv, StatementsStand, NoRowNoEdit
<1>3. KeysInv'  BY DEF M!Remove, ModelsInv, KeysInv, M!CacheIsVault
<1>4. edits' \in 0..MaxEdits  BY ModelsAssumption DEF M!Remove, M!Edit, ModelsInv, RestInv
<1> QED  BY <1>2, <1>3, <1>4 DEF M!Remove, M!chatState, ModelsInv, RestInv, ChatInv, ChatIsPlaced, HeardInv, M!OnlyVouchedHear, M!StatementIsOfAddress

LEMMA KeyStepKeeps ==
  ASSUME ModelsInv, NEW p \in Slugs, M!RemoveKey(p) \/ \E key \in Keys, verify \in BOOLEAN : M!SaveKey(p, key, verify)
  PROVE  ModelsInv'
<1>1. KeysInv'
  <2>1. CASE M!RemoveKey(p)  BY <2>1 DEF M!RemoveKey, ModelsInv, KeysInv, M!CacheIsVault
  <2>2. ASSUME NEW key \in Keys, NEW verify \in BOOLEAN, M!SaveKey(p, key, verify)  PROVE KeysInv'
    BY <2>2 DEF M!SaveKey, ModelsInv, KeysInv, M!CacheIsVault
  <2> QED  BY <2>1, <2>2
<1>2. edits' \in 0..MaxEdits  BY ModelsAssumption DEF M!RemoveKey, M!SaveKey, M!Edit, ModelsInv, RestInv
<1>3. UNCHANGED <<provider, catalog, refreshes, slot, M!chatState>>  BY DEF M!RemoveKey, M!SaveKey
<1> QED  BY <1>1, <1>2, <1>3 DEF M!chatState, ModelsInv, RegistryInv, StatementsStand, NoRowNoEdit, RestInv, ChatInv, ChatIsPlaced, HeardInv, M!OnlyVouchedHear, M!StatementIsOfAddress

LEMMA AskModelsKeeps == ASSUME ModelsInv, NEW p \in Slugs, M!AskModels(p)  PROVE ModelsInv'
<1>1. KeysInv'  BY LookedKeeps DEF M!AskModels, ModelsInv
<1>2. edits' \in 0..MaxEdits  BY ModelsAssumption DEF M!AskModels, M!Edit, ModelsInv, RestInv
<1>3. refreshes' \subseteq Slugs \X Addrs
  <2>1. provider[p].addr \in Addrs  BY DEF M!AskModels, M!Exists, ModelsInv, RegistryInv, ProviderType
  <2> QED  BY <2>1 DEF M!AskModels, ModelsInv, RestInv
<1> QED  BY <1>1, <1>2, <1>3 DEF M!AskModels, M!chatState, ModelsInv, RegistryInv, StatementsStand, NoRowNoEdit, RestInv, ChatInv, ChatIsPlaced, HeardInv, M!OnlyVouchedHear, M!StatementIsOfAddress

\* An answer of a provider leaves every row typed and what the user wrote where it was.
LEMMA GotRows ==
  ASSUME ModelsInv, NEW r \in refreshes, NEW listed \in M!Listings, M!GotModels(r, listed), NEW m \in M!Ids
  PROVE  /\ catalog'[m] \in RowType
         /\ catalog'[m].src = "none" => catalog'[m].ov = "none"
         /\ catalog[m].src = "manual" \/ catalog[m].ov # "none" => catalog'[m].src = catalog[m].src /\ catalog'[m].ov = catalog[m].ov
<1>1. r[2] \in Addrs  BY DEF ModelsInv, RestInv
<1>2. catalog[m] \in RowType /\ (catalog[m].src = "none" => catalog[m].ov = "none")  BY DEF ModelsInv, RegistryInv, NoRowNoEdit
<1>3. catalog'[m] =
       IF m[1] # r[1] THEN catalog[m]
       ELSE IF m[2] \in DOMAIN listed THEN
              IF catalog[m].src = "none" THEN [src |-> "discovered", on |-> TRUE, rep |-> listed[m[2]], from |-> r[2], ov |-> "none"]
              ELSE [catalog[m] EXCEPT !.rep = listed[m[2]], !.from = r[2]]
            ELSE IF M!Kept(catalog[m]) THEN catalog[m] ELSE M!NoRow
  BY DEF M!GotModels
<1>4. m[2] \in DOMAIN listed => listed[m[2]] \in M!Local  BY DEF M!Listings
<1>5. CASE m[1] = r[1] /\ m[2] \in DOMAIN listed /\ catalog[m].src = "none"
  <2>1. catalog'[m] = [src |-> "discovered", on |-> TRUE, rep |-> listed[m[2]], from |-> r[2], ov |-> "none"]  BY <1>3, <1>5
  <2> QED  BY <1>1, <1>2, <1>4, <1>5, <2>1 DEF RowType, M!Local
<1>6. CASE m[1] = r[1] /\ m[2] \in DOMAIN listed /\ catalog[m].src # "none"
  <2>1. catalog'[m] = [catalog[m] EXCEPT !.rep = listed[m[2]], !.from = r[2]]  BY <1>3, <1>6
  <2> QED  BY <1>1, <1>2, <1>4, <1>6, <2>1 DEF RowType
<1>7. CASE m[1] # r[1] \/ m[2] \notin DOMAIN listed
  BY <1>2, <1>3, <1>7, NoProviderTyped DEF M!Kept
<1> QED  BY <1>5, <1>6, <1>7

LEMMA GotModelsKeeps ==
  ASSUME ModelsInv, NEW r \in refreshes, M!LostModels(r) \/ \E listed \in M!Listings : M!GotModels(r, listed)
  PROVE  ModelsInv'
<1>1. UNCHANGED <<provider, vault, keyCache, slot, M!chatState, edits>> /\ refreshes' \subseteq refreshes  BY DEF M!LostModels, M!GotModels
<1>2. RegistryInv'
  <2>1. CASE M!LostModels(r)  BY <2>1 DEF M!LostModels, ModelsInv, RegistryInv, StatementsStand, NoRowNoEdit
  <2>2. ASSUME NEW listed \in M!Listings, M!GotModels(r, listed)  PROVE RegistryInv'
    <3>1. \A m \in M!Ids : catalog'[m] \in RowType /\ (catalog'[m].src = "none" => catalog'[m].ov = "none")
      BY <2>2, GotRows
    <3>2. catalog' \in [M!Ids -> RowType]
      <4>1. catalog' = [m \in M!Ids |-> catalog'[m]]  BY <2>2 DEF M!GotModels
      <4> QED  BY <3>1, <4>1
    <3> QED  BY <1>1, <3>1, <3>2 DEF ModelsInv, RegistryInv, StatementsStand, NoRowNoEdit
  <2> QED  BY <2>1, <2>2
<1> QED  BY <1>1, <1>2 DEF M!chatState, ModelsInv, KeysInv, M!CacheIsVault, RestInv, ChatInv, ChatIsPlaced, HeardInv, M!OnlyVouchedHear, M!StatementIsOfAddress

LEMMA ModelEditKeeps ==
  ASSUME ModelsInv,
         \/ \E m \in M!Ids : M!AddManual(m) \/ M!RemoveModel(m) \/ \E on \in BOOLEAN, ov \in M!Local : M!UpdateModel(m, on, ov)
         \/ \E s \in {"helper", "agents", "chat"}, m \in M!Ids : M!SetSlot(s, m)
  PROVE  ModelsInv'
<1>1. edits' \in 0..MaxEdits /\ UNCHANGED <<provider, vault, keyCache, refreshes, M!chatState>>
  <2>1. M!Edit /\ UNCHANGED <<provider, vault, keyCache, refreshes, M!chatState>>
    BY DEF M!AddManual, M!RemoveModel, M!UpdateModel, M!SetSlot
  <2> QED  BY <2>1, ModelsAssumption DEF M!Edit, ModelsInv, RestInv
<1>2. slot' \in [{"helper", "agents", "chat"} -> M!Ids \cup {M!NoModel}]
  BY DEF M!AddManual, M!RemoveModel, M!UpdateModel, M!SetSlot, ModelsInv, RestInv
<1>3. catalog' \in [M!Ids -> RowType] /\ NoRowNoEdit'
  <2>1. ASSUME NEW m \in M!Ids, M!AddManual(m)  PROVE catalog' \in [M!Ids -> RowType] /\ NoRowNoEdit'
    <3>1. [M!NoRow EXCEPT !.src = "manual", !.on = TRUE] \in RowType /\ [M!NoRow EXCEPT !.src = "manual", !.on = TRUE].ov = "none"
      BY DEF M!NoRow, RowType, M!Local
    <3> QED  BY <2>1, <3>1 DEF M!AddManual, ModelsInv, RegistryInv, NoRowNoEdit
  <2>2. ASSUME NEW m \in M!Ids, M!RemoveModel(m)  PROVE catalog' \in [M!Ids -> RowType] /\ NoRowNoEdit'
    BY <2>2, NoProviderTyped DEF M!RemoveModel, ModelsInv, RegistryInv, NoRowNoEdit
  <2>3. ASSUME NEW m \in M!Ids, NEW on \in BOOLEAN, NEW ov \in M!Local, M!UpdateModel(m, on, ov)
        PROVE  catalog' \in [M!Ids -> RowType] /\ NoRowNoEdit'
    <3>1. catalog[m] \in RowType /\ catalog[m].src # "none" /\ catalog \in [M!Ids -> RowType]  BY <2>3 DEF M!UpdateModel, ModelsInv, RegistryInv
    <3> DEFINE row == [catalog[m] EXCEPT !.on = on, !.ov = ov]
    <3>2. row \in RowType /\ row.src # "none"  BY <3>1 DEF RowType
    <3>3. catalog' = [catalog EXCEPT ![m] = row]  BY <2>3, <3>1 DEF M!UpdateModel
    <3> HIDE DEF row
    <3> QED  BY <3>1, <3>2, <3>3 DEF ModelsInv, RegistryInv, NoRowNoEdit
  <2>4. ASSUME UNCHANGED catalog  PROVE catalog' \in [M!Ids -> RowType] /\ NoRowNoEdit'
    BY <2>4 DEF ModelsInv, RegistryInv, NoRowNoEdit
  <2> QED  BY <2>1, <2>2, <2>3, <2>4 DEF M!SetSlot
<1> QED  BY <1>1, <1>2, <1>3 DEF M!chatState, ModelsInv, RegistryInv, StatementsStand, KeysInv, M!CacheIsVault, RestInv, ChatInv, ChatIsPlaced, HeardInv, M!OnlyVouchedHear, M!StatementIsOfAddress

-----------------------------------------------------------------------------
\* What an action that leaves the registry and the rest alone may still do to a chat.
LEMMA SettingsStay ==
  ASSUME ModelsInv, UNCHANGED M!settings
  PROVE  RegistryInv' /\ (KeysInv /\ UNCHANGED keyCache => KeysInv')
BY DEF ModelsInv, M!settings, RegistryInv, StatementsStand, NoRowNoEdit, KeysInv, M!CacheIsVault

LEMMA CreateProjectKeeps ==
  ASSUME ModelsInv, NEW f \in Folders, NEW b \in BOOLEAN, M!CreateProject(f, b)
  PROVE  ModelsInv' /\ M!GhostStays
<1>1. RegistryInv' /\ KeysInv' /\ RestInv' /\ HeardInv'
  BY SettingsStay DEF M!CreateProject, M!settings, ModelsInv, RestInv, HeardInv, M!OnlyVouchedHear, M!StatementIsOfAddress
<1>2. folder' = [folder EXCEPT ![f] = IF b THEN "ghost" ELSE "open"] /\ folder[f] = "none" /\ chat' = chat  BY DEF M!CreateProject
<1>3. folder' \in [Folders -> {"none", "open", "ghost"}]  BY <1>2 DEF ModelsInv, ChatInv
<1>4. chat.at = "kept" /\ chat.folder # "none" => folder'[chat.folder] = folder[chat.folder]
  BY <1>2 DEF ModelsInv, ChatInv, ChatIsPlaced
<1>5. ChatInv'  BY <1>2, <1>3, <1>4 DEF ModelsInv, ChatInv, ChatIsPlaced
<1> QED  BY <1>1, <1>2, <1>4, <1>5 DEF ModelsInv, M!GhostStays, M!IsGhost

LEMMA DeleteProjectKeeps ==
  ASSUME ModelsInv, NEW f \in Folders, NEW keep \in BOOLEAN, M!DeleteProject(f, keep)
  PROVE  ModelsInv' /\ M!GhostStays
<1>1. RegistryInv' /\ KeysInv' /\ HeardInv'
  BY SettingsStay DEF M!DeleteProject, M!settings, ModelsInv, HeardInv, M!OnlyVouchedHear, M!StatementIsOfAddress
<1>2. RestInv'  BY DEF M!DeleteProject, M!settings, ModelsInv, RestInv, M!NoTalk
<1>3. folder' = [folder EXCEPT ![f] = "none"] /\ folder[f] # "none"  BY DEF M!DeleteProject
<1>4. /\ folder' \in [Folders -> {"none", "open", "ghost"}]
      /\ \A g \in Folders : folder'[g] = IF g = f THEN "none" ELSE folder[g]  BY <1>3 DEF ModelsInv, ChatInv
<1>5. chat \in [at : {"none", "kept", "gone"}, ghost : BOOLEAN, folder : Folders \cup {"none"}, model : M!Ids \cup {M!NoModel}]
      /\ ChatIsPlaced  BY DEF ModelsInv, ChatInv
<1>6. /\ chat' \in [at : {"none", "kept", "gone"}, ghost : BOOLEAN, folder : Folders \cup {"none"}, model : M!Ids \cup {M!NoModel}]
      /\ chat'.ghost = chat.ghost
      /\ chat.folder = f => chat'.folder = "none"
      /\ chat.folder # f => chat' = chat
  <2>1. CASE chat.folder = f /\ keep
    <3>1. chat' = [chat EXCEPT !.folder = "none"]  BY <2>1 DEF M!DeleteProject
    <3> QED  BY <1>5, <2>1, <3>1
  <2>2. CASE chat.folder = f /\ ~keep
    <3>1. chat' = [chat EXCEPT !.at = "gone", !.folder = "none"]  BY <2>2 DEF M!DeleteProject
    <3> QED  BY <1>5, <2>2, <3>1
  <2>3. CASE chat.folder # f
    <3>1. chat' = chat  BY <2>3 DEF M!DeleteProject
    <3> QED  BY <1>5, <2>3, <3>1
  <2> QED  BY <2>1, <2>2, <2>3
<1>7. ChatInv'  BY <1>4, <1>5, <1>6 DEF ChatInv, ChatIsPlaced
<1>8. M!GhostStays
  <2> SUFFICES ASSUME chat.at = "kept", chat'.at = "kept"  PROVE M!IsGhost' <=> M!IsGhost  BY DEF M!GhostStays
  <2>1. CASE chat.folder = f
    <3>1. M!IsGhost <=> chat.ghost  BY <1>5, <2>1, ModelsAssumption DEF M!IsGhost, ChatIsPlaced
    <3>2. M!IsGhost' <=> chat.ghost  BY <1>6, <2>1 DEF M!IsGhost
    <3> QED  BY <3>1, <3>2
  <2>2. CASE chat.folder # f
    <3>1. chat.folder # "none" => folder'[chat.folder] = folder[chat.folder]  BY <1>4, <1>5, <2>2
    <3> QED  BY <1>6, <2>2, <3>1 DEF M!IsGhost
  <2> QED  BY <2>1, <2>2
<1> QED  BY <1>1, <1>2, <1>7, <1>8 DEF ModelsInv

LEMMA CreateChatKeeps ==
  ASSUME ModelsInv, NEW asked \in BOOLEAN, NEW f \in Folders \cup {"none"}, NEW m \in M!Ids \cup {M!NoModel}, M!CreateChat(asked, f, m)
  PROVE  ModelsInv' /\ M!GhostStays
<1>1. RegistryInv' /\ KeysInv' /\ RestInv' /\ HeardInv'
  <2>1. KeysInv'  BY LookedKeeps DEF M!CreateChat, M!settings, ModelsInv
  <2> QED  BY <2>1, SettingsStay DEF M!CreateChat, M!settings, ModelsInv, RestInv, HeardInv, M!OnlyVouchedHear, M!StatementIsOfAddress
<1>2. PICK picked \in M!Ids \cup {M!NoModel} :
        chat' = [at |-> "kept", ghost |-> M!StoredFlag(asked, f), folder |-> f, model |-> picked]
  BY DEF M!CreateChat, M!PickLocalChatModel, M!Candidates
<1>3. folder' = folder /\ chat.at = "none" /\ (f # "none" => folder[f] # "none")  BY DEF M!CreateChat
<1>4. M!StoredFlag(asked, f) \in BOOLEAN /\ (f # "none" /\ folder[f] = "ghost" => M!StoredFlag(asked, f))  BY DEF M!StoredFlag
<1>5. ChatInv'  BY <1>2, <1>3, <1>4 DEF ModelsInv, ChatInv, ChatIsPlaced
<1> QED  BY <1>1, <1>3, <1>5 DEF ModelsInv, M!GhostStays

LEMMA SetChatModelKeeps == ASSUME ModelsInv, NEW m \in M!Ids, M!SetChatModel(m)  PROVE ModelsInv' /\ M!GhostStays
<1>1. RegistryInv' /\ KeysInv' /\ RestInv' /\ HeardInv'
  BY SettingsStay DEF M!SetChatModel, M!settings, ModelsInv, RestInv, HeardInv, M!OnlyVouchedHear, M!StatementIsOfAddress
<1>2. chat' = [chat EXCEPT !.model = m] /\ folder' = folder  BY DEF M!SetChatModel
<1>3. ChatInv' /\ chat'.at = chat.at /\ chat'.ghost = chat.ghost /\ chat'.folder = chat.folder
  BY <1>2 DEF ModelsInv, ChatInv, ChatIsPlaced
<1> QED  BY <1>1, <1>2, <1>3 DEF ModelsInv, M!GhostStays, M!IsGhost

LEMMA MoveChatKeeps == ASSUME ModelsInv, NEW f \in Folders \cup {"none"}, M!MoveChat(f)  PROVE ModelsInv' /\ M!GhostStays
<1>1. RegistryInv' /\ KeysInv' /\ RestInv' /\ HeardInv'
  BY SettingsStay DEF M!MoveChat, M!settings, ModelsInv, RestInv, HeardInv, M!OnlyVouchedHear, M!StatementIsOfAddress
<1>2. chat' = [chat EXCEPT !.folder = f] /\ folder' = folder /\ ~chat.ghost /\ (f # "none" => folder[f] \notin {"none", "ghost"})
      /\ (chat.folder # "none" => folder[chat.folder] # "ghost")  BY DEF M!MoveChat
<1>3. ChatInv' /\ chat'.at = chat.at /\ chat'.ghost = chat.ghost /\ chat'.folder = f
  BY <1>2 DEF ModelsInv, ChatInv, ChatIsPlaced
<1> QED  BY <1>1, <1>2, <1>3 DEF ModelsInv, M!GhostStays, M!IsGhost

LEMMA DeleteChatKeeps == ASSUME ModelsInv, M!DeleteChat  PROVE ModelsInv' /\ M!GhostStays
<1>1. RegistryInv' /\ KeysInv' /\ RestInv' /\ HeardInv'
  BY SettingsStay DEF M!DeleteChat, M!settings, ModelsInv, RestInv, HeardInv, M!OnlyVouchedHear, M!StatementIsOfAddress, M!NoTalk
<1>2. chat' = [chat EXCEPT !.at = "gone", !.folder = "none"] /\ folder' = folder  BY DEF M!DeleteChat
<1>3. ChatInv' /\ chat'.at = "gone"  BY <1>2 DEF ModelsInv, ChatInv, ChatIsPlaced
<1> QED  BY <1>1, <1>3 DEF ModelsInv, M!GhostStays

-----------------------------------------------------------------------------
\* The content of the chat leaves only in these steps.
LEMMA TalkStep ==
  ASSUME ModelsInv, NEW ps, M!Looked(ps), UNCHANGED <<M!settings, folder, chat, edits>>,
         talk' \in [at : {"none", "starting", "running"}, model : M!Ids \cup {M!NoModel}], workers' \subseteq M!Ids,
         heard' = heard \/ \E m \in M!Ids : (M!IsGhost => M!IsLocal(m)) /\ M!Tell(m, M!IsGhost)
  PROVE  ModelsInv'
<1>1. RegistryInv' /\ KeysInv'  BY SettingsStay, LookedKeeps DEF M!settings, ModelsInv
<1>2. HeardInv'
  <2>1. CASE heard' = heard  BY <2>1 DEF ModelsInv, HeardInv, M!OnlyVouchedHear, M!StatementIsOfAddress
  <2>2. CASE \E m \in M!Ids : (M!IsGhost => M!IsLocal(m)) /\ M!Tell(m, M!IsGhost)  BY <2>2, TellKeeps DEF ModelsInv
  <2> QED  BY <2>1, <2>2
<1> QED  BY <1>1, <1>2 DEF ModelsInv, M!settings, RestInv, ChatInv, ChatIsPlaced

LEMMA AvailableIsModel == ASSUME NEW m, M!IsAvailable(m), m \in M!Ids \cup {M!NoModel}  PROVE m \in M!Ids
BY DEF M!IsAvailable

LEMMA HelperIsLocal == \A m \in M!BackgroundModel(M!IsGhost) : m \in M!Ids /\ (M!IsGhost => M!IsLocal(m))
BY DEF M!BackgroundModel, M!ResolveSlot, M!FirstFree, M!Candidates

LEMMA WorkerIsLocal == \A parent : \A m \in M!WorkerModel(M!IsGhost, parent) : m \in M!Ids /\ (M!IsGhost => M!IsLocal(m))
BY DEF M!WorkerModel, M!ResolveSlot, M!FirstFree, M!Candidates

LEMMA KickoffModelKeeps == ASSUME ModelsInv, M!Kickoff  PROVE ModelsInv'
<1>1. chat.model \in M!Ids \cup {M!NoModel} /\ slot["chat"] \in M!Ids \cup {M!NoModel}  BY DEF ModelsInv, ChatInv, RestInv
<1>2. M!DefaultModel \subseteq M!Ids \cup {M!NoModel}  BY <1>1 DEF M!DefaultModel, M!FirstFree, M!Candidates
<1>3. \E m \in M!Ids \cup {M!NoModel} : talk' = [at |-> "starting", model |-> m]  BY <1>1, <1>2 DEF M!Kickoff
<1>4. talk' \in [at : {"none", "starting", "running"}, model : M!Ids \cup {M!NoModel}]  BY <1>3
<1>5. workers' \subseteq M!Ids  BY DEF M!Kickoff, ModelsInv, RestInv
<1> QED  BY <1>4, <1>5, TalkStep DEF M!Kickoff

LEMMA BeginKeeps == ASSUME ModelsInv, M!Begin  PROVE ModelsInv'
<1>1. talk \in [at : {"none", "starting", "running"}, model : M!Ids \cup {M!NoModel}] /\ workers' \subseteq M!Ids
  BY DEF M!Begin, ModelsInv, RestInv
<1>2. CASE M!StillLocal(talk.model) /\ M!IsAvailable(talk.model)
  <2>1. talk.model \in M!Ids /\ (M!IsGhost => M!IsLocal(talk.model))  BY <1>1, <1>2, AvailableIsModel DEF M!StillLocal
  <2>2. talk' = [talk EXCEPT !.at = "running"] /\ M!Tell(talk.model, M!IsGhost)  BY <1>2 DEF M!Begin
  <2>3. talk' \in [at : {"none", "starting", "running"}, model : M!Ids \cup {M!NoModel}]  BY <1>1, <2>2
  <2> QED  BY <1>1, <2>1, <2>2, <2>3, TalkStep DEF M!Begin
<1>3. CASE ~(M!StillLocal(talk.model) /\ M!IsAvailable(talk.model))
  <2>1. talk' = M!NoTalk /\ heard' = heard  BY <1>3 DEF M!Begin
  <2>2. talk' \in [at : {"none", "starting", "running"}, model : M!Ids \cup {M!NoModel}]  BY <2>1 DEF M!NoTalk
  <2> QED  BY <1>1, <2>1, <2>2, TalkStep DEF M!Begin
<1> QED  BY <1>2, <1>3

LEMMA SummariseKeeps == ASSUME ModelsInv, M!Summarise  PROVE ModelsInv'
<1>1. talk' \in [at : {"none", "starting", "running"}, model : M!Ids \cup {M!NoModel}] /\ workers' \subseteq M!Ids
  BY DEF M!Summarise, ModelsInv, RestInv
<1>2. \E m \in M!Ids : (M!IsGhost => M!IsLocal(m)) /\ M!Tell(m, M!IsGhost)
  <2>1. CASE M!BackgroundModel(M!IsGhost) # {}
    <3>1. PICK m \in M!BackgroundModel(M!IsGhost) : M!Tell(m, M!IsGhost)  BY <2>1 DEF M!Summarise
    <3> QED  BY <3>1, HelperIsLocal
  <2>2. CASE M!BackgroundModel(M!IsGhost) = {}
    <3>1. M!IsAvailable(chat.model) /\ M!Tell(chat.model, M!IsGhost) /\ talk.at # "running"  BY <2>2 DEF M!Summarise
    <3>2. M!IsGhost => M!IsLocal(chat.model)  BY <3>1 DEF M!Summarise
    <3>3. chat.model \in M!Ids  BY <3>1, AvailableIsModel DEF ModelsInv, ChatInv
    <3> QED  BY <3>1, <3>2, <3>3
  <2> QED  BY <2>1, <2>2
<1> QED  BY <1>1, <1>2, TalkStep DEF M!Summarise

LEMMA SpawnKeeps == ASSUME ModelsInv, M!Spawn  PROVE ModelsInv'
<1>1. PICK m \in M!WorkerModel(M!IsGhost, talk.model) : workers' = workers \cup {m} /\ M!Tell(m, M!IsGhost)  BY DEF M!Spawn
<1>2. m \in M!Ids /\ (M!IsGhost => M!IsLocal(m))  BY WorkerIsLocal
<1>3. talk' \in [at : {"none", "starting", "running"}, model : M!Ids \cup {M!NoModel}] /\ workers' \subseteq M!Ids
  BY <1>1, <1>2 DEF M!Spawn, ModelsInv, RestInv
<1> QED  BY <1>1, <1>2, <1>3, TalkStep DEF M!Spawn

LEMMA ResumeKeeps == ASSUME ModelsInv, NEW m \in M!Ids, M!Resume(m)  PROVE ModelsInv'
<1>1. talk' \in [at : {"none", "starting", "running"}, model : M!Ids \cup {M!NoModel}] /\ workers' \subseteq M!Ids
  BY DEF M!Resume, ModelsInv, RestInv
<1> QED  BY <1>1, TalkStep DEF M!Resume

LEMMA FinishKeeps == ASSUME ModelsInv, M!Finish  PROVE ModelsInv'
<1>1. talk' \in [at : {"none", "starting", "running"}, model : M!Ids \cup {M!NoModel}] /\ workers' \subseteq M!Ids
  BY DEF M!Finish, ModelsInv, RestInv, M!NoTalk
<1>2. heard' = heard \/ \E m \in M!Ids : (M!IsGhost => M!IsLocal(m)) /\ M!Tell(m, M!IsGhost)  BY HelperIsLocal DEF M!Finish
<1> QED  BY <1>1, <1>2, TalkStep DEF M!Finish

LEMMA ShowKeeps == ASSUME ModelsInv, M!Show  PROVE ModelsInv'
<1>1. talk' \in [at : {"none", "starting", "running"}, model : M!Ids \cup {M!NoModel}] /\ workers' \subseteq M!Ids
  BY DEF M!Show, M!chatState, ModelsInv, RestInv
<1> QED  BY <1>1, TalkStep DEF M!Show, M!chatState

LEMMA ModelsRestartKeeps == ASSUME ModelsInv, M!Restart  PROVE ModelsInv'
<1>1. KeysInv'  BY DEF M!Restart, ModelsInv, KeysInv, M!CacheIsVault
<1> QED  BY <1>1 DEF M!Restart, ModelsInv, RegistryInv, StatementsStand, NoRowNoEdit, RestInv, ChatInv, ChatIsPlaced, HeardInv, M!OnlyVouchedHear, M!StatementIsOfAddress, M!NoTalk

-----------------------------------------------------------------------------
LEMMA ModelsStart == M!Init => ModelsInv
<1> SUFFICES ASSUME M!Init  PROVE ModelsInv  OBVIOUS
<1>1. PICK s \in Setup : provider = s.provider /\ catalog = s.catalog  BY DEF M!Init
<1>2. RegistryInv
  BY <1>1, ModelsAssumption DEF RegistryInv, ProviderType, RowType, M!Local, M!Ids, StatementsStand, NoRowNoEdit
<1>3. KeysInv  BY DEF M!Init, KeysInv, M!CacheIsVault
<1>4. ChatInv  BY DEF M!Init, ChatInv, ChatIsPlaced
<1>5. RestInv  BY ModelsAssumption DEF M!Init, RestInv, M!NoTalk
<1>6. HeardInv  BY DEF M!Init, HeardInv, M!OnlyVouchedHear, M!StatementIsOfAddress
<1> QED  BY <1>2, <1>3, <1>4, <1>5, <1>6 DEF ModelsInv

\* Every step of the registry and of a chat keeps the invariant, what a chat is, and what the user wrote.
LEMMA ModelsKeep == ASSUME ModelsInv, M!Next  PROVE ModelsInv' /\ M!GhostStays /\ M!EditsSurvive
<1>1. ASSUME UNCHANGED <<folder, chat>>  PROVE M!GhostStays
  BY <1>1 DEF M!GhostStays, M!IsGhost
<1>2. ASSUME refreshes \subseteq refreshes'  PROVE M!EditsSurvive
  BY <1>2 DEF M!EditsSurvive
<1>3. ASSUME NEW p \in Slugs, NEW a \in Addrs, NEW local \in BOOLEAN, NEW keyless \in BOOLEAN, NEW key \in Keys \cup {"none"},
             M!Create(p, a, local, keyless, key)
      PROVE  ModelsInv' /\ M!GhostStays /\ M!EditsSurvive
  BY <1>1, <1>2, <1>3, CreateKeeps DEF M!Create, M!chatState
<1>4. ASSUME NEW p \in Slugs, NEW a \in Addrs, NEW local \in {"none", "yes", "no"}, NEW on \in BOOLEAN, M!Update(p, a, local, on)
      PROVE  ModelsInv' /\ M!GhostStays /\ M!EditsSurvive
  BY <1>1, <1>2, <1>4, UpdateKeeps DEF M!Update, M!chatState
<1>5. ASSUME NEW p \in Slugs,
             M!Remove(p) \/ M!RemoveKey(p) \/ M!AskModels(p) \/ \E key \in Keys, verify \in BOOLEAN : M!SaveKey(p, key, verify)
      PROVE  ModelsInv' /\ M!GhostStays /\ M!EditsSurvive
  <2>1. ModelsInv'  BY <1>5, RemoveKeeps, KeyStepKeeps, AskModelsKeeps
  <2>2. UNCHANGED M!chatState /\ refreshes \subseteq refreshes'  BY <1>5 DEF M!Remove, M!RemoveKey, M!AskModels, M!SaveKey
  <2> QED  BY <1>1, <1>2, <2>1, <2>2 DEF M!chatState
<1>6. ASSUME NEW r \in refreshes, M!LostModels(r) \/ \E listed \in M!Listings : M!GotModels(r, listed)
      PROVE  ModelsInv' /\ M!GhostStays /\ M!EditsSurvive
  <2>1. ModelsInv' /\ M!GhostStays  BY <1>1, <1>6, GotModelsKeeps DEF M!LostModels, M!GotModels, M!chatState
  <2>2. ASSUME NEW m \in M!Ids, catalog[m].src = "manual" \/ catalog[m].ov # "none"
        PROVE  catalog'[m].src = catalog[m].src /\ catalog'[m].ov = catalog[m].ov
    <3>1. CASE M!LostModels(r)  BY <3>1 DEF M!LostModels
    <3>2. CASE \E listed \in M!Listings : M!GotModels(r, listed)  BY <2>2, <3>2, GotRows
    <3> QED  BY <1>6, <3>1, <3>2
  <2> QED  BY <2>1, <2>2 DEF M!EditsSurvive
<1>7. CASE \/ \E m \in M!Ids : M!AddManual(m) \/ M!RemoveModel(m) \/ \E on \in BOOLEAN, ov \in M!Local : M!UpdateModel(m, on, ov)
           \/ \E s \in {"helper", "agents", "chat"}, m \in M!Ids : M!SetSlot(s, m)
  <2>1. ModelsInv'  BY <1>7, ModelEditKeeps
  <2>2. UNCHANGED M!chatState /\ refreshes' = refreshes  BY <1>7 DEF M!AddManual, M!RemoveModel, M!UpdateModel, M!SetSlot
  <2> QED  BY <1>1, <1>2, <2>1, <2>2 DEF M!chatState
<1>8. CASE \/ \E f \in Folders, b \in BOOLEAN : M!CreateProject(f, b) \/ M!DeleteProject(f, b)
           \/ \E asked \in BOOLEAN, f \in Folders \cup {"none"}, m \in M!Ids \cup {M!NoModel} : M!CreateChat(asked, f, m)
           \/ \E m \in M!Ids : M!SetChatModel(m)
           \/ \E f \in Folders \cup {"none"} : M!MoveChat(f)
           \/ M!DeleteChat
  <2>1. ModelsInv' /\ M!GhostStays
    BY <1>8, CreateProjectKeeps, DeleteProjectKeeps, CreateChatKeeps, SetChatModelKeeps, MoveChatKeeps, DeleteChatKeeps
  <2>2. UNCHANGED M!settings  BY <1>8 DEF M!CreateProject, M!DeleteProject, M!CreateChat, M!SetChatModel, M!MoveChat, M!DeleteChat
  <2> QED  BY <1>2, <2>1, <2>2 DEF M!settings
<1>9. CASE M!Kickoff \/ M!Begin \/ M!Summarise \/ M!Spawn \/ M!Finish \/ M!Show \/ \E m \in M!Ids : M!Resume(m)
  <2>1. ModelsInv'  BY <1>9, KickoffModelKeeps, BeginKeeps, SummariseKeeps, SpawnKeeps, FinishKeeps, ShowKeeps, ResumeKeeps
  <2>2. UNCHANGED <<M!settings, folder, chat>>
    BY <1>9 DEF M!Kickoff, M!Begin, M!Summarise, M!Spawn, M!Finish, M!Show, M!Resume, M!chatState
  <2> QED  BY <1>1, <1>2, <2>1, <2>2 DEF M!settings
<1>10. CASE M!Restart
  <2>1. M!EditsSurvive  BY <1>10 DEF M!Restart, M!EditsSurvive
  <2> QED  BY <1>1, <1>10, <2>1, ModelsRestartKeeps DEF M!Restart
<1> QED  BY <1>3, <1>4, <1>5, <1>6, <1>7, <1>8, <1>9, <1>10 DEF M!Next

LEMMA ModelsTypes == ModelsInv => M!TypeOK
BY DEF ModelsInv, RegistryInv, KeysInv, ChatInv, RestInv, HeardInv, HeardType, ProviderType, RowType, M!TypeOK

LEMMA ModelsStutter == ASSUME ModelsInv, UNCHANGED M!modelVars  PROVE ModelsInv'
BY DEF M!modelVars, ModelsInv, RegistryInv, StatementsStand, NoRowNoEdit, ChatIsPlaced, KeysInv, M!CacheIsVault, ChatInv, RestInv, HeardInv,
       M!OnlyVouchedHear, M!StatementIsOfAddress

\* Only a model vouched for hears a ghost chat, a key is the one that is stored, and no refresh undoes an edit
\* (catalog.ts, router.ts, server.ts).
THEOREM GhostsStayHome ==
  M!Spec => /\ [](M!TypeOK /\ M!OnlyVouchedHear /\ M!StatementIsOfAddress /\ M!CacheIsVault)
            /\ [][M!GhostStays /\ M!EditsSurvive]_(M!modelVars)
<1>1. ModelsInv /\ [M!Next]_(M!modelVars) => ModelsInv'  BY ModelsKeep, ModelsStutter
<1>2. ModelsInv /\ [M!Next]_(M!modelVars) => [M!GhostStays /\ M!EditsSurvive]_(M!modelVars)  BY ModelsKeep
<1>3. ModelsInv => M!TypeOK /\ M!OnlyVouchedHear /\ M!StatementIsOfAddress /\ M!CacheIsVault
  BY ModelsTypes DEF ModelsInv, HeardInv, KeysInv
<1> QED  BY ModelsStart, <1>1, <1>2, <1>3, PTL DEF M!Spec

-----------------------------------------------------------------------------
(* The notifier                                                            *)

ItemType == [at : {"waiting", "settled"}, kind : N!Kinds, chat : Chats, label : Labels, row : BOOLEAN, orphan : BOOLEAN]
Seen(n) == items[n] # N!NoItem

\* A timer is for an item whose message is queued, it is not overdue, and it knows a ghost chat that was there.
TimersStand ==
  /\ \A e \in timers : /\ Seen(e.item) /\ told[e.item] = "queued" /\ e.due >= clock
                       /\ items[e.item].chat \in Ghosts /\ ~e.ghost => items[e.item].orphan
  /\ \A e, f \in timers : e.item = f.item => e = f
\* What is remembered as sent was the message of an item.
RecentWereTold ==
  \A e \in recent : \E m \in N!Numbers : Seen(m) /\ N!Key(items[m]) = e.key /\ told[m] \in {"sent", "failed"}

NoticesInv ==
  /\ items \in [N!Numbers -> {N!NoItem} \cup ItemType]
  /\ N!TypeOK /\ TimersStand /\ RecentWereTold /\ N!WaitingWasBuzzed /\ N!SilentWhileKept
  /\ \A n \in detailed : Seen(n)

LEMMA NoItemIsNone == /\ N!NoItem.at = "none" /\ \A i \in ItemType : i # N!NoItem /\ i.at \in {"waiting", "settled"}
BY DEF N!NoItem, ItemType

\* An item keeps what it is; only whether it waits changes.
Same(i, j) == /\ (i = N!NoItem) = (j = N!NoItem)
              /\ i # N!NoItem => N!Key(i) = N!Key(j) /\ i.chat = j.chat /\ i.orphan = j.orphan
              /\ j.at = "waiting" => i.at = "waiting"

LEMMA SettleOne ==
  ASSUME NEW i \in {N!NoItem} \cup ItemType, i.at = "waiting"
  PROVE  [i EXCEPT !.at = "settled"] \in ItemType /\ Same(i, [i EXCEPT !.at = "settled"])
<1>1. i \in ItemType  BY DEF N!NoItem
<1> QED  BY <1>1, NoItemIsNone DEF ItemType, Same, N!Key

\* Steps that fire nothing and queue nothing.
LEMMA QuietKeeps ==
  ASSUME NoticesInv, UNCHANGED <<timers, recent, told, detailed>>,
         items' \in [N!Numbers -> {N!NoItem} \cup ItemType],
         \A n \in N!Numbers : Same(items[n], items'[n]),
         settings' \in [url : BOOLEAN, details : BOOLEAN, events : SUBSET N!Kinds],
         kept' \subseteq Chats, clock' \in 0..MaxClock, \A e \in timers : e.due >= clock'
  PROVE  NoticesInv'
<1>1. N!TypeOK'
  <2>1. \A n \in N!Numbers : items'[n].at \in {"none", "waiting", "settled"}  BY NoItemIsNone
  <2> QED  BY <2>1 DEF NoticesInv, N!TypeOK, N!Numbers
<1>2. \A n \in N!Numbers : Seen(n) <=> Seen(n)'  BY DEF Seen, Same
<1>3. \A e \in timers : e.item \in N!Numbers  BY DEF NoticesInv, N!TypeOK
<1>4. TimersStand'  BY <1>2, <1>3 DEF NoticesInv, TimersStand, Same, Seen
<1>5. RecentWereTold'
  <2> SUFFICES ASSUME NEW e \in recent  PROVE \E m \in N!Numbers : Seen(m)' /\ N!Key(items'[m]) = e.key /\ told[m] \in {"sent", "failed"}
    BY DEF RecentWereTold
  <2>1. PICK m \in N!Numbers : Seen(m) /\ N!Key(items[m]) = e.key /\ told[m] \in {"sent", "failed"}  BY DEF NoticesInv, RecentWereTold
  <2> QED  BY <1>2, <2>1 DEF Same, Seen
<1>6. N!WaitingWasBuzzed'
  <2> SUFFICES ASSUME NEW n \in N!Numbers, items'[n].at = "waiting", told[n] # "off"
               PROVE  \/ told[n] \in {"sent", "failed", "lost"}
                      \/ told[n] = "queued" /\ \E e \in timers : e.item = n /\ e.due >= clock'
                      \/ told[n] = "equal" /\ \E m \in N!Numbers \ {n} : items'[m] # N!NoItem /\ N!Key(items'[m]) = N!Key(items'[n]) /\ told[m] \in {"sent", "failed", "lost"}
    BY DEF N!WaitingWasBuzzed, N!Waiting
  <2>1. items[n].at = "waiting" /\ items[n] # N!NoItem  BY NoItemIsNone DEF Same
  <2>2. \/ told[n] \in {"sent", "failed", "lost"}
        \/ told[n] = "queued" /\ \E e \in timers : e.item = n /\ e.due >= clock
        \/ told[n] = "equal" /\ \E m \in N!Numbers \ {n} : items[m] # N!NoItem /\ N!Key(items[m]) = N!Key(items[n]) /\ told[m] \in {"sent", "failed", "lost"}
    BY <2>1 DEF NoticesInv, N!WaitingWasBuzzed, N!Waiting
  <2>3. \A m \in N!Numbers : items[m] # N!NoItem => items'[m] # N!NoItem /\ N!Key(items'[m]) = N!Key(items[m])  BY DEF Same
  <2> QED  BY <2>1, <2>2, <2>3
<1>7. N!SilentWhileKept' /\ \A n \in detailed' : Seen(n)'
  <2>1. detailed \subseteq N!Numbers  BY DEF NoticesInv, N!TypeOK
  <2> QED  BY <1>2, <2>1 DEF NoticesInv, N!SilentWhileKept, Same, Seen
<1> QED  BY <1>1, <1>4, <1>5, <1>6, <1>7 DEF NoticesInv

LEMMA SameItem == \A i : Same(i, i)
BY DEF Same

\* A message goes out for item n, which is waiting or not; nothing else changes but its timer and that it may be new.
LEMMA FireKeeps ==
  ASSUME NoticesInv, NEW n \in N!Numbers, NEW item \in ItemType, NEW event,
         N!Fire(n, item, event), items' = [items EXCEPT ![n] = item],
         (told[n] = "queued" /\ item = items[n]) \/ items[n] = N!NoItem,
         timers' \subseteq timers, \A e \in timers' : e.item # n,
         \A e \in timers : e.item # n => e \in timers',
         item.chat \in Ghosts /\ ~event.ghost => item.orphan,
         UNCHANGED <<settings, kept, clock>>
  PROVE  NoticesInv'
<1>1. /\ told \in [N!Numbers -> {"none", "off", "queued", "sent", "equal", "failed", "needless", "lost"}]
      /\ items \in [N!Numbers -> {N!NoItem} \cup ItemType] /\ clock \in 0..MaxClock /\ detailed \subseteq N!Numbers
  BY DEF NoticesInv, N!TypeOK
<1>2. \A m \in N!Numbers : m # n => items'[m] = items[m] /\ told'[m] = told[m]  BY <1>1 DEF N!Fire
<1>3. items'[n] = item /\ items' \in [N!Numbers -> {N!NoItem} \cup ItemType]  BY <1>1
<1>4. told'[n] \in {"needless", "equal", "sent", "failed"} /\ told' \in [N!Numbers -> {"none", "off", "queued", "sent", "equal", "failed", "needless", "lost"}]
  BY <1>1 DEF N!Fire
<1>5. \A e \in recent' : e \in recent \/ (e = [key |-> N!Key(item), at |-> clock] /\ told'[n] \in {"sent", "failed"})
  BY <1>1 DEF N!Fire
<1>6. detailed' = detailed \/ (detailed' = detailed \cup {n} /\ ~event.ghost)  BY DEF N!Fire, N!Specific
<1>7. Seen(n)' /\ \A m \in N!Numbers : Seen(m) => Seen(m)'  BY <1>2, <1>3, NoItemIsNone DEF Seen
<1>8. N!TypeOK'
  <2>1. \A m \in N!Numbers : items'[m].at \in {"none", "waiting", "settled"}  BY <1>3, NoItemIsNone
  <2>2. \A e \in recent' : e.at \in 0..MaxClock  BY <1>1, <1>5 DEF NoticesInv, N!TypeOK
  <2> QED  BY <1>1, <1>4, <1>6, <2>1, <2>2 DEF NoticesInv, N!TypeOK
<1>9. \A e \in timers : e.item \in N!Numbers  BY DEF NoticesInv, N!TypeOK
<1>10. TimersStand'
  <2>1. \A e \in timers' : e \in timers /\ e.item # n /\ e.item \in N!Numbers /\ items'[e.item] = items[e.item] /\ told'[e.item] = told[e.item]
    BY <1>2, <1>9
  <2> QED  BY <2>1 DEF NoticesInv, TimersStand, Seen
\* The message of a number that was there is not taken back.
<1>11. \A m \in N!Numbers : Seen(m) /\ told[m] \in {"sent", "failed", "lost"} =>
           m # n /\ items'[m] = items[m] /\ told'[m] = told[m]
  BY <1>2 DEF Seen
<1>12. RecentWereTold'
  <2> SUFFICES ASSUME NEW e \in recent'  PROVE \E m \in N!Numbers : Seen(m)' /\ N!Key(items'[m]) = e.key /\ told'[m] \in {"sent", "failed"}
    BY DEF RecentWereTold
  <2>1. CASE e \in recent
    <3>1. PICK m \in N!Numbers : Seen(m) /\ N!Key(items[m]) = e.key /\ told[m] \in {"sent", "failed"}  BY <2>1 DEF NoticesInv, RecentWereTold
    <3> QED  BY <1>7, <1>11, <3>1
  <2>2. CASE e = [key |-> N!Key(item), at |-> clock] /\ told'[n] \in {"sent", "failed"}
    BY <1>3, <1>7, <2>2
  <2> QED  BY <1>5, <2>1, <2>2
<1>13. N!WaitingWasBuzzed'
  <2> SUFFICES ASSUME NEW k \in N!Numbers, items'[k].at = "waiting", told'[k] # "off"
               PROVE  \/ told'[k] \in {"sent", "failed", "lost"}
                      \/ told'[k] = "queued" /\ \E e \in timers' : e.item = k /\ e.due >= clock'
                      \/ told'[k] = "equal" /\ \E m \in N!Numbers \ {k} : items'[m] # N!NoItem /\ N!Key(items'[m]) = N!Key(items'[k]) /\ told'[m] \in {"sent", "failed", "lost"}
    BY DEF N!WaitingWasBuzzed, N!Waiting
  <2>1. CASE k # n
    <3>1. items'[k] = items[k] /\ told'[k] = told[k]  BY <1>2, <2>1
    <3>2. \/ told[k] \in {"sent", "failed", "lost"}
          \/ told[k] = "queued" /\ \E e \in timers : e.item = k /\ e.due >= clock
          \/ told[k] = "equal" /\ \E m \in N!Numbers \ {k} : items[m] # N!NoItem /\ N!Key(items[m]) = N!Key(items[k]) /\ told[m] \in {"sent", "failed", "lost"}
      BY <3>1 DEF NoticesInv, N!WaitingWasBuzzed, N!Waiting
    <3> QED  BY <1>11, <2>1, <3>1, <3>2 DEF Seen
  <2>2. CASE k = n
    <3>1. item.at = "waiting"  BY <1>3, <2>2
    <3>2. CASE told'[n] \in {"sent", "failed"}  BY <2>2, <3>2
    <3>3. CASE told'[n] \notin {"sent", "failed"}
      <4>1. told'[n] = "equal" /\ \E e \in recent : e.key = N!Key(item)
        BY <1>1, <3>1, <3>3 DEF N!Fire, N!SameKey
      <4>2. PICK m \in N!Numbers : Seen(m) /\ N!Key(items[m]) = N!Key(item) /\ told[m] \in {"sent", "failed"}
        BY <4>1 DEF NoticesInv, RecentWereTold
      <4>3. m # n /\ items'[m] = items[m] /\ told'[m] = told[m] /\ items'[m] # N!NoItem  BY <1>11, <4>2 DEF Seen
      <4> QED  BY <1>3, <2>2, <4>1, <4>2, <4>3
    <3> QED  BY <3>2, <3>3
  <2> QED  BY <2>1, <2>2
<1>14. N!SilentWhileKept' /\ \A k \in detailed' : Seen(k)'
  <2>1. \A k \in detailed : Seen(k) /\ (items[k].chat \in Ghosts => items[k].orphan)  BY DEF NoticesInv, N!SilentWhileKept
  <2>2. \A k \in detailed : items'[k] = items[k]  BY <1>1, <1>2, <1>3, <2>1 DEF Seen
  <2> QED  BY <1>1, <1>3, <1>6, <1>7, <2>1, <2>2 DEF N!SilentWhileKept
<1> QED  BY <1>3, <1>8, <1>10, <1>12, <1>13, <1>14 DEF NoticesInv

LEMMA TimerFiresKeeps == ASSUME NoticesInv, NEW e \in timers, N!TimerFires(e)  PROVE NoticesInv'
<1>1. e.item \in N!Numbers /\ Seen(e.item) /\ told[e.item] = "queued" /\ (items[e.item].chat \in Ghosts /\ ~e.ghost => items[e.item].orphan)
  BY DEF NoticesInv, N!TypeOK, TimersStand
<1>2. items[e.item] \in ItemType /\ items \in [N!Numbers -> {N!NoItem} \cup ItemType]  BY <1>1 DEF NoticesInv, Seen
<1>3. items' = [items EXCEPT ![e.item] = items[e.item]]  BY <1>2 DEF N!TimerFires
<1>4. timers' = timers \ {e} /\ \A f \in timers' : f.item # e.item  BY DEF N!TimerFires, NoticesInv, TimersStand
<1>5. \A f \in timers : f.item # e.item => f \in timers'  BY <1>4
<1> QED  BY <1>1, <1>2, <1>3, <1>4, <1>5, FireKeeps DEF N!TimerFires

LEMMA AppearsKeeps ==
  ASSUME NoticesInv, NEW n \in N!Numbers, NEW kind \in N!Kinds, NEW from \in Chats, NEW label \in Labels, NEW row \in BOOLEAN,
         N!Appears(n, kind, from, label, row)
  PROVE  NoticesInv'
<1> DEFINE item == [at |-> "waiting", kind |-> kind, chat |-> from, label |-> label, row |-> row, orphan |-> from \notin kept]
           event == [item |-> n, due |-> clock + Delay, ghost |-> N!ChatIsGhost(from), details |-> settings.details]
<1>1. item \in ItemType /\ item.at = "waiting" /\ (item.chat \in Ghosts /\ ~event.ghost => item.orphan)
  BY DEF ItemType, N!ChatIsGhost
<1>2. /\ items[n] = N!NoItem /\ items' = [items EXCEPT ![n] = item] /\ UNCHANGED <<settings, kept, clock>>
      /\ \/ told' = [told EXCEPT ![n] = "off"] /\ UNCHANGED <<timers, recent, detailed>>
         \/ N!Fire(n, item, event) /\ UNCHANGED timers
         \/ told' = [told EXCEPT ![n] = "queued"] /\ timers' = timers \cup {event} /\ UNCHANGED <<recent, detailed>>
  BY DEF N!Appears
<1>3. event.item = n /\ event.due = clock + Delay  OBVIOUS
<1>4. event \in [item : N!Numbers, due : 0..MaxClock + Delay, ghost : BOOLEAN, details : BOOLEAN] /\ event.due >= clock
  BY NoticesAssumption DEF NoticesInv, N!TypeOK, N!ChatIsGhost
<1> HIDE DEF item, event
<1>5. /\ told \in [N!Numbers -> {"none", "off", "queued", "sent", "equal", "failed", "needless", "lost"}]
      /\ items \in [N!Numbers -> {N!NoItem} \cup ItemType] /\ detailed \subseteq N!Numbers
  BY DEF NoticesInv, N!TypeOK
<1>6. \A e \in timers : e.item # n /\ e.item \in N!Numbers  BY <1>2 DEF NoticesInv, N!TypeOK, TimersStand, Seen
<1>7. CASE N!Fire(n, item, event) /\ UNCHANGED timers
  BY <1>1, <1>2, <1>6, <1>7, FireKeeps
<1>8. CASE /\ UNCHANGED <<recent, detailed>>
           /\ \/ told' = [told EXCEPT ![n] = "off"] /\ timers' = timers
              \/ told' = [told EXCEPT ![n] = "queued"] /\ timers' = timers \cup {event}
  <2>1. /\ items'[n] = item /\ items' \in [N!Numbers -> {N!NoItem} \cup ItemType]
        /\ \A m \in N!Numbers : m # n => items'[m] = items[m] /\ told'[m] = told[m]
        /\ told'[n] = "off" \/ (told'[n] = "queued" /\ timers' = timers \cup {event})
        /\ told' \in [N!Numbers -> {"none", "off", "queued", "sent", "equal", "failed", "needless", "lost"}]
    BY <1>1, <1>2, <1>5, <1>8
  <2>2. \A m \in N!Numbers : Seen(m) => m # n /\ Seen(m)'  BY <1>2, <2>1 DEF Seen
  <2>3. Seen(n)'  BY <1>1, <2>1, NoItemIsNone DEF Seen
  <2>4. N!TypeOK'
    <3>1. \A m \in N!Numbers : items'[m].at \in {"none", "waiting", "settled"}  BY <2>1, NoItemIsNone
    <3> QED  BY <1>2, <1>4, <1>8, <2>1, <3>1 DEF NoticesInv, N!TypeOK
  <2>5. TimersStand'
    <3>1. \A e \in timers : /\ items'[e.item] = items[e.item] /\ told'[e.item] = told[e.item] /\ Seen(e.item)'
      BY <1>6, <2>1, <2>2 DEF NoticesInv, TimersStand
    <3>2. \A e \in timers : /\ Seen(e.item)' /\ told'[e.item] = "queued" /\ e.due >= clock'
                            /\ items'[e.item].chat \in Ghosts /\ ~e.ghost => items'[e.item].orphan
      BY <1>2, <3>1 DEF NoticesInv, TimersStand
    <3>3. CASE timers' = timers  BY <3>2, <3>3 DEF NoticesInv, TimersStand
    <3>4. CASE told'[n] = "queued" /\ timers' = timers \cup {event}
      BY <1>1, <1>2, <1>3, <1>4, <1>6, <2>1, <2>3, <3>2, <3>4 DEF NoticesInv, TimersStand
    <3> QED  BY <1>8, <2>1, <3>3, <3>4
  <2>6. RecentWereTold'
    <3> SUFFICES ASSUME NEW e \in recent  PROVE \E m \in N!Numbers : Seen(m)' /\ N!Key(items'[m]) = e.key /\ told'[m] \in {"sent", "failed"}
      BY <1>8 DEF RecentWereTold
    <3>1. PICK m \in N!Numbers : Seen(m) /\ N!Key(items[m]) = e.key /\ told[m] \in {"sent", "failed"}  BY DEF NoticesInv, RecentWereTold
    <3> QED  BY <2>1, <2>2, <3>1
  <2>7. N!WaitingWasBuzzed'
    <3> SUFFICES ASSUME NEW k \in N!Numbers, items'[k].at = "waiting", told'[k] # "off"
                 PROVE  \/ told'[k] \in {"sent", "failed", "lost"}
                        \/ told'[k] = "queued" /\ \E e \in timers' : e.item = k /\ e.due >= clock'
                        \/ told'[k] = "equal" /\ \E m \in N!Numbers \ {k} : items'[m] # N!NoItem /\ N!Key(items'[m]) = N!Key(items'[k]) /\ told'[m] \in {"sent", "failed", "lost"}
      BY DEF N!WaitingWasBuzzed, N!Waiting
    <3>1. CASE k = n  BY <1>2, <1>3, <1>4, <2>1, <3>1
    <3>2. CASE k # n
      <4>1. items'[k] = items[k] /\ told'[k] = told[k] /\ timers \subseteq timers'  BY <1>8, <2>1, <3>2
      <4>2. \/ told[k] \in {"sent", "failed", "lost"}
            \/ told[k] = "queued" /\ \E e \in timers : e.item = k /\ e.due >= clock
            \/ told[k] = "equal" /\ \E m \in N!Numbers \ {k} : items[m] # N!NoItem /\ N!Key(items[m]) = N!Key(items[k]) /\ told[m] \in {"sent", "failed", "lost"}
        BY <4>1 DEF NoticesInv, N!WaitingWasBuzzed, N!Waiting
      <4>3. \A m \in N!Numbers : items[m] # N!NoItem => items'[m] = items[m] /\ told'[m] = told[m]  BY <1>2, <2>1
      <4> QED  BY <1>2, <4>1, <4>2, <4>3
    <3> QED  BY <3>1, <3>2
  <2>8. N!SilentWhileKept' /\ \A k \in detailed' : Seen(k)'
    <3>1. \A k \in detailed : Seen(k) /\ (items[k].chat \in Ghosts => items[k].orphan)  BY DEF NoticesInv, N!SilentWhileKept
    <3> QED  BY <1>5, <1>8, <2>1, <2>2, <3>1 DEF N!SilentWhileKept
  <2> QED  BY <2>1, <2>4, <2>5, <2>6, <2>7, <2>8 DEF NoticesInv
<1> QED  BY <1>2, <1>7, <1>8

LEMMA SettledKeeps == ASSUME NoticesInv, NEW n \in N!Numbers, N!Settled(n)  PROVE NoticesInv'
<1> DEFINE j == [items[n] EXCEPT !.at = "settled"]
<1>1. items \in [N!Numbers -> {N!NoItem} \cup ItemType]  BY DEF NoticesInv
<1>2. items[n] \in {N!NoItem} \cup ItemType /\ items[n].at = "waiting"  BY <1>1 DEF N!Settled, N!Waiting
<1>3. j \in ItemType /\ Same(items[n], j)  BY <1>2, SettleOne
<1>4. items' = [items EXCEPT ![n] = j]  BY DEF N!Settled
<1> HIDE DEF j
<1>5. /\ items' \in [N!Numbers -> {N!NoItem} \cup ItemType]
      /\ \A m \in N!Numbers : Same(items[m], items'[m])
  BY <1>1, <1>3, <1>4, SameItem
<1>6. /\ settings \in [url : BOOLEAN, details : BOOLEAN, events : SUBSET N!Kinds] /\ kept \subseteq Chats /\ clock \in 0..MaxClock
      /\ \A e \in timers : e.due >= clock
  BY DEF NoticesInv, N!TypeOK, TimersStand
<1> QED  BY <1>5, <1>6, QuietKeeps DEF N!Settled

LEMMA OthersKeep ==
  ASSUME NoticesInv,
         \/ N!Tick \/ \E c \in Chats : N!DeleteChat(c)
         \/ \E url, details \in BOOLEAN, events \in {N!Kinds, N!Kinds \ {"question"}} : N!Save(url, details, events)
  PROVE  NoticesInv'
<1>1. UNCHANGED <<items, timers, recent, told, detailed>>  BY DEF N!Tick, N!DeleteChat, N!Save
<1>2. \A m \in N!Numbers : Same(items[m], items'[m])  BY <1>1, SameItem
<1>3. settings' \in [url : BOOLEAN, details : BOOLEAN, events : SUBSET N!Kinds] /\ kept' \subseteq Chats
  BY DEF N!Tick, N!DeleteChat, N!Save, NoticesInv, N!TypeOK
<1>4. clock' \in 0..MaxClock /\ \A e \in timers : e.due >= clock'
  <2>1. clock \in 0..MaxClock /\ \A e \in timers : e.due >= clock /\ e.due \in 0..MaxClock + Delay
    BY DEF NoticesInv, N!TypeOK, TimersStand
  <2>2. CASE clock' = clock  BY <2>1, <2>2
  <2>3. CASE N!Tick  BY <2>1, <2>3, NoticesAssumption DEF N!Tick
  <2> QED  BY <2>2, <2>3 DEF N!DeleteChat, N!Save
<1>5. items' \in [N!Numbers -> {N!NoItem} \cup ItemType]  BY <1>1 DEF NoticesInv
<1> QED  BY <1>1, <1>2, <1>3, <1>4, <1>5, QuietKeeps

LEMMA NoticesRestartKeeps == ASSUME NoticesInv, N!Restart  PROVE NoticesInv'
<1>1. /\ told \in [N!Numbers -> {"none", "off", "queued", "sent", "equal", "failed", "needless", "lost"}]
      /\ items \in [N!Numbers -> {N!NoItem} \cup ItemType] /\ detailed \subseteq N!Numbers
  BY DEF NoticesInv, N!TypeOK
<1>2. /\ told' = [n \in N!Numbers |-> IF \E e \in timers : e.item = n THEN "lost" ELSE told[n]]
      /\ items' = [n \in N!Numbers |-> IF N!Waiting(n) /\ ~items[n].row THEN [items[n] EXCEPT !.at = "settled"] ELSE items[n]]
      /\ timers' = {} /\ recent' = {} /\ UNCHANGED <<settings, kept, detailed, clock>>
  BY DEF N!Restart
<1>3. ASSUME NEW n \in N!Numbers
      PROVE  items'[n] \in {N!NoItem} \cup ItemType /\ Same(items[n], items'[n])
  <2>1. items[n] \in {N!NoItem} \cup ItemType  BY <1>1
  <2>2. CASE N!Waiting(n) /\ ~items[n].row  BY <1>2, <2>1, <2>2, SettleOne DEF N!Waiting
  <2>3. CASE ~(N!Waiting(n) /\ ~items[n].row)  BY <1>2, <2>1, <2>3, SameItem
  <2> QED  BY <2>2, <2>3
<1>4. items' \in [N!Numbers -> {N!NoItem} \cup ItemType]  BY <1>2, <1>3
<1>5. \A n \in N!Numbers : told'[n] = told[n] \/ (told'[n] = "lost" /\ told[n] = "queued")
  BY <1>2 DEF NoticesInv, TimersStand
<1>6. N!TypeOK'
  <2>1. \A m \in N!Numbers : items'[m].at \in {"none", "waiting", "settled"}  BY <1>4, NoItemIsNone
  <2> QED  BY <1>1, <1>2, <2>1 DEF NoticesInv, N!TypeOK
<1>7. TimersStand' /\ RecentWereTold'  BY <1>2 DEF TimersStand, RecentWereTold
<1>8. N!WaitingWasBuzzed'
  <2> SUFFICES ASSUME NEW k \in N!Numbers, items'[k].at = "waiting", told'[k] # "off"
               PROVE  \/ told'[k] \in {"sent", "failed", "lost"}
                      \/ told'[k] = "equal" /\ \E m \in N!Numbers \ {k} : items'[m] # N!NoItem /\ N!Key(items'[m]) = N!Key(items'[k]) /\ told'[m] \in {"sent", "failed", "lost"}
    BY DEF N!WaitingWasBuzzed, N!Waiting
  <2>1. items[k].at = "waiting" /\ Same(items[k], items'[k]) /\ items[k] # N!NoItem  BY <1>3, NoItemIsNone DEF Same
  <2>2. told[k] # "off"  BY <1>5
  <2>3. \/ told[k] \in {"sent", "failed", "lost"}
        \/ told[k] = "queued" /\ \E e \in timers : e.item = k /\ e.due >= clock
        \/ told[k] = "equal" /\ \E m \in N!Numbers \ {k} : items[m] # N!NoItem /\ N!Key(items[m]) = N!Key(items[k]) /\ told[m] \in {"sent", "failed", "lost"}
    BY <2>1, <2>2 DEF NoticesInv, N!WaitingWasBuzzed, N!Waiting
  <2>4. CASE told[k] \in {"sent", "failed", "lost"}  BY <1>5, <2>4
  <2>5. CASE \E e \in timers : e.item = k  BY <1>2, <2>5
  <2>6. CASE told[k] = "equal" /\ \E m \in N!Numbers \ {k} : items[m] # N!NoItem /\ N!Key(items[m]) = N!Key(items[k]) /\ told[m] \in {"sent", "failed", "lost"}
    <3>1. PICK m \in N!Numbers \ {k} : items[m] # N!NoItem /\ N!Key(items[m]) = N!Key(items[k]) /\ told[m] \in {"sent", "failed", "lost"}
      BY <2>6
    <3>2. items'[m] # N!NoItem /\ N!Key(items'[m]) = N!Key(items'[k]) /\ told'[m] \in {"sent", "failed", "lost"}
      BY <1>3, <1>5, <2>1, <3>1 DEF Same
    <3> QED  BY <1>5, <2>6, <3>2
  <2> QED  BY <2>3, <2>4, <2>5, <2>6
<1>9. N!SilentWhileKept' /\ \A k \in detailed' : Seen(k)'
  BY <1>1, <1>2, <1>3 DEF NoticesInv, N!SilentWhileKept, Same, Seen
<1> QED  BY <1>4, <1>6, <1>7, <1>8, <1>9 DEF NoticesInv

LEMMA NoticesStart == N!Init => NoticesInv
<1> SUFFICES ASSUME N!Init  PROVE NoticesInv  OBVIOUS
<1>1. \A n \in N!Numbers : items[n] = N!NoItem /\ items[n].at = "none"  BY NoItemIsNone DEF N!Init
<1>2. N!TypeOK  BY <1>1, NoticesAssumption DEF N!Init, N!TypeOK
<1>3. TimersStand /\ RecentWereTold /\ N!SilentWhileKept /\ \A n \in detailed : Seen(n)
  BY DEF N!Init, TimersStand, RecentWereTold, N!SilentWhileKept
<1>4. N!WaitingWasBuzzed  BY <1>1 DEF N!WaitingWasBuzzed, N!Waiting
<1>5. items \in [N!Numbers -> {N!NoItem} \cup ItemType]  BY DEF N!Init
<1> QED  BY <1>2, <1>3, <1>4, <1>5 DEF NoticesInv

LEMMA NoticesKeep == ASSUME NoticesInv, N!Next  PROVE NoticesInv'
<1>1. CASE N!Restart  BY <1>1, NoticesRestartKeeps
<1>2. CASE \E e \in timers : N!TimerFires(e)  BY <1>2, TimerFiresKeeps
<1>3. CASE \E n \in N!Numbers : N!Settled(n)  BY <1>3, SettledKeeps
<1>4. CASE \E n \in N!Numbers, c \in Chats, l \in Labels :
             \/ N!ApprovalWaits(n, c, l) \/ N!UrgentReport(n, c, l)
             \/ \E urgent \in BOOLEAN : N!AsksQuestion(n, c, l, urgent)
  <2>1. PICK n \in N!Numbers, c \in Chats, l \in Labels :
             \/ N!ApprovalWaits(n, c, l) \/ N!UrgentReport(n, c, l)
             \/ \E urgent \in BOOLEAN : N!AsksQuestion(n, c, l, urgent)
    BY <1>4
  <2>2. \E kind \in N!Kinds, row \in BOOLEAN : N!Appears(n, kind, c, l, row)
    BY <2>1 DEF N!ApprovalWaits, N!UrgentReport, N!AsksQuestion, N!Kinds
  <2> QED  BY <2>2, AppearsKeeps
<1>5. CASE \/ N!Tick \/ \E c \in Chats : N!DeleteChat(c)
           \/ \E url, details \in BOOLEAN, events \in {N!Kinds, N!Kinds \ {"question"}} : N!Save(url, details, events)
  BY <1>5, OthersKeep
<1> QED  BY <1>1, <1>2, <1>3, <1>4, <1>5 DEF N!Next

LEMMA NoticesStutter == ASSUME NoticesInv, UNCHANGED N!vars  PROVE NoticesInv'
BY DEF N!vars, NoticesInv, N!TypeOK, TimersStand, RecentWereTold, N!WaitingWasBuzzed, N!Waiting, N!SilentWhileKept, Seen, N!Key

\* The phone buzzes for what waits, and says nothing specific of a living ghost chat (notifier.ts).
THEOREM NoticesAreTold == N!Spec => [](N!TypeOK /\ N!WaitingWasBuzzed /\ N!SilentWhileKept)
<1>1. NoticesInv /\ [N!Next]_(N!vars) => NoticesInv'  BY NoticesKeep, NoticesStutter
<1>2. NoticesInv => N!TypeOK /\ N!WaitingWasBuzzed /\ N!SilentWhileKept  BY DEF NoticesInv
<1> QED  BY NoticesStart, <1>1, <1>2, PTL DEF N!Spec

-----------------------------------------------------------------------------
(* The digest                                                              *)

PostType == [at : {"pending", "settled"}, ghost : BOOLEAN, chat : D!AllChats \cup {NoChat}, from : D!AllChats \cup {NoChat}]

\* An item that came from a ghost chat is one for good; the day of a digest is noted when it begins.
PostsInv ==
  /\ posts \in [D!Numbers -> {D!NoItem} \cup PostType]
  /\ \A n \in D!Numbers : posts[n] # D!NoItem /\ posts[n].from \in GhostChats => posts[n].ghost
BriefedInv == briefed \subseteq D!Numbers /\ \A n \in briefed : posts[n] # D!NoItem /\ posts[n].from \notin GhostChats
DaysInv ==
  /\ day \in 1..MaxDays /\ digestDay \in 0..MaxDays /\ digestDay <= day
  /\ \A d \in digests : d.day \in 1..MaxDays /\ d.day <= digestDay
  /\ ~doubled /\ begun \in 0..MaxDigests
DigestInv ==
  /\ PostsInv /\ BriefedInv /\ DaysInv
  /\ chats \in [D!AllChats -> D!Projects \cup {"gone"}] /\ projects \subseteq D!Projects /\ helper \in BOOLEAN

LEMMA NoPost == D!NoItem.at = "none" /\ \A i \in PostType : i # D!NoItem
BY DEF D!NoItem, PostType

\* Items that are there keep where they came from.
LEMMA PostsStay ==
  ASSUME BriefedInv, \A n \in D!Numbers : posts[n] # D!NoItem => posts'[n] # D!NoItem /\ posts'[n].from = posts[n].from, briefed' = briefed
  PROVE  BriefedInv'
BY DEF BriefedInv

LEMMA NewItemKeeps ==
  ASSUME PostsInv, BriefedInv, briefed' = briefed, NEW c \in D!AllChats \cup {NoChat}, NEW project, D!NewItem(c, project)
  PROVE  PostsInv' /\ BriefedInv'
<1>1. PICK n \in D!Numbers :
        /\ posts[n] = D!NoItem
        /\ posts' = [posts EXCEPT ![n] = [at |-> "pending", ghost |-> D!FlagOf(c, project), chat |-> c, from |-> c]]
  BY DEF D!NewItem
<1> DEFINE new == [at |-> "pending", ghost |-> D!FlagOf(c, project), chat |-> c, from |-> c]
<1>2. D!FlagOf(c, project) \in BOOLEAN  BY DEF D!FlagOf
<1>3. new \in PostType  BY <1>2 DEF PostType
<1>4. new.from \in GhostChats => new.ghost  BY DigestAssumption DEF D!FlagOf
<1>5. posts' = [posts EXCEPT ![n] = new]  BY <1>1
<1> HIDE DEF new
<1>6. PostsInv'  BY <1>3, <1>4, <1>5 DEF PostsInv
<1>7. \A m \in D!Numbers : posts[m] # D!NoItem => posts'[m] = posts[m]  BY <1>1, <1>5 DEF PostsInv
<1> QED  BY <1>6, <1>7, PostsStay

LEMMA TurnPostsKeeps == ASSUME DigestInv, NEW c \in D!AllChats, D!TurnPosts(c)  PROVE DigestInv'
<1>1. PostsInv' /\ BriefedInv'  BY NewItemKeeps DEF D!TurnPosts, DigestInv
<1> QED  BY <1>1 DEF D!TurnPosts, DigestInv, DaysInv

LEMMA DigestWrittenKeeps == ASSUME DigestInv, NEW d \in digests, D!DigestWritten(d) \/ D!DigestFails(d)  PROVE DigestInv'
<1>1. PostsInv' /\ BriefedInv'
  <2>1. CASE D!DigestWritten(d)  BY <2>1, NewItemKeeps DEF D!DigestWritten, DigestInv
  <2>2. CASE D!DigestFails(d)  BY <2>2 DEF D!DigestFails, DigestInv, PostsInv, BriefedInv
  <2> QED  BY <2>1, <2>2
<1> QED  BY <1>1 DEF D!DigestWritten, D!DigestFails, DigestInv, DaysInv

\* Settling an item, or taking its chat away, leaves its flag and where it came from.
LEMMA PostChanged ==
  ASSUME NEW i \in PostType
  PROVE  /\ [i EXCEPT !.at = "settled"] \in PostType /\ [i EXCEPT !.at = "settled"].from = i.from /\ [i EXCEPT !.at = "settled"].ghost = i.ghost
         /\ [i EXCEPT !.chat = NoChat] \in PostType /\ [i EXCEPT !.chat = NoChat].from = i.from /\ [i EXCEPT !.chat = NoChat].ghost = i.ghost
BY DEF PostType

LEMMA DigestSettledKeeps == ASSUME DigestInv, NEW n \in D!Numbers, D!Settled(n)  PROVE DigestInv'
<1> DEFINE new == [posts[n] EXCEPT !.at = "settled"]
<1>1. posts[n] \in PostType  BY NoPost DEF D!Settled, DigestInv, PostsInv
<1>2. new \in PostType /\ new.from = posts[n].from /\ new.ghost = posts[n].ghost  BY <1>1, PostChanged
<1>3. posts' = [posts EXCEPT ![n] = new] /\ briefed' = briefed  BY DEF D!Settled
<1> HIDE DEF new
<1>4. posts[n] # D!NoItem /\ new # D!NoItem  BY <1>1, <1>2, NoPost
<1>5. PostsInv'  BY <1>2, <1>3, <1>4 DEF DigestInv, PostsInv
<1>6. BriefedInv'  BY <1>2, <1>3, <1>4, PostsStay DEF DigestInv, PostsInv
<1> QED  BY <1>5, <1>6 DEF D!Settled, DigestInv, DaysInv

LEMMA WithoutKeeps ==
  ASSUME PostsInv, BriefedInv, NEW gone, posts' = D!Without(gone) \/ posts' = posts, briefed' = briefed
  PROVE  PostsInv' /\ BriefedInv'
<1>1. ASSUME posts' = D!Without(gone)
      PROVE  PostsInv' /\ BriefedInv'
  <2>1. ASSUME NEW n \in D!Numbers
        PROVE  /\ posts'[n] \in {D!NoItem} \cup PostType
               /\ posts[n] = D!NoItem => posts'[n] = D!NoItem
               /\ posts[n] # D!NoItem => posts'[n] # D!NoItem /\ posts'[n].from = posts[n].from /\ posts'[n].ghost = posts[n].ghost
    <3>1. posts[n] \in {D!NoItem} \cup PostType  BY DEF PostsInv
    <3>2. posts'[n] = IF posts[n] # D!NoItem /\ posts[n].chat \in gone THEN [posts[n] EXCEPT !.chat = NoChat] ELSE posts[n]
      BY <1>1 DEF D!Without
    <3> QED  BY <3>1, <3>2, PostChanged, NoPost
  <2>2. posts' \in [D!Numbers -> {D!NoItem} \cup PostType]  BY <1>1, <2>1 DEF D!Without
  <2>3. PostsInv'  BY <2>1, <2>2 DEF PostsInv
  <2> QED  BY <2>1, <2>3, PostsStay
<1>2. CASE posts' = posts  BY <1>2 DEF PostsInv, BriefedInv
<1> QED  BY <1>1, <1>2

LEMMA DigestDeleteKeeps ==
  ASSUME DigestInv, (\E c \in D!AllChats : D!DeleteChat(c)) \/ (\E keep \in BOOLEAN : D!DeleteProject(keep))
  PROVE  DigestInv'
<1>1. briefed' = briefed /\ \E gone : posts' = D!Without(gone) \/ posts' = posts  BY DEF D!DeleteChat, D!DeleteProject
<1>2. PostsInv' /\ BriefedInv'  BY <1>1, WithoutKeeps DEF DigestInv
<1>3. chats' \in [D!AllChats -> D!Projects \cup {"gone"}] /\ projects' \subseteq D!Projects
  <2>1. ASSUME NEW c \in D!AllChats, D!DeleteChat(c)
        PROVE  chats' \in [D!AllChats -> D!Projects \cup {"gone"}] /\ projects' \subseteq D!Projects
    BY <2>1 DEF D!DeleteChat, DigestInv
  <2>2. ASSUME NEW keep \in BOOLEAN, D!DeleteProject(keep)
        PROVE  chats' \in [D!AllChats -> D!Projects \cup {"gone"}] /\ projects' \subseteq D!Projects
    BY <2>2 DEF D!DeleteProject, DigestInv, D!Projects
  <2> QED  BY <2>1, <2>2
<1>4. UNCHANGED <<day, digestDay, helper, digests, briefed, doubled, begun>>  BY DEF D!DeleteChat, D!DeleteProject
<1> QED  BY <1>2, <1>3, <1>4 DEF DigestInv, DaysInv

LEMMA StartDigestKeeps == ASSUME DigestInv, NEW force \in BOOLEAN, D!StartDigest(force)  PROVE DigestInv'
<1>1. /\ begun < MaxDigests /\ begun' = begun + 1 /\ (force \/ digestDay # day) /\ digestDay' = day
      /\ briefed' = briefed \cup D!Open /\ digests' = digests \cup {[no |-> begun + 1, day |-> day]}
      /\ doubled' = (doubled \/ (~force /\ \E d \in digests : d.day = day))
      /\ UNCHANGED <<chats, projects, posts, day, helper>>
  BY DEF D!StartDigest, D!NotedAtStart
<1>2. PostsInv'  BY <1>1 DEF DigestInv, PostsInv
<1>3. BriefedInv'
  <2>1. \A n \in D!Open : n \in D!Numbers /\ posts[n] # D!NoItem /\ posts[n].from \notin GhostChats
    BY NoPost DEF D!Open, D!FlagOfItem, DigestInv, PostsInv
  <2> QED  BY <1>1, <2>1 DEF DigestInv, BriefedInv
<1>4. DaysInv'
  <2>1. /\ day \in 1..MaxDays /\ digestDay \in 0..MaxDays /\ digestDay <= day /\ ~doubled /\ begun \in 0..MaxDigests
        /\ \A d \in digests : d.day \in 1..MaxDays /\ d.day <= digestDay
    BY DEF DigestInv, DaysInv
  <2>2. ~doubled'
    <3>1. ASSUME ~force, NEW d \in digests, d.day = day  PROVE FALSE  BY <1>1, <2>1, <3>1
    <3> QED  BY <1>1, <2>1, <3>1
  <2>3. begun' \in 0..MaxDigests /\ digestDay' \in 0..MaxDays /\ digestDay' <= day' /\ day' \in 1..MaxDays
    BY <1>1, <2>1, DigestAssumption
  <2>4. ASSUME NEW d \in digests'  PROVE d.day \in 1..MaxDays /\ d.day <= digestDay'
    <3>1. CASE d \in digests  BY <1>1, <2>1, <3>1, DigestAssumption
    <3>2. CASE d = [no |-> begun + 1, day |-> day]  BY <1>1, <2>1, <3>2
    <3> QED  BY <1>1, <3>1, <3>2
  <2> QED  BY <2>2, <2>3, <2>4 DEF DaysInv
<1> QED  BY <1>1, <1>2, <1>3, <1>4 DEF DigestInv

LEMMA DigestStart == D!Init => DigestInv
<1> SUFFICES ASSUME D!Init  PROVE DigestInv  OBVIOUS
<1>1. \A n \in D!Numbers : posts[n] = D!NoItem  BY DEF D!Init
<1>2. PostsInv  BY <1>1 DEF D!Init, PostsInv
<1>3. BriefedInv /\ DaysInv  BY DigestAssumption DEF D!Init, BriefedInv, DaysInv
<1> QED  BY <1>2, <1>3 DEF D!Init, DigestInv

LEMMA DigestKeep == ASSUME DigestInv, D!Next  PROVE DigestInv'
<1>1. CASE D!NextDay \/ D!HelperChanges
  <2>1. DaysInv'  BY <1>1, DigestAssumption DEF D!NextDay, D!HelperChanges, DigestInv, DaysInv
  <2> QED  BY <1>1, <2>1 DEF D!NextDay, D!HelperChanges, DigestInv, PostsInv, BriefedInv
<1>2. CASE \E c \in D!AllChats : D!TurnPosts(c)  BY <1>2, TurnPostsKeeps
<1>3. CASE (\E c \in D!AllChats : D!DeleteChat(c)) \/ \E keep \in BOOLEAN : D!DeleteProject(keep)  BY <1>3, DigestDeleteKeeps
<1>4. CASE \E n \in D!Numbers : D!Settled(n)  BY <1>4, DigestSettledKeeps
<1>5. CASE \E force \in BOOLEAN : D!StartDigest(force)  BY <1>5, StartDigestKeeps
<1>6. CASE \E d \in digests : D!DigestWritten(d) \/ D!DigestFails(d)  BY <1>6, DigestWrittenKeeps
<1> QED  BY <1>1, <1>2, <1>3, <1>4, <1>5, <1>6 DEF D!Next

LEMMA DigestTypes == DigestInv => D!TypeOK /\ D!BriefedIsOpen /\ D!OneAtATime
<1> SUFFICES ASSUME DigestInv  PROVE D!TypeOK /\ D!BriefedIsOpen /\ D!OneAtATime  OBVIOUS
<1>1. \A n \in D!Numbers : posts[n].at \in {"none", "pending", "settled"}
  <2>1. \A i \in PostType : i.at \in {"pending", "settled"}  BY DEF PostType
  <2> QED  BY <2>1, NoPost DEF DigestInv, PostsInv
<1> QED  BY <1>1 DEF DigestInv, DaysInv, BriefedInv, D!TypeOK, D!BriefedIsOpen, D!OneAtATime

LEMMA DigestStutters == ASSUME DigestInv, UNCHANGED D!vars  PROVE DigestInv'
BY DEF D!vars, DigestInv, PostsInv, BriefedInv, DaysInv

\* The digest is told of no ghost chat, and none begins by itself while the day's is written (gazeta.ts, server.ts).
THEOREM DigestsAreOpen == D!Spec => [](D!TypeOK /\ D!BriefedIsOpen /\ D!OneAtATime)
<1>1. DigestInv /\ [D!Next]_(D!vars) => DigestInv'  BY DigestKeep, DigestStutters
<1> QED  BY DigestStart, DigestTypes, <1>1, PTL DEF D!Spec

-----------------------------------------------------------------------------
(* The files of the database                                               *)

ImageType == [data : S!Contents, version : 0..Latest]

FilesInv ==
  /\ base \in ImageType \cup {S!Missing} /\ wal \in ImageType \cup {S!Missing}
  /\ backups \in [S!Stamps -> ImageType \cup {S!Missing}] /\ copies \in [S!Stamps -> ImageType \cup {S!Missing}]
  /\ (wal # S!Missing => base # S!Missing) /\ groups \subseteq S!Groups
  /\ writes \in 0..MaxWrites /\ commands \in 0..MaxCommands /\ faults \in Nat
  /\ \A s \in S!Stamps : (backups[s] # S!Missing \/ copies[s] # S!Missing) => s <= commands

\* A start finds a database, migrates one that is older than the build, and runs on one that is not.
ServerInv ==
  /\ server \in [at : {"down", "create", "copy", "migrate", "up"}, build : 0..Latest]
  /\ server.at # "down" => base # S!Missing
  /\ server.at \in {"copy", "migrate"} => S!Current.version < server.build /\ groups = S!Groups
  /\ server.at = "up" => groups = S!Groups

\* One command at a time, of the newest stamp; a restore has the files to itself and a backup to restore.
ToolInv ==
  /\ tool \in [do : {"none", "backup", "restore"}, at : {"none", "copy", "check", "stage", "wal", "rename", "prune"},
               stamp : 0..MaxCommands, from : 0..MaxCommands]
  /\ tool.do # "none" => base # S!Missing /\ tool.stamp \in S!Stamps /\ tool.stamp = commands
  /\ tool.do = "none" => tool.at = "none"
  /\ tool.do = "backup" => tool.at \in {"copy", "prune"}
  /\ tool.do = "restore" => /\ tool.at \in {"copy", "stage", "wal", "rename"} /\ server.at = "down"
                            /\ tool.from \in S!Stamps /\ backups[tool.from] \in ImageType
  /\ tool.at = "copy" => copies[tool.stamp] = S!Missing /\ backups[tool.stamp] = S!Missing
  /\ tool.at = "rename" => wal = S!Missing

\* What was there has a copy; what has a name was finished, and the newest ones are kept.
There == {s \in S!Stamps : backups[s] # S!Missing}
After(A, s) == {t \in A : t > s}
KeptInv ==
  /\ replaced \subseteq S!Contents
  /\ \A d \in replaced : \E s \in S!Stamps : copies[s] # S!Missing /\ copies[s].data = d
  /\ saved \subseteq S!Stamps /\ There \subseteq saved
  /\ \A s \in saved : s \in There \/ Cardinality(After(There, s)) >= Keep

StorageInv == FilesInv /\ ServerInv /\ ToolInv /\ KeptInv

LEMMA MissingIsNone == S!Missing \notin ImageType /\ S!Half \notin ImageType /\ S!Half # S!Missing /\ S!Missing.data = 0
BY StorageAssumption DEF S!Missing, S!Half, S!Image, ImageType

LEMMA CurrentIsImage == ASSUME FilesInv, base # S!Missing  PROVE S!Current \in ImageType
BY DEF FilesInv, S!Current

\* The newest of a set of stamps.
LEMMA NewestExists ==
  ASSUME NEW A, A \subseteq 1..MaxCommands, A # {}
  PROVE  \E m \in A : \A x \in A : x <= m
<1>1. A \subseteq 0..MaxCommands  OBVIOUS
<1>2. PICK m \in A : \A x \in A : m >= x  BY <1>1, StorageAssumption, MaxExists
<1>3. \A x \in A : x <= m  BY <1>2
<1> QED  BY <1>3

LEMMA StampsFinite == \A A : A \subseteq S!Stamps => IsFiniteSet(A) /\ Cardinality(A) \in Nat
<1>1. IsFiniteSet(1..MaxCommands)  BY StorageAssumption, FS_Interval
<1> QED  BY <1>1, FS_Subset, FS_CardinalityType DEF S!Stamps

\* Of any set of stamps with enough younger than s, the youngest Keep are enough younger than s.
LEMMA NewestSuffice ==
  ASSUME NEW A, A \subseteq S!Stamps, NEW s \in S!Stamps, Cardinality(After(A, s)) >= Keep
  PROVE  Cardinality(After({x \in A : Cardinality(After(A, x)) < Keep}, s)) >= Keep
<1> DEFINE B == After(A, s)
           K == After({x \in A : Cardinality(After(A, x)) < Keep}, s)
<1>1. B \subseteq S!Stamps /\ K \subseteq B /\ \A x \in B : After(A, x) \subseteq S!Stamps  BY DEF After
<1>2. /\ IsFiniteSet(B) /\ Cardinality(B) \in Nat /\ IsFiniteSet(K) /\ Cardinality(K) \in Nat
  BY <1>1, StampsFinite
<1> SUFFICES ASSUME Cardinality(K) < Keep  PROVE FALSE  BY <1>2, StorageAssumption
<1>3. B \ K # {}
  <2>1. K = B => FALSE  BY <1>2, StorageAssumption
  <2> QED  BY <1>1, <2>1
<1>4. PICK m \in B \ K : \A x \in B \ K : x <= m  BY <1>1, <1>3, NewestExists DEF S!Stamps
<1>5. ASSUME NEW x \in After(A, m)  PROVE x \in K
  <2>1. x \in A /\ x > m /\ m > s /\ x \in 1..MaxCommands /\ m \in 1..MaxCommands /\ s \in 1..MaxCommands  BY <1>4 DEF After, S!Stamps
  <2>2. x \in B /\ ~(x <= m)  BY <2>1 DEF After
  <2> HIDE DEF K, B
  <2> QED  BY <1>4, <2>2
<1>6. Cardinality(After(A, m)) <= Cardinality(K)
  <2>1. After(A, m) \subseteq K  BY <1>5
  <2> HIDE DEF K
  <2> QED  BY <1>2, <2>1, FS_Subset
<1>7. Cardinality(After(A, m)) \in Nat  BY <1>1, <1>4, StampsFinite
<1>8. Cardinality(After(A, m)) < Keep  BY <1>2, <1>6, <1>7, StorageAssumption
<1>9. m \in K  BY <1>4, <1>8 DEF After
<1> QED  BY <1>4, <1>9

LEMMA KeptIsWhole == ASSUME StorageInv  PROVE S!NothingReplacedIsLost /\ S!BackupsAreWhole
<1>1. S!NothingReplacedIsLost  BY DEF StorageInv, KeptInv, S!NothingReplacedIsLost
<1>2. ASSUME NEW s \in S!Stamps  PROVE backups[s] # S!Half
  BY MissingIsNone DEF StorageInv, FilesInv
<1>3. ASSUME NEW s \in S!Stamps, s \in saved, backups[s] = S!Missing
      PROVE  S!Cardinality({t \in saved : t > s /\ backups[t] # S!Missing}) >= Keep
  <2>1. Cardinality(After(There, s)) >= Keep  BY <1>3 DEF StorageInv, KeptInv, There
  <2>2. After(There, s) = {t \in saved : t > s /\ backups[t] # S!Missing}  BY DEF StorageInv, KeptInv, There, After
  <2>3. S!Cardinality({t \in saved : t > s /\ backups[t] # S!Missing}) = Cardinality({t \in saved : t > s /\ backups[t] # S!Missing})
    BY DEF S!Cardinality, Cardinality
  <2> QED  BY <2>1, <2>2, <2>3
<1> QED  BY <1>1, <1>2, <1>3 DEF S!BackupsAreWhole

-----------------------------------------------------------------------------
(* The steps                                                               *)

LEMMA StorageTypes == ASSUME StorageInv  PROVE S!TypeOK
<1>1. S!Missing.data \in S!Contents /\ \A i \in ImageType : i.data \in S!Contents /\ i.version <= Latest
  BY StorageAssumption, MissingIsNone DEF ImageType, S!Contents
<1>2. server.at = "up" => base.version <= Latest /\ groups = S!Groups
  BY <1>1 DEF StorageInv, ServerInv, FilesInv
<1>3. {base.data, wal.data} \subseteq S!Contents
  BY <1>1 DEF StorageInv, FilesInv
<1> QED  BY <1>2, <1>3 DEF StorageInv, ServerInv, ToolInv, KeptInv, FilesInv, S!TypeOK

LEMMA StorageStart == ASSUME S!Init  PROVE StorageInv
<1>1. S!Missing.data = 0  BY MissingIsNone
<1>2. FilesInv
  BY StorageAssumption DEF S!Init, FilesInv, S!Contents, S!Stamps
<1>3. ServerInv
  BY StorageAssumption DEF S!Init, ServerInv, S!Down
<1>4. ToolInv
  BY StorageAssumption DEF S!Init, ToolInv, S!NoTool
<1>5. KeptInv
  BY DEF S!Init, KeptInv, There
<1> QED  BY <1>2, <1>3, <1>4, <1>5 DEF StorageInv

\* What only the tool writes, a step of the server leaves.
LEMMA KeptStays == ASSUME StorageInv, backups' = backups, copies' = copies, saved' = saved, replaced' = replaced  PROVE KeptInv'
BY DEF StorageInv, KeptInv, There, After

LEMMA ToolStays ==
  ASSUME StorageInv, UNCHANGED <<backups, copies, tool, commands>>, base # S!Missing => base' # S!Missing,
         tool.do = "restore" => server'.at = "down" /\ wal' = wal
  PROVE  ToolInv'
BY DEF StorageInv, ToolInv

LEMMA StartKeeps == ASSUME StorageInv, NEW b \in 0..Latest, S!Start(b)  PROVE StorageInv'
<1> USE DEF S!Start, S!files, S!bounds, S!history
<1>1. base' \in ImageType /\ (base # S!Missing => base' = base)
  BY StorageAssumption DEF StorageInv, FilesInv, S!Image, ImageType, S!Contents
<1>2. FilesInv'  BY <1>1, MissingIsNone DEF StorageInv, FilesInv
<1>3. ServerInv'  BY <1>1, MissingIsNone DEF ServerInv
<1>4. ToolInv'  BY <1>1, ToolStays
<1>5. KeptInv'  BY KeptStays
<1> QED  BY <1>2, <1>3, <1>4, <1>5 DEF StorageInv

LEMMA BaselineKeeps == ASSUME StorageInv, S!Baseline  PROVE StorageInv'
<1> USE DEF S!files, S!bounds, S!history
<1>1. UNCHANGED <<base, wal, backups, copies, tool, commands, writes, faults, saved, replaced>> /\ server.at = "create"
  BY DEF S!Baseline
<1>2. FilesInv'
  <2>1. groups' \subseteq S!Groups  BY DEF S!Baseline, StorageInv, FilesInv
  <2> QED  BY <1>1, <2>1 DEF StorageInv, FilesInv
<1>3. ServerInv'
  <2>1. base # S!Missing /\ server \in [at : {"down", "create", "copy", "migrate", "up"}, build : 0..Latest]
    BY <1>1 DEF StorageInv, ServerInv
  <2>2. S!Current \in ImageType /\ S!Current' = S!Current  BY <1>1, <2>1, CurrentIsImage DEF StorageInv, S!Current
  <2>3. CASE server' = server  BY <1>1, <2>1, <2>3 DEF ServerInv
  <2>4. CASE server' # server
    <3>1. groups' = S!Groups  BY <2>4 DEF S!Baseline
    <3>2. CASE S!Current.version > server.build
      <4>1. server' = S!Down  BY <2>1, <2>2, <2>4, <3>2, StorageAssumption DEF S!Baseline, ImageType
      <4> QED  BY <4>1, StorageAssumption DEF S!Down, ServerInv
    <3>3. CASE S!Current.version = server.build
      <4>1. server' = [server EXCEPT !.at = "up"]  BY <2>2, <2>4, <3>3, StorageAssumption DEF S!Baseline, ImageType
      <4> QED  BY <1>1, <2>1, <3>1, <4>1 DEF ServerInv
    <3>4. CASE ~(S!Current.version > server.build) /\ S!Current.version # server.build
      <4>1. server' = [server EXCEPT !.at = IF S!Current.version > 0 \/ S!Current.data > 0 THEN "copy" ELSE "migrate"]
        BY <2>4, <3>4 DEF S!Baseline
      <4>2. S!Current.version < server.build /\ server'.build = server.build
        BY <2>1, <2>2, <3>4, <4>1, StorageAssumption DEF ImageType
      <4> QED  BY <1>1, <2>1, <2>2, <3>1, <4>1, <4>2 DEF ServerInv
    <3> QED  BY <3>2, <3>3, <3>4
  <2> QED  BY <2>3, <2>4
<1>4. ToolInv'
  <2>1. tool.do # "restore"  BY <1>1 DEF StorageInv, ToolInv
  <2> QED  BY <1>1, <2>1, ToolStays
<1>5. KeptInv'  BY <1>1, KeptStays
<1> QED  BY <1>2, <1>3, <1>4, <1>5 DEF StorageInv

LEMMA SnapshotKeeps == ASSUME StorageInv, S!snapshotBeforeMigration  PROVE StorageInv'
<1> USE DEF S!files, S!bounds, S!history
<1>1. UNCHANGED <<base, wal, backups, copies, tool, commands, writes, groups, saved, replaced>> /\ server.at = "copy"
      /\ server' = [server EXCEPT !.at = "migrate"] /\ faults' \in {faults, faults + 1}
  BY DEF S!snapshotBeforeMigration
<1>2. FilesInv'  BY <1>1 DEF StorageInv, FilesInv
<1>3. ServerInv'  BY <1>1 DEF StorageInv, ServerInv, S!Current
<1>4. ToolInv'
  <2>1. tool.do # "restore"  BY <1>1 DEF StorageInv, ToolInv
  <2> QED  BY <1>1, <2>1, ToolStays
<1>5. KeptInv'  BY <1>1, KeptStays
<1> QED  BY <1>2, <1>3, <1>4, <1>5 DEF StorageInv

LEMMA MigrateKeeps == ASSUME StorageInv, S!Migrate  PROVE StorageInv'
<1> USE DEF S!files, S!bounds, S!history
<1>1. /\ UNCHANGED <<base, backups, copies, tool, commands, writes, faults, groups, saved, replaced>> /\ server.at = "migrate"
      /\ wal' = S!Image(S!Current.data, S!Current.version + 1)
      /\ server' = IF S!Current.version + 1 = server.build THEN [server EXCEPT !.at = "up"] ELSE server
  BY DEF S!Migrate
<1>2. base # S!Missing /\ S!Current \in ImageType /\ S!Current.version < server.build /\ server.build \in 0..Latest /\ groups = S!Groups
  BY <1>1, CurrentIsImage DEF StorageInv, ServerInv
<1>3. wal' \in ImageType /\ wal'.version = S!Current.version + 1 /\ wal' # S!Missing
  <2>1. S!Current.version + 1 \in 0..Latest  BY <1>2, StorageAssumption DEF ImageType
  <2>2. wal' \in ImageType /\ wal'.version = S!Current.version + 1  BY <1>1, <1>2, <2>1 DEF S!Image, ImageType
  <2> QED  BY <2>2, MissingIsNone
<1>4. FilesInv'  BY <1>1, <1>2, <1>3 DEF StorageInv, FilesInv
<1>5. ServerInv'
  <2>1. S!Current' = wal'  BY <1>3 DEF S!Current
  <2>2. server \in [at : {"down", "create", "copy", "migrate", "up"}, build : 0..Latest]  BY DEF StorageInv, ServerInv
  <2>3. CASE S!Current.version + 1 = server.build  BY <1>1, <1>2, <2>2, <2>3 DEF ServerInv
  <2>4. CASE S!Current.version + 1 # server.build
    <3>1. S!Current.version + 1 < server.build  BY <1>2, <2>4, StorageAssumption DEF ImageType
    <3> QED  BY <1>1, <1>2, <1>3, <2>1, <2>2, <2>4, <3>1 DEF ServerInv
  <2> QED  BY <2>3, <2>4
<1>6. ToolInv'
  <2>1. tool.do # "restore"  BY <1>1 DEF StorageInv, ToolInv
  <2> QED  BY <1>1, <2>1, ToolStays
<1>7. KeptInv'  BY <1>1, KeptStays
<1> QED  BY <1>4, <1>5, <1>6, <1>7 DEF StorageInv

LEMMA RunningKeeps == ASSUME StorageInv, S!Write \/ S!Checkpoint \/ S!Stop \/ S!Crash  PROVE StorageInv'
<1> USE DEF S!files, S!bounds, S!history
<1>1. /\ UNCHANGED <<backups, copies, tool, commands, groups, saved, replaced>> /\ server.at # "down"
      /\ writes' \in {writes, writes + 1} /\ (writes' # writes => writes < MaxWrites) /\ faults' \in {faults, faults + 1}
      /\ server' \in {server, S!Down}
  BY DEF S!Write, S!Checkpoint, S!Stop, S!Crash
<1>2. base # S!Missing /\ S!Current \in ImageType  BY <1>1, CurrentIsImage DEF StorageInv, ServerInv
<1>3. /\ base' \in {base, wal, S!Current} /\ base' # S!Missing /\ wal' \in ImageType \cup {S!Missing}
      /\ (S!Write \/ S!Current' = S!Current)
  <2>1. CASE S!Write
    <3>1. wal' = S!Image(writes + 1, S!Current.version) /\ base' = base  BY <2>1 DEF S!Write
    <3>2. writes + 1 \in S!Contents  BY <2>1, StorageAssumption DEF S!Write, StorageInv, FilesInv, S!Contents
    <3> QED  BY <1>2, <2>1, <3>1, <3>2 DEF S!Image, ImageType
  <2>2. CASE S!Checkpoint \/ S!Stop
    BY <1>2, <2>2, MissingIsNone DEF S!Checkpoint, S!Stop, S!Current
  <2>3. CASE S!Crash  BY <1>2, <2>3 DEF S!Crash, S!Current, StorageInv, FilesInv
  <2> QED  BY <2>1, <2>2, <2>3
<1>4. FilesInv'
  <2>1. writes' \in 0..MaxWrites /\ faults' \in Nat  BY <1>1, StorageAssumption DEF StorageInv, FilesInv
  <2>2. base' \in ImageType \cup {S!Missing}  BY <1>2, <1>3 DEF StorageInv, FilesInv
  <2> QED  BY <1>1, <1>3, <2>1, <2>2 DEF StorageInv, FilesInv
<1>5. ServerInv'
  <2>1. CASE server' = S!Down  BY <2>1, StorageAssumption DEF S!Down, ServerInv
  <2>2. CASE server' = server
    <3>1. S!Write => server.at = "up"  BY DEF S!Write
    <3> QED  BY <1>1, <1>3, <2>2, <3>1 DEF StorageInv, ServerInv
  <2> QED  BY <1>1, <2>1, <2>2
<1>6. ToolInv'
  <2>1. tool.do # "restore"  BY <1>1 DEF StorageInv, ToolInv
  <2> QED  BY <1>1, <1>3, <2>1, ToolStays
<1>7. KeptInv'  BY <1>1, KeptStays
<1> QED  BY <1>4, <1>5, <1>6, <1>7 DEF StorageInv

-----------------------------------------------------------------------------
LEMMA CommandKeeps == ASSUME StorageInv, S!Backup \/ S!Restore  PROVE StorageInv'
<1> USE DEF S!files, S!bounds, S!history
<1>1. PICK do \in {"backup", "restore"}, from \in 0..MaxCommands :
        /\ S!Begin(do, "copy", from)
        /\ do = "restore" => from \in S!Stamps /\ backups[from] \in ImageType /\ server.at = "down"
  <2>1. CASE S!Backup  BY <2>1, StorageAssumption DEF S!Backup
  <2>2. CASE S!Restore
    <3>1. PICK s \in S!Stamps : S!Restorable(backups[s]) /\ server.at = "down" /\ S!Begin("restore", "copy", s)  BY <2>2 DEF S!Restore
    <3>2. backups[s] \in ImageType  BY <3>1 DEF S!Restorable, StorageInv, FilesInv
    <3> QED  BY <3>1, <3>2, StorageAssumption DEF S!Stamps
  <2> QED  BY <2>1, <2>2
<1>2. UNCHANGED <<base, wal, groups, server, backups, copies, writes, faults, saved, replaced>> /\ commands < MaxCommands /\ commands' = commands + 1
      /\ base # S!Missing /\ tool' = [do |-> do, at |-> "copy", stamp |-> commands + 1, from |-> from]
  BY <1>1 DEF S!Begin
<1>3. commands \in Nat /\ commands + 1 \in S!Stamps /\ commands' \in 0..MaxCommands
  BY <1>2, StorageAssumption DEF StorageInv, FilesInv, S!Stamps
<1>4. FilesInv'
  <2>1. ASSUME NEW s \in S!Stamps, s <= commands  PROVE s <= commands'  BY <1>2, <1>3, <2>1, StorageAssumption DEF S!Stamps
  <2> QED  BY <1>2, <1>3, <2>1 DEF StorageInv, FilesInv
<1>5. ServerInv'  BY <1>2 DEF StorageInv, ServerInv, S!Current
<1>6. ToolInv'
  <2>1. copies[commands + 1] = S!Missing /\ backups[commands + 1] = S!Missing  BY <1>3, StorageAssumption DEF StorageInv, FilesInv
  <2>2. commands + 1 \in 0..MaxCommands  BY <1>2, <1>3
  <2> QED  BY <1>1, <1>2, <1>3, <2>1, <2>2 DEF ToolInv
<1>7. KeptInv'  BY <1>2, KeptStays
<1> QED  BY <1>4, <1>5, <1>6, <1>7 DEF StorageInv

LEMMA CopiedKeeps == ASSUME StorageInv, S!Copied  PROVE StorageInv'
<1> USE DEF S!bounds
<1>1. UNCHANGED <<base, wal, groups, server, writes, commands, faults>> /\ tool.at = "copy"  BY DEF S!Copied, S!untouched
<1>2. /\ base # S!Missing /\ tool.stamp \in S!Stamps /\ tool.stamp = commands /\ copies[tool.stamp] = S!Missing /\ backups[tool.stamp] = S!Missing
      /\ tool.do \in {"backup", "restore"}
  BY <1>1 DEF StorageInv, ToolInv
<1>3. S!Current \in ImageType  BY <1>2, CurrentIsImage DEF StorageInv
<1>4. ServerInv'  BY <1>1 DEF StorageInv, ServerInv, S!Current
<1>t. tool \in [do : {"none", "backup", "restore"}, at : {"none", "copy", "check", "stage", "wal", "rename", "prune"},
               stamp : 0..MaxCommands, from : 0..MaxCommands]
  BY DEF StorageInv, ToolInv
<1>5. CASE tool.do = "backup"
  <2>1. /\ backups' = [backups EXCEPT ![tool.stamp] = S!Current] /\ saved' = saved \cup {tool.stamp}
        /\ tool' = [tool EXCEPT !.at = "prune"] /\ copies' = copies /\ replaced' = replaced
    BY <1>1, <1>5 DEF S!Copied, S!Named
  <2>2. backups \in [S!Stamps -> ImageType \cup {S!Missing}]  BY DEF StorageInv, FilesInv
  <2>3. backups' \in [S!Stamps -> ImageType \cup {S!Missing}] /\ \A s \in S!Stamps : backups'[s] = IF s = tool.stamp THEN S!Current ELSE backups[s]
    BY <1>3, <2>1, <2>2
  <2>4. FilesInv'
    <3>1. commands \in 0..MaxCommands  BY DEF StorageInv, FilesInv
    <3>2. \A s \in S!Stamps : (backups'[s] # S!Missing \/ copies'[s] # S!Missing) => s <= commands'
      <4> SUFFICES ASSUME NEW s \in S!Stamps, backups'[s] # S!Missing \/ copies'[s] # S!Missing  PROVE s <= commands'  OBVIOUS
      <4>1. CASE s = tool.stamp  BY <4>1, <1>1, <1>2, <3>1, StorageAssumption
      <4>2. CASE s # tool.stamp  BY <4>2, <1>1, <2>1, <2>3 DEF StorageInv, FilesInv
      <4> QED  BY <4>1, <4>2
    <3> QED  BY <1>1, <2>1, <2>3, <3>2 DEF StorageInv, FilesInv
  <2>5. ToolInv'  BY <1>1, <1>2, <1>5, <1>t, <2>1 DEF ToolInv
  <2>6. KeptInv'
    <3>1. There' = There \cup {tool.stamp}  BY <1>2, <1>3, <2>3, MissingIsNone DEF There
    <3>2. saved' \subseteq S!Stamps /\ There' \subseteq saved'  BY <1>2, <2>1, <3>1 DEF StorageInv, KeptInv
    <3>3. ASSUME NEW s \in saved'  PROVE s \in There' \/ Cardinality(After(There', s)) >= Keep
      <4>1. CASE s \in There \/ s = tool.stamp  BY <4>1, <3>1
      <4>2. CASE ~(s \in There \/ s = tool.stamp)
        <5>1. s \in saved /\ Cardinality(After(There, s)) >= Keep  BY <2>1, <3>3, <4>2 DEF StorageInv, KeptInv
        <5>2. After(There, s) \subseteq After(There', s) /\ After(There', s) \subseteq S!Stamps /\ After(There, s) \subseteq S!Stamps
          BY <3>1, <3>2 DEF After, There
        <5>3. IsFiniteSet(After(There', s)) /\ Cardinality(After(There', s)) \in Nat /\ Cardinality(After(There, s)) \in Nat
          BY <5>2, StampsFinite
        <5>4. Cardinality(After(There, s)) <= Cardinality(After(There', s))  BY <5>2, <5>3, FS_Subset
        <5> QED  BY <5>1, <5>3, <5>4, StorageAssumption
      <4> QED  BY <4>1, <4>2
    <3> QED  BY <2>1, <3>2, <3>3 DEF StorageInv, KeptInv
  <2> QED  BY <1>4, <2>4, <2>5, <2>6 DEF StorageInv
<1>6. CASE tool.do = "restore"
  <2>1. /\ copies' = [copies EXCEPT ![tool.stamp] = S!Current] /\ tool' = [tool EXCEPT !.at = "stage"]
        /\ replaced' = replaced \cup {S!Current.data} /\ backups' = backups /\ saved' = saved
    BY <1>1, <1>6 DEF S!Copied, S!SafetyCopy
  <2>2. copies \in [S!Stamps -> ImageType \cup {S!Missing}]  BY DEF StorageInv, FilesInv
  <2>3. copies' \in [S!Stamps -> ImageType \cup {S!Missing}] /\ \A s \in S!Stamps : copies'[s] = IF s = tool.stamp THEN S!Current ELSE copies[s]
    BY <1>3, <2>1, <2>2
  <2>4. FilesInv'
    <3>1. commands \in 0..MaxCommands  BY DEF StorageInv, FilesInv
    <3>2. \A s \in S!Stamps : (backups'[s] # S!Missing \/ copies'[s] # S!Missing) => s <= commands'
      <4> SUFFICES ASSUME NEW s \in S!Stamps, backups'[s] # S!Missing \/ copies'[s] # S!Missing  PROVE s <= commands'  OBVIOUS
      <4>1. CASE s = tool.stamp  BY <4>1, <1>1, <1>2, <3>1, StorageAssumption
      <4>2. CASE s # tool.stamp  BY <4>2, <1>1, <2>1, <2>3 DEF StorageInv, FilesInv
      <4> QED  BY <4>1, <4>2
    <3> QED  BY <1>1, <2>1, <2>3, <3>2 DEF StorageInv, FilesInv
  <2>5. ToolInv'
    <3>1. server.at = "down" /\ tool.from \in S!Stamps /\ backups[tool.from] \in ImageType  BY <1>6 DEF StorageInv, ToolInv
    <3> QED  BY <1>1, <1>2, <1>6, <1>t, <2>1, <3>1 DEF ToolInv
  <2>6. KeptInv'
    <3>1. S!Current.data \in S!Contents  BY <1>3 DEF ImageType
    <3>2. ASSUME NEW d \in replaced'  PROVE \E s \in S!Stamps : copies'[s] # S!Missing /\ copies'[s].data = d
      <4>1. CASE d = S!Current.data  BY <4>1, <1>2, <1>3, <2>3, MissingIsNone
      <4>2. CASE d # S!Current.data
        <5>1. PICK s \in S!Stamps : copies[s] # S!Missing /\ copies[s].data = d  BY <2>1, <3>2, <4>2 DEF StorageInv, KeptInv
        <5> QED  BY <5>1, <1>2, <2>3
      <4> QED  BY <4>1, <4>2
    <3>3. There' = There  BY <2>1 DEF There
    <3> QED  BY <2>1, <3>1, <3>2, <3>3 DEF StorageInv, KeptInv
  <2> QED  BY <1>4, <2>4, <2>5, <2>6 DEF StorageInv
<1> QED  BY <1>2, <1>5, <1>6

LEMMA PruneKeeps == ASSUME StorageInv, S!Prune  PROVE StorageInv'
<1> USE DEF S!bounds, S!history
<1> DEFINE Young == {x \in There : Cardinality(After(There, x)) < Keep}
<1>1. /\ UNCHANGED <<base, wal, groups, server, copies, writes, commands, faults, saved, replaced>> /\ tool' = S!NoTool
      /\ backups' = S!Pruned(S!Newest(Keep))
  BY DEF S!Prune
<1>2. S!Newest(Keep) = Young
  <2>1. \A s \in S!Stamps : After(There, s) = {t \in S!Stamps : t > s /\ backups[t] # S!Missing}  BY DEF There, After
  <2>2. \A s \in S!Stamps : S!Cardinality({t \in S!Stamps : t > s /\ backups[t] # S!Missing}) = Cardinality({t \in S!Stamps : t > s /\ backups[t] # S!Missing})
    BY DEF S!Cardinality, Cardinality
  <2> QED  BY <2>1, <2>2 DEF S!Newest, There
<1>3. \A s \in S!Stamps : backups'[s] = IF s \in Young THEN backups[s] ELSE S!Missing
  BY <1>1, <1>2 DEF S!Pruned
<1>4. backups' \in [S!Stamps -> ImageType \cup {S!Missing}]
  BY <1>1 DEF S!Pruned, StorageInv, FilesInv
<1>5. There' = Young
  <2> HIDE DEF Young
  <2>1. Young \subseteq There  BY DEF Young
  <2> QED  BY <1>3, <2>1 DEF There
<1> HIDE DEF Young
<1>6. FilesInv'  BY <1>1, <1>3, <1>4 DEF StorageInv, FilesInv
<1>7. ServerInv'  BY <1>1 DEF StorageInv, ServerInv, S!Current
<1>8. ToolInv'  BY <1>1, StorageAssumption DEF ToolInv, S!NoTool
<1>9. KeptInv'
  <2>1. There \subseteq S!Stamps /\ Young \subseteq There /\ saved \subseteq S!Stamps  BY DEF There, Young, StorageInv, KeptInv
  <2>2. ASSUME NEW s \in saved, s \notin Young  PROVE Cardinality(After(Young, s)) >= Keep
    <3>1. Cardinality(After(There, s)) >= Keep
      <4>1. CASE s \in There
        <5>1. ~(Cardinality(After(There, s)) < Keep)  BY <2>2, <4>1 DEF Young
        <5>2. After(There, s) \subseteq S!Stamps  BY <2>1 DEF After
        <5>3. Cardinality(After(There, s)) \in Nat  BY <5>2, StampsFinite
        <5> QED  BY <5>1, <5>3, StorageAssumption
      <4>2. CASE s \notin There  BY <4>2, <2>2 DEF StorageInv, KeptInv
      <4> QED  BY <4>1, <4>2
    <3>2. s \in S!Stamps  BY <2>1, <2>2
    <3> QED  BY <2>1, <3>1, <3>2, NewestSuffice DEF Young
  <2> QED  BY <1>1, <1>5, <2>1, <2>2 DEF StorageInv, KeptInv
<1> QED  BY <1>6, <1>7, <1>8, <1>9 DEF StorageInv

LEMMA ReplaceKeeps ==
  ASSUME StorageInv, S!Staged \/ S!RemoveWal \/ S!Renamed \/ S!ToolCrash
  PROVE  StorageInv' /\ S!RestoreIsExact
<1> USE DEF S!files, S!bounds, S!history
<1>t. tool \in [do : {"none", "backup", "restore"}, at : {"none", "copy", "check", "stage", "wal", "rename", "prune"},
               stamp : 0..MaxCommands, from : 0..MaxCommands]
  BY DEF StorageInv, ToolInv
<1>1. UNCHANGED <<groups, server, backups, copies, writes, commands, saved, replaced>> /\ faults' \in {faults, faults + 1}
  BY DEF S!Staged, S!RemoveWal, S!Renamed, S!ToolCrash
<1>2. tool.do # "none" /\ base # S!Missing /\ (S!ToolCrash \/ (tool.do = "restore" /\ server.at = "down" /\ tool.from \in S!Stamps /\ backups[tool.from] \in ImageType))
  BY DEF StorageInv, ToolInv, S!Staged, S!RemoveWal, S!Renamed, S!ToolCrash
<1>3. /\ base' \in {base, backups[tool.from]} /\ wal' \in {wal, S!Missing}
      /\ (base' = base \/ (~S!ToolCrash /\ base' = backups[tool.from]))
  BY DEF S!Staged, S!RemoveWal, S!Renamed, S!ToolCrash, S!DropWal
<1>4. base' \in ImageType /\ base' # S!Missing
  <2>1. base \in ImageType  BY <1>2 DEF StorageInv, FilesInv
  <2> QED  BY <1>2, <1>3, <2>1, MissingIsNone
<1>5. FilesInv'
  <2>1. faults' \in Nat  BY <1>1 DEF StorageInv, FilesInv
  <2> QED  BY <1>1, <1>3, <1>4, <2>1 DEF StorageInv, FilesInv
<1>6. ServerInv'
  <2>1. CASE S!ToolCrash  BY <2>1 DEF S!ToolCrash, StorageInv, ServerInv, S!Current
  <2>2. CASE server.at = "down"  BY <1>1, <2>2 DEF StorageInv, ServerInv
  <2> QED  BY <1>2, <2>1, <2>2
<1>7. ToolInv'
  <2>1. CASE tool' = S!NoTool  BY <1>1, <2>1, StorageAssumption DEF ToolInv, S!NoTool
  <2>2. CASE S!Staged \/ S!RemoveWal
    <3>1. tool' = [tool EXCEPT !.at = "wal"] \/ (tool' = [tool EXCEPT !.at = "rename"] /\ wal' = S!Missing)
      BY <2>2 DEF S!Staged, S!RemoveWal, S!DropWal
    <3>2. tool.do = "restore" /\ server.at = "down" /\ tool.from \in S!Stamps /\ backups[tool.from] \in ImageType /\ tool.stamp \in S!Stamps /\ tool.stamp = commands
      BY <2>2 DEF S!Staged, S!RemoveWal, StorageInv, ToolInv
    <3> QED  BY <1>1, <1>t, <1>4, <3>1, <3>2 DEF ToolInv
  <2> QED  BY <2>1, <2>2 DEF S!Renamed, S!ToolCrash
<1>8. KeptInv'  BY <1>1, KeptStays
<1>9. S!RestoreIsExact
  <2> SUFFICES ASSUME tool.at = "rename", tool'.do = "none", faults' = faults  PROVE S!Current' = backups[tool.from]
    BY DEF S!RestoreIsExact
  <2>1. ~S!ToolCrash  BY DEF S!ToolCrash, StorageInv, FilesInv
  <2>2. S!Renamed  BY <2>1 DEF S!Staged, S!RemoveWal
  <2>3. wal' = S!Missing  BY <2>2 DEF S!Renamed, StorageInv, ToolInv
  <2> QED  BY <2>2, <2>3 DEF S!Renamed, S!Current
<1> QED  BY <1>5, <1>6, <1>7, <1>8, <1>9 DEF StorageInv

LEMMA StorageKeep == ASSUME StorageInv, S!Next  PROVE StorageInv' /\ S!RestoreIsExact
<1>1. CASE S!Starting
  <2>1. StorageInv'  BY <1>1, StartKeeps, BaselineKeeps, SnapshotKeeps, MigrateKeeps DEF S!Starting
  <2>2. UNCHANGED tool  BY <1>1 DEF S!Starting, S!Start, S!Baseline, S!snapshotBeforeMigration, S!Migrate
  <2> QED  BY <2>1, <2>2 DEF S!RestoreIsExact, StorageInv, ToolInv
<1>2. CASE S!Running
  <2>1. StorageInv'  BY <1>2, RunningKeeps DEF S!Running
  <2>2. UNCHANGED tool  BY <1>2 DEF S!Running, S!Write, S!Checkpoint, S!Stop, S!Crash
  <2> QED  BY <2>1, <2>2 DEF S!RestoreIsExact, StorageInv, ToolInv
<1>3. CASE S!Tool
  <2>1. StorageInv'  BY <1>3, CommandKeeps, CopiedKeeps, PruneKeeps, ReplaceKeeps DEF S!Tool
  <2>2. CASE S!Backup \/ S!Restore \/ S!Copied \/ S!Prune
    <3>1. tool.at # "rename"
      BY <2>2 DEF S!Backup, S!Restore, S!Begin, S!Copied, S!Prune, StorageInv, ToolInv
    <3> QED  BY <2>1, <3>1 DEF S!RestoreIsExact
  <2> QED  BY <1>3, <2>1, <2>2, ReplaceKeeps DEF S!Tool
<1> QED  BY <1>1, <1>2, <1>3 DEF S!Next

LEMMA StorageStutters == ASSUME StorageInv, UNCHANGED S!storageVars  PROVE StorageInv'
BY DEF S!storageVars, StorageInv, FilesInv, ServerInv, ToolInv, KeptInv, There, After, S!Current

\* A restore is exact and what it replaces is copied; a backup is whole, and pruning keeps the newest (db-backup.ts).
THEOREM FilesAreKept ==
  S!Spec => [](S!TypeOK /\ S!NothingReplacedIsLost /\ S!BackupsAreWhole) /\ [][S!RestoreIsExact]_(S!storageVars)
<1>1. S!Init => StorageInv  BY StorageStart
<1>2. StorageInv /\ [S!Next]_(S!storageVars) => StorageInv'  BY StorageKeep, StorageStutters
<1>3. StorageInv /\ [S!Next]_(S!storageVars) => [S!RestoreIsExact]_(S!storageVars)  BY StorageKeep
<1>4. StorageInv => S!TypeOK /\ S!NothingReplacedIsLost /\ S!BackupsAreWhole  BY StorageTypes, KeptIsWhole
<1> QED  BY <1>1, <1>2, <1>3, <1>4, PTL DEF S!Spec

-----------------------------------------------------------------------------
(* The sum                                                                 *)

\* In the sum every component behaves as its own specification says.
THEOREM EachIsItsOwn == ServerSpec => Spec /\ C!Spec /\ P!Spec /\ M!Spec /\ N!Spec /\ D!Spec /\ S!Spec
<1>1. ServerInit => Init /\ C!Init /\ P!Init /\ M!Init /\ N!Init /\ D!Init /\ S!Init  BY DEF ServerInit
<1>2. [ServerNext]_serverAll => /\ [Next]_vars /\ [C!Next]_(C!vars) /\ [P!Next]_(P!providerVars) /\ [M!Next]_(M!modelVars)
                                /\ [N!Next]_(N!vars) /\ [D!Next]_(D!vars) /\ [S!Next]_(S!storageVars)
  <2> SUFFICES ASSUME [ServerNext]_serverAll
               PROVE  /\ [Next]_vars /\ [C!Next]_(C!vars) /\ [P!Next]_(P!providerVars) /\ [M!Next]_(M!modelVars)
                      /\ [N!Next]_(N!vars) /\ [D!Next]_(D!vars) /\ [S!Next]_(S!storageVars)
    OBVIOUS
  <2>1. [Next]_vars  BY DEF ServerNext, serverAll
  <2>2. [C!Next]_(C!vars)  BY DEF ServerNext, serverAll, contextVars, C!vars
  <2>3. [P!Next]_(P!providerVars)  BY DEF ServerNext, serverAll, providerVars, P!providerVars
  <2>4. [M!Next]_(M!modelVars)  BY DEF ServerNext, serverAll, modelVars, M!modelVars
  <2>5. [N!Next]_(N!vars)  BY DEF ServerNext, serverAll, noticeVars, N!vars
  <2>6. [D!Next]_(D!vars)  BY DEF ServerNext, serverAll, digestVars, D!vars
  <2>7. [S!Next]_(S!storageVars)  BY DEF ServerNext, serverAll, storageVars, S!storageVars
  <2> QED  BY <2>1, <2>2, <2>3, <2>4, <2>5, <2>6, <2>7
<1> QED  BY <1>1, <1>2, PTL DEF ServerSpec, Spec, C!Spec, P!Spec, M!Spec, N!Spec, D!Spec, S!Spec

\* Every component keeps to its types.
THEOREM ServerKeepsToTypes == ServerSpec => []Types
<1>1. TypeOK /\ C!TypeOK /\ P!TypeOK /\ M!TypeOK /\ N!TypeOK /\ D!TypeOK /\ S!TypeOK => Types  BY DEF Types
<1> QED
  BY EachIsItsOwn, HistoryKeepsToTypes, RequestsAreValid, AnswersAreWhole, GhostsStayHome, NoticesAreTold, DigestsAreOpen, FilesAreKept, <1>1, PTL

\* What the chat log owes to the next turn, in the sum.
THEOREM ServerHistoryIsTrue == ServerSpec => []HistoryIsTrue
<1> QED  BY EachIsItsOwn, HistoryStaysTrue, PTL

\* What is sent to a provider can be sent, and what is kept of its answer is the answer.
THEOREM ServerRequestsAreSound == ServerSpec => []RequestsAreSound
<1>1. C!RequestIsValid /\ C!TrimIsLeast /\ P!ShownIsKept /\ P!AnswerIsWhole /\ P!ResultsFollowCalls => RequestsAreSound
  BY DEF RequestsAreSound
<1> QED  BY EachIsItsOwn, RequestsAreValid, AnswersAreWhole, <1>1, PTL

\* Nothing leaves for good unread or uncopied.
THEOREM NothingLeavesUnread == ServerSpec => NothingIsLost
<1>1. ASSUME [ServerNext]_serverAll, [SummaryIsKept]_vars, [C!HeadWasRead]_(C!vars), [P!RepeatsAreBounded]_(P!providerVars),
             [S!RestoreIsExact]_(S!storageVars), S!NothingReplacedIsLost', S!BackupsAreWhole'
      PROVE  [/\ part = "history" => SummaryIsKept
              /\ part = "context" => C!HeadWasRead
              /\ part = "provider" => P!RepeatsAreBounded
              /\ part = "storage" => S!RestoreIsExact /\ S!NothingReplacedIsLost' /\ S!BackupsAreWhole']_serverAll
  <2>1. part = "history" /\ UNCHANGED vars => UNCHANGED serverAll  BY <1>1 DEF ServerNext, serverAll
  <2>2. part = "context" /\ UNCHANGED C!vars => UNCHANGED serverAll  BY <1>1 DEF ServerNext, serverAll, contextVars, C!vars
  <2>3. part = "provider" /\ UNCHANGED P!providerVars => UNCHANGED serverAll
    BY <1>1 DEF ServerNext, serverAll, providerVars, P!providerVars
  <2>4. part = "storage" /\ UNCHANGED S!storageVars => UNCHANGED serverAll
    BY <1>1 DEF ServerNext, serverAll, storageVars, S!storageVars
  <2> QED  BY <1>1, <2>1, <2>2, <2>3, <2>4
<1>2. ServerSpec => [][ServerNext]_serverAll  BY DEF ServerSpec
<1> QED  BY EachIsItsOwn, SummariesStay, RequestsAreValid, AnswersAreWhole, FilesAreKept, <1>1, <1>2, PTL DEF NothingIsLost

\* What is private stays at home, and no refresh undoes an edit of the registry.
THEOREM PrivateStaysPrivate == ServerSpec => GhostsAreKept
<1>1. ASSUME [ServerNext]_serverAll, [M!GhostStays /\ M!EditsSurvive]_(M!modelVars),
             M!OnlyVouchedHear', M!StatementIsOfAddress', M!CacheIsVault', N!WaitingWasBuzzed', N!SilentWhileKept',
             D!BriefedIsOpen', D!OneAtATime'
      PROVE  [/\ part = "models" => /\ M!OnlyVouchedHear' /\ M!StatementIsOfAddress' /\ M!CacheIsVault'
                                    /\ M!GhostStays /\ M!EditsSurvive
              /\ part = "notices" => N!WaitingWasBuzzed' /\ N!SilentWhileKept'
              /\ part = "digest" => D!BriefedIsOpen' /\ D!OneAtATime']_serverAll
  <2>1. part = "models" /\ UNCHANGED M!modelVars => UNCHANGED serverAll  BY <1>1 DEF ServerNext, serverAll, modelVars, M!modelVars
  <2> QED  BY <1>1, <2>1
<1>2. ServerSpec => [][ServerNext]_serverAll  BY DEF ServerSpec
<1> QED  BY EachIsItsOwn, GhostsStayHome, NoticesAreTold, DigestsAreOpen, <1>1, <1>2, PTL DEF GhostsAreKept
=============================================================================
