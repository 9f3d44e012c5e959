----------------------------- MODULE TurnProofs -----------------------------
(***************************************************************************)
(* Proofs about Turn, for every number of turns, questions, steps, tool    *)
(* calls and crashes.                                                      *)
(***************************************************************************)
EXTENDS Turn, SequenceTheorems, TLAPS, FiniteSetTheorems

-----------------------------------------------------------------------------
(* The inductive invariant.                                                *)

Calling == {"use", "confirm", "tool", "human", "wait"}

\* The step in progress is counted, and the tool call in progress is one of the reply's.
Counted(t) ==
  /\ pc[t] \in Calling \cup {"prep", "compact", "top"} => loc[t].steps <= MaxSteps
  /\ pc[t] \in Calling => loc[t].pend < loc[t].uses

\* A whole step of turn t: a reply with n calls and its n results.
WholeStep(t, s) ==
  \E n \in 1 .. MaxUses, notes \in SUBSET Items :
    s = <<Row("reply", t, n, {}), Row("results", t, n, notes)>>

\* What waits to be stored: nothing, the open reply while its calls are served, a whole step before the next request.
Waiting(t) ==
  /\ pc[t] \in {"none", "ended", "prep", "compact", "recompact", "llm"} => fresh[t] = <<>>
  /\ pc[t] \in Calling => fresh[t] = <<Row("reply", t, loc[t].uses, {})>>
  /\ pc[t] = "top" => fresh[t] = <<>> \/ WholeStep(t, fresh[t])

\* A process that is down runs no turn.
DownIdle == ~up => activeRoot = NoTurn

IInv ==
  /\ TypeOK
  /\ OneTurn
  /\ DownIdle
  /\ \A t \in Turns : Counted(t) /\ Waiting(t)

\* The variables that take no part in IInv beyond their types.
SideType ==
  /\ compacting \in Nat
  /\ inbox \in [Turns -> SUBSET Items]
  /\ item \in [Items -> {"absent", "pending", "responded", "dismissed", "expired"}]
  /\ asker \in [Items -> 0 .. MaxTurns]
  /\ waiter \in SUBSET Items
  /\ aborted \in [Turns -> BOOLEAN]
  /\ ran \in [Turns -> Nat]
  /\ told \in [Turns -> SUBSET Items]

\* A run row may change its status, not whether it is active.
SameActivity ==
  /\ runStatus' \in [Turns -> ActiveStatuses \cup FinalStatuses \cup {"none"}]
  /\ \A u \in Turns : runStatus'[u] \in ActiveStatuses <=> runStatus[u] \in ActiveStatuses

-----------------------------------------------------------------------------
(* Building blocks.                                                        *)

LEMMA RowType ==
  ASSUME NEW kind \in Kinds, NEW t \in 0 .. MaxTurns, NEW n \in Nat, NEW notes \in SUBSET Items
  PROVE  Row(kind, t, n, notes) \in Rows
BY DEF Row, Rows

LEMMA TurnsType == Turns \subseteq Nat /\ NoTurn \notin Turns /\ \A t \in Turns : t \in 0 .. MaxTurns
BY TurnAssumption DEF Turns, NoTurn

LEMMA InitType == Init => TypeOK
<1> SUFFICES ASSUME Init PROVE TypeOK
  OBVIOUS
<1> USE TurnAssumption DEF Init, NoTurn
<1>1. FreshLocals \in Locals
  BY DEF Locals, FreshLocals
<1>2. Past \in Seq(Rows)
  <2>1. 2 * PastTurns \in Nat
    OBVIOUS
  <2>2. \A k \in 1 .. 2 * PastTurns : Past[k] \in Rows
    BY RowType DEF Past, Kinds
  <2> QED
    BY <2>1, <2>2, IsASeq DEF Past
<1>3. <<>> \in Seq(Rows)
  BY EmptySeq
<1> QED
  BY <1>1, <1>2, <1>3 DEF TypeOK, Turns, PCs, ActiveStatuses, FinalStatuses

LEMMA InitInv == Init => IInv
<1> SUFFICES ASSUME Init PROVE IInv
  OBVIOUS
<1>1. TypeOK
  BY InitType
<1>2. OneTurn /\ DownIdle
  BY TurnsType DEF Init, OneTurn, DownIdle, Live, NoTurn, ActiveStatuses
<1>3. \A t \in Turns : Counted(t) /\ Waiting(t)
  BY DEF Init, Counted, Waiting, Calling
<1> QED
  BY <1>1, <1>2, <1>3 DEF IInv

-----------------------------------------------------------------------------
(* Each action preserves the invariant.                                    *)

LEMMA KickoffLocals ==
  ASSUME NEW n \in Nat
  PROVE  [FreshLocals EXCEPT !.msg = n] \in Locals /\ [FreshLocals EXCEPT !.msg = n].steps = 0
<1>1. FreshLocals \in Locals
  BY TurnAssumption DEF Locals, FreshLocals
<1>2. [FreshLocals EXCEPT !.msg = n] \in Locals
  BY <1>1 DEF Locals
<1>3. [FreshLocals EXCEPT !.msg = n].steps = 0
  BY DEF FreshLocals
<1> QED
  BY <1>2, <1>3

\* A turn begins: nothing was running.
LEMMA KickoffInv ==
  ASSUME IInv, NEW notes \in SUBSET Items, Kickoff(notes), activeRoot = NoTurn, up,
         UNCHANGED <<up, crashes>>, SideType'
  PROVE  IInv'
<1> DEFINE t == turnCount + 1
<1> USE TurnAssumption
<1>1. t \in Turns /\ t \in 0 .. MaxTurns /\ t # NoTurn
  BY DEF IInv, TypeOK, Kickoff, Turns, NoTurn
<1>2. Row("user", t, 0, notes) \in Rows
  BY <1>1, RowType DEF Kinds
<1>3. TypeOK
  BY DEF IInv
<1>4. Len(store) + 1 \in Nat
  BY <1>3, LenProperties DEF TypeOK
<1>5. TypeOK'
  BY <1>1, <1>2, <1>3, <1>4, KickoffLocals, AppendProperties DEF TypeOK, SideType, Kickoff, PCs, Parked, ActiveStatuses
<1>6. \A u \in Turns : ~Live(u)
  BY TurnsType DEF IInv, OneTurn
<1>7. \A u \in Turns : Live(u)' <=> u = t
  BY <1>1, <1>3, <1>6 DEF TypeOK, Live, Kickoff
<1>8. \A u \in Turns : (runStatus[u] \in ActiveStatuses)' <=> u = t
  BY <1>1, <1>3, <1>6 DEF IInv, OneTurn, TypeOK, Kickoff, ActiveStatuses
<1>9. OneTurn' /\ DownIdle'
  BY <1>1, <1>7, <1>8 DEF OneTurn, DownIdle, Kickoff
<1>10. ASSUME NEW u \in Turns PROVE Counted(u)' /\ Waiting(u)'
  <2>1. Counted(u) /\ Waiting(u)
    BY DEF IInv
  <2>2. CASE u = t
    <3>1. pc'[u] = "prep" /\ loc'[u].steps = 0
      BY <1>1, <1>3, <1>4, <2>2, KickoffLocals DEF TypeOK, Kickoff
    <3>2. fresh'[u] = <<>>
      BY <1>6, <2>1 DEF Kickoff, Waiting, Live
    <3> QED
      BY <3>1, <3>2 DEF Counted, Waiting, Calling
  <2>3. CASE u # t
    <3>1. pc'[u] = pc[u] /\ loc'[u] = loc[u] /\ fresh'[u] = fresh[u]
      BY <1>3, <2>3 DEF TypeOK, Kickoff
    <3> QED
      BY <2>1, <3>1 DEF Counted, Waiting, Calling, WholeStep
  <2> QED
    BY <2>2, <2>3
<1> QED
  BY <1>5, <1>9, <1>10 DEF IInv

\* A turn that stays where it is keeps its part of the invariant.
LEMMA OtherTurns ==
  ASSUME NEW t \in Turns, NEW u \in Turns, Counted(u), Waiting(u),
         pc'[u] = pc[u], loc'[u] = loc[u], fresh'[u] = fresh[u]
  PROVE  Counted(u)' /\ Waiting(u)'
BY DEF Counted, Waiting, Calling, WholeStep

LEMMA EndTurnInv ==
  ASSUME IInv, NEW t \in Turns, Live(t), NEW batch \in Seq(Rows), NEW status \in {"done", "error", "aborted"},
         EndTurn(t, batch, status), UNCHANGED life, SideType'
  PROVE  IInv'
<1> USE TurnAssumption
<1>1. activeRoot = t /\ up /\ t \in 0 .. MaxTurns
  BY TurnsType DEF IInv, OneTurn, DownIdle
<1>2. FreshLocals \in Locals
  BY DEF Locals, FreshLocals
<1>3. TypeOK
  BY DEF IInv
<1>4. NoTurn \in 0 .. MaxTurns /\ <<>> \in Seq(Rows)
  BY EmptySeq DEF NoTurn
<1>5. TypeOK'
  BY <1>1, <1>2, <1>3, <1>4, ConcatProperties DEF TypeOK, SideType, EndTurn, PCs, FinalStatuses, life
<1>6. \A u \in Turns : ~Live(u)'
  BY <1>1, <1>3 DEF IInv, OneTurn, TypeOK, EndTurn, Live
<1>7. \A u \in Turns : ~(runStatus[u] \in ActiveStatuses)'
  BY <1>1, <1>3 DEF IInv, OneTurn, TypeOK, EndTurn, ActiveStatuses
<1>8. OneTurn' /\ DownIdle'
  BY <1>1, <1>6, <1>7, TurnsType DEF OneTurn, DownIdle, EndTurn, life
<1>9. ASSUME NEW u \in Turns PROVE Counted(u)' /\ Waiting(u)'
  <2>1. Counted(u) /\ Waiting(u)
    BY DEF IInv
  <2>2. CASE u = t
    <3>1. pc'[u] = "ended" /\ fresh'[u] = <<>>
      BY <1>3, <2>2 DEF TypeOK, EndTurn
    <3> QED
      BY <3>1 DEF Counted, Waiting, Calling
  <2>3. CASE u # t
    <3>1. pc'[u] = pc[u] /\ loc'[u] = loc[u] /\ fresh'[u] = fresh[u]
      BY <1>3, <2>3 DEF TypeOK, EndTurn
    <3> QED
      BY <2>1, <3>1, OtherTurns
  <2> QED
    BY <2>2, <2>3
<1> QED
  BY <1>5, <1>8, <1>9 DEF IInv

LEMMA AppendPair == ASSUME NEW a, NEW b PROVE Append(<<a>>, b) = <<a, b>>
<1> DEFINE S == {a, b}
<1>1. <<a>> \in Seq(S) /\ Len(<<a>>) = 1
  OBVIOUS
<1>2. <<a, b>> \in Seq(S) /\ Len(<<a, b>>) = 2
  OBVIOUS
<1>3. /\ Append(<<a>>, b) \in Seq(S)
      /\ Len(Append(<<a>>, b)) = 2
      /\ Append(<<a>>, b)[1] = a
      /\ Append(<<a>>, b)[2] = b
  BY <1>1, AppendProperties
<1>4. \A i \in 1 .. 2 : Append(<<a>>, b)[i] = <<a, b>>[i]
  <2>1. \A i \in 1 .. 2 : i = 1 \/ i = 2
    OBVIOUS
  <2>2. <<a, b>>[1] = a /\ <<a, b>>[2] = b
    OBVIOUS
  <2> QED
    BY <1>3, <2>1, <2>2
<1> HIDE DEF S
<1> QED
  BY <1>2, <1>3, <1>4, SeqEqual

LEMMA WholeStepType == ASSUME NEW t \in Turns, NEW s, WholeStep(t, s) PROVE s \in Seq(Rows) /\ Len(s) = 2
<1> PICK n \in 1 .. MaxUses, notes \in SUBSET Items :
           s = <<Row("reply", t, n, {}), Row("results", t, n, notes)>>
  BY DEF WholeStep
<1>1. Row("reply", t, n, {}) \in Rows /\ Row("results", t, n, notes) \in Rows
  BY RowType, TurnsType, TurnAssumption DEF Kinds
<1> HIDE DEF Row
<1> QED
  BY <1>1

\* Whatever the moment, what closeOpenToolCalls leaves is nothing or a whole step.
LEMMA ClosedShape ==
  ASSUME IInv, NEW t \in Turns
  PROVE  CloseOpenToolCalls(t) = <<>> \/ WholeStep(t, CloseOpenToolCalls(t))
<1>1. fresh[t] \in Seq(Rows) /\ loc[t] \in Locals /\ pc[t] \in PCs /\ Waiting(t) /\ Counted(t)
  BY DEF IInv, TypeOK
<1>2. CASE fresh[t] = <<>>
  BY <1>2 DEF CloseOpenToolCalls, OpenReply
<1>3. CASE pc[t] \in Calling
  <2>1. loc[t].uses \in 1 .. MaxUses /\ loc[t].got \in SUBSET Items
    BY <1>1, <1>3, TurnAssumption DEF Counted, Locals
  <2>2. fresh[t] = <<Row("reply", t, loc[t].uses, {})>>
    BY <1>1, <1>3 DEF Waiting
  <2>3. Len(fresh[t]) = 1 /\ fresh[t][1] = Row("reply", t, loc[t].uses, {})
    BY <2>2
  <2>4. OpenReply(fresh[t]) /\ fresh[t][1].n = loc[t].uses
    BY <2>1, <2>2, <2>3 DEF OpenReply, Row
  <2>5. CloseOpenToolCalls(t)
          = <<Row("reply", t, loc[t].uses, {}), Row("results", t, loc[t].uses, loc[t].got)>>
    BY <2>2, <2>3, <2>4, AppendPair DEF CloseOpenToolCalls
  <2> QED
    BY <2>1, <2>5 DEF WholeStep
<1>4. CASE WholeStep(t, fresh[t])
  <2> PICK n \in 1 .. MaxUses, notes \in SUBSET Items :
             fresh[t] = <<Row("reply", t, n, {}), Row("results", t, n, notes)>>
    BY <1>4 DEF WholeStep
  <2>1. Len(fresh[t]) = 2 /\ fresh[t][2] = Row("results", t, n, notes)
    OBVIOUS
  <2>2. ~OpenReply(fresh[t])
    BY <2>1 DEF OpenReply, Row
  <2> QED
    BY <1>4, <2>2 DEF CloseOpenToolCalls
<1> QED
  BY <1>1, <1>2, <1>3, <1>4 DEF Waiting, PCs, Parked, Calling

LEMMA ClosedType ==
  ASSUME IInv, NEW t \in Turns
  PROVE  CloseOpenToolCalls(t) \in Seq(Rows)
BY ClosedShape, WholeStepType, EmptySeq

LEMMA FailTurnInv ==
  ASSUME IInv, NEW t \in Turns, Live(t), NEW status \in {"error", "aborted"},
         FailTurn(t, status), UNCHANGED life, SideType'
  PROVE  IInv'
BY ClosedType, EndTurnInv DEF FailTurn

\* A live turn goes on to its next await.
LEMMA MoveInv ==
  ASSUME IInv, NEW t \in Turns, Live(t),
         NEW q \in PCs \ {"none", "ended"}, pc' = [pc EXCEPT ![t] = q],
         NEW f \in Seq(Rows), fresh' = [fresh EXCEPT ![t] = f],
         NEW l \in Locals, loc' = [loc EXCEPT ![t] = l],
         Counted(t)', Waiting(t)',
         store' \in Seq(Rows), UNCHANGED <<life, srv>>, SameActivity, SideType'
  PROVE  IInv'
<1>1. TypeOK
  BY DEF IInv
<1>2. TypeOK'
  BY <1>1 DEF TypeOK, SideType, SameActivity, life, srv
<1>3. \A u \in Turns : Live(u)' <=> Live(u)
  BY <1>1 DEF TypeOK, Live
<1>4. OneTurn' /\ DownIdle'
  BY <1>3 DEF IInv, OneTurn, DownIdle, SameActivity, life, srv
<1>5. ASSUME NEW u \in Turns, u # t PROVE Counted(u)' /\ Waiting(u)'
  <2>1. pc'[u] = pc[u] /\ loc'[u] = loc[u] /\ fresh'[u] = fresh[u]
    BY <1>1, <1>5 DEF TypeOK
  <2> QED
    BY <1>5, <2>1, OtherTurns DEF IInv
<1> QED
  BY <1>2, <1>4, <1>5 DEF IInv

\* No turn moves.
LEMMA StayInv ==
  ASSUME IInv, UNCHANGED <<pc, fresh, loc, life, srv>>, store' \in Seq(Rows), SameActivity, SideType'
  PROVE  IInv'
<1>1. TypeOK'
  BY DEF IInv, TypeOK, SideType, SameActivity, life, srv
<1>2. OneTurn' /\ DownIdle'
  BY DEF IInv, OneTurn, DownIdle, SameActivity, life, srv, Live
<1>3. \A u \in Turns : Counted(u)' /\ Waiting(u)'
  BY OtherTurns DEF IInv
<1> QED
  BY <1>1, <1>2, <1>3 DEF IInv

LEMMA SameRunStatus == ASSUME IInv, UNCHANGED runStatus PROVE SameActivity
BY DEF IInv, TypeOK, SameActivity

\* One more tool result.
LEMMA PushResultInv ==
  ASSUME IInv, NEW t \in Turns, pc[t] \in Calling, NEW answers \in SUBSET Items,
         NEW l \in Locals, l.uses = loc[t].uses, l.pend = loc[t].pend, l.steps = loc[t].steps, l.got = loc[t].got,
         PushResult(t, answers, l), UNCHANGED <<life, srv, store>>, SameActivity, SideType'
  PROVE  IInv'
<1> DEFINE full == l.pend + 1 = l.uses
           p == [l EXCEPT !.pend = @ + 1, !.got = IF full THEN {} ELSE l.got \cup answers, !.asking = {}]
           q == IF full THEN "top" ELSE "use"
           f == IF full THEN Append(fresh[t], Row("results", t, l.uses, l.got \cup answers)) ELSE fresh[t]
<1> USE TurnAssumption
<1>1. fresh \in [Turns -> Seq(Rows)] /\ loc \in [Turns -> Locals] /\ pc \in [Turns -> PCs]
  BY DEF IInv, TypeOK
<1>2. loc[t].steps <= MaxSteps /\ loc[t].pend < loc[t].uses /\ fresh[t] = <<Row("reply", t, loc[t].uses, {})>>
  BY DEF IInv, Counted, Waiting, Calling
<1>3. l.uses \in 1 .. MaxUses /\ l.pend \in 0 .. MaxUses /\ l.got \cup answers \in SUBSET Items /\ l.pend < l.uses
  BY <1>2 DEF Locals
<1>4. p \in Locals /\ p.steps = l.steps /\ p.uses = l.uses /\ p.pend = l.pend + 1
  <2>1. l.pend + 1 \in 0 .. MaxUses /\ (IF full THEN {} ELSE l.got \cup answers) \in SUBSET Items
    BY <1>3
  <2> HIDE DEF full
  <2> QED
    BY <2>1 DEF Locals
<1>5. Row("results", t, l.uses, l.got \cup answers) \in Rows
  BY <1>3, RowType, TurnsType DEF Kinds
<1>6. f \in Seq(Rows)
  BY <1>1, <1>5, AppendProperties
<1>7. pc' = [pc EXCEPT ![t] = q] /\ loc' = [loc EXCEPT ![t] = p] /\ fresh' = [fresh EXCEPT ![t] = f]
  BY <1>1 DEF PushResult
<1>8. pc'[t] = q /\ loc'[t] = p /\ fresh'[t] = f
  BY <1>1, <1>7
<1>9. Counted(t)'
  BY <1>2, <1>3, <1>4, <1>8 DEF Counted, Calling
<1>10. Waiting(t)'
  <2>1. CASE full
    <3>1. f = <<Row("reply", t, l.uses, {}), Row("results", t, l.uses, l.got \cup answers)>>
      BY <1>2, <2>1, AppendPair
    <3>2. WholeStep(t, f)
      BY <1>3, <3>1 DEF WholeStep
    <3> HIDE DEF f
    <3> QED
      BY <1>8, <2>1, <3>2 DEF Waiting, Calling, WholeStep
  <2>2. CASE ~full
    BY <1>2, <1>4, <1>8, <2>2 DEF Waiting, Calling
  <2> QED
    BY <2>1, <2>2
<1>11. q \in PCs \ {"none", "ended"} /\ Live(t) /\ store' \in Seq(Rows)
  BY DEF PCs, Live, Calling, IInv, TypeOK
<1> HIDE DEF p, q, f
<1> QED
  BY <1>4, <1>6, <1>7, <1>9, <1>10, <1>11, MoveInv

LEMMA SideTypes == IInv => SideType
BY DEF IInv, TypeOK, SideType

-----------------------------------------------------------------------------
(* Each action preserves the invariant: the user's steps.                  *)

LEMMA SendMessageInv == ASSUME IInv, SendMessage PROVE IInv'
<1>1. activeRoot = NoTurn
  BY DEF IInv, OneTurn, SendMessage, Busy
<1>2. SideType'
  BY SideTypes DEF SideType, SendMessage, Kickoff, gazeta
<1> QED
  BY <1>1, <1>2, KickoffInv DEF SendMessage

LEMMA KillInv == ASSUME IInv, Kill PROVE IInv'
<1> DEFINE t == controller
<1>1. t \in Turns /\ Live(t)
  BY DEF Kill, IInv, OneTurn, TypeOK, Turns, NoTurn
<1>2. SideType'
  BY <1>1, SideTypes DEF SideType, Kill, IInv, TypeOK
<1>3. CASE pc[t] \in {"confirm", "human", "wait"}
  BY <1>1, <1>2, <1>3, FailTurnInv DEF Kill
<1>4. CASE pc[t] \notin {"confirm", "human", "wait"}
  <2>1. UNCHANGED <<pc, fresh, loc, life, srv, runStatus, store>>
    BY <1>4 DEF Kill
  <2> QED
    BY <1>2, <2>1, SameRunStatus, StayInv DEF IInv, TypeOK
<1> QED
  BY <1>3, <1>4

\* An answer of the blocked call, whatever it is.
LEMMA AnswerInv ==
  ASSUME IInv, NEW i \in Items, NEW answers \in SUBSET Items,
         \E t \in Turns : pc[t] = "human" /\ i \in loc[t].asking /\ PushResult(t, answers, loc[t]),
         UNCHANGED <<life, srv, store, runStatus>>, SideType'
  PROVE  IInv'
<1> PICK t \in Turns : pc[t] = "human" /\ PushResult(t, answers, loc[t])
  OBVIOUS
<1>1. pc[t] \in Calling /\ loc[t] \in Locals
  BY DEF Calling, IInv, TypeOK
<1> QED
  BY <1>1, SameRunStatus, PushResultInv

LEMMA ToldType ==
  ASSUME IInv, NEW answers \in SUBSET Items, NEW t \in Turns, NEW l, PushResult(t, answers, l)
  PROVE  told' \in [Turns -> SUBSET Items]
BY DEF PushResult, IInv, TypeOK

LEMMA RespondBlockingInv == ASSUME IInv, NEW i \in Items, RespondBlocking(i) PROVE IInv'
<1>1. SideType'
  BY SideTypes, ToldType DEF SideType, RespondBlocking, runs
<1> QED
  BY <1>1, AnswerInv DEF RespondBlocking, runs

LEMMA AnswerTimeoutInv == ASSUME IInv, NEW i \in Items, AnswerTimeout(i) PROVE IInv'
<1>1. SideType'
  BY SideTypes, ToldType DEF SideType, AnswerTimeout, runs
<1> QED
  BY <1>1, AnswerInv DEF AnswerTimeout, runs

LEMMA DismissInv == ASSUME IInv, NEW i \in Items, Dismiss(i) PROVE IInv'
<1>1. told' \in [Turns -> SUBSET Items]
  BY SideTypes, ToldType DEF SideType, Dismiss
<1>2. SideType'
  BY <1>1, SideTypes DEF SideType, Dismiss, runs
<1>3. CASE i \in waiter
  BY <1>2, <1>3, AnswerInv DEF Dismiss, runs
<1>4. CASE i \notin waiter
  <2>1. UNCHANGED <<pc, fresh, loc, life, srv, runStatus, store>>
    BY <1>4 DEF Dismiss, runs
  <2> QED
    BY <1>2, <2>1, SameRunStatus, StayInv DEF IInv, TypeOK
<1> QED
  BY <1>3, <1>4

LEMMA RespondToInboxInv == ASSUME IInv, NEW i \in Items, RespondToInbox(i) PROVE IInv'
<1>1. SideType'
  BY SideTypes DEF SideType, RespondToInbox, local
<1>2. UNCHANGED <<pc, fresh, loc, life, srv, runStatus, store>>
  BY DEF RespondToInbox, local
<1> QED
  BY <1>1, <1>2, SameRunStatus, StayInv DEF IInv, TypeOK

LEMMA RespondStartsTurnInv == ASSUME IInv, NEW i \in Items, RespondStartsTurn(i) PROVE IInv'
<1>1. SideType'
  BY SideTypes DEF SideType, RespondStartsTurn, Kickoff
<1> QED
  BY <1>1, KickoffInv DEF RespondStartsTurn

LEMMA UpToType == ASSUME IInv, NEW b, NEW keep, NEW u \in UpTos(b, keep) PROVE u \in DOMAIN store /\ u \in Nat
BY LenProperties DEF UpTos, HistoryBefore, IInv, TypeOK

LEMMA SummaryType ==
  ASSUME IInv, NEW upTo \in Nat, Summarise(upTo) \/ UNCHANGED store
  PROVE  store' \in Seq(Rows)
<1>1. Row("summary", NoTurn, upTo, {}) \in Rows
  <2>1. "summary" \in Kinds /\ NoTurn \in 0 .. MaxTurns /\ {} \in SUBSET Items
    BY TurnAssumption DEF Kinds, NoTurn
  <2> QED
    BY <2>1, RowType
<1>2. store \in Seq(Rows)
  BY DEF IInv, TypeOK
<1> QED
  BY <1>1, <1>2, AppendProperties DEF Summarise

LEMMA CompactStartInv == ASSUME IInv, CompactStart PROVE IInv'
<1>1. SideType'
  BY SideTypes, UpToType DEF SideType, CompactStart, local, runs, gazeta
<1>2. UNCHANGED <<pc, fresh, loc, life, srv, runStatus, store>>
  BY DEF CompactStart, local, runs
<1> QED
  BY <1>1, <1>2, SameRunStatus, StayInv DEF IInv, TypeOK

LEMMA CompactEndInv == ASSUME IInv, CompactEnd PROVE IInv'
<1>1. SideType' /\ compacting \in Nat
  BY SideTypes DEF SideType, CompactEnd, local, runs, gazeta
<1>2. UNCHANGED <<pc, fresh, loc, life, srv, runStatus>> /\ store' \in Seq(Rows)
  BY <1>1, SummaryType DEF CompactEnd, local, runs
<1> QED
  BY <1>1, <1>2, SameRunStatus, StayInv

-----------------------------------------------------------------------------
(* Each action preserves the invariant: the turn's steps.                  *)

LEMMA UpToLocals ==
  ASSUME NEW l \in Locals, NEW u \in Nat
  PROVE  /\ [l EXCEPT !.upTo = u] \in Locals
         /\ [l EXCEPT !.upTo = u].steps = l.steps
         /\ l.upTo \in Nat
<1>1. [l EXCEPT !.upTo = u] \in Locals
  BY DEF Locals
<1>2. [l EXCEPT !.upTo = u].steps = l.steps
  BY DEF Locals
<1>3. l.upTo \in Nat
  BY DEF Locals
<1> QED
  BY <1>1, <1>2, <1>3

LEMMA PreparedInv == ASSUME IInv, NEW t \in Turns, Prepared(t) PROVE IInv'
<1>1. SideType' /\ UNCHANGED life /\ Live(t)
  BY SideTypes DEF SideType, Prepared, gazeta, Live
<1>2. CASE FailTurn(t, IF aborted[t] THEN "aborted" ELSE "error")
  BY <1>1, <1>2, FailTurnInv
<1>3. TypeOK /\ Counted(t) /\ Waiting(t)
  BY DEF IInv
<1>4. ASSUME NEW q \in {"top", "compact"}, pc' = [pc EXCEPT ![t] = q],
             NEW l \in Locals, l.steps = loc[t].steps, loc' = [loc EXCEPT ![t] = l],
             UNCHANGED <<store, fresh, runStatus, srv>>
      PROVE  IInv'
  <2>1. fresh' = [fresh EXCEPT ![t] = <<>>] /\ <<>> \in Seq(Rows)
    BY <1>3, <1>4 DEF TypeOK, Waiting, Prepared
  <2>2. loc'[t] = l /\ pc'[t] = q /\ fresh'[t] = <<>>
    BY <1>3, <1>4, <2>1 DEF TypeOK
  <2>3. Counted(t)' /\ Waiting(t)'
    BY <1>3, <1>4, <2>2 DEF Counted, Waiting, Calling, Prepared
  <2>4. q \in PCs \ {"none", "ended"} /\ store' \in Seq(Rows)
    BY <1>3, <1>4 DEF PCs, Parked, TypeOK
  <2> QED
    BY <1>1, <1>4, <2>1, <2>3, <2>4, SameRunStatus, MoveInv
<1>5. CASE pc' = [pc EXCEPT ![t] = "top"] /\ UNCHANGED loc /\ UNCHANGED <<store, fresh, runStatus, srv>>
  <2>1. loc[t] \in Locals /\ loc' = [loc EXCEPT ![t] = loc[t]]
    BY <1>3, <1>5 DEF TypeOK
  <2> QED
    BY <1>4, <1>5, <2>1
<1>6. CASE /\ pc' = [pc EXCEPT ![t] = "compact"]
           /\ \E u \in UpTos(loc[t].msg, 3) : loc' = [loc EXCEPT ![t].upTo = u]
           /\ UNCHANGED <<store, fresh, runStatus, srv>>
  <2> PICK u \in UpTos(loc[t].msg, 3) : loc' = [loc EXCEPT ![t] = [loc[t] EXCEPT !.upTo = u]]
    BY <1>3, <1>6 DEF TypeOK
  <2>1. [loc[t] EXCEPT !.upTo = u] \in Locals /\ [loc[t] EXCEPT !.upTo = u].steps = loc[t].steps
    BY <1>3, UpToType, UpToLocals DEF TypeOK
  <2> QED
    BY <1>4, <1>6, <2>1
<1> QED
  BY <1>2, <1>5, <1>6 DEF Prepared

LEMMA CompactedInv == ASSUME IInv, NEW t \in Turns, Compacted(t) PROVE IInv'
<1>1. SideType' /\ UNCHANGED life /\ Live(t) /\ TypeOK /\ Counted(t) /\ Waiting(t)
  BY SideTypes DEF SideType, Compacted, gazeta, Live, IInv
<1>2. CASE FailTurn(t, "aborted")
  BY <1>1, <1>2, FailTurnInv
<1>3. CASE /\ pc' = [pc EXCEPT ![t] = "top"]
           /\ Summarise(loc[t].upTo) \/ UNCHANGED store
           /\ loc' = [loc EXCEPT ![t].upTo = 0]
           /\ UNCHANGED <<fresh, runStatus, srv>>
  <2> DEFINE l == [loc[t] EXCEPT !.upTo = 0]
  <2>1. l \in Locals /\ l.steps = loc[t].steps /\ loc[t].upTo \in Nat
    BY <1>1, UpToLocals DEF TypeOK
  <2>2. loc' = [loc EXCEPT ![t] = l] /\ fresh' = [fresh EXCEPT ![t] = <<>>] /\ <<>> \in Seq(Rows)
    BY <1>1, <1>3 DEF TypeOK, Waiting, Compacted
  <2>3. loc'[t] = l /\ pc'[t] = "top" /\ fresh'[t] = <<>>
    BY <1>1, <1>3, <2>2 DEF TypeOK
  <2>4. Counted(t)' /\ Waiting(t)'
    BY <1>1, <2>1, <2>3 DEF Counted, Waiting, Calling, Compacted
  <2>5. "top" \in PCs \ {"none", "ended"} /\ store' \in Seq(Rows)
    BY <1>3, <2>1, SummaryType DEF PCs
  <2> HIDE DEF l
  <2> QED
    BY <1>1, <1>3, <2>1, <2>2, <2>4, <2>5, SameRunStatus, MoveInv
<1> QED
  BY <1>2, <1>3 DEF Compacted

LEMMA NotesAdded ==
  ASSUME NEW a, NEW kind, NEW t, NEW n, NEW notes, NEW more
  PROVE  [<<a, Row(kind, t, n, notes)>> EXCEPT ![2].notes = @ \cup more]
           = <<a, Row(kind, t, n, notes \cup more)>>
<1> DEFINE b == Row(kind, t, n, notes)
           c == Row(kind, t, n, notes \cup more)
           d == [<<a, b>> EXCEPT ![2].notes = @ \cup more]
<1>1. [b EXCEPT !.notes = b.notes \cup more] = c
  BY DEF Row
<1>2. d = [<<a, b>> EXCEPT ![2] = [b EXCEPT !.notes = b.notes \cup more]]
  OBVIOUS
<1>3. [<<a, b>> EXCEPT ![2] = c] = <<a, c>>
  <2> HIDE DEF b, c
  <2> QED
    OBVIOUS
<1> QED
  BY <1>1, <1>2, <1>3

LEMMA StepLocals ==
  ASSUME NEW l \in Locals, l.steps <= MaxSteps, NEW b \in BOOLEAN
  PROVE  [l EXCEPT !.steps = @ + 1, !.storedAny = b] \in Locals
<1>1. l.steps + 1 \in 0 .. MaxSteps + 1
  BY TurnAssumption DEF Locals
<1> QED
  BY <1>1 DEF Locals

\* What the top of the loop stores is nothing or a whole step.
LEMMA WithInboxShape ==
  ASSUME IInv, NEW t \in Turns, pc[t] = "top"
  PROVE  /\ fresh[t] = <<>> => WithInbox(t) = <<>>
         /\ fresh[t] # <<>> => WholeStep(t, WithInbox(t))
<1>1. fresh[t] = <<>> \/ WholeStep(t, fresh[t])
  BY DEF IInv, Waiting
<1>2. CASE fresh[t] = <<>>
  BY <1>2 DEF WithInbox
<1>3. CASE WholeStep(t, fresh[t])
  <2> PICK n \in 1 .. MaxUses, notes \in SUBSET Items :
             fresh[t] = <<Row("reply", t, n, {}), Row("results", t, n, notes)>>
    BY <1>3 DEF WholeStep
  <2> DEFINE a == Row("reply", t, n, {})
             b == Row("results", t, n, notes)
             c == Row("results", t, n, notes \cup inbox[t])
  <2>1. Len(fresh[t]) = 2
    OBVIOUS
  <2>2. WithInbox(t) = [<<a, b>> EXCEPT ![2].notes = @ \cup inbox[t]]
    BY <2>1 DEF WithInbox
  <2>4. [<<a, b>> EXCEPT ![2].notes = @ \cup inbox[t]] = <<a, c>>
    BY NotesAdded
  <2>5. notes \cup inbox[t] \in SUBSET Items
    BY DEF IInv, TypeOK
  <2> QED
    BY <2>1, <2>2, <2>4, <2>5 DEF WholeStep
<1> QED
  BY <1>1, <1>2, <1>3

LEMMA LoopTopInv == ASSUME IInv, NEW t \in Turns, LoopTop(t) PROVE IInv'
<1>1. TypeOK /\ Counted(t) /\ Waiting(t) /\ Live(t) /\ UNCHANGED life
  BY DEF IInv, LoopTop, Live
<1>2. SideType'
  <2>1. inbox' \in [Turns -> SUBSET Items] /\ told' \in [Turns -> SUBSET Items]
    <3>1. inbox \in [Turns -> SUBSET Items] /\ told \in [Turns -> SUBSET Items]
      BY <1>1 DEF TypeOK
    <3>2. CASE aborted[t]
      BY <3>1, <3>2 DEF LoopTop
    <3>3. CASE ~aborted[t]
      BY <3>1, <3>3 DEF LoopTop
    <3> QED
      BY <3>2, <3>3
  <2> QED
    BY <2>1, SideTypes DEF SideType, LoopTop, gazeta
<1>3. CASE aborted[t]
  BY <1>1, <1>2, <1>3, FailTurnInv DEF LoopTop
<1>4. CASE ~aborted[t]
  <2> DEFINE l == [loc[t] EXCEPT !.steps = @ + 1, !.storedAny = @ \/ fresh[t] # <<>>]
  <2>1. l \in Locals
    <3>1. loc[t] \in Locals /\ loc[t].steps <= MaxSteps
      BY <1>1 DEF TypeOK, Counted, LoopTop
    <3>2. (loc[t].storedAny \/ fresh[t] # <<>>) \in BOOLEAN
      OBVIOUS
    <3> QED
      BY <3>1, <3>2, StepLocals
  <2>2. loc' = [loc EXCEPT ![t] = l]
    BY <1>1, <1>4 DEF LoopTop, TypeOK
  <2>3. pc'[t] = "llm" /\ fresh'[t] = <<>>
    BY <1>1, <1>4 DEF TypeOK, LoopTop
  <2>4. Counted(t)' /\ Waiting(t)'
    BY <2>3 DEF Counted, Waiting, Calling
  <2>5. WithInbox(t) \in Seq(Rows)
    BY <1>1, WithInboxShape, WholeStepType, EmptySeq DEF LoopTop
  <2>6. store' \in Seq(Rows)
    <3>1. store \in Seq(Rows) /\ store' = store \o WithInbox(t)
      BY <1>1, <1>4 DEF LoopTop, TypeOK
    <3> QED
      BY <2>5, <3>1, ConcatProperties
  <2>7. "llm" \in PCs \ {"none", "ended"} /\ <<>> \in Seq(Rows)
    BY EmptySeq DEF PCs, Parked
  <2> HIDE DEF l
  <2> QED
    BY <1>1, <1>2, <1>4, <2>1, <2>2, <2>4, <2>6, <2>7, SameRunStatus, MoveInv DEF LoopTop
<1> QED
  BY <1>3, <1>4

LEMMA ReplyType ==
  ASSUME NEW t \in Turns, NEW n \in 0 .. MaxUses
  PROVE  <<Row("reply", t, n, {})>> \in Seq(Rows)
<1>1. Row("reply", t, n, {}) \in Rows
  BY RowType, TurnsType, TurnAssumption DEF Kinds
<1> QED
  BY <1>1

LEMMA AppendToEmpty == ASSUME NEW a PROVE Append(<<>>, a) = <<a>>
OBVIOUS

LEMMA FinalReplyInv == ASSUME IInv, NEW t \in Turns, FinalReply(t) PROVE IInv'
<1>1. Live(t) /\ fresh[t] = <<>> /\ UNCHANGED life
  BY DEF IInv, FinalReply, Live, Waiting
<1>2. SideType'
  BY SideTypes DEF SideType, FinalReply, gazeta
<1>3. EndTurn(t, <<Row("reply", t, 0, {})>>, "done")
  BY <1>1, AppendToEmpty DEF FinalReply
<1>4. <<Row("reply", t, 0, {})>> \in Seq(Rows)
  BY ReplyType, TurnAssumption
<1> QED
  BY <1>1, <1>2, <1>3, <1>4, EndTurnInv

LEMMA UsesLocals ==
  ASSUME NEW l \in Locals, NEW n \in 1 .. MaxUses
  PROVE  /\ [l EXCEPT !.uses = n, !.pend = 0] \in Locals
         /\ [l EXCEPT !.uses = n, !.pend = 0].steps = l.steps
         /\ [l EXCEPT !.uses = n, !.pend = 0].uses = n
         /\ [l EXCEPT !.uses = n, !.pend = 0].pend = 0
<1>1. n \in 0 .. MaxUses /\ 0 \in 0 .. MaxUses
  BY TurnAssumption
<1>2. [l EXCEPT !.uses = n, !.pend = 0] \in Locals
  BY <1>1 DEF Locals
<1> QED
  BY <1>2 DEF Locals

LEMMA ToolReplyInv == ASSUME IInv, NEW t \in Turns, ToolReply(t) PROVE IInv'
<1>1. TypeOK /\ Waiting(t) /\ Live(t) /\ UNCHANGED life
  BY DEF IInv, ToolReply, Live
<1>2. SideType'
  BY SideTypes DEF SideType, ToolReply, gazeta, runs
<1> PICK n \in 1 .. MaxUses :
           /\ fresh' = [fresh EXCEPT ![t] = Append(fresh[t], Row("reply", t, n, {}))]
           /\ loc' = [loc EXCEPT ![t] = [loc[t] EXCEPT !.uses = n, !.pend = 0]]
  BY <1>1 DEF ToolReply, TypeOK
<1> DEFINE f == <<Row("reply", t, n, {})>>
           l == [loc[t] EXCEPT !.uses = n, !.pend = 0]
<1>3. fresh' = [fresh EXCEPT ![t] = f] /\ f \in Seq(Rows)
  <2>1. Append(fresh[t], Row("reply", t, n, {})) = f
    BY <1>1, AppendToEmpty DEF Waiting, ToolReply
  <2>2. n \in 0 .. MaxUses
    BY TurnAssumption
  <2> QED
    BY <2>1, <2>2, ReplyType
<1>4. l \in Locals /\ l.steps = loc[t].steps /\ l.uses = n /\ l.pend = 0
  BY <1>1, UsesLocals DEF TypeOK
<1> HIDE DEF l
<1>5. pc' = [pc EXCEPT ![t] = "use"] /\ pc'[t] = "use" /\ loc'[t] = l /\ fresh'[t] = f
  BY <1>1, <1>3 DEF ToolReply, TypeOK, l
<1>6. loc[t].steps <= MaxSteps
  BY DEF ToolReply
<1>7. Counted(t)' /\ Waiting(t)'
  BY <1>4, <1>5, <1>6 DEF Counted, Waiting, Calling
<1>8. "use" \in PCs \ {"none", "ended"} /\ store' \in Seq(Rows) /\ UNCHANGED <<srv, runStatus>>
  BY <1>1 DEF PCs, TypeOK, ToolReply, runs
<1>9. loc' = [loc EXCEPT ![t] = l]
  BY DEF l
<1> QED
  BY <1>1, <1>2, <1>3, <1>4, <1>5, <1>7, <1>8, <1>9, SameRunStatus, MoveInv

LEMMA RequestFailsInv == ASSUME IInv, NEW t \in Turns, RequestFails(t) PROVE IInv'
<1>1. Live(t) /\ UNCHANGED life /\ SideType'
  BY SideTypes DEF SideType, RequestFails, gazeta, Live
<1> QED
  BY <1>1, FailTurnInv DEF RequestFails

LEMMA TooLongInv == ASSUME IInv, NEW t \in Turns, TooLong(t) PROVE IInv'
<1>1. TypeOK /\ Counted(t) /\ Waiting(t) /\ Live(t) /\ UNCHANGED life
  BY DEF IInv, TooLong, Live
<1>2. SideType'
  BY SideTypes DEF SideType, TooLong, gazeta, runs
<1> PICK u \in UpTos(loc[t].msg, 2) : loc' = [loc EXCEPT ![t] = [loc[t] EXCEPT !.upTo = u]]
  BY <1>1 DEF TypeOK, TooLong
<1>3. [loc[t] EXCEPT !.upTo = u] \in Locals
  BY <1>1, UpToType, UpToLocals DEF TypeOK
<1>4. fresh[t] = <<>> /\ fresh' = [fresh EXCEPT ![t] = <<>>] /\ <<>> \in Seq(Rows)
  BY <1>1, EmptySeq DEF TypeOK, Waiting, TooLong
<1>5. pc'[t] = "recompact" /\ fresh'[t] = <<>> /\ pc' = [pc EXCEPT ![t] = "recompact"]
  BY <1>1, <1>4 DEF TypeOK, TooLong
<1>6. Counted(t)' /\ Waiting(t)'
  BY <1>5 DEF Counted, Waiting, Calling
<1>7. "recompact" \in PCs \ {"none", "ended"} /\ store' \in Seq(Rows) /\ UNCHANGED <<srv, runStatus>>
  BY <1>1 DEF PCs, Parked, TypeOK, TooLong, runs
<1> QED
  BY <1>1, <1>2, <1>3, <1>4, <1>5, <1>6, <1>7, SameRunStatus, MoveInv

LEMMA SecondLocals ==
  ASSUME NEW l \in Locals
  PROVE  /\ [l EXCEPT !.second = TRUE, !.steps = 0, !.upTo = 0] \in Locals
         /\ [l EXCEPT !.second = TRUE, !.steps = 0, !.upTo = 0].steps = 0
<1>1. [l EXCEPT !.second = TRUE, !.steps = 0, !.upTo = 0] \in Locals
  <2>1. 0 \in 0 .. MaxSteps + 1
    BY TurnAssumption
  <2> QED
    BY <2>1 DEF Locals
<1>2. [l EXCEPT !.second = TRUE, !.steps = 0, !.upTo = 0].steps = 0
  BY DEF Locals
<1> QED
  BY <1>1, <1>2

LEMMA RecompactedInv == ASSUME IInv, NEW t \in Turns, Recompacted(t) PROVE IInv'
<1>1. TypeOK /\ Counted(t) /\ Waiting(t) /\ Live(t) /\ UNCHANGED life
  BY DEF IInv, Recompacted, Live
<1>2. SideType'
  BY SideTypes DEF SideType, Recompacted, gazeta
<1>3. CASE FailTurn(t, IF aborted[t] THEN "aborted" ELSE "error")
  BY <1>1, <1>2, <1>3, FailTurnInv
<1>4. CASE /\ Summarise(loc[t].upTo)
           /\ pc' = [pc EXCEPT ![t] = "top"]
           /\ loc' = [loc EXCEPT ![t].second = TRUE, ![t].steps = 0, ![t].upTo = 0]
           /\ UNCHANGED <<fresh, runStatus, srv>>
  <2> DEFINE l == [loc[t] EXCEPT !.second = TRUE, !.steps = 0, !.upTo = 0]
  <2>1. l \in Locals /\ l.steps = 0 /\ loc[t].upTo \in Nat
    BY <1>1, SecondLocals, UpToLocals DEF TypeOK
  <2>2. loc' = [loc EXCEPT ![t] = l]
    BY <1>1, <1>4 DEF TypeOK
  <2>3. fresh[t] = <<>> /\ fresh' = [fresh EXCEPT ![t] = <<>>] /\ <<>> \in Seq(Rows)
    BY <1>1, <1>4, EmptySeq DEF TypeOK, Waiting, Recompacted
  <2> HIDE DEF l
  <2>4. loc'[t] = l /\ pc'[t] = "top" /\ fresh'[t] = <<>>
    BY <1>1, <1>4, <2>2, <2>3 DEF TypeOK
  <2>5. Counted(t)' /\ Waiting(t)'
    BY <2>1, <2>4, TurnAssumption DEF Counted, Waiting, Calling
  <2>6. "top" \in PCs \ {"none", "ended"} /\ store' \in Seq(Rows)
    BY <1>4, <2>1, SummaryType DEF PCs
  <2> QED
    BY <1>1, <1>2, <1>4, <2>1, <2>2, <2>3, <2>5, <2>6, SameRunStatus, MoveInv
<1> QED
  BY <1>3, <1>4 DEF Recompacted

LEMMA DenyInv == ASSUME IInv, NEW t \in Turns, Deny(t) PROVE IInv'
<1>1. told' \in [Turns -> SUBSET Items]
  BY ToldType DEF Deny
<1>2. SideType'
  BY <1>1, SideTypes DEF SideType, Deny, gazeta, runs
<1>3. pc[t] \in Calling /\ loc[t] \in Locals
  BY DEF Deny, Calling, IInv, TypeOK
<1> QED
  BY <1>2, <1>3, SameRunStatus, PushResultInv DEF Deny, runs

LEMMA ToolReturnsInv == ASSUME IInv, NEW t \in Turns, ToolReturns(t) PROVE IInv'
<1>1. TypeOK /\ Live(t) /\ pc[t] \in Calling /\ loc[t] \in Locals /\ UNCHANGED life
  BY DEF IInv, TypeOK, ToolReturns, Live, Calling
<1>2. told' \in [Turns -> SUBSET Items]
  BY <1>1, ToldType DEF ToolReturns, TypeOK
<1>3. SideType'
  BY <1>2, SideTypes DEF SideType, ToolReturns, gazeta
<1>4. CASE PushResult(t, {}, loc[t]) /\ UNCHANGED <<store, runStatus, srv>>
  BY <1>1, <1>3, <1>4, SameRunStatus, PushResultInv
<1>5. CASE FailTurn(t, IF aborted[t] THEN "aborted" ELSE "error")
  BY <1>1, <1>3, <1>5, FailTurnInv
<1> QED
  BY <1>4, <1>5 DEF ToolReturns

LEMMA WaitReturnsInv == ASSUME IInv, NEW t \in Turns, WaitReturns(t) PROVE IInv'
<1>1. TypeOK /\ Live(t) /\ pc[t] \in Calling /\ loc[t] \in Locals /\ UNCHANGED <<life, srv, store>>
  BY DEF IInv, TypeOK, WaitReturns, Live, Calling
<1>2. told' \in [Turns -> SUBSET Items]
  BY <1>1, ToldType DEF WaitReturns
<1>3. SideType'
  BY <1>2, SideTypes DEF SideType, WaitReturns, gazeta
<1>4. runStatus[t] \in ActiveStatuses
  BY <1>1, TurnsType DEF IInv, OneTurn, DownIdle
<1>5. SameActivity
  BY <1>1, <1>4 DEF SameActivity, WaitReturns, TypeOK, ActiveStatuses
<1> QED
  BY <1>1, <1>3, <1>5, PushResultInv DEF WaitReturns

LEMMA AskingLocals ==
  ASSUME NEW l \in Locals, NEW S \in SUBSET Items
  PROVE  /\ [l EXCEPT !.toolRan = TRUE] \in Locals
         /\ \A f \in {"uses", "pend", "steps", "got"} : [l EXCEPT !.toolRan = TRUE][f] = l[f]
         /\ [l EXCEPT !.asking = S] \in Locals
         /\ \A f \in {"uses", "pend", "steps"} : [l EXCEPT !.asking = S][f] = l[f]
<1>1. [l EXCEPT !.toolRan = TRUE] \in Locals
  BY DEF Locals
<1>2. [l EXCEPT !.asking = S] \in Locals
  BY DEF Locals
<1>3. \A f \in {"uses", "pend", "steps", "got"} : [l EXCEPT !.toolRan = TRUE][f] = l[f]
  BY DEF Locals
<1>4. \A f \in {"uses", "pend", "steps"} : [l EXCEPT !.asking = S][f] = l[f]
  BY DEF Locals
<1> QED
  BY <1>1, <1>2, <1>3, <1>4

\* A tool call is parked on the await of its handler or on the approval gate.
LEMMA ParkCallInv ==
  ASSUME IInv, NEW t \in Turns, pc[t] \in Calling, NEW q \in Calling, pc' = [pc EXCEPT ![t] = q],
         NEW l \in Locals, l.uses = loc[t].uses, l.pend = loc[t].pend, l.steps = loc[t].steps,
         loc' = [loc EXCEPT ![t] = l], UNCHANGED <<fresh, store, life, srv>>, SameActivity, SideType'
  PROVE  IInv'
<1>1. TypeOK /\ Counted(t) /\ Waiting(t) /\ Live(t)
  BY DEF IInv, Calling, Live
<1>2. pc'[t] = q /\ loc'[t] = l /\ fresh' = [fresh EXCEPT ![t] = fresh[t]] /\ fresh[t] \in Seq(Rows)
  BY <1>1 DEF TypeOK
<1>3. Counted(t)' /\ Waiting(t)'
  BY <1>1, <1>2 DEF Counted, Waiting, Calling
<1>4. q \in PCs \ {"none", "ended"} /\ store' \in Seq(Rows)
  BY <1>1 DEF PCs, Parked, Calling, TypeOK
<1> QED
  BY <1>1, <1>2, <1>3, <1>4, MoveInv

LEMMA StartToolInv ==
  ASSUME IInv, NEW t \in Turns, pc[t] \in Calling, StartTool(t), UNCHANGED <<life, srv, store, compacting, inbox, aborted>>
  PROVE  IInv'
<1> DEFINE l == [loc[t] EXCEPT !.toolRan = TRUE]
<1>1. TypeOK /\ SideType /\ Live(t) /\ loc[t] \in Locals
  BY SideTypes DEF IInv, TypeOK, Calling, Live
<1>2. l \in Locals /\ l.uses = loc[t].uses /\ l.pend = loc[t].pend /\ l.steps = loc[t].steps /\ l.got = loc[t].got
  BY <1>1, AskingLocals
<1>3. ran' \in [Turns -> Nat]
  <2>1. ran' = [ran EXCEPT ![t] = @ + 1]
    BY DEF StartTool
  <2>2. ran \in [Turns -> Nat]
    BY <1>1 DEF SideType
  <2> QED
    BY <2>1, <2>2
<1> HIDE DEF l
<1>4. CASE /\ loc' = [loc EXCEPT ![t] = l]
           /\ pc' = [pc EXCEPT ![t] = "tool"]
           /\ UNCHANGED <<fresh, told, item, asker, waiter, runStatus>>
  <2>1. SideType' /\ "tool" \in Calling
    BY <1>1, <1>3, <1>4 DEF SideType, Calling
  <2> QED
    BY <1>2, <1>4, <2>1, SameRunStatus, ParkCallInv
<1>5. CASE /\ loc' = [loc EXCEPT ![t] = l]
           /\ pc' = [pc EXCEPT ![t] = "wait"]
           /\ runStatus' = [runStatus EXCEPT ![t] = "waiting_children"]
           /\ UNCHANGED <<fresh, told, item, asker, waiter>>
  <2>1. SideType' /\ "wait" \in Calling
    BY <1>1, <1>3, <1>5 DEF SideType, Calling
  <2>2. runStatus[t] \in ActiveStatuses
    BY <1>1, TurnsType DEF IInv, OneTurn, DownIdle
  <2>3. SameActivity
    BY <1>1, <1>5, <2>2 DEF SameActivity, TypeOK, ActiveStatuses
  <2> QED
    BY <1>2, <1>5, <2>1, <2>3, ParkCallInv
<1>6. ASSUME NEW i \in Items,
             item' = [item EXCEPT ![i] = "pending"],
             asker' = [asker EXCEPT ![i] = t],
             UNCHANGED runStatus,
             \/ /\ waiter' = waiter \cup {i}
                /\ loc' = [loc EXCEPT ![t] = [l EXCEPT !.asking = {i}]]
                /\ pc' = [pc EXCEPT ![t] = "human"]
                /\ UNCHANGED <<fresh, told>>
             \/ /\ PushResult(t, {}, l)
                /\ UNCHANGED waiter
      PROVE  IInv'
  <2>1. told' \in [Turns -> SUBSET Items]
    BY <1>1, <1>6, ToldType DEF SideType
  <2>2. waiter' \in SUBSET Items
    BY <1>1, <1>6 DEF SideType
  <2>3. item' \in [Items -> {"absent", "pending", "responded", "dismissed", "expired"}]
    BY <1>1, <1>6 DEF SideType
  <2>4. asker' \in [Items -> 0 .. MaxTurns]
    BY <1>1, <1>6, TurnsType DEF SideType
  <2>5. SideType'
    BY <1>1, <1>3, <2>1, <2>2, <2>3, <2>4 DEF SideType
  <2>6. CASE PushResult(t, {}, l)
    BY <1>2, <1>6, <2>5, <2>6, SameRunStatus, PushResultInv
  <2>7. CASE /\ loc' = [loc EXCEPT ![t] = [l EXCEPT !.asking = {i}]]
             /\ pc' = [pc EXCEPT ![t] = "human"]
             /\ UNCHANGED <<fresh, told>>
    <3>1. /\ [l EXCEPT !.asking = {i}] \in Locals
          /\ [l EXCEPT !.asking = {i}].uses = loc[t].uses
          /\ [l EXCEPT !.asking = {i}].pend = loc[t].pend
          /\ [l EXCEPT !.asking = {i}].steps = loc[t].steps
      BY <1>2, AskingLocals
    <3>2. "human" \in Calling
      BY DEF Calling
    <3> QED
      BY <1>6, <2>5, <2>7, <3>1, <3>2, SameRunStatus, ParkCallInv
  <2> QED
    BY <1>6, <2>6, <2>7
<1> QED
  BY <1>4, <1>5, <1>6 DEF StartTool, l

LEMMA ApproveInv == ASSUME IInv, NEW t \in Turns, Approve(t) PROVE IInv'
BY StartToolInv DEF Approve, Calling

LEMMA NextUseInv == ASSUME IInv, NEW t \in Turns, NextUse(t) PROVE IInv'
<1>1. TypeOK /\ SideType /\ Live(t) /\ pc[t] \in Calling /\ loc[t] \in Locals /\ UNCHANGED life
  BY SideTypes DEF IInv, TypeOK, NextUse, Live, Calling
<1>2. CASE aborted[t]
  <2>1. SideType'
    BY <1>1, <1>2 DEF SideType, NextUse, gazeta
  <2> QED
    BY <1>1, <1>2, <2>1, FailTurnInv DEF NextUse
<1>3. CASE ~aborted[t] /\ PushResult(t, {}, loc[t]) /\ UNCHANGED <<gazeta, runStatus, ran, store, srv>>
  <2>1. told' \in [Turns -> SUBSET Items]
    BY <1>3, ToldType
  <2>2. SideType'
    BY <1>1, <1>3, <2>1 DEF SideType, NextUse, gazeta
  <2> QED
    BY <1>1, <1>3, <2>2, SameRunStatus, PushResultInv
<1>4. CASE /\ pc' = [pc EXCEPT ![t] = "confirm"]
           /\ UNCHANGED <<loc, fresh, gazeta, runStatus, ran, told, store, srv>>
  <2>1. SideType' /\ "confirm" \in Calling
    BY <1>1, <1>4 DEF SideType, NextUse, gazeta, Calling
  <2>2. loc' = [loc EXCEPT ![t] = loc[t]]
    BY <1>1, <1>4 DEF TypeOK
  <2> QED
    BY <1>1, <1>4, <2>1, <2>2, SameRunStatus, ParkCallInv
<1>5. CASE ~aborted[t] /\ StartTool(t) /\ UNCHANGED <<store, srv>>
  BY <1>1, <1>5, StartToolInv DEF NextUse
<1> QED
  BY <1>2, <1>3, <1>4, <1>5 DEF NextUse

-----------------------------------------------------------------------------
(* The process.                                                            *)

LEMMA CrashInv == ASSUME IInv, Crash PROVE IInv'
<1>1. TypeOK /\ SideType
  BY SideTypes DEF IInv
<1>2. SideType'
  BY <1>1 DEF SideType, Crash, runs
<1>3. FreshLocals \in Locals /\ <<>> \in Seq(Rows) /\ NoTurn \in 0 .. MaxTurns
  BY TurnAssumption, EmptySeq DEF Locals, FreshLocals, NoTurn
<1>4. pc' \in [Turns -> {"none", "ended"}] /\ pc' \in [Turns -> PCs]
  BY <1>1 DEF Crash, Live, TypeOK, PCs
<1>5. crashes' \in 0 .. MaxCrashes
  BY <1>1, TurnAssumption DEF Crash, TypeOK
<1>6. turnState' \in [id : 0 .. MaxTurns, status : {"idle", "running", "done", "error", "aborted"}]
  BY <1>3 DEF Crash
<1>7. TypeOK'
  BY <1>1, <1>2, <1>3, <1>4, <1>5, <1>6 DEF TypeOK, SideType, Crash, runs
<1>8. \A u \in Turns : pc'[u] \in {"none", "ended"} /\ fresh'[u] = <<>>
  BY <1>4 DEF Crash
<1>9. OneTurn' /\ DownIdle'
  BY <1>8, TurnsType DEF OneTurn, DownIdle, Crash, Live
<1>10. \A u \in Turns : Counted(u)' /\ Waiting(u)'
  BY <1>8 DEF Counted, Waiting, Calling
<1> QED
  BY <1>7, <1>9, <1>10 DEF IInv

LEMMA RestartInv == ASSUME IInv, Restart PROVE IInv'
<1>1. TypeOK /\ SideType
  BY SideTypes DEF IInv
<1>2. SideType'
  BY <1>1 DEF SideType, Restart, gazeta, local
<1>3. TypeOK'
  BY <1>1, <1>2 DEF TypeOK, SideType, Restart, srv, local, FinalStatuses
<1>4. \A u \in Turns : ~Live(u)'
  BY TurnsType DEF IInv, OneTurn, DownIdle, Restart, local, Live
<1>5. \A u \in Turns : runStatus'[u] \notin ActiveStatuses
  BY <1>1 DEF Restart, TypeOK, ActiveStatuses
<1>6. OneTurn' /\ DownIdle'
  BY <1>4, <1>5 DEF IInv, OneTurn, DownIdle, Restart, srv, local, Live
<1>7. \A u \in Turns : Counted(u)' /\ Waiting(u)'
  BY OtherTurns DEF IInv, Restart, local
<1> QED
  BY <1>3, <1>6, <1>7 DEF IInv

-----------------------------------------------------------------------------
(* The theorems.                                                           *)

LEMMA TurnStepInv == ASSUME IInv, NEW t \in Turns, TurnStep(t) PROVE IInv'
BY PreparedInv, CompactedInv, LoopTopInv, FinalReplyInv, ToolReplyInv, TooLongInv, RequestFailsInv, RecompactedInv,
   NextUseInv, ApproveInv, DenyInv, ToolReturnsInv, WaitReturnsInv DEF TurnStep

LEMMA UserStepInv == ASSUME IInv, UserStep PROVE IInv'
BY SendMessageInv, KillInv, CompactStartInv, CompactEndInv, RespondBlockingInv, RespondToInboxInv, RespondStartsTurnInv,
   DismissInv, AnswerTimeoutInv DEF UserStep

LEMMA StutterInv == ASSUME IInv, UNCHANGED vars PROVE IInv'
<1>1. UNCHANGED <<pc, fresh, loc, life, srv, runStatus, store>> /\ SideType'
  BY SideTypes DEF vars, SideType, life, srv
<1> QED
  BY <1>1, SameRunStatus, StayInv DEF IInv, TypeOK

\* IInv holds in every reachable state: it holds initially and every action of Next preserves it.
THEOREM Invariant == Spec => []IInv
<1>1. Init => IInv
  BY InitInv
<1>2. IInv /\ [Next]_vars => IInv'
  BY TurnStepInv, UserStepInv, CrashInv, RestartInv, StutterInv DEF Next
<1> QED
  BY <1>1, <1>2, PTL DEF Spec

\* Every variable keeps its type.
THEOREM TypeCorrect == Spec => []TypeOK
<1>1. IInv => TypeOK
  BY DEF IInv
<1> QED
  BY <1>1, Invariant, PTL

\* The conversation runs one turn at a time, and turn state, abort controller, active root run, run rows and the
\* running code agree on which: for any number of turns, questions and crashes.
THEOREM AtMostOneTurn == Spec => []OneTurn
<1>1. IInv => OneTurn
  BY DEF IInv
<1> QED
  BY <1>1, Invariant, PTL

-----------------------------------------------------------------------------
(* The kill switch.                                                        *)

\* A call on the approval gate has not been overtaken by a kill: the kill takes it off the gate.
GateOpen == \A t \in Turns : pc[t] = "confirm" => ~aborted[t]

NoStart == \A t \in Turns : aborted[t] => ran'[t] = ran[t]

LEMMA EndGate ==
  ASSUME IInv, GateOpen, NEW t \in Turns, NEW b, NEW status, EndTurn(t, b, status),
         \A u \in Turns : u # t => aborted'[u] = aborted[u]
  PROVE  GateOpen'
BY DEF GateOpen, EndTurn, IInv, TypeOK

LEMMA PushGate ==
  ASSUME IInv, GateOpen, NEW t \in Turns, NEW a, NEW l, PushResult(t, a, l), UNCHANGED aborted
  PROVE  GateOpen'
BY DEF GateOpen, PushResult, IInv, TypeOK

LEMMA StartGate ==
  ASSUME IInv, GateOpen, NEW t \in Turns, StartTool(t), UNCHANGED aborted
  PROVE  GateOpen'
BY PushGate DEF StartTool, GateOpen, IInv, TypeOK

LEMMA KickoffGate ==
  ASSUME IInv, GateOpen, NEW notes, Kickoff(notes)
  PROVE  GateOpen'
BY DEF GateOpen, Kickoff, IInv, TypeOK

LEMMA UserGate == ASSUME IInv, GateOpen, UserStep PROVE GateOpen' /\ UNCHANGED ran
<1>1. CASE SendMessage
  BY <1>1, KickoffGate DEF SendMessage, Kickoff
<1>2. CASE Kill
  <2>1. controller \in Turns
    BY <1>2 DEF Kill, IInv, TypeOK, Turns, NoTurn
  <2>2. \A u \in Turns : u # controller => aborted'[u] = aborted[u]
    BY <1>2 DEF Kill, IInv, TypeOK
  <2>3. CASE pc[controller] \in {"confirm", "human", "wait"}
    BY <1>2, <2>1, <2>2, <2>3, EndGate DEF Kill, FailTurn
  <2>4. CASE pc[controller] \notin {"confirm", "human", "wait"}
    BY <1>2, <2>2, <2>4 DEF Kill, GateOpen
  <2> QED
    BY <1>2, <2>3, <2>4 DEF Kill
<1>3. CASE CompactStart \/ CompactEnd
  BY <1>3 DEF CompactStart, CompactEnd, local, GateOpen
<1>4. ASSUME NEW i \in Items, RespondBlocking(i) \/ Dismiss(i) \/ AnswerTimeout(i) PROVE GateOpen' /\ UNCHANGED ran
  <2>1. UNCHANGED <<aborted, ran>>
    BY <1>4 DEF RespondBlocking, Dismiss, AnswerTimeout
  <2>2. UNCHANGED pc \/ \E t \in Turns : PushResult(t, {i}, loc[t]) \/ PushResult(t, {}, loc[t])
    BY <1>4 DEF RespondBlocking, Dismiss, AnswerTimeout
  <2>3. CASE UNCHANGED pc
    BY <2>1, <2>3 DEF GateOpen
  <2> QED
    BY <2>1, <2>2, <2>3, PushGate
<1>5. ASSUME NEW i \in Items, RespondToInbox(i) PROVE GateOpen' /\ UNCHANGED ran
  BY <1>5 DEF RespondToInbox, local, GateOpen
<1>6. ASSUME NEW i \in Items, RespondStartsTurn(i) PROVE GateOpen' /\ UNCHANGED ran
  BY <1>6, KickoffGate DEF RespondStartsTurn, Kickoff
<1> QED
  BY <1>1, <1>2, <1>3, <1>4, <1>5, <1>6 DEF UserStep

LEMMA TurnGate == ASSUME IInv, GateOpen, NEW t \in Turns, TurnStep(t) PROVE GateOpen' /\ NoStart
<1>1. ASSUME UNCHANGED <<aborted, ran>>,
             \/ \E b, status : EndTurn(t, b, status)
             \/ \E a, l : PushResult(t, a, l)
             \/ \E q \in PCs \ {"confirm"} : pc' = [pc EXCEPT ![t] = q]
      PROVE  GateOpen' /\ NoStart
  <2>1. CASE \E q \in PCs \ {"confirm"} : pc' = [pc EXCEPT ![t] = q]
    BY <1>1, <2>1 DEF GateOpen, NoStart, IInv, TypeOK
  <2> QED
    BY <1>1, <2>1, EndGate, PushGate DEF NoStart
<1>2. CASE Prepared(t) \/ Compacted(t) \/ LoopTop(t) \/ Recompacted(t)
  BY <1>1, <1>2 DEF Prepared, Compacted, LoopTop, Recompacted, FailTurn, PCs, Parked
<1>3. CASE FinalReply(t) \/ ToolReply(t) \/ TooLong(t) \/ RequestFails(t)
  BY <1>1, <1>3 DEF FinalReply, ToolReply, TooLong, RequestFails, FailTurn, PCs, Parked
<1>4. CASE Deny(t) \/ ToolReturns(t) \/ WaitReturns(t)
  BY <1>1, <1>4 DEF Deny, ToolReturns, WaitReturns, FailTurn
<1>5. ASSUME StartTool(t), UNCHANGED aborted, ~aborted[t] PROVE GateOpen' /\ NoStart
  BY <1>5, StartGate DEF StartTool, NoStart, IInv, TypeOK
<1>6. CASE Approve(t)
  BY <1>5, <1>6 DEF Approve, GateOpen
<1>7. CASE NextUse(t)
  <2>1. CASE aborted[t]
    BY <1>1, <1>7, <2>1 DEF NextUse, FailTurn
  <2>2. CASE ~aborted[t] /\ pc' = [pc EXCEPT ![t] = "confirm"] /\ UNCHANGED ran
    BY <1>7, <2>2 DEF NextUse, GateOpen, NoStart, IInv, TypeOK
  <2>3. CASE ~aborted[t] /\ PushResult(t, {}, loc[t]) /\ UNCHANGED ran
    BY <1>1, <1>7, <2>3 DEF NextUse
  <2> QED
    BY <1>5, <1>7, <2>1, <2>2, <2>3 DEF NextUse
<1> QED
  BY <1>2, <1>3, <1>4, <1>6, <1>7 DEF TurnStep

LEMMA NextGate == ASSUME IInv, GateOpen, [Next]_vars PROVE GateOpen' /\ NoStart
<1>1. CASE UNCHANGED vars
  BY <1>1 DEF vars, GateOpen, NoStart
<1>2. CASE Crash
  BY <1>2 DEF Crash, GateOpen, NoStart, Live, IInv, TypeOK
<1>3. CASE Restart
  BY <1>3 DEF Restart, local, GateOpen, NoStart
<1>4. CASE UserStep
  BY <1>4, UserGate DEF NoStart
<1> QED
  BY <1>1, <1>2, <1>3, <1>4, TurnGate DEF Next

\* After the kill switch no tool of the turn starts any more, whatever the turn was waiting for.
THEOREM KillStopsTools == Spec => NoToolAfterKill
<1>1. Init => GateOpen
  BY DEF Init, GateOpen
<1>2. IInv /\ GateOpen /\ [Next]_vars => GateOpen'
  BY NextGate
<1>3. IInv /\ GateOpen /\ [Next]_vars => [\A t \in Turns : aborted[t] => ran'[t] = ran[t]]_vars
  BY NextGate DEF NoStart
<1> QED
  BY <1>1, <1>2, <1>3, Invariant, PTL DEF Spec, NoToolAfterKill

-----------------------------------------------------------------------------
(* Who waits for an answer.                                                *)

\* Nobody is asked and no turn waits, or the running turn waits for one question that is open.
Waiters ==
  \/ waiter = {} /\ \A t \in Turns : pc[t] # "human"
  \/ \E t \in Turns, i \in Items : pc[t] = "human" /\ loc[t].asking = {i} /\ waiter = {i} /\ item[i] = "pending"

LEMMA OneIsLive == ASSUME IInv, NEW t \in Turns, NEW u \in Turns, Live(t), Live(u) PROVE t = u
BY DEF IInv, OneTurn

LEMMA NobodyAsks ==
  ASSUME IInv, Waiters, NEW t \in Turns, Live(t), pc[t] # "human"
  PROVE  waiter = {} /\ \A u \in Turns : pc[u] # "human"
BY OneIsLive DEF Waiters, Live

\* The running turn is not asking, before and after the step.
LEMMA StillNobody ==
  ASSUME IInv, Waiters, NEW t \in Turns, Live(t), pc[t] # "human",
         waiter' \subseteq waiter, pc'[t] # "human", \A u \in Turns : u # t => pc'[u] = pc[u]
  PROVE  Waiters'
BY NobodyAsks DEF Waiters

LEMMA EndWaiters ==
  ASSUME IInv, Waiters, NEW t \in Turns, Live(t), NEW b, NEW status, EndTurn(t, b, status), waiter' = waiter \ loc[t].asking
  PROVE  Waiters'
<1>1. /\ pc'[t] = "ended" /\ \A u \in Turns : u # t => pc'[u] = pc[u]
  BY DEF EndTurn, IInv, TypeOK
<1>2. CASE pc[t] # "human"
  BY <1>1, <1>2, StillNobody
<1>3. CASE pc[t] = "human"
  BY <1>1, <1>3, OneIsLive DEF Waiters, Live
<1> QED
  BY <1>2, <1>3

LEMMA PushMoves ==
  ASSUME IInv, NEW t \in Turns, NEW a, NEW l, PushResult(t, a, l)
  PROVE  pc'[t] \in {"top", "use"} /\ \A u \in Turns : u # t => pc'[u] = pc[u]
BY DEF PushResult, IInv, TypeOK

\* The answer of the blocked call, whatever it is.
LEMMA AnswerWaiters ==
  ASSUME IInv, Waiters, NEW i \in Items, waiter' = waiter \ {i},
         NEW t \in Turns, pc[t] = "human", i \in loc[t].asking, NEW a, PushResult(t, a, loc[t])
  PROVE  Waiters'
<1>1. loc[t].asking = waiter /\ waiter = {i}
  BY OneIsLive DEF Waiters, Live
<1>2. \A u \in Turns : u # t => pc[u] # "human"
  BY OneIsLive DEF Live
<1> QED
  BY <1>1, <1>2, PushMoves DEF Waiters

LEMMA StartToolWaiters ==
  ASSUME IInv, Waiters, NEW t \in Turns, pc[t] \in {"use", "confirm"}, StartTool(t)
  PROVE  Waiters'
<1>1. Live(t) /\ pc[t] # "human"
  BY DEF Live
<1>2. waiter = {} /\ \A u \in Turns : pc[u] # "human"
  BY <1>1, NobodyAsks
<1>3. CASE pc' = [pc EXCEPT ![t] = "tool"] /\ UNCHANGED waiter
  BY <1>1, <1>3, StillNobody DEF IInv, TypeOK
<1>4. CASE pc' = [pc EXCEPT ![t] = "wait"] /\ UNCHANGED waiter
  BY <1>1, <1>4, StillNobody DEF IInv, TypeOK
<1>5. ASSUME NEW l, PushResult(t, {}, l), UNCHANGED waiter PROVE Waiters'
  BY <1>1, <1>5, PushMoves, StillNobody
<1>6. ASSUME NEW i \in Items, NEW l \in Locals, item' = [item EXCEPT ![i] = "pending"], waiter' = waiter \cup {i},
             loc' = [loc EXCEPT ![t] = [l EXCEPT !.asking = {i}]], pc' = [pc EXCEPT ![t] = "human"]
      PROVE  Waiters'
  <2>1. pc'[t] = "human" /\ item'[i] = "pending" /\ waiter' = {i}
    BY <1>2, <1>6 DEF IInv, TypeOK
  <2>2. [l EXCEPT !.asking = {i}].asking = {i}
    BY DEF Locals
  <2>3. loc'[t] = [l EXCEPT !.asking = {i}]
    BY <1>6 DEF IInv, TypeOK
  <2> QED
    BY <2>1, <2>2, <2>3 DEF Waiters
<1>7. [loc[t] EXCEPT !.toolRan = TRUE] \in Locals
  BY AskingLocals DEF IInv, TypeOK
<1> QED
  BY <1>3, <1>4, <1>5, <1>6, <1>7 DEF StartTool

LEMMA KickoffWaiters ==
  ASSUME IInv, Waiters, NEW notes, Kickoff(notes), UNCHANGED waiter, activeRoot = NoTurn
  PROVE  Waiters'
<1>1. \A u \in Turns : ~Live(u)
  BY TurnsType DEF IInv, OneTurn
<1>2. waiter = {} /\ \A u \in Turns : pc[u] # "human"
  BY <1>1 DEF Waiters, Live
<1> QED
  BY <1>2 DEF Waiters, Kickoff, IInv, TypeOK

LEMMA StayWaiters ==
  ASSUME Waiters, UNCHANGED <<pc, loc, waiter>>, \A i \in waiter : item'[i] = item[i]
  PROVE  Waiters'
BY DEF Waiters

LEMMA UserWaiters == ASSUME IInv, Waiters, UserStep PROVE Waiters'
<1>1. CASE SendMessage
  <2>1. activeRoot = NoTurn
    BY <1>1 DEF IInv, OneTurn, SendMessage, Busy
  <2> QED
    BY <1>1, <2>1, KickoffWaiters DEF SendMessage, gazeta
<1>2. CASE Kill
  <2>1. controller \in Turns /\ Live(controller)
    BY <1>2 DEF Kill, IInv, OneTurn, TypeOK, Turns, NoTurn
  <2>2. CASE pc[controller] \in {"confirm", "human", "wait"}
    BY <1>2, <2>1, <2>2, EndWaiters DEF Kill, FailTurn
  <2>3. CASE pc[controller] \notin {"confirm", "human", "wait"}
    BY <1>2, <2>3, StayWaiters DEF Kill
  <2> QED
    BY <2>2, <2>3
<1>3. CASE CompactStart \/ CompactEnd
  BY <1>3, StayWaiters DEF CompactStart, CompactEnd, local, gazeta
<1>4. ASSUME NEW i \in Items, RespondBlocking(i) \/ AnswerTimeout(i) PROVE Waiters'
  BY <1>4, AnswerWaiters DEF RespondBlocking, AnswerTimeout
<1>5. ASSUME NEW i \in Items, Dismiss(i) PROVE Waiters'
  <2>1. CASE i \in waiter
    BY <1>5, <2>1, AnswerWaiters DEF Dismiss
  <2>2. CASE i \notin waiter
    BY <1>5, <2>2, StayWaiters DEF Dismiss, IInv, TypeOK
  <2> QED
    BY <2>1, <2>2
<1>6. ASSUME NEW i \in Items, RespondToInbox(i) PROVE Waiters'
  BY <1>6, StayWaiters DEF RespondToInbox, local, IInv, TypeOK
<1>7. ASSUME NEW i \in Items, RespondStartsTurn(i) PROVE Waiters'
  <2>1. \A j \in waiter : item'[j] = item[j]
    BY <1>7 DEF RespondStartsTurn, IInv, TypeOK
  <2> QED
    BY <1>7, KickoffWaiters DEF RespondStartsTurn
<1> QED
  BY <1>1, <1>2, <1>3, <1>4, <1>5, <1>6, <1>7 DEF UserStep

LEMMA TurnWaiters == ASSUME IInv, Waiters, NEW t \in Turns, TurnStep(t) PROVE Waiters'
<1>0. Live(t) /\ pc[t] # "human"
  BY DEF TurnStep, Prepared, Compacted, LoopTop, FinalReply, ToolReply, TooLong, RequestFails, Recompacted,
         NextUse, Approve, Deny, ToolReturns, WaitReturns, Live
<1>1. ASSUME UNCHANGED waiter,
             \/ \E b, status : EndTurn(t, b, status)
             \/ \E a, l : PushResult(t, a, l)
             \/ \E q \in PCs \ {"human"} : pc' = [pc EXCEPT ![t] = q]
      PROVE  Waiters'
  <2>1. pc'[t] # "human" /\ \A u \in Turns : u # t => pc'[u] = pc[u]
    <3>1. CASE \E b, status : EndTurn(t, b, status)
      BY <3>1 DEF EndTurn, IInv, TypeOK
    <3>2. CASE \E a, l : PushResult(t, a, l)
      BY <3>2, PushMoves
    <3>3. CASE \E q \in PCs \ {"human"} : pc' = [pc EXCEPT ![t] = q]
      BY <3>3 DEF IInv, TypeOK
    <3> QED
      BY <1>1, <3>1, <3>2, <3>3
  <2> QED
    BY <1>0, <1>1, <2>1, StillNobody
<1>2. CASE Prepared(t) \/ Compacted(t) \/ LoopTop(t) \/ Recompacted(t)
  BY <1>1, <1>2 DEF Prepared, Compacted, LoopTop, Recompacted, FailTurn, PCs, Parked, gazeta
<1>3. CASE FinalReply(t) \/ ToolReply(t) \/ TooLong(t) \/ RequestFails(t)
  BY <1>1, <1>3 DEF FinalReply, ToolReply, TooLong, RequestFails, FailTurn, PCs, Parked, gazeta
<1>4. CASE Deny(t) \/ ToolReturns(t) \/ WaitReturns(t)
  BY <1>1, <1>4 DEF Deny, ToolReturns, WaitReturns, FailTurn, gazeta
<1>5. CASE Approve(t)
  BY <1>5, StartToolWaiters DEF Approve
<1>6. CASE NextUse(t)
  <2>1. CASE aborted[t]
    BY <1>1, <1>6, <2>1 DEF NextUse, FailTurn, gazeta
  <2>2. CASE ~aborted[t] /\ pc' = [pc EXCEPT ![t] = "confirm"] /\ UNCHANGED gazeta
    BY <1>1, <2>2 DEF PCs, Parked, gazeta
  <2>3. CASE ~aborted[t] /\ PushResult(t, {}, loc[t]) /\ UNCHANGED gazeta
    BY <1>1, <2>3 DEF gazeta
  <2> QED
    BY <1>6, <2>1, <2>2, <2>3, StartToolWaiters DEF NextUse
<1> QED
  BY <1>2, <1>3, <1>4, <1>5, <1>6 DEF TurnStep

LEMMA NextWaiters == ASSUME IInv, Waiters, [Next]_vars PROVE Waiters'
<1>1. CASE UNCHANGED vars
  BY <1>1, StayWaiters DEF vars
<1>2. CASE Crash
  BY <1>2 DEF Crash, Waiters, Live, IInv, TypeOK
<1>3. CASE Restart
  BY <1>3, StayWaiters DEF Restart, gazeta, local
<1> QED
  BY <1>1, <1>2, <1>3, TurnWaiters, UserWaiters DEF Next

\* A turn that is blocked on a question waits for an item that is open, and no item has a waiter whose turn is gone:
\* through kills, time limits, dismissals, crashes.
THEOREM WaitersCanBeAnswered == Spec => []WaiterAnswerable
<1>1. Init => Waiters
  BY DEF Init, Waiters
<1>2. IInv /\ Waiters /\ [Next]_vars => Waiters'
  BY NextWaiters
<1>3. IInv /\ Waiters => WaiterAnswerable
  <2> SUFFICES ASSUME IInv, Waiters PROVE WaiterAnswerable
    OBVIOUS
  <2>1. \A i : Cardinality({i}) = 1
    BY FS_Singleton
  <2>2. CASE waiter = {} /\ \A t \in Turns : pc[t] # "human"
    BY <2>2 DEF WaiterAnswerable
  <2>3. ASSUME NEW t \in Turns, NEW i \in Items,
               pc[t] = "human" /\ loc[t].asking = {i} /\ waiter = {i} /\ item[i] = "pending"
        PROVE  WaiterAnswerable
    <3>1. \A u \in Turns : pc[u] = "human" => u = t
      BY <2>3, OneIsLive DEF Live
    <3>2. \A u \in Turns : pc[u] = "human" => loc[u].asking = {i}
      BY <2>3, <3>1
    <3> QED
      BY <2>1, <2>3, <3>2 DEF WaiterAnswerable
  <2> QED
    BY <2>2, <2>3 DEF Waiters
<1> QED
  BY <1>1, <1>2, <1>3, Invariant, PTL DEF Spec

-----------------------------------------------------------------------------
(* One answer, one channel.                                                *)

\* Where an answer can be: in the stored conversation, or in the hands of a turn.
Unanswered(i) == item[i] \in {"absent", "pending"}
Noted(i) == \E k \in DOMAIN store : i \in store[k].notes
HeldBy(t, i) == i \in loc[t].got \/ \E k \in DOMAIN fresh[t] : i \in fresh[t][k].notes

NotedOnce == \A i \in Items : \A k, m \in DOMAIN store : i \in store[k].notes /\ i \in store[m].notes => k = m
GotEmpty == \A t \in Turns : pc[t] \notin Calling => loc[t].got = {}

\* Before a question is answered its answer is nowhere; then it is in one place.
Once(i) ==
  /\ Unanswered(i) => ~Noted(i) /\ \A t \in Turns : i \notin inbox[t] /\ ~HeldBy(t, i)
  /\ \A t, u \in Turns : i \in inbox[t] /\ i \in inbox[u] => t = u
  /\ \A t, u \in Turns : i \in inbox[t] => ~HeldBy(u, i)
  /\ \A t \in Turns : i \in inbox[t] \/ HeldBy(t, i) => ~Noted(i)

OnceInv == GotEmpty /\ NotedOnce /\ \A i \in Items : Once(i)

LEMMA HeldIsLive ==
  ASSUME IInv, GotEmpty, NEW t \in Turns, NEW i, HeldBy(t, i)
  PROVE  Live(t)
<1>1. pc[t] \notin {"none", "ended"} \/ (fresh[t] = <<>> /\ loc[t].got = {})
  BY DEF IInv, Waiting, GotEmpty, Calling
<1> QED
  BY <1>1 DEF Live, HeldBy

LEMMA StoreGrows ==
  ASSUME IInv, NotedOnce, NEW batch \in Seq(Rows), store' = store \o batch,
         \A i \in Items : \A k, m \in DOMAIN batch : i \in batch[k].notes /\ i \in batch[m].notes => k = m,
         \A i \in Items : \A k \in DOMAIN batch : i \in batch[k].notes => ~Noted(i)
  PROVE  /\ NotedOnce'
         /\ \A i \in Items : Noted(i)' => Noted(i) \/ \E k \in DOMAIN batch : i \in batch[k].notes
<1>1. /\ store \in Seq(Rows) /\ Len(store) \in Nat /\ Len(batch) \in Nat
      /\ DOMAIN store = 1 .. Len(store) /\ DOMAIN batch = 1 .. Len(batch)
  BY LenProperties DEF IInv, TypeOK
<1>2. /\ Len(store') = Len(store) + Len(batch) /\ DOMAIN store' = 1 .. Len(store')
      /\ \A k \in DOMAIN store' : store'[k] = IF k <= Len(store) THEN store[k] ELSE batch[k - Len(store)]
  BY <1>1, ConcatProperties, LenProperties
<1>3. \A k \in DOMAIN store' : IF k <= Len(store) THEN k \in DOMAIN store ELSE k - Len(store) \in DOMAIN batch
  BY <1>1, <1>2
<1>4. \A i \in Items : Noted(i)' => Noted(i) \/ \E k \in DOMAIN batch : i \in batch[k].notes
  BY <1>2, <1>3 DEF Noted
<1>5. ASSUME NEW i \in Items, NEW k \in DOMAIN store', NEW m \in DOMAIN store', i \in store'[k].notes, i \in store'[m].notes
      PROVE  k = m
  <2>0. k \in Nat /\ m \in Nat
    BY <1>1, <1>2
  <2>1. CASE k <= Len(store) /\ m <= Len(store)
    BY <1>2, <1>3, <1>5, <2>1 DEF NotedOnce
  <2>2. CASE k <= Len(store) /\ ~(m <= Len(store))
    BY <1>2, <1>3, <1>5, <2>2 DEF Noted
  <2>3. CASE ~(k <= Len(store)) /\ m <= Len(store)
    BY <1>2, <1>3, <1>5, <2>3 DEF Noted
  <2>4. CASE ~(k <= Len(store)) /\ ~(m <= Len(store))
    <3>1. k - Len(store) = m - Len(store)
      BY <1>2, <1>3, <1>5, <2>4
    <3> QED
      BY <1>1, <2>0, <3>1
  <2> QED
    BY <2>1, <2>2, <2>3, <2>4
<1> QED
  BY <1>4, <1>5 DEF NotedOnce

\* Turn t moves answers along, and A are given.
LEMMA OnceMoves ==
  ASSUME IInv, OnceInv, NEW t \in Turns, NotedOnce', GotEmpty',
         NEW A \in SUBSET Items, \A i \in A : Unanswered(i) /\ ~Unanswered(i)',
         \A i \in Items : Unanswered(i)' => Unanswered(i),
         \A u \in Turns : u # t => loc'[u] = loc[u] /\ fresh'[u] = fresh[u],
         \A u \in Turns : inbox'[u] \subseteq inbox[u],
         \A i \in Items : Noted(i)' => \/ Noted(i)
                                       \/ /\ HeldBy(t, i) \/ i \in inbox[t] \/ i \in A
                                          /\ ~HeldBy(t, i)' /\ i \notin inbox'[t],
         \A i \in Items : HeldBy(t, i)' => HeldBy(t, i) \/ i \in A
  PROVE  OnceInv'
<1> SUFFICES ASSUME NEW i \in Items PROVE Once(i)'
  BY DEF OnceInv
<1>1. Once(i)
  BY DEF OnceInv
<1>2. \A u \in Turns : u # t => (HeldBy(u, i)' <=> HeldBy(u, i))
  BY DEF HeldBy
<1>3. \A u \in Turns : HeldBy(u, i) /\ HeldBy(t, i) => u = t
  BY HeldIsLive, OneIsLive DEF OnceInv
<1>4. Unanswered(i)' => ~Noted(i)' /\ \A u \in Turns : i \notin inbox'[u] /\ ~HeldBy(u, i)'
  BY <1>1, <1>2 DEF Once
<1>5. \A u, v \in Turns : i \in inbox'[u] /\ i \in inbox'[v] => u = v
  BY <1>1 DEF Once
<1>6. \A u, v \in Turns : i \in inbox'[u] => ~HeldBy(v, i)'
  BY <1>1, <1>2 DEF Once
<1>7. ASSUME NEW u \in Turns, i \in inbox'[u] \/ HeldBy(u, i)', Noted(i)'
      PROVE  FALSE
  <2>1. CASE u = t
    BY <1>1, <1>7, <2>1 DEF Once
  <2>2. CASE u # t
    BY <1>1, <1>2, <1>3, <1>7, <2>2 DEF Once
  <2> QED
    BY <2>1, <2>2
<1> QED
  BY <1>4, <1>5, <1>6, <1>7 DEF Once

\* A step that leaves the answers where they are.
LEMMA OnceStays ==
  ASSUME IInv, OnceInv, GotEmpty', NotedOnce',
         \A i \in Items : Unanswered(i)' => Unanswered(i),
         \A u \in Turns : inbox'[u] \subseteq inbox[u],
         \A i \in Items : Noted(i)' => Noted(i),
         \A i \in Items, u \in Turns : HeldBy(u, i)' => HeldBy(u, i)
  PROVE  OnceInv'
<1> SUFFICES ASSUME NEW i \in Items PROVE Once(i)'
  BY DEF OnceInv
<1>1. Once(i)
  BY DEF OnceInv
<1> QED
  BY <1>1 DEF Once

LEMMA AppendJoins ==
  ASSUME IInv, NEW r \in Rows
  PROVE  <<r>> \in Seq(Rows) /\ Append(store, r) = store \o <<r>>
BY DEF IInv, TypeOK

LEMMA SameStore == ASSUME UNCHANGED store, NotedOnce PROVE NotedOnce' /\ \A i \in Items : Noted(i)' <=> Noted(i)
BY DEF NotedOnce, Noted

LEMMA SummaryStore ==
  ASSUME IInv, NotedOnce, NEW upTo \in Nat, Summarise(upTo) \/ UNCHANGED store
  PROVE  NotedOnce' /\ \A i \in Items : Noted(i)' => Noted(i)
<1>1. CASE UNCHANGED store
  BY <1>1, SameStore
<1>2. CASE Summarise(upTo)
  <2> DEFINE r == Row("summary", NoTurn, upTo, {})
  <2>1. r \in Rows /\ r.notes = {}
    <3>1. "summary" \in Kinds /\ NoTurn \in 0 .. MaxTurns /\ {} \in SUBSET Items
      BY TurnAssumption DEF Kinds, NoTurn
    <3> QED
      BY <3>1, RowType DEF Row
  <2>2. store' = store \o <<r>> /\ <<r>> \in Seq(Rows)
    BY <1>2, <2>1, AppendJoins DEF Summarise
  <2> HIDE DEF r
  <2>3. \A k \in DOMAIN <<r>> : <<r>>[k].notes = {}
    BY <2>1
  <2> QED
    BY <2>2, <2>3, StoreGrows
<1> QED
  BY <1>1, <1>2

-----------------------------------------------------------------------------
LEMMA WholeStepNotes ==
  ASSUME NEW t \in Turns, NEW s, WholeStep(t, s)
  PROVE  DOMAIN s = 1 .. 2 /\ s[1].notes = {}
<1> PICK n \in 1 .. MaxUses, notes \in SUBSET Items :
           s = <<Row("reply", t, n, {}), Row("results", t, n, notes)>>
  BY DEF WholeStep
<1> QED
  BY DEF Row

\* A batch that a turn stores holds each answer at most once, and only answers of the turn.
Own(t, batch, S) ==
  /\ batch \in Seq(Rows)
  /\ \A i \in Items : \A k, m \in DOMAIN batch : i \in batch[k].notes /\ i \in batch[m].notes => k = m
  /\ \A i \in Items : \A k \in DOMAIN batch : i \in batch[k].notes => HeldBy(t, i) \/ i \in S

LEMMA WholeStepOwn ==
  ASSUME NEW t \in Turns, NEW S, NEW s, WholeStep(t, s), \A i \in Items : i \in s[2].notes => HeldBy(t, i) \/ i \in S
  PROVE  Own(t, s, S)
<1>1. DOMAIN s = 1 .. 2 /\ s[1].notes = {} /\ s \in Seq(Rows)
  BY WholeStepNotes, WholeStepType
<1>2. \A k \in DOMAIN s : k = 1 \/ k = 2
  BY <1>1
<1> QED
  BY <1>1, <1>2 DEF Own

LEMMA EmptyOwn == ASSUME NEW t, NEW S PROVE Own(t, <<>>, S)
BY EmptySeq DEF Own

LEMMA ClosedOwn ==
  ASSUME IInv, NEW t \in Turns
  PROVE  Own(t, CloseOpenToolCalls(t), {})
<1> DEFINE C == CloseOpenToolCalls(t)
<1>1. CASE C = <<>>
  BY <1>1, EmptyOwn
<1>2. CASE WholeStep(t, C)
  <2>1. \A i \in Items : i \in C[2].notes => HeldBy(t, i)
    <3>1. fresh[t] \in Seq(Rows) /\ (fresh[t] = <<>> \/ pc[t] \in Calling \/ WholeStep(t, fresh[t]))
      BY DEF IInv, TypeOK, Waiting, PCs, Parked, Calling
    <3>2. CASE ~OpenReply(fresh[t])
      <4>1. C = fresh[t]
        BY <3>2 DEF CloseOpenToolCalls
      <4>2. 2 \in DOMAIN fresh[t]
        BY <1>2, <4>1, WholeStepNotes
      <4> HIDE DEF C
      <4> QED
        BY <4>1, <4>2 DEF HeldBy
    <3>3. CASE OpenReply(fresh[t])
      <4>1. pc[t] \in Calling
        <5>1. fresh[t] # <<>>
          BY <3>3 DEF OpenReply
        <5>2. ~WholeStep(t, fresh[t])
          <6> SUFFICES ASSUME WholeStep(t, fresh[t]) PROVE FALSE
            OBVIOUS
          <6> PICK n \in 1 .. MaxUses, notes \in SUBSET Items :
                     fresh[t] = <<Row("reply", t, n, {}), Row("results", t, n, notes)>>
            BY DEF WholeStep
          <6>1. Len(fresh[t]) = 2 /\ fresh[t][2] = Row("results", t, n, notes)
            OBVIOUS
          <6> QED
            BY <3>3, <6>1 DEF OpenReply, Row
        <5> QED
          BY <3>1, <5>1, <5>2
      <4>2. Len(fresh[t]) = 1 /\ fresh[t] = <<Row("reply", t, loc[t].uses, {})>>
        <5>1. fresh[t] = <<Row("reply", t, loc[t].uses, {})>>
          BY <4>1 DEF IInv, Waiting
        <5> QED
          BY <5>1
      <4>3. C = <<Row("reply", t, loc[t].uses, {}), Row("results", t, fresh[t][1].n, loc[t].got)>>
        BY <3>3, <4>2, AppendPair DEF CloseOpenToolCalls
      <4>4. C[2].notes = loc[t].got
        BY <4>3 DEF Row
      <4> HIDE DEF C
      <4> QED
        BY <4>4 DEF HeldBy
    <3> QED
      BY <3>2, <3>3
  <2> QED
    BY <1>2, <2>1, WholeStepOwn
<1> QED
  BY <1>1, <1>2, ClosedShape

\* What a turn stores at its end.
LEMMA EndOnce ==
  ASSUME IInv, OnceInv, NEW t \in Turns, NEW batch, NEW status, EndTurn(t, batch, status), Own(t, batch, {}),
         UNCHANGED <<inbox, item>>
  PROVE  OnceInv'
<1>1. /\ loc'[t] = FreshLocals /\ fresh'[t] = <<>> /\ pc'[t] = "ended"
      /\ \A u \in Turns : u # t => loc'[u] = loc[u] /\ fresh'[u] = fresh[u] /\ pc'[u] = pc[u]
  BY DEF EndTurn, IInv, TypeOK
<1>2. \A i : ~HeldBy(t, i)'
  BY <1>1 DEF HeldBy, FreshLocals
<1>3. GotEmpty'
  BY <1>1 DEF GotEmpty, OnceInv, FreshLocals
<1>4. \A i \in Items : HeldBy(t, i) => ~Noted(i) /\ i \notin inbox[t]
  BY DEF OnceInv, Once
<1>5. store' = store \o batch /\ batch \in Seq(Rows)
  BY DEF EndTurn, Own
<1>6. /\ NotedOnce'
      /\ \A i \in Items : Noted(i)' => Noted(i) \/ \E k \in DOMAIN batch : i \in batch[k].notes
  BY <1>4, <1>5, StoreGrows DEF OnceInv, Own
<1>7. \A i \in Items : Noted(i)' => Noted(i) \/ (HeldBy(t, i) /\ i \notin inbox'[t])
  BY <1>4, <1>6 DEF Own
<1>8. \A i : Unanswered(i)' <=> Unanswered(i)
  BY DEF Unanswered
<1> DEFINE A == {}
<1>9. A \in SUBSET Items /\ \A i \in A : FALSE
  OBVIOUS
<1> HIDE DEF A
<1> QED
  BY <1>1, <1>2, <1>3, <1>6, <1>7, <1>8, <1>9, OnceMoves

LEMMA FailOnce ==
  ASSUME IInv, OnceInv, NEW t \in Turns, NEW status, FailTurn(t, status), UNCHANGED <<inbox, item>>
  PROVE  OnceInv'
BY EndOnce, ClosedOwn DEF FailTurn

LEMMA PushOnce ==
  ASSUME IInv, OnceInv, NEW t \in Turns, pc[t] \in Calling, NEW A \in SUBSET Items,
         NEW l \in Locals, l.got = loc[t].got, l.uses = loc[t].uses, PushResult(t, A, l),
         \A i \in A : Unanswered(i) /\ ~Unanswered(i)',
         \A i \in Items : Unanswered(i)' => Unanswered(i),
         \A u \in Turns : inbox'[u] \subseteq inbox[u], UNCHANGED store
  PROVE  OnceInv'
<1> DEFINE full == l.pend + 1 = l.uses
           got == l.got \cup A
           p == [l EXCEPT !.pend = @ + 1, !.got = IF full THEN {} ELSE got, !.asking = {}]
<1>1. /\ loc'[t] = p /\ pc'[t] = IF full THEN "top" ELSE "use"
      /\ fresh'[t] = IF full THEN Append(fresh[t], Row("results", t, l.uses, got)) ELSE fresh[t]
      /\ \A u \in Turns : u # t => loc'[u] = loc[u] /\ fresh'[u] = fresh[u] /\ pc'[u] = pc[u]
  BY DEF PushResult, IInv, TypeOK
<1>2. p.got = IF full THEN {} ELSE got
  BY DEF Locals
<1> HIDE DEF p
<1>3. GotEmpty'
  BY <1>1, <1>2 DEF GotEmpty, OnceInv, Calling
<1>4. fresh[t] = <<Row("reply", t, l.uses, {})>>
  BY DEF IInv, Waiting
<1>5. \A i \in Items : HeldBy(t, i)' => HeldBy(t, i) \/ i \in A
  <2>1. CASE full
    <3> DEFINE a == Row("reply", t, l.uses, {})
               b == Row("results", t, l.uses, got)
    <3>1. fresh'[t] = <<a, b>>
      BY <1>1, <1>4, <2>1, AppendPair
    <3>2. a.notes = {} /\ b.notes = got
      BY DEF Row
    <3>3. loc'[t].got = {}
      BY <1>1, <1>2, <2>1
    <3> HIDE DEF a, b
    <3>4. \A k \in DOMAIN <<a, b>> : <<a, b>>[k].notes \subseteq got
      BY <3>2
    <3> QED
      BY <3>1, <3>3, <3>4 DEF HeldBy
  <2>2. CASE ~full
    <3>1. loc'[t].got = got /\ fresh'[t] = fresh[t]
      BY <1>1, <1>2, <2>2
    <3> QED
      BY <3>1 DEF HeldBy
  <2> QED
    BY <2>1, <2>2
<1>6. NotedOnce' /\ \A i \in Items : Noted(i)' <=> Noted(i)
  BY SameStore DEF OnceInv
<1> QED
  BY <1>1, <1>3, <1>5, <1>6, OnceMoves

LEMMA KickoffOnce ==
  ASSUME IInv, OnceInv, NEW A \in SUBSET Items, Kickoff(A), \A i, j \in A : i = j, UNCHANGED inbox,
         \A i \in A : Unanswered(i) /\ ~Unanswered(i)',
         \A i \in Items : Unanswered(i)' => Unanswered(i)
  PROVE  OnceInv'
<1>0. turnCount + 1 \in Turns
  BY TurnAssumption DEF IInv, TypeOK, Kickoff, Turns
<1> PICK t \in Turns : t = turnCount + 1
  BY <1>0
<1> DEFINE r == Row("user", t, 0, A)
<1>1. t \in Turns /\ t \in 0 .. MaxTurns
  BY TurnsType
<1>2. r \in Rows /\ r.notes = A
  BY <1>1, RowType DEF Row, Kinds
<1>3. /\ store' = store \o <<r>> /\ <<r>> \in Seq(Rows)
  BY <1>2, AppendJoins DEF Kickoff
<1> HIDE DEF r
<1>4. DOMAIN <<r>> = {1} /\ <<r>>[1].notes = A
  BY <1>2
<1>5. \A i \in A : ~Noted(i) /\ i \notin inbox[t]
  BY <1>1 DEF OnceInv, Once
<1>6. NotedOnce' /\ \A i \in Items : Noted(i)' => Noted(i) \/ i \in A
  BY <1>3, <1>4, <1>5, StoreGrows DEF OnceInv
<1>7. /\ loc'[t].got = {} /\ fresh' = fresh /\ pc'[t] = "prep"
      /\ \A u \in Turns : u # t => loc'[u] = loc[u] /\ pc'[u] = pc[u]
  <2>1. [FreshLocals EXCEPT !.msg = Len(store) + 1].got = {}
    BY DEF FreshLocals
  <2> QED
    BY <1>1, <2>1 DEF Kickoff, IInv, TypeOK
<1>8. GotEmpty'
  BY <1>7 DEF GotEmpty, OnceInv
<1>9. \A i \in Items : HeldBy(t, i)' => HeldBy(t, i)
  BY <1>7 DEF HeldBy
<1>10. \A i \in A : ~HeldBy(t, i)
  BY <1>1 DEF OnceInv, Once
<1> QED
  BY <1>1, <1>5, <1>6, <1>7, <1>8, <1>9, <1>10, OnceMoves

-----------------------------------------------------------------------------
LEMMA NoneOnce ==
  ASSUME IInv, OnceInv, UNCHANGED <<pc, loc, fresh, inbox>>, \A i \in Items : Unanswered(i)' => Unanswered(i),
         NotedOnce', \A i \in Items : Noted(i)' => Noted(i)
  PROVE  OnceInv'
<1>1. GotEmpty'
  BY DEF OnceInv, GotEmpty
<1>2. \A i \in Items, u \in Turns : HeldBy(u, i)' => HeldBy(u, i)
  BY DEF HeldBy
<1> QED
  BY <1>1, <1>2, OnceStays

LEMMA Answering == \A i : UNCHANGED item => (Unanswered(i)' <=> Unanswered(i))
BY DEF Unanswered

LEMMA ToInboxOnce ==
  ASSUME IInv, OnceInv, NEW i \in Items, RespondToInbox(i)
  PROVE  OnceInv'
<1> DEFINE target == IF runStatus[asker[i]] \in ActiveStatuses THEN asker[i] ELSE activeRoot
<1>0. target \in 0 .. MaxTurns /\ target # NoTurn
  BY DEF RespondToInbox, IInv, TypeOK
<1>1. PICK r \in Turns : r = target
  BY <1>0 DEF Turns, NoTurn
<1> HIDE DEF target
<1>2. /\ inbox'[r] = inbox[r] \cup {i} /\ \A u \in Turns : u # r => inbox'[u] = inbox[u]
      /\ item'[i] = "responded" /\ \A j \in Items : j # i => item'[j] = item[j]
      /\ UNCHANGED <<pc, loc, fresh, store>> /\ Unanswered(i)
  BY <1>1 DEF RespondToInbox, IInv, TypeOK, local, Unanswered, target
<1>3. GotEmpty' /\ NotedOnce' /\ \A j \in Items : Noted(j)' <=> Noted(j)
  BY <1>2, SameStore DEF OnceInv, GotEmpty
<1>4. ASSUME NEW j \in Items PROVE Once(j)'
  <2>1. Once(j) /\ \A u \in Turns : HeldBy(u, j)' <=> HeldBy(u, j)
    BY <1>2 DEF OnceInv, HeldBy
  <2>2. CASE j # i
    <3>1. (Unanswered(j)' <=> Unanswered(j)) /\ \A u \in Turns : j \in inbox'[u] <=> j \in inbox[u]
      BY <1>2, <2>2 DEF Unanswered
    <3> QED
      BY <1>3, <2>1, <3>1 DEF Once
  <2>3. CASE j = i
    <3>1. ~Unanswered(j)' /\ ~Noted(j) /\ \A u \in Turns : ~HeldBy(u, j) /\ (j \in inbox'[u] <=> u = r)
      BY <1>2, <2>1, <2>3 DEF Unanswered, Once
    <3> QED
      BY <1>3, <2>1, <3>1 DEF Once
  <2> QED
    BY <2>2, <2>3
<1> QED
  BY <1>3, <1>4 DEF OnceInv

LEMMA UserOnce == ASSUME IInv, OnceInv, UserStep PROVE OnceInv'
<1>1. CASE SendMessage
  BY <1>1, Answering, KickoffOnce DEF SendMessage, gazeta
<1>2. CASE Kill
  <2>1. controller \in Turns /\ UNCHANGED <<inbox, item>>
    BY <1>2 DEF Kill, IInv, TypeOK, Turns, NoTurn
  <2>2. CASE pc[controller] \in {"confirm", "human", "wait"}
    BY <1>2, <2>1, <2>2, FailOnce DEF Kill
  <2>3. CASE pc[controller] \notin {"confirm", "human", "wait"}
    BY <1>2, <2>1, <2>3, Answering, SameStore, NoneOnce DEF Kill, OnceInv
  <2> QED
    BY <2>2, <2>3
<1>3. CASE CompactStart
  BY <1>3, Answering, SameStore, NoneOnce DEF CompactStart, local, gazeta, runs, OnceInv
<1>4. CASE CompactEnd
  <2>1. compacting \in Nat /\ UNCHANGED <<pc, loc, fresh, inbox, item>>
    BY <1>4 DEF CompactEnd, local, gazeta, runs, IInv, TypeOK
  <2>2. Summarise(compacting) \/ UNCHANGED store
    BY <1>4 DEF CompactEnd
  <2> QED
    BY <2>1, <2>2, Answering, SummaryStore, NoneOnce DEF OnceInv
<1>5. ASSUME NEW i \in Items, NEW A \in SUBSET {i}, UNCHANGED <<inbox, store>>,
             NEW t \in Turns, pc[t] = "human", PushResult(t, A, loc[t]),
             \A j \in A : Unanswered(j) /\ ~Unanswered(j)', \A j \in Items : Unanswered(j)' => Unanswered(j)
      PROVE  OnceInv'
  <2>1. pc[t] \in Calling /\ loc[t] \in Locals /\ A \in SUBSET Items
    BY <1>5 DEF Calling, IInv, TypeOK
  <2> QED
    BY <1>5, <2>1, PushOnce
<1>6. ASSUME NEW i \in Items, RespondBlocking(i) PROVE OnceInv'
  <2>1. \A j \in {i} : Unanswered(j) /\ ~Unanswered(j)'
    BY <1>6 DEF RespondBlocking, Unanswered, IInv, TypeOK
  <2>2. \A j \in Items : Unanswered(j)' => Unanswered(j)
    BY <1>6 DEF RespondBlocking, Unanswered, IInv, TypeOK
  <2> QED
    BY <1>5, <1>6, <2>1, <2>2 DEF RespondBlocking, runs
<1>7. ASSUME NEW i \in Items, AnswerTimeout(i) PROVE OnceInv'
  <2>1. \A j \in Items : Unanswered(j)' => Unanswered(j)
    BY <1>7 DEF AnswerTimeout, Unanswered, IInv, TypeOK
  <2> QED
    BY <1>5, <1>7, <2>1 DEF AnswerTimeout, runs
<1>8. ASSUME NEW i \in Items, Dismiss(i) PROVE OnceInv'
  <2>1. \A j \in Items : Unanswered(j)' => Unanswered(j)
    BY <1>8 DEF Dismiss, Unanswered, IInv, TypeOK
  <2>2. CASE i \in waiter
    <3>1. PICK t \in Turns : pc[t] = "human" /\ PushResult(t, {}, loc[t])
      BY <1>8, <2>2 DEF Dismiss
    <3>2. UNCHANGED <<inbox, store>>
      BY <1>8 DEF Dismiss, runs
    <3> DEFINE A == {}
    <3>3. A \in SUBSET {i} /\ (\A j \in A : Unanswered(j) /\ ~Unanswered(j)') /\ PushResult(t, A, loc[t])
      BY <3>1
    <3> HIDE DEF A
    <3> QED
      BY <1>5, <2>1, <3>1, <3>2, <3>3
  <2>3. CASE i \notin waiter
    BY <1>8, <2>1, <2>3, SameStore, NoneOnce DEF Dismiss, runs, OnceInv
  <2> QED
    BY <2>2, <2>3
<1>9. ASSUME NEW i \in Items, RespondToInbox(i) PROVE OnceInv'
  BY <1>9, ToInboxOnce
<1>10. ASSUME NEW i \in Items, RespondStartsTurn(i) PROVE OnceInv'
  <2>1. \A j \in {i} : Unanswered(j) /\ ~Unanswered(j)'
    BY <1>10 DEF RespondStartsTurn, Unanswered, IInv, TypeOK
  <2>2. \A j \in Items : Unanswered(j)' => Unanswered(j)
    BY <1>10 DEF RespondStartsTurn, Unanswered, IInv, TypeOK
  <2> QED
    BY <1>10, <2>1, <2>2, KickoffOnce DEF RespondStartsTurn
<1> QED
  BY <1>1, <1>2, <1>3, <1>4, <1>6, <1>7, <1>8, <1>9, <1>10 DEF UserStep

-----------------------------------------------------------------------------
\* A turn goes on and what it was told stays with it.
LEMMA GoesOnOnce ==
  ASSUME IInv, OnceInv, NEW t \in Turns, NEW q, pc' = [pc EXCEPT ![t] = q],
         NEW l, l.got = loc[t].got, loc' = [loc EXCEPT ![t] = l], q \in Calling \/ l.got = {},
         \A i \in Items : HeldBy(t, i)' => HeldBy(t, i), \A u \in Turns : u # t => fresh'[u] = fresh[u],
         \A u \in Turns : inbox'[u] \subseteq inbox[u], \A i \in Items : Unanswered(i)' => Unanswered(i),
         NotedOnce', \A i \in Items : Noted(i)' => Noted(i)
  PROVE  OnceInv'
<1>1. \A u \in Turns : loc'[u].got = loc[u].got /\ (u # t => pc'[u] = pc[u]) /\ pc'[t] = q
  BY DEF IInv, TypeOK
<1>2. GotEmpty'
  BY <1>1 DEF OnceInv, GotEmpty
<1>3. \A i \in Items, u \in Turns : HeldBy(u, i)' => HeldBy(u, i)
  BY <1>1 DEF HeldBy
<1> QED
  BY <1>2, <1>3, OnceStays

LEMMA GotOf ==
  ASSUME NEW l \in Locals, NEW u, NEW n, NEW b
  PROVE  /\ [l EXCEPT !.upTo = u].got = l.got
         /\ [l EXCEPT !.uses = n, !.pend = 0].got = l.got
         /\ [l EXCEPT !.toolRan = TRUE].got = l.got
         /\ [l EXCEPT !.second = TRUE, !.steps = 0, !.upTo = 0].got = l.got
         /\ [l EXCEPT !.steps = @ + 1, !.storedAny = b].got = l.got
<1>1. [l EXCEPT !.upTo = u].got = l.got  BY DEF Locals
<1>2. [l EXCEPT !.uses = n, !.pend = 0].got = l.got  BY DEF Locals
<1>3. [l EXCEPT !.toolRan = TRUE].got = l.got  BY DEF Locals
<1>4. [l EXCEPT !.second = TRUE, !.steps = 0, !.upTo = 0].got = l.got  BY DEF Locals
<1>5. [l EXCEPT !.steps = @ + 1, !.storedAny = b].got = l.got  BY DEF Locals
<1> QED  BY <1>1, <1>2, <1>3, <1>4, <1>5

LEMMA LoopTopOnce == ASSUME IInv, OnceInv, NEW t \in Turns, LoopTop(t) PROVE OnceInv'
<1>0. pc[t] = "top" /\ UNCHANGED item
  BY DEF LoopTop, gazeta
<1>1. CASE aborted[t]
  BY <1>0, <1>1, FailOnce DEF LoopTop
<1>2. CASE ~aborted[t]
  <2> DEFINE batch == WithInbox(t)
  <2>1. Own(t, batch, inbox[t])
    <3>1. CASE fresh[t] = <<>>
      BY <1>0, <3>1, WithInboxShape, EmptyOwn
    <3>2. CASE fresh[t] # <<>>
      <4>1. WholeStep(t, batch) /\ WholeStep(t, fresh[t])
        BY <1>0, <3>2, WithInboxShape DEF IInv, Waiting
      <4>2. PICK n \in 1 .. MaxUses, notes \in SUBSET Items :
                    fresh[t] = <<Row("reply", t, n, {}), Row("results", t, n, notes)>>
        BY <4>1 DEF WholeStep
      <4>3. Len(fresh[t]) = 2
        BY <4>2
      <4>4. batch = <<Row("reply", t, n, {}), Row("results", t, n, notes \cup inbox[t])>>
        <5>1. WithInbox(t) = [fresh[t] EXCEPT ![2].notes = @ \cup inbox[t]]
          BY <4>3 DEF WithInbox
        <5>2. WithInbox(t) = [<<Row("reply", t, n, {}), Row("results", t, n, notes)>>
                                EXCEPT ![2].notes = @ \cup inbox[t]]
          BY <4>2, <5>1
        <5>3. [<<Row("reply", t, n, {}), Row("results", t, n, notes)>> EXCEPT ![2].notes = @ \cup inbox[t]]
                = <<Row("reply", t, n, {}), Row("results", t, n, notes \cup inbox[t])>>
          BY NotesAdded
        <5> QED
          BY <5>2, <5>3
      <4>5. batch[2].notes = notes \cup inbox[t] /\ fresh[t][2].notes = notes /\ 2 \in DOMAIN fresh[t]
        BY <4>2, <4>4 DEF Row
      <4> HIDE DEF batch
      <4>6. \A i \in Items : i \in batch[2].notes => HeldBy(t, i) \/ i \in inbox[t]
        BY <4>5 DEF HeldBy
      <4> QED
        BY <4>1, <4>6, WholeStepOwn
    <3> QED
      BY <3>1, <3>2
  <2> DEFINE l == [loc[t] EXCEPT !.steps = @ + 1, !.storedAny = @ \/ fresh[t] # <<>>]
  <2>2. loc[t] \in Locals /\ l.got = loc[t].got /\ loc[t].got = {}
    BY <1>0, GotOf DEF IInv, TypeOK, OnceInv, GotEmpty, Calling
  <2>3. /\ loc'[t] = l /\ fresh'[t] = <<>> /\ inbox'[t] = {} /\ pc'[t] = "llm"
        /\ \A u \in Turns : u # t => loc'[u] = loc[u] /\ fresh'[u] = fresh[u] /\ pc'[u] = pc[u] /\ inbox'[u] = inbox[u]
        /\ store' = store \o batch
    BY <1>2 DEF LoopTop, IInv, TypeOK
  <2> HIDE DEF l, batch
  <2>4. GotEmpty'
    BY <2>2, <2>3 DEF GotEmpty, OnceInv
  <2>5. \A i : ~HeldBy(t, i)'
    BY <2>2, <2>3 DEF HeldBy
  <2>6. \A i \in Items : \A k \in DOMAIN batch : i \in batch[k].notes => ~Noted(i)
    BY <2>1 DEF Own, OnceInv, Once
  <2>7. NotedOnce' /\ \A i \in Items : Noted(i)' => Noted(i) \/ \E k \in DOMAIN batch : i \in batch[k].notes
    BY <2>1, <2>3, <2>6, StoreGrows DEF Own, OnceInv
  <2>8. \A i \in Items : Noted(i)' => Noted(i) \/ HeldBy(t, i) \/ i \in inbox[t]
    BY <2>1, <2>7 DEF Own
  <2>9. \A i \in Items : Unanswered(i)' => Unanswered(i)
    BY <1>0, Answering
  <2> DEFINE A == {}
  <2>10. A \in SUBSET Items /\ \A i \in A : FALSE
    OBVIOUS
  <2>11. \A u \in Turns : inbox'[u] \subseteq inbox[u]
    BY <2>3
  <2> HIDE DEF A
  <2> QED
    BY <2>3, <2>4, <2>5, <2>7, <2>8, <2>9, <2>10, <2>11, OnceMoves
<1> QED
  BY <1>1, <1>2

-----------------------------------------------------------------------------
LEMMA OnOnce ==
  ASSUME IInv, OnceInv, NEW t \in Turns, NEW q, pc' = [pc EXCEPT ![t] = q],
         NEW l, l.got = loc[t].got, loc' = [loc EXCEPT ![t] = l], q \in Calling \/ l.got = {},
         UNCHANGED fresh, \A u \in Turns : inbox'[u] \subseteq inbox[u],
         \A i \in Items : Unanswered(i)' => Unanswered(i),
         NotedOnce', \A i \in Items : Noted(i)' => Noted(i)
  PROVE  OnceInv'
<1>1. loc'[t] = l
  BY DEF IInv, TypeOK
<1>2. \A i \in Items : HeldBy(t, i)' => HeldBy(t, i)
  BY <1>1 DEF HeldBy
<1> QED
  BY <1>2, GoesOnOnce

LEMMA NothingHeld == ASSUME OnceInv, NEW t \in Turns, pc[t] \notin Calling PROVE loc[t].got = {}
BY DEF OnceInv, GotEmpty

LEMMA PushNothing ==
  ASSUME IInv, OnceInv, NEW t \in Turns, pc[t] \in Calling,
         NEW l \in Locals, l.got = loc[t].got, l.uses = loc[t].uses, PushResult(t, {}, l),
         \A i \in Items : Unanswered(i)' => Unanswered(i),
         \A u \in Turns : inbox'[u] \subseteq inbox[u], UNCHANGED store
  PROVE  OnceInv'
<1> DEFINE A == {}
<1>1. A \in SUBSET Items /\ (\A i \in A : Unanswered(i) /\ ~Unanswered(i)') /\ PushResult(t, A, l)
  OBVIOUS
<1> HIDE DEF A
<1> QED
  BY <1>1, PushOnce

LEMMA PreparedOnce == ASSUME IInv, OnceInv, NEW t \in Turns, Prepared(t) PROVE OnceInv'
<1>1. pc[t] = "prep" /\ loc[t].got = {} /\ loc[t] \in Locals /\ UNCHANGED <<item, inbox>>
  BY NothingHeld DEF Prepared, Calling, gazeta, IInv, TypeOK
<1>2. CASE FailTurn(t, IF aborted[t] THEN "aborted" ELSE "error")
  BY <1>1, <1>2, FailOnce
<1>3. CASE pc' = [pc EXCEPT ![t] = "top"] /\ UNCHANGED <<loc, store, fresh>>
  <2>1. loc' = [loc EXCEPT ![t] = loc[t]]
    BY <1>3 DEF IInv, TypeOK
  <2> QED
    BY <1>1, <1>3, <2>1, Answering, SameStore, OnOnce DEF OnceInv
<1>4. ASSUME NEW u, pc' = [pc EXCEPT ![t] = "compact"], loc' = [loc EXCEPT ![t].upTo = u], UNCHANGED <<store, fresh>>
      PROVE  OnceInv'
  <2> DEFINE l == [loc[t] EXCEPT !.upTo = u]
  <2>1. l.got = loc[t].got /\ loc' = [loc EXCEPT ![t] = l]
    BY <1>1, <1>4, GotOf DEF IInv, TypeOK
  <2> HIDE DEF l
  <2> QED
    BY <1>1, <1>4, <2>1, Answering, SameStore, OnOnce DEF OnceInv
<1> QED
  BY <1>2, <1>3, <1>4 DEF Prepared

LEMMA CompactedOnce == ASSUME IInv, OnceInv, NEW t \in Turns, Compacted(t) PROVE OnceInv'
<1>1. pc[t] = "compact" /\ loc[t].got = {} /\ loc[t] \in Locals /\ loc[t].upTo \in Nat /\ UNCHANGED <<item, inbox>>
  BY NothingHeld DEF Compacted, Calling, gazeta, IInv, TypeOK, Locals
<1>2. CASE FailTurn(t, "aborted")
  BY <1>1, <1>2, FailOnce
<1>3. CASE /\ pc' = [pc EXCEPT ![t] = "top"]
           /\ Summarise(loc[t].upTo) \/ UNCHANGED store
           /\ loc' = [loc EXCEPT ![t].upTo = 0]
           /\ UNCHANGED <<fresh, runStatus, srv>>
  <2> DEFINE l == [loc[t] EXCEPT !.upTo = 0]
  <2>1. l.got = loc[t].got /\ loc' = [loc EXCEPT ![t] = l]
    BY <1>1, <1>3, GotOf DEF IInv, TypeOK
  <2> HIDE DEF l
  <2>2. NotedOnce' /\ \A i \in Items : Noted(i)' => Noted(i)
    BY <1>1, <1>3, SummaryStore DEF OnceInv
  <2> QED
    BY <1>1, <1>3, <2>1, <2>2, Answering, OnOnce
<1> QED
  BY <1>2, <1>3 DEF Compacted

LEMMA RecompactedOnce == ASSUME IInv, OnceInv, NEW t \in Turns, Recompacted(t) PROVE OnceInv'
<1>1. pc[t] = "recompact" /\ loc[t].got = {} /\ loc[t] \in Locals /\ loc[t].upTo \in Nat /\ UNCHANGED <<item, inbox>>
  BY NothingHeld DEF Recompacted, Calling, gazeta, IInv, TypeOK, Locals
<1>2. CASE FailTurn(t, IF aborted[t] THEN "aborted" ELSE "error")
  BY <1>1, <1>2, FailOnce
<1>3. CASE /\ Summarise(loc[t].upTo)
           /\ pc' = [pc EXCEPT ![t] = "top"]
           /\ loc' = [loc EXCEPT ![t].second = TRUE, ![t].steps = 0, ![t].upTo = 0]
           /\ UNCHANGED <<fresh, runStatus, srv>>
  <2> DEFINE l == [loc[t] EXCEPT !.second = TRUE, !.steps = 0, !.upTo = 0]
  <2>1. l.got = loc[t].got /\ loc' = [loc EXCEPT ![t] = l]
    BY <1>1, <1>3, GotOf DEF IInv, TypeOK
  <2> HIDE DEF l
  <2>2. NotedOnce' /\ \A i \in Items : Noted(i)' => Noted(i)
    BY <1>1, <1>3, SummaryStore DEF OnceInv
  <2> QED
    BY <1>1, <1>3, <2>1, <2>2, Answering, OnOnce
<1> QED
  BY <1>2, <1>3 DEF Recompacted

LEMMA ReplyOnce ==
  ASSUME IInv, OnceInv, NEW t \in Turns, FinalReply(t) \/ ToolReply(t) \/ TooLong(t) \/ RequestFails(t)
  PROVE  OnceInv'
<1>1. /\ pc[t] = "llm" /\ loc[t].got = {} /\ loc[t] \in Locals /\ UNCHANGED <<item, inbox>> /\ fresh[t] = <<>>
  BY NothingHeld DEF FinalReply, ToolReply, TooLong, RequestFails, Calling, gazeta, runs, IInv, TypeOK, Waiting
<1>2. CASE FinalReply(t)
  <2> DEFINE r == Row("reply", t, 0, {})
  <2>1. EndTurn(t, <<r>>, "done") /\ <<r>> \in Seq(Rows)
    BY <1>1, <1>2, AppendToEmpty, ReplyType, TurnAssumption DEF FinalReply
  <2>2. r.notes = {}
    BY DEF Row
  <2> HIDE DEF r
  <2>3. Own(t, <<r>>, {})
    BY <2>1, <2>2 DEF Own
  <2> QED
    BY <1>1, <2>1, <2>3, EndOnce
<1>3. CASE ToolReply(t)
  <2>1. PICK n \in 1 .. MaxUses :
           /\ fresh' = [fresh EXCEPT ![t] = Append(fresh[t], Row("reply", t, n, {}))]
           /\ loc' = [loc EXCEPT ![t] = [loc[t] EXCEPT !.uses = n, !.pend = 0]]
    <3>1. TypeOK
      BY DEF IInv
    <3> QED
      BY <1>3, <3>1 DEF ToolReply, TypeOK
  <2> DEFINE l == [loc[t] EXCEPT !.uses = n, !.pend = 0]
             r == Row("reply", t, n, {})
  <2>2. l.got = loc[t].got /\ r.notes = {}
    BY <1>1, GotOf DEF Row
  <2>3. loc' = [loc EXCEPT ![t] = l] /\ fresh' = [fresh EXCEPT ![t] = <<r>>]
    BY <1>1, <2>1, AppendToEmpty
  <2> HIDE DEF l, r
  <2>4. loc'[t] = l /\ fresh'[t] = <<r>> /\ \A u \in Turns : u # t => fresh'[u] = fresh[u]
    BY <2>3 DEF IInv, TypeOK
  <2>5. \A i \in Items : HeldBy(t, i)' => HeldBy(t, i)
    BY <2>2, <2>4 DEF HeldBy
  <2>6. pc' = [pc EXCEPT ![t] = "use"] /\ UNCHANGED store
    BY <1>3 DEF ToolReply
  <2> QED
    BY <1>1, <2>2, <2>3, <2>4, <2>5, <2>6, Answering, SameStore, GoesOnOnce DEF OnceInv
<1>4. CASE TooLong(t)
  <2>1. PICK u : loc' = [loc EXCEPT ![t] = [loc[t] EXCEPT !.upTo = u]]
    BY <1>4 DEF TooLong, IInv, TypeOK
  <2> DEFINE l == [loc[t] EXCEPT !.upTo = u]
  <2>2. l.got = loc[t].got /\ loc' = [loc EXCEPT ![t] = l]
    BY <1>1, <2>1, GotOf
  <2> HIDE DEF l
  <2>3. pc' = [pc EXCEPT ![t] = "recompact"] /\ UNCHANGED <<store, fresh>>
    BY <1>4 DEF TooLong
  <2> QED
    BY <1>1, <2>2, <2>3, Answering, SameStore, OnOnce DEF OnceInv
<1>5. CASE RequestFails(t)
  BY <1>1, <1>5, FailOnce DEF RequestFails
<1> QED
  BY <1>2, <1>3, <1>4, <1>5

LEMMA StartToolOnce ==
  ASSUME IInv, OnceInv, NEW t \in Turns, pc[t] \in {"use", "confirm"}, StartTool(t), UNCHANGED <<store, inbox>>
  PROVE  OnceInv'
<1> DEFINE l == [loc[t] EXCEPT !.toolRan = TRUE]
<1>1. loc[t] \in Locals /\ pc[t] \in Calling
  BY DEF IInv, TypeOK, Calling
<1>2. l \in Locals /\ l.got = loc[t].got /\ l.uses = loc[t].uses
  BY <1>1, AskingLocals
<1>3. \A S : [l EXCEPT !.asking = S].got = l.got
  BY <1>2 DEF Locals
<1> HIDE DEF l
<1>4. NotedOnce' /\ \A i \in Items : Noted(i)' => Noted(i)
  BY SameStore DEF OnceInv
<1>5. CASE loc' = [loc EXCEPT ![t] = l] /\ pc' = [pc EXCEPT ![t] = "tool"] /\ UNCHANGED <<fresh, item>>
  BY <1>2, <1>4, <1>5, Answering, OnOnce DEF Calling
<1>6. CASE loc' = [loc EXCEPT ![t] = l] /\ pc' = [pc EXCEPT ![t] = "wait"] /\ UNCHANGED <<fresh, item>>
  BY <1>2, <1>4, <1>6, Answering, OnOnce DEF Calling
<1>7. ASSUME NEW i \in Items, item[i] = "absent", item' = [item EXCEPT ![i] = "pending"],
             \/ /\ loc' = [loc EXCEPT ![t] = [l EXCEPT !.asking = {i}]]
                /\ pc' = [pc EXCEPT ![t] = "human"]
                /\ UNCHANGED fresh
             \/ PushResult(t, {}, l)
      PROVE  OnceInv'
  <2>1. \A j \in Items : Unanswered(j)' => Unanswered(j)
    BY <1>7 DEF Unanswered, IInv, TypeOK
  <2>2. CASE PushResult(t, {}, l)
    BY <1>1, <1>2, <2>1, <2>2, PushNothing
  <2>3. CASE /\ loc' = [loc EXCEPT ![t] = [l EXCEPT !.asking = {i}]]
             /\ pc' = [pc EXCEPT ![t] = "human"]
             /\ UNCHANGED fresh
    <3> DEFINE k == [l EXCEPT !.asking = {i}]
    <3>1. k.got = loc[t].got /\ loc' = [loc EXCEPT ![t] = k]
      BY <1>2, <1>3, <2>3
    <3> HIDE DEF k
    <3> QED
      BY <1>4, <2>1, <2>3, <3>1, OnOnce DEF Calling
  <2> QED
    BY <1>7, <2>2, <2>3
<1> QED
  BY <1>5, <1>6, <1>7 DEF StartTool, l

LEMMA CallOnce ==
  ASSUME IInv, OnceInv, NEW t \in Turns, NextUse(t) \/ Approve(t) \/ Deny(t) \/ ToolReturns(t) \/ WaitReturns(t)
  PROVE  OnceInv'
<1>1. loc[t] \in Locals /\ pc[t] \in Calling
  BY DEF IInv, TypeOK, Calling, NextUse, Approve, Deny, ToolReturns, WaitReturns
<1>2. ASSUME PushResult(t, {}, loc[t]), UNCHANGED <<store, item, inbox>> PROVE OnceInv'
  BY <1>1, <1>2, Answering, PushNothing
<1>3. CASE Deny(t)
  BY <1>2, <1>3 DEF Deny, runs, gazeta
<1>4. CASE ToolReturns(t)
  BY <1>2, <1>4, FailOnce DEF ToolReturns, gazeta
<1>5. CASE WaitReturns(t)
  <2>1. \A u \in Turns : inbox'[u] \subseteq inbox[u]
    BY <1>5 DEF WaitReturns, IInv, TypeOK
  <2> QED
    BY <1>1, <1>5, <2>1, Answering, PushNothing DEF WaitReturns, gazeta
<1>6. CASE Approve(t)
  BY <1>6, StartToolOnce DEF Approve
<1>7. CASE NextUse(t)
  <2>0. pc[t] = "use" /\ UNCHANGED inbox
    BY <1>7 DEF NextUse
  <2>1. CASE aborted[t]
    BY <1>7, <2>1, FailOnce DEF NextUse, gazeta
  <2>2. CASE ~aborted[t]
    <3>0. UNCHANGED store
      BY <1>7, <2>2 DEF NextUse
    <3>1. CASE PushResult(t, {}, loc[t]) /\ UNCHANGED gazeta
      BY <1>2, <2>0, <3>0, <3>1 DEF gazeta
    <3>2. CASE pc' = [pc EXCEPT ![t] = "confirm"] /\ UNCHANGED <<loc, fresh, gazeta>>
      <4>1. loc' = [loc EXCEPT ![t] = loc[t]]
        BY <3>2 DEF IInv, TypeOK
      <4> QED
        BY <2>0, <3>0, <3>2, <4>1, Answering, SameStore, OnOnce DEF OnceInv, gazeta, Calling
    <3>3. CASE StartTool(t)
      BY <2>0, <3>0, <3>3, StartToolOnce
    <3> QED
      BY <1>7, <2>2, <3>1, <3>2, <3>3 DEF NextUse
  <2> QED
    BY <2>1, <2>2
<1> QED
  BY <1>3, <1>4, <1>5, <1>6, <1>7

LEMMA NextOnce == ASSUME IInv, OnceInv, [Next]_vars PROVE OnceInv'
<1>1. CASE UNCHANGED vars
  BY <1>1, Answering, SameStore, NoneOnce DEF vars, OnceInv
<1>2. CASE Restart
  BY <1>2, Answering, SameStore, NoneOnce DEF Restart, local, gazeta, OnceInv
<1>3. CASE Crash
  <2>1. \A t \in Turns : loc'[t].got = {} /\ fresh'[t] = <<>>
    BY <1>3 DEF Crash, FreshLocals
  <2>2. GotEmpty' /\ \A i \in Items, t \in Turns : ~HeldBy(t, i)'
    BY <2>1 DEF GotEmpty, HeldBy
  <2>3. UNCHANGED <<item, inbox, store>>
    BY <1>3 DEF Crash, runs
  <2> QED
    BY <2>2, <2>3, Answering, SameStore, OnceStays DEF OnceInv
<1>4. ASSUME NEW t \in Turns, TurnStep(t) PROVE OnceInv'
  BY <1>4, PreparedOnce, CompactedOnce, LoopTopOnce, RecompactedOnce, ReplyOnce, CallOnce DEF TurnStep
<1> QED
  BY <1>1, <1>2, <1>3, <1>4, UserOnce DEF Next

LEMMA InitOnce == Init => OnceInv
<1> SUFFICES ASSUME Init PROVE OnceInv
  OBVIOUS
<1>1. /\ \A t \in Turns : inbox[t] = {} /\ fresh[t] = <<>> /\ loc[t].got = {}
  BY DEF Init, FreshLocals
<1>2. \A k \in DOMAIN store : store[k].notes = {}
  BY DEF Init, Past, Row
<1> QED
  BY <1>1, <1>2 DEF OnceInv, GotEmpty, NotedOnce, Once, Noted, HeldBy

LEMMA AtMostOne == ASSUME NEW S, \A a, b \in S : a = b PROVE Cardinality(S) = 0 \/ Cardinality(S) = 1
<1>1. CASE S = {}
  BY <1>1, FS_EmptySet
<1>2. CASE S # {}
  <2>1. PICK a : S = {a}
    BY <1>2
  <2> QED
    BY <2>1, FS_Singleton
<1> QED
  BY <1>1, <1>2

\* An answer of the user reaches the conversation once, by one of its three ways, whatever is killed, retried, timed out
\* or lost on the way: it is never in two inboxes, in an inbox and in a stored message, or in two stored messages.
THEOREM AnswersArriveOnce == Spec => []AnswerOnce
<1>1. IInv /\ OnceInv /\ [Next]_vars => OnceInv'
  BY NextOnce
<1>2. OnceInv => AnswerOnce
  <2> SUFFICES ASSUME OnceInv, NEW i \in Items
               PROVE  Cardinality({t \in Turns : i \in inbox[t]})
                        + Cardinality({k \in DOMAIN store : i \in store[k].notes}) <= 1
    BY DEF AnswerOnce
  <2> DEFINE I == {t \in Turns : i \in inbox[t]}
             S == {k \in DOMAIN store : i \in store[k].notes}
  <2>1. (\A a, b \in I : a = b) /\ (\A a, b \in S : a = b) /\ (I = {} \/ S = {})
    BY DEF OnceInv, Once, NotedOnce, Noted
  <2> HIDE DEF I, S
  <2>2. (Cardinality(I) = 0 \/ Cardinality(I) = 1) /\ (Cardinality(S) = 0 \/ Cardinality(S) = 1)
    BY <2>1, AtMostOne
  <2>3. Cardinality(I) = 0 \/ Cardinality(S) = 0
    BY <2>1, FS_EmptySet
  <2>4. Cardinality(I) + Cardinality(S) <= 1
    BY <2>2, <2>3
  <2> QED
    BY <2>4 DEF I, S
<1> QED
  BY <1>1, <1>2, InitOnce, Invariant, PTL DEF Spec

-----------------------------------------------------------------------------
(* The second attempt.                                                     *)

\* What the turn has left in the conversation besides the user's message.
Stored(t) == \E k \in DOMAIN store : store[k].turn = t /\ store[k].kind # "user"

\* The two flags of the loop tell the truth while the turn runs, and the second attempt looks at them.
Clean(t) ==
  /\ t > turnCount => pc[t] = "none"
  /\ pc[t] = "none" => ran[t] = 0 /\ ~Stored(t)
  /\ Live(t) => (loc[t].toolRan \/ ran[t] = 0) /\ (loc[t].storedAny \/ ~Stored(t))
  /\ pc[t] = "recompact" => ~loc[t].toolRan /\ ~loc[t].storedAny

CleanInv == \A t \in Turns : Clean(t)

SameTry == \A t \in Turns : loc'[t].second => loc[t].second

\* What a batch adds to the conversation.
LEMMA BatchStored ==
  ASSUME IInv, NEW batch \in Seq(Rows), store' = store \o batch,
         NEW t, \A k \in DOMAIN batch : batch[k].kind = "user" \/ batch[k].turn = t
  PROVE  \A u \in Turns : u # t => (Stored(u)' => Stored(u))
<1>1. /\ store \in Seq(Rows) /\ Len(store) \in Nat /\ Len(batch) \in Nat
      /\ DOMAIN store = 1 .. Len(store) /\ DOMAIN batch = 1 .. Len(batch)
  BY LenProperties DEF IInv, TypeOK
<1>2. /\ Len(store') = Len(store) + Len(batch) /\ DOMAIN store' = 1 .. Len(store')
      /\ \A k \in DOMAIN store' : store'[k] = IF k <= Len(store) THEN store[k] ELSE batch[k - Len(store)]
  BY <1>1, ConcatProperties, LenProperties
<1>3. \A k \in DOMAIN store' : IF k <= Len(store) THEN k \in DOMAIN store ELSE k - Len(store) \in DOMAIN batch
  BY <1>1, <1>2
<1> QED
  BY <1>2, <1>3 DEF Stored

LEMMA SameStored == ASSUME UNCHANGED store PROVE \A u \in Turns : Stored(u)' => Stored(u)
BY DEF Stored

LEMMA SummaryStored ==
  ASSUME IInv, NEW upTo \in Nat, Summarise(upTo) \/ UNCHANGED store
  PROVE  \A u \in Turns : Stored(u)' => Stored(u)
<1>1. CASE UNCHANGED store
  BY <1>1, SameStored
<1>2. CASE Summarise(upTo)
  <2> DEFINE r == Row("summary", NoTurn, upTo, {})
  <2>1. r \in Rows /\ r.turn = NoTurn
    <3>1. "summary" \in Kinds /\ NoTurn \in 0 .. MaxTurns /\ {} \in SUBSET Items
      BY TurnAssumption DEF Kinds, NoTurn
    <3> QED
      BY <3>1, RowType DEF Row
  <2>2. store' = store \o <<r>> /\ <<r>> \in Seq(Rows)
    BY <1>2, <2>1, AppendJoins DEF Summarise
  <2> HIDE DEF r
  <2>3. \A k \in DOMAIN <<r>> : <<r>>[k].turn = NoTurn
    BY <2>1
  <2> QED
    BY <2>2, <2>3, BatchStored, TurnsType
<1> QED
  BY <1>1, <1>2

\* Turn t moves, the others stay.
LEMMA CleanMoves ==
  ASSUME IInv, CleanInv, NEW t \in Turns, Live(t), UNCHANGED turnCount, pc'[t] # "none",
         \A u \in Turns : u # t => /\ pc'[u] = pc[u] /\ loc'[u] = loc[u] /\ ran'[u] = ran[u]
                                   /\ Stored(u)' => Stored(u),
         pc'[t] # "ended" => (loc'[t].toolRan \/ ran'[t] = 0) /\ (loc'[t].storedAny \/ ~Stored(t)'),
         pc'[t] = "recompact" => ~loc'[t].toolRan /\ ~loc'[t].storedAny
  PROVE  CleanInv'
<1> SUFFICES ASSUME NEW u \in Turns PROVE Clean(u)'
  BY DEF CleanInv
<1>1. Clean(u) /\ Clean(t)
  BY DEF CleanInv
<1>2. CASE u = t
  BY <1>1, <1>2 DEF Clean, Live
<1>3. CASE u # t
  BY <1>1, <1>3 DEF Clean, Live
<1> QED
  BY <1>2, <1>3

\* A turn goes on and keeps its flags, or raises one.
LEMMA CleanOn ==
  ASSUME IInv, CleanInv, NEW t \in Turns, Live(t), UNCHANGED turnCount,
         NEW q \in PCs \ {"none", "ended"}, pc' = [pc EXCEPT ![t] = q],
         NEW l, loc' = [loc EXCEPT ![t] = l],
         l.second => loc[t].second,
         l.toolRan \/ (l.toolRan = loc[t].toolRan /\ ran'[t] = ran[t]), l.storedAny = loc[t].storedAny,
         \A u \in Turns : u # t => ran'[u] = ran[u],
         \A u \in Turns : Stored(u)' => Stored(u),
         q = "recompact" => ~l.toolRan /\ ~l.storedAny
  PROVE  CleanInv' /\ SameTry
<1>1. pc'[t] = q /\ loc'[t] = l /\ \A u \in Turns : u # t => pc'[u] = pc[u] /\ loc'[u] = loc[u]
  BY DEF IInv, TypeOK
<1>2. SameTry
  BY <1>1 DEF SameTry
<1>3. (loc[t].toolRan \/ ran[t] = 0) /\ (loc[t].storedAny \/ ~Stored(t))
  BY DEF CleanInv, Clean
<1>4. (l.toolRan \/ ran'[t] = 0) /\ (l.storedAny \/ ~Stored(t)')
  BY <1>3
<1> QED
  BY <1>1, <1>2, <1>4, CleanMoves

LEMMA EndClean ==
  ASSUME IInv, CleanInv, NEW t \in Turns, Live(t), NEW batch \in Seq(Rows), NEW status, EndTurn(t, batch, status),
         \A k \in DOMAIN batch : batch[k].turn = t, UNCHANGED <<turnCount, ran>>
  PROVE  CleanInv' /\ SameTry
<1>1. pc'[t] = "ended" /\ \A u \in Turns : u # t => pc'[u] = pc[u] /\ loc'[u] = loc[u]
  BY DEF EndTurn, IInv, TypeOK
<1>2. loc'[t] = FreshLocals
  BY DEF EndTurn, IInv, TypeOK
<1>3. SameTry
  BY <1>1, <1>2 DEF SameTry, FreshLocals
<1>4. \A u \in Turns : u # t => (Stored(u)' => Stored(u))
  BY BatchStored DEF EndTurn
<1> QED
  BY <1>1, <1>3, <1>4, CleanMoves

LEMMA WholeStepTurn ==
  ASSUME NEW t \in Turns, NEW s, WholeStep(t, s)
  PROVE  s \in Seq(Rows) /\ \A k \in DOMAIN s : s[k].turn = t
<1> PICK n \in 1 .. MaxUses, notes \in SUBSET Items :
           s = <<Row("reply", t, n, {}), Row("results", t, n, notes)>>
  BY DEF WholeStep
<1> DEFINE a == Row("reply", t, n, {})
           b == Row("results", t, n, notes)
<1>1. a.turn = t /\ b.turn = t /\ s = <<a, b>>
  BY DEF Row
<1> HIDE DEF a, b
<1>2. \A k \in DOMAIN s : s[k].turn = t
  BY <1>1
<1> QED
  BY <1>2, WholeStepType

LEMMA FailClean ==
  ASSUME IInv, CleanInv, NEW t \in Turns, Live(t), NEW status, FailTurn(t, status), UNCHANGED <<turnCount, ran>>
  PROVE  CleanInv' /\ SameTry
<1> DEFINE C == CloseOpenToolCalls(t)
<1>1. C \in Seq(Rows) /\ \A k \in DOMAIN C : C[k].turn = t
  <2>1. CASE C = <<>>
    BY <2>1, EmptySeq
  <2>2. CASE WholeStep(t, C)
    <3> HIDE DEF C
    <3> QED
      BY <2>2, WholeStepTurn
  <2> QED
    BY <2>1, <2>2, ClosedShape
<1>2. EndTurn(t, C, status)
  BY DEF FailTurn
<1> HIDE DEF C
<1> QED
  BY <1>1, <1>2, EndClean

LEMMA PushClean ==
  ASSUME IInv, CleanInv, NEW t \in Turns, Live(t), NEW A, NEW l \in Locals, PushResult(t, A, l),
         l.second = loc[t].second, l.storedAny = loc[t].storedAny,
         l.toolRan \/ (l.toolRan = loc[t].toolRan /\ ran'[t] = ran[t]),
         \A u \in Turns : u # t => ran'[u] = ran[u], UNCHANGED <<turnCount, store>>
  PROVE  CleanInv' /\ SameTry
<1> DEFINE full == l.pend + 1 = l.uses
           p == [l EXCEPT !.pend = @ + 1, !.got = IF full THEN {} ELSE l.got \cup A, !.asking = {}]
           q == IF full THEN "top" ELSE "use"
<1>1. loc' = [loc EXCEPT ![t] = p] /\ pc' = [pc EXCEPT ![t] = q]
  BY DEF PushResult
<1>2. p.second = l.second /\ p.toolRan = l.toolRan /\ p.storedAny = l.storedAny
  BY DEF Locals
<1>3. q \in PCs \ {"none", "ended"} /\ q # "recompact"
  BY DEF PCs
<1> HIDE DEF p, q
<1> QED
  BY <1>1, <1>2, <1>3, SameStored, CleanOn

LEMMA KickoffClean ==
  ASSUME IInv, CleanInv, NEW notes \in SUBSET Items, Kickoff(notes)
  PROVE  CleanInv' /\ SameTry
<1>0. turnCount + 1 \in Turns /\ turnCount \in Nat
  BY TurnAssumption DEF IInv, TypeOK, Kickoff, Turns
<1> PICK t \in Turns : t = turnCount + 1
  BY <1>0
<1> DEFINE r == Row("user", t, 0, notes)
           l == [FreshLocals EXCEPT !.msg = Len(store) + 1]
<1>1. r \in Rows /\ r.kind = "user"
  BY TurnsType, RowType DEF Row, Kinds
<1>2. ~l.second /\ ~l.toolRan /\ ~l.storedAny
  BY DEF FreshLocals
<1>3. /\ store' = store \o <<r>> /\ <<r>> \in Seq(Rows)
      /\ loc'[t] = l /\ pc'[t] = "prep" /\ turnCount' = t /\ UNCHANGED ran
      /\ \A u \in Turns : u # t => loc'[u] = loc[u] /\ pc'[u] = pc[u]
  BY <1>1, AppendJoins DEF Kickoff, IInv, TypeOK
<1> HIDE DEF r, l
<1>4. \A k \in DOMAIN <<r>> : <<r>>[k].kind = "user"
  BY <1>1
<1>5. \A u \in Turns : Stored(u)' => Stored(u)
  BY <1>3, <1>4, BatchStored, TurnsType
<1>6. SameTry
  BY <1>2, <1>3 DEF SameTry
<1>7. ASSUME NEW u \in Turns PROVE Clean(u)'
  <2>1. Clean(u) /\ u \in Nat /\ t \in Nat
    BY TurnsType DEF CleanInv
  <2>2. CASE u = t
    <3>1. pc[t] = "none"
      BY <1>0, <2>1, <2>2 DEF Clean
    <3>2. ran'[t] = 0 /\ ~Stored(t)'
      BY <1>3, <1>5, <2>1, <2>2, <3>1 DEF Clean
    <3>3. ~(t > turnCount')
      BY <1>3, <2>1
    <3> QED
      BY <1>3, <2>2, <3>2, <3>3 DEF Clean
  <2>3. CASE u # t
    <3>1. u > turnCount' => u > turnCount
      BY <1>0, <1>3, <2>1
    <3> QED
      BY <1>3, <1>5, <2>1, <2>3, <3>1 DEF Clean, Live
  <2> QED
    BY <2>2, <2>3
<1> QED
  BY <1>6, <1>7 DEF CleanInv

\* No turn moves.
LEMMA StayClean ==
  ASSUME IInv, CleanInv, UNCHANGED <<pc, loc, ran, turnCount>>, \A u \in Turns : Stored(u)' => Stored(u)
  PROVE  CleanInv' /\ SameTry
BY DEF CleanInv, Clean, SameTry, Live

LEMMA UserClean == ASSUME IInv, CleanInv, UserStep PROVE CleanInv' /\ SameTry
<1>1. CASE SendMessage
  BY <1>1, KickoffClean DEF SendMessage
<1>2. CASE Kill
  <2>1. controller \in Turns /\ Live(controller) /\ UNCHANGED <<turnCount, ran>>
    BY <1>2 DEF Kill, IInv, OneTurn, TypeOK, Turns, NoTurn, life
  <2>2. CASE pc[controller] \in {"confirm", "human", "wait"}
    BY <1>2, <2>1, <2>2, FailClean DEF Kill
  <2>3. CASE pc[controller] \notin {"confirm", "human", "wait"}
    BY <1>2, <2>1, <2>3, SameStored, StayClean DEF Kill
  <2> QED
    BY <2>2, <2>3
<1>3. CASE CompactStart
  BY <1>3, SameStored, StayClean DEF CompactStart, local, life
<1>4. CASE CompactEnd
  <2>1. compacting \in Nat /\ UNCHANGED <<pc, loc, ran, turnCount>> /\ (Summarise(compacting) \/ UNCHANGED store)
    BY <1>4 DEF CompactEnd, local, life, IInv, TypeOK
  <2> QED
    BY <2>1, SummaryStored, StayClean
<1>5. ASSUME NEW t \in Turns, NEW A, pc[t] = "human", PushResult(t, A, loc[t]), UNCHANGED <<turnCount, store, ran>>
      PROVE  CleanInv' /\ SameTry
  <2>1. Live(t) /\ loc[t] \in Locals
    BY <1>5 DEF Live, IInv, TypeOK
  <2> QED
    BY <1>5, <2>1, PushClean
<1>6. ASSUME NEW i \in Items, RespondBlocking(i) \/ AnswerTimeout(i) PROVE CleanInv' /\ SameTry
  BY <1>5, <1>6 DEF RespondBlocking, AnswerTimeout, life
<1>7. ASSUME NEW i \in Items, Dismiss(i) PROVE CleanInv' /\ SameTry
  <2>0. UNCHANGED <<turnCount, store, ran>>
    BY <1>7 DEF Dismiss, life
  <2>1. CASE i \in waiter
    BY <1>5, <1>7, <2>0, <2>1 DEF Dismiss
  <2>2. CASE i \notin waiter
    BY <1>7, <2>0, <2>2, SameStored, StayClean DEF Dismiss
  <2> QED
    BY <2>1, <2>2
<1>8. ASSUME NEW i \in Items, RespondToInbox(i) PROVE CleanInv' /\ SameTry
  BY <1>8, SameStored, StayClean DEF RespondToInbox, life, local
<1>9. ASSUME NEW i \in Items, RespondStartsTurn(i) PROVE CleanInv' /\ SameTry
  <2>1. {i} \in SUBSET Items
    OBVIOUS
  <2> QED
    BY <1>9, <2>1, KickoffClean DEF RespondStartsTurn
<1> QED
  BY <1>1, <1>2, <1>3, <1>4, <1>6, <1>7, <1>8, <1>9 DEF UserStep

-----------------------------------------------------------------------------
LEMMA FlagsOf ==
  ASSUME NEW l \in Locals, NEW u, NEW n, NEW S
  PROVE  /\ \A f \in {"second", "toolRan", "storedAny"} : [l EXCEPT !.upTo = u][f] = l[f]
         /\ \A f \in {"second", "toolRan", "storedAny"} : [l EXCEPT !.uses = n, !.pend = 0][f] = l[f]
         /\ \A f \in {"second", "storedAny"} : [l EXCEPT !.toolRan = TRUE][f] = l[f]
         /\ [l EXCEPT !.toolRan = TRUE].toolRan
         /\ \A f \in {"second", "toolRan", "storedAny"} : [l EXCEPT !.asking = S][f] = l[f]
<1>1. \A f \in {"second", "toolRan", "storedAny"} : [l EXCEPT !.upTo = u][f] = l[f]
  BY DEF Locals
<1>2. \A f \in {"second", "toolRan", "storedAny"} : [l EXCEPT !.uses = n, !.pend = 0][f] = l[f]
  BY DEF Locals
<1>3. \A f \in {"second", "storedAny"} : [l EXCEPT !.toolRan = TRUE][f] = l[f]
  BY DEF Locals
<1>4. [l EXCEPT !.toolRan = TRUE].toolRan
  BY DEF Locals
<1>5. \A f \in {"second", "toolRan", "storedAny"} : [l EXCEPT !.asking = S][f] = l[f]
  BY DEF Locals
<1> QED
  BY <1>1, <1>2, <1>3, <1>4, <1>5

LEMMA Onward == {"top", "compact", "recompact", "use", "confirm", "tool", "human", "wait"} \subseteq PCs \ {"none", "ended"}
BY DEF PCs, Parked

LEMMA CleanGoes ==
  ASSUME IInv, CleanInv, NEW t \in Turns, Live(t), NEW q \in {"top", "confirm"}, pc' = [pc EXCEPT ![t] = q],
         UNCHANGED <<loc, ran, turnCount, store>>
  PROVE  CleanInv' /\ SameTry
<1>1. pc'[t] = q /\ \A u \in Turns : u # t => pc'[u] = pc[u]
  BY DEF IInv, TypeOK
<1>2. SameTry
  BY DEF SameTry
<1>3. \A u \in Turns : Clean(u)'
  BY <1>1, SameStored DEF CleanInv, Clean, Live
<1> QED
  BY <1>2, <1>3 DEF CleanInv

\* Compaction before the first request.
LEMMA PreparedClean == ASSUME IInv, CleanInv, NEW t \in Turns, Prepared(t) \/ Compacted(t) PROVE CleanInv' /\ SameTry
<1>1. Live(t) /\ loc[t] \in Locals /\ loc[t].upTo \in Nat /\ UNCHANGED <<turnCount, ran>>
  BY DEF Prepared, Compacted, life, Live, IInv, TypeOK, Locals
<1>2. ASSUME NEW status, FailTurn(t, status) PROVE CleanInv' /\ SameTry
  BY <1>1, <1>2, FailClean
<1>3. CASE pc' = [pc EXCEPT ![t] = "top"] /\ UNCHANGED <<loc, store>>
  BY <1>1, <1>3, CleanGoes
<1>4. ASSUME NEW u, NEW q \in {"top", "compact"}, pc' = [pc EXCEPT ![t] = q], loc' = [loc EXCEPT ![t].upTo = u],
             Summarise(loc[t].upTo) \/ UNCHANGED store
      PROVE  CleanInv' /\ SameTry
  <2> DEFINE l == [loc[t] EXCEPT !.upTo = u]
  <2>1. l.second = loc[t].second /\ l.toolRan = loc[t].toolRan /\ l.storedAny = loc[t].storedAny
    BY <1>1, FlagsOf
  <2>2. loc' = [loc EXCEPT ![t] = l]
    BY <1>4 DEF IInv, TypeOK
  <2> HIDE DEF l
  <2>3. \A v \in Turns : Stored(v)' => Stored(v)
    BY <1>1, <1>4, SummaryStored
  <2> QED
    BY <1>1, <1>4, <2>1, <2>2, <2>3, Onward, CleanOn
<1> QED
  BY <1>2, <1>3, <1>4 DEF Prepared, Compacted

LEMMA LoopTopClean == ASSUME IInv, CleanInv, NEW t \in Turns, LoopTop(t) PROVE CleanInv' /\ SameTry
<1>1. pc[t] = "top" /\ Live(t) /\ loc[t] \in Locals /\ UNCHANGED <<turnCount, ran>>
  BY DEF LoopTop, life, Live, IInv, TypeOK
<1>2. CASE aborted[t]
  BY <1>1, <1>2, FailClean DEF LoopTop
<1>3. CASE ~aborted[t]
  <2> DEFINE b == loc[t].storedAny \/ fresh[t] # <<>>
             l == [loc[t] EXCEPT !.steps = @ + 1, !.storedAny = b]
             batch == WithInbox(t)
  <2>1. l.second = loc[t].second /\ l.toolRan = loc[t].toolRan /\ l.storedAny = b
    BY <1>1 DEF Locals
  <2>2. /\ loc'[t] = l /\ pc'[t] = "llm" /\ store' = store \o batch
        /\ \A u \in Turns : u # t => loc'[u] = loc[u] /\ pc'[u] = pc[u]
    BY <1>3 DEF LoopTop, IInv, TypeOK
  <2>3. /\ batch \in Seq(Rows) /\ \A k \in DOMAIN batch : batch[k].turn = t
        /\ fresh[t] = <<>> => batch = <<>>
    <3>1. (fresh[t] = <<>> => batch = <<>>) /\ (fresh[t] # <<>> => WholeStep(t, batch))
      BY <1>1, WithInboxShape
    <3>2. CASE batch = <<>>
      BY <3>2, EmptySeq
    <3>3. CASE WholeStep(t, batch)
      <4> HIDE DEF batch
      <4> QED
        BY <3>1, <3>3, WholeStepTurn
    <3> QED
      BY <3>1, <3>2, <3>3
  <2> HIDE DEF l, batch
  <2>4. \A u \in Turns : u # t => (Stored(u)' => Stored(u))
    BY <2>2, <2>3, BatchStored
  <2>5. fresh[t] = <<>> => UNCHANGED store
    BY <2>2, <2>3 DEF IInv, TypeOK
  <2>6. b \/ ~Stored(t)'
    BY <1>1, <2>5, SameStored DEF CleanInv, Clean
  <2>7. l.toolRan \/ ran'[t] = 0
    BY <1>1, <2>1 DEF CleanInv, Clean
  <2>8. SameTry
    BY <2>1, <2>2 DEF SameTry
  <2> QED
    BY <1>1, <2>1, <2>2, <2>4, <2>6, <2>7, <2>8, CleanMoves
<1> QED
  BY <1>2, <1>3

LEMMA ReplyClean ==
  ASSUME IInv, CleanInv, NEW t \in Turns, FinalReply(t) \/ ToolReply(t) \/ TooLong(t) \/ RequestFails(t)
  PROVE  CleanInv' /\ SameTry
<1>1. /\ pc[t] = "llm" /\ Live(t) /\ loc[t] \in Locals /\ fresh[t] = <<>> /\ UNCHANGED <<turnCount, ran>> /\ TypeOK
  BY DEF FinalReply, ToolReply, TooLong, RequestFails, life, Live, IInv, TypeOK, Waiting
<1>2. CASE FinalReply(t)
  <2> DEFINE r == Row("reply", t, 0, {})
  <2>1. EndTurn(t, <<r>>, "done") /\ <<r>> \in Seq(Rows)
    BY <1>1, <1>2, AppendToEmpty, ReplyType, TurnAssumption DEF FinalReply
  <2>2. r.turn = t
    BY DEF Row
  <2> HIDE DEF r
  <2>3. \A k \in DOMAIN <<r>> : <<r>>[k].turn = t
    BY <2>2
  <2> QED
    BY <1>1, <2>1, <2>3, EndClean
<1>3. CASE ToolReply(t)
  <2>1. PICK n \in 1 .. MaxUses : loc' = [loc EXCEPT ![t] = [loc[t] EXCEPT !.uses = n, !.pend = 0]]
    BY <1>1, <1>3 DEF ToolReply, TypeOK
  <2> DEFINE l == [loc[t] EXCEPT !.uses = n, !.pend = 0]
  <2>2. l.second = loc[t].second /\ l.toolRan = loc[t].toolRan /\ l.storedAny = loc[t].storedAny
    BY <1>1, FlagsOf
  <2>3. loc' = [loc EXCEPT ![t] = l] /\ pc' = [pc EXCEPT ![t] = "use"] /\ UNCHANGED store
    BY <1>3, <2>1 DEF ToolReply
  <2> HIDE DEF l
  <2> QED
    BY <1>1, <2>2, <2>3, SameStored, Onward, CleanOn
<1>4. CASE TooLong(t)
  <2>1. PICK u : loc' = [loc EXCEPT ![t] = [loc[t] EXCEPT !.upTo = u]]
    BY <1>1, <1>4 DEF TooLong, TypeOK
  <2> DEFINE l == [loc[t] EXCEPT !.upTo = u]
  <2>2. l.second = loc[t].second /\ l.toolRan = loc[t].toolRan /\ l.storedAny = loc[t].storedAny
    BY <1>1, FlagsOf
  <2>3. /\ loc' = [loc EXCEPT ![t] = l] /\ pc' = [pc EXCEPT ![t] = "recompact"] /\ UNCHANGED store
        /\ ~loc[t].toolRan /\ ~loc[t].storedAny
    BY <1>4, <2>1 DEF TooLong
  <2> HIDE DEF l
  <2> QED
    BY <1>1, <2>2, <2>3, SameStored, Onward, CleanOn
<1>5. CASE RequestFails(t)
  BY <1>1, <1>5, FailClean DEF RequestFails
<1> QED
  BY <1>2, <1>3, <1>4, <1>5

LEMMA StartToolClean ==
  ASSUME IInv, CleanInv, NEW t \in Turns, Live(t), StartTool(t), UNCHANGED <<store, turnCount>>
  PROVE  CleanInv' /\ SameTry
<1> DEFINE l == [loc[t] EXCEPT !.toolRan = TRUE]
<1>1. loc[t] \in Locals /\ \A u \in Turns : u # t => ran'[u] = ran[u]
  BY DEF IInv, TypeOK, StartTool
<1>2. l \in Locals /\ l.second = loc[t].second /\ l.storedAny = loc[t].storedAny /\ l.toolRan
  BY <1>1, AskingLocals, FlagsOf
<1>3. ASSUME NEW q \in {"tool", "wait"}, loc' = [loc EXCEPT ![t] = l], pc' = [pc EXCEPT ![t] = q]
      PROVE  CleanInv' /\ SameTry
  <2> HIDE DEF l
  <2> QED
    BY <1>1, <1>2, <1>3, SameStored, Onward, CleanOn
<1>4. ASSUME NEW i, loc' = [loc EXCEPT ![t] = [l EXCEPT !.asking = {i}]], pc' = [pc EXCEPT ![t] = "human"]
      PROVE  CleanInv' /\ SameTry
  <2> DEFINE k == [l EXCEPT !.asking = {i}]
  <2>1. k.second = loc[t].second /\ k.storedAny = loc[t].storedAny /\ k.toolRan
    <3> HIDE DEF l
    <3> QED
      BY <1>2, FlagsOf
  <2>2. loc' = [loc EXCEPT ![t] = k]
    BY <1>4
  <2> HIDE DEF k, l
  <2> QED
    <3>1. "human" \in PCs \ {"none", "ended"} /\ "human" # "recompact"
      BY Onward
    <3>2. k.second => loc[t].second
      BY <2>1
    <3>3. k.toolRan \/ (k.toolRan = loc[t].toolRan /\ ran'[t] = ran[t])
      BY <2>1
    <3>4. \A u \in Turns : Stored(u)' => Stored(u)
      BY SameStored
    <3> QED
      BY <1>1, <1>4, <2>1, <2>2, <3>1, <3>2, <3>3, <3>4, CleanOn
<1>5. CASE PushResult(t, {}, l)
  <2> HIDE DEF l
  <2> QED
    BY <1>1, <1>2, <1>5, PushClean
<1> QED
  BY <1>3, <1>4, <1>5 DEF StartTool

LEMMA CallClean ==
  ASSUME IInv, CleanInv, NEW t \in Turns, NextUse(t) \/ Approve(t) \/ Deny(t) \/ ToolReturns(t) \/ WaitReturns(t)
  PROVE  CleanInv' /\ SameTry
<1>1. loc[t] \in Locals /\ Live(t) /\ UNCHANGED turnCount
  BY DEF IInv, TypeOK, Live, life, NextUse, Approve, Deny, ToolReturns, WaitReturns
<1>2. ASSUME PushResult(t, {}, loc[t]), UNCHANGED <<store, ran>> PROVE CleanInv' /\ SameTry
  BY <1>1, <1>2, PushClean
<1>3. CASE Deny(t)
  BY <1>2, <1>3 DEF Deny
<1>4. CASE ToolReturns(t)
  BY <1>1, <1>2, <1>4, FailClean DEF ToolReturns
<1>5. CASE WaitReturns(t)
  BY <1>2, <1>5 DEF WaitReturns
<1>6. CASE Approve(t)
  BY <1>1, <1>6, StartToolClean DEF Approve
<1>7. CASE NextUse(t)
  <2>1. CASE aborted[t]
    BY <1>1, <1>7, <2>1, FailClean DEF NextUse
  <2>2. CASE ~aborted[t]
    <3>0. UNCHANGED store
      BY <1>7, <2>2 DEF NextUse
    <3>1. CASE PushResult(t, {}, loc[t]) /\ UNCHANGED ran
      BY <1>2, <3>0, <3>1
    <3>2. CASE pc' = [pc EXCEPT ![t] = "confirm"] /\ UNCHANGED <<loc, ran>>
      BY <1>1, <3>0, <3>2, CleanGoes
    <3>3. CASE StartTool(t)
      BY <1>1, <3>0, <3>3, StartToolClean
    <3> QED
      BY <1>7, <2>2, <3>1, <3>2, <3>3 DEF NextUse
  <2> QED
    BY <2>1, <2>2
<1> QED
  BY <1>3, <1>4, <1>5, <1>6, <1>7

\* What RetryIsClean asks of a step.
CleanRetry ==
  \A t \in Turns : ~loc[t].second /\ loc'[t].second =>
    ran[t] = 0 /\ \A k \in DOMAIN store : store[k].turn = t => store[k].kind = "user"

LEMMA RecompactedClean == ASSUME IInv, CleanInv, NEW t \in Turns, Recompacted(t) PROVE CleanInv' /\ CleanRetry
<1>1. pc[t] = "recompact" /\ Live(t) /\ loc[t] \in Locals /\ loc[t].upTo \in Nat /\ UNCHANGED <<turnCount, ran>>
  BY DEF Recompacted, life, Live, IInv, TypeOK, Locals
<1>2. CASE FailTurn(t, IF aborted[t] THEN "aborted" ELSE "error")
  BY <1>1, <1>2, FailClean DEF SameTry, CleanRetry
<1>3. CASE /\ Summarise(loc[t].upTo)
           /\ pc' = [pc EXCEPT ![t] = "top"]
           /\ loc' = [loc EXCEPT ![t].second = TRUE, ![t].steps = 0, ![t].upTo = 0]
  <2> DEFINE l == [loc[t] EXCEPT !.second = TRUE, !.steps = 0, !.upTo = 0]
  <2>1. l.toolRan = loc[t].toolRan /\ l.storedAny = loc[t].storedAny
    BY <1>1 DEF Locals
  <2>2. loc'[t] = l /\ pc'[t] = "top" /\ \A u \in Turns : u # t => loc'[u] = loc[u] /\ pc'[u] = pc[u]
    BY <1>3 DEF IInv, TypeOK
  <2> HIDE DEF l
  <2>3. \A v \in Turns : Stored(v)' => Stored(v)
    BY <1>1, <1>3, SummaryStored
  <2>4. ran[t] = 0 /\ ~Stored(t)
    BY <1>1 DEF CleanInv, Clean
  <2>5. CleanRetry
    BY <2>2, <2>4 DEF CleanRetry, Stored
  <2> QED
    BY <1>1, <2>2, <2>3, <2>4, <2>5, CleanMoves
<1> QED
  BY <1>2, <1>3 DEF Recompacted

LEMMA NextClean == ASSUME IInv, CleanInv, [Next]_vars PROVE CleanInv' /\ CleanRetry
<1>1. SameTry => CleanRetry
  BY DEF SameTry, CleanRetry
<1>2. CASE UNCHANGED vars
  BY <1>1, <1>2, SameStored, StayClean DEF vars
<1>3. CASE Restart
  BY <1>1, <1>3, SameStored, StayClean DEF Restart, local
<1>4. CASE Crash
  <2>1. \A t \in Turns : ~loc'[t].second /\ ~Live(t)' /\ (pc'[t] = "none" <=> pc[t] = "none")
    BY <1>4 DEF Crash, FreshLocals, Live, IInv, TypeOK
  <2>2. UNCHANGED <<turnCount, ran, store>>
    BY <1>4 DEF Crash
  <2>3. \A t \in Turns : Clean(t)'
    BY <2>1, <2>2 DEF CleanInv, Clean, Live, Stored
  <2> QED
    BY <2>1, <2>3 DEF CleanInv, CleanRetry
<1>5. ASSUME NEW t \in Turns, TurnStep(t) PROVE CleanInv' /\ CleanRetry
  BY <1>1, <1>5, PreparedClean, LoopTopClean, RecompactedClean, ReplyClean, CallClean DEF TurnStep
<1> QED
  BY <1>1, <1>2, <1>3, <1>4, <1>5, UserClean DEF Next

LEMMA InitClean == Init => CleanInv
<1> SUFFICES ASSUME Init, NEW t \in Turns PROVE Clean(t)
  BY DEF CleanInv
<1>1. \A k \in DOMAIN store : store[k].turn = NoTurn
  BY DEF Init, Past, Row
<1>2. ~Stored(t)
  BY <1>1, TurnsType DEF Stored
<1> QED
  BY <1>2 DEF Init, Clean, Live

\* A turn that the provider refused as too long is tried again only when nothing of the first attempt is left: it ran no
\* tool and stored no message but the user's.
THEOREM SecondTryIsClean == Spec => RetryIsClean
<1>1. IInv /\ CleanInv /\ [Next]_vars => CleanInv'
  BY NextClean
<1>2. IInv /\ CleanInv /\ [Next]_vars =>
        [\A t \in Turns : ~loc[t].second /\ loc'[t].second =>
           ran[t] = 0 /\ \A k \in DOMAIN store : store[k].turn = t => store[k].kind = "user"]_vars
  BY NextClean DEF CleanRetry
<1> QED
  BY <1>1, <1>2, InitClean, Invariant, PTL DEF Spec, RetryIsClean

-----------------------------------------------------------------------------
(* Tools and their results.                                                *)

\* The calls of a turn that were served and whose results wait to be stored, the one under way included.
Owed(t) ==
  IF pc[t] \in {"use", "confirm"} THEN loc[t].pend
  ELSE IF pc[t] \in {"tool", "human", "wait"} THEN loc[t].pend + 1
  ELSE IF fresh[t] = <<>> THEN 0 ELSE fresh[t][2].n

\* While the turn runs every call it started has its result stored or owed, and nothing is owed when it is over.
OnRecord(t) ==
  /\ IsFiniteSet(ResultBlocks(t))
  /\ Live(t) => ran[t] <= Cardinality(ResultBlocks(t)) + Owed(t)
  /\ runStatus[t] \in {"done", "error", "aborted"} => ran[t] <= Cardinality(ResultBlocks(t))

RecordInv == CleanInv /\ \A t \in Turns : OnRecord(t)

\* What turn t has on record does not get less.
Recorded(t) ==
  /\ IsFiniteSet(ResultBlocks(t)')
  /\ Cardinality(ResultBlocks(t)) <= Cardinality(ResultBlocks(t)')

LEMMA OwedType == ASSUME IInv, NEW t \in Turns PROVE Owed(t) \in Nat /\ ran[t] \in Nat
<1>1. loc[t] \in Locals /\ loc[t].pend \in Nat /\ pc[t] \in PCs /\ Waiting(t) /\ ran[t] \in Nat
  BY TurnAssumption DEF IInv, TypeOK, Locals
<1>2. CASE pc[t] \in Calling \/ fresh[t] = <<>>
  BY <1>1, <1>2 DEF Owed, Calling
<1>3. CASE WholeStep(t, fresh[t])
  <2> PICK n \in 1 .. MaxUses, notes \in SUBSET Items :
             fresh[t] = <<Row("reply", t, n, {}), Row("results", t, n, notes)>>
    BY <1>3 DEF WholeStep
  <2>1. fresh[t][2].n = n
    BY DEF Row
  <2> QED
    BY <1>1, <2>1, TurnAssumption DEF Owed
<1> QED
  BY <1>1, <1>2, <1>3 DEF Waiting, Calling, PCs, Parked

\* Rows are only added, so blocks are too.
LEMMA BatchRecord ==
  ASSUME IInv, NEW u \in Turns, IsFiniteSet(ResultBlocks(u)), NEW batch \in Seq(Rows), store' = store \o batch,
         \A k \in DOMAIN batch : ~(batch[k].kind = "results" /\ batch[k].turn = u)
  PROVE  Recorded(u)
<1>1. /\ store \in Seq(Rows) /\ Len(store) \in Nat /\ Len(batch) \in Nat
      /\ DOMAIN store = 1 .. Len(store) /\ DOMAIN batch = 1 .. Len(batch)
  BY LenProperties DEF IInv, TypeOK
<1>2. /\ Len(store') = Len(store) + Len(batch) /\ DOMAIN store' = 1 .. Len(store')
      /\ \A k \in DOMAIN store' : store'[k] = IF k <= Len(store) THEN store[k] ELSE batch[k - Len(store)]
  BY <1>1, ConcatProperties, LenProperties
<1>3. \A k \in DOMAIN store' : IF k <= Len(store) THEN k \in DOMAIN store ELSE k - Len(store) \in DOMAIN batch
  BY <1>1, <1>2
<1>4. DOMAIN store \subseteq DOMAIN store' /\ \A k \in DOMAIN store : k <= Len(store)
  BY <1>1, <1>2
<1>5. ResultsOf(u)' = ResultsOf(u)
  BY <1>2, <1>3, <1>4 DEF ResultsOf
<1>6. ResultBlocks(u)' = ResultBlocks(u)
  BY <1>2, <1>4, <1>5 DEF ResultBlocks, ResultsOf
<1> QED
  BY <1>6, FS_CardinalityType DEF Recorded

LEMMA SameRecord ==
  ASSUME NEW u \in Turns, IsFiniteSet(ResultBlocks(u)), UNCHANGED store
  PROVE  Recorded(u) /\ ResultBlocks(u)' = ResultBlocks(u)
<1>1. ResultBlocks(u)' = ResultBlocks(u)
  BY DEF ResultBlocks, ResultsOf
<1> QED
  BY <1>1, FS_CardinalityType DEF Recorded

LEMMA SummaryRecord ==
  ASSUME IInv, NEW upTo \in Nat, Summarise(upTo) \/ UNCHANGED store, NEW u \in Turns, IsFiniteSet(ResultBlocks(u))
  PROVE  Recorded(u)
<1>1. CASE UNCHANGED store
  BY <1>1, SameRecord
<1>2. CASE Summarise(upTo)
  <2> DEFINE r == Row("summary", NoTurn, upTo, {})
  <2>1. r \in Rows /\ r.kind = "summary"
    <3>1. "summary" \in Kinds /\ NoTurn \in 0 .. MaxTurns /\ {} \in SUBSET Items
      BY TurnAssumption DEF Kinds, NoTurn
    <3> QED
      BY <3>1, RowType DEF Row
  <2>2. store' = store \o <<r>> /\ <<r>> \in Seq(Rows)
    BY <1>2, <2>1, AppendJoins DEF Summarise
  <2> HIDE DEF r
  <2>3. \A k \in DOMAIN <<r>> : <<r>>[k].kind = "summary"
    BY <2>1
  <2> QED
    BY <2>2, <2>3, BatchRecord
<1> QED
  BY <1>1, <1>2

\* A whole step that is stored adds its n results.
LEMMA StepRecord ==
  ASSUME IInv, NEW t \in Turns, IsFiniteSet(ResultBlocks(t)), NEW batch, WholeStep(t, batch), store' = store \o batch
  PROVE  /\ IsFiniteSet(ResultBlocks(t)')
         /\ batch[2].n \in Nat
         /\ Cardinality(ResultBlocks(t)) + batch[2].n <= Cardinality(ResultBlocks(t)')
<1> PICK n \in 1 .. MaxUses, notes \in SUBSET Items :
           batch = <<Row("reply", t, n, {}), Row("results", t, n, notes)>>
  BY DEF WholeStep
<1>0. n \in Nat
  BY TurnAssumption
<1> DEFINE a == Row("reply", t, n, {})
           b == Row("results", t, n, notes)
           N == {Len(store) + 2} \X (1 .. n)
<1>1. batch = <<a, b>> /\ batch \in Seq(Rows) /\ Len(batch) = 2
  BY WholeStepType
<1>2. a.kind = "reply" /\ b.kind = "results" /\ b.turn = t /\ b.n = n
  BY DEF Row
<1>3. store \in Seq(Rows) /\ Len(store) \in Nat /\ DOMAIN store = 1 .. Len(store)
  BY LenProperties DEF IInv, TypeOK
<1> HIDE DEF a, b
<1>4. /\ Len(store') = Len(store) + 2 /\ DOMAIN store' = 1 .. Len(store) + 2
      /\ \A k \in DOMAIN store' : store'[k] = IF k <= Len(store) THEN store[k] ELSE batch[k - Len(store)]
  BY <1>1, <1>3, ConcatProperties, LenProperties
<1>5. store'[Len(store) + 1] = a /\ store'[Len(store) + 2] = b /\ \A k \in DOMAIN store : store'[k] = store[k]
  <2>1. Len(store) + 1 \in DOMAIN store' /\ Len(store) + 2 \in DOMAIN store' /\ DOMAIN store \subseteq DOMAIN store'
    BY <1>3, <1>4
  <2> QED
    BY <1>1, <1>3, <1>4, <2>1
<1>6. \A k \in DOMAIN store' : k \in DOMAIN store \/ k = Len(store) + 1 \/ k = Len(store) + 2
  BY <1>3, <1>4
<1>7. Len(store) + 2 \in DOMAIN store' /\ DOMAIN store \subseteq DOMAIN store' /\ Len(store) + 2 \notin DOMAIN store
  BY <1>3, <1>4
<1>8. ResultsOf(t)' = ResultsOf(t) \cup {Len(store) + 2}
  BY <1>2, <1>5, <1>6, <1>7 DEF ResultsOf
<1>9. ResultBlocks(t)' = ResultBlocks(t) \cup N
  <2>1. store'[Len(store) + 2].n = n /\ \A k \in ResultsOf(t) : store'[k].n = store[k].n
    BY <1>2, <1>5 DEF ResultsOf
  <2> DEFINE old == {{k} \X (1 .. store[k].n) : k \in ResultsOf(t)}
             new == {{k} \X (1 .. store'[k].n) : k \in ResultsOf(t)'}
  <2>2. \A k \in ResultsOf(t) : {k} \X (1 .. store'[k].n) = {k} \X (1 .. store[k].n)
    BY <2>1
  <2>3. {Len(store) + 2} \X (1 .. store'[Len(store) + 2].n) = N
    BY <2>1
  <2>4. new = old \cup {N}
    <3> HIDE DEF N
    <3>1. \A B \in new : B \in old \cup {N}
      BY <1>8, <2>2, <2>3
    <3>2. \A B \in old \cup {N} : B \in new
      BY <1>8, <2>2, <2>3
    <3> QED
      BY <3>1, <3>2
  <2>5. ResultBlocks(t) = UNION old /\ ResultBlocks(t)' = UNION new
    BY DEF ResultBlocks
  <2> HIDE DEF old, new, N
  <2> QED
    BY <2>4, <2>5
<1>10. ResultBlocks(t) \cap N = {}
  BY <1>7 DEF ResultBlocks, ResultsOf
<1>11. IsFiniteSet(N) /\ Cardinality(N) = n
  <2>1. IsFiniteSet({Len(store) + 2}) /\ Cardinality({Len(store) + 2}) = 1
    BY FS_Singleton
  <2>2. IsFiniteSet(1 .. n) /\ Cardinality(1 .. n) = n
    BY <1>0, FS_Interval
  <2>3. IsFiniteSet(N) /\ Cardinality(N) = Cardinality({Len(store) + 2}) * Cardinality(1 .. n)
    BY <2>1, <2>2, FS_Product
  <2> QED
    BY <1>0, <2>1, <2>2, <2>3
<1> HIDE DEF N
<1>12. IsFiniteSet(ResultBlocks(t)') /\ Cardinality(ResultBlocks(t)') = Cardinality(ResultBlocks(t)) + n
  <2>1. Cardinality(ResultBlocks(t) \cap N) = 0 /\ Cardinality(ResultBlocks(t)) \in Nat
    BY <1>10, FS_EmptySet, FS_CardinalityType
  <2>2. /\ IsFiniteSet(ResultBlocks(t) \cup N)
        /\ Cardinality(ResultBlocks(t) \cup N)
             = Cardinality(ResultBlocks(t)) + Cardinality(N) - Cardinality(ResultBlocks(t) \cap N)
    BY <1>11, FS_Union
  <2> QED
    BY <1>0, <1>9, <1>11, <2>1, <2>2
<1>13. batch[2].n = n
  BY <1>1, <1>2
<1> QED
  BY <1>0, <1>12, <1>13, FS_CardinalityType

\* Turn t moves; it owes what it started and has not stored.
LEMMA RecordMoves ==
  ASSUME IInv, RecordInv, CleanInv', NEW t \in Turns,
         \A u \in Turns : u # t => /\ pc'[u] = pc[u] /\ loc'[u] = loc[u] /\ fresh'[u] = fresh[u] /\ ran'[u] = ran[u]
                                   /\ runStatus'[u] = runStatus[u] /\ Recorded(u),
         OnRecord(t)'
  PROVE  RecordInv'
<1> SUFFICES ASSUME NEW u \in Turns, u # t PROVE OnRecord(u)'
  BY DEF RecordInv
<1>1. OnRecord(u) /\ Owed(u)' = Owed(u) /\ (Live(u)' <=> Live(u)) /\ Recorded(u)
  BY DEF RecordInv, Owed, Live
<1>2. /\ Cardinality(ResultBlocks(u)) \in Nat /\ Cardinality(ResultBlocks(u)') \in Nat
      /\ Cardinality(ResultBlocks(u)) <= Cardinality(ResultBlocks(u)')
  BY <1>1, FS_CardinalityType DEF Recorded, OnRecord
<1>3. Owed(u) \in Nat /\ ran[u] \in Nat /\ ran'[u] = ran[u] /\ runStatus'[u] = runStatus[u]
  BY OwedType
<1> HIDE DEF IInv
<1>4. Live(u)' => ran'[u] <= Cardinality(ResultBlocks(u)') + Owed(u)'
  BY <1>1, <1>2, <1>3 DEF OnRecord
<1>5. runStatus'[u] \in {"done", "error", "aborted"} => ran'[u] <= Cardinality(ResultBlocks(u)')
  BY <1>1, <1>2, <1>3 DEF OnRecord
<1> QED
  BY <1>1, <1>4, <1>5 DEF OnRecord, Recorded

\* A running turn goes on.  It has started at most as many calls as before, or one more that it owes now.
LEMMA RecordOn ==
  ASSUME IInv, RecordInv, CleanInv', NEW t \in Turns, Live(t), \A u \in Turns : Recorded(u),
         runStatus'[t] \notin {"done", "error", "aborted"},
         \A u \in Turns : u # t => /\ pc'[u] = pc[u] /\ loc'[u] = loc[u] /\ fresh'[u] = fresh[u] /\ ran'[u] = ran[u]
                                   /\ runStatus'[u] = runStatus[u],
         \/ ran'[t] = ran[t] /\ Owed(t)' >= Owed(t)
         \/ ran'[t] = ran[t] + 1 /\ Owed(t)' >= Owed(t) + 1,
         Owed(t)' \in Nat
  PROVE  RecordInv'
<1>1. OnRecord(t) /\ Recorded(t) /\ Owed(t) \in Nat /\ ran[t] \in Nat
  BY OwedType DEF RecordInv
<1>2. /\ Cardinality(ResultBlocks(t)) \in Nat /\ Cardinality(ResultBlocks(t)') \in Nat
      /\ Cardinality(ResultBlocks(t)) <= Cardinality(ResultBlocks(t)')
      /\ ran[t] <= Cardinality(ResultBlocks(t)) + Owed(t)
  BY <1>1, FS_CardinalityType DEF Recorded, OnRecord
<1>3. ran'[t] <= Cardinality(ResultBlocks(t)') + Owed(t)'
  BY <1>1, <1>2
<1> QED
  BY <1>1, <1>3, RecordMoves DEF OnRecord, Recorded

LEMMA LiveIsActiveNext == ASSUME IInv', NEW t \in Turns, Live(t)' PROVE runStatus'[t] \notin {"done", "error", "aborted"}
<1>1. activeRoot' = t /\ activeRoot' # NoTurn
  BY TurnsType DEF IInv, OneTurn
<1> QED
  BY <1>1 DEF IInv, OneTurn, DownIdle, ActiveStatuses

\* A turn ends; what it owes is in the last batch.
LEMMA EndRecord ==
  ASSUME IInv, RecordInv, CleanInv', NEW t \in Turns, Live(t), NEW batch \in Seq(Rows), NEW status, EndTurn(t, batch, status),
         \A k \in DOMAIN batch : batch[k].turn = t, UNCHANGED ran,
         \/ WholeStep(t, batch) /\ Owed(t) <= batch[2].n
         \/ (\A k \in DOMAIN batch : batch[k].kind = "reply") /\ Owed(t) = 0
  PROVE  RecordInv'
<1>1. /\ pc'[t] = "ended" /\ store' = store \o batch
      /\ \A u \in Turns : u # t => pc'[u] = pc[u] /\ loc'[u] = loc[u] /\ fresh'[u] = fresh[u] /\ runStatus'[u] = runStatus[u]
  BY DEF EndTurn, IInv, TypeOK
<1>2. \A u \in Turns : OnRecord(u)
  BY DEF RecordInv
<1>3. \A u \in Turns : u # t => Recorded(u)
  BY <1>1, <1>2, BatchRecord DEF OnRecord
<1>4. Owed(t) \in Nat /\ ran[t] \in Nat /\ ran'[t] = ran[t]
  BY OwedType
<1>5. Cardinality(ResultBlocks(t)) \in Nat /\ ran[t] <= Cardinality(ResultBlocks(t)) + Owed(t)
  BY <1>2, FS_CardinalityType DEF OnRecord
<1>6. IsFiniteSet(ResultBlocks(t)') /\ ran'[t] <= Cardinality(ResultBlocks(t)')
  <2>1. CASE WholeStep(t, batch) /\ Owed(t) <= batch[2].n
    <3>1. /\ IsFiniteSet(ResultBlocks(t)') /\ batch[2].n \in Nat
          /\ Cardinality(ResultBlocks(t)) + batch[2].n <= Cardinality(ResultBlocks(t)')
      BY <1>1, <1>2, <2>1, StepRecord DEF OnRecord
    <3>2. Cardinality(ResultBlocks(t)') \in Nat
      BY <3>1, FS_CardinalityType
    <3> QED
      BY <1>4, <1>5, <2>1, <3>1, <3>2
  <2>2. CASE (\A k \in DOMAIN batch : batch[k].kind = "reply") /\ Owed(t) = 0
    <3>1. Recorded(t)
      BY <1>1, <1>2, <2>2, BatchRecord DEF OnRecord
    <3>2. Cardinality(ResultBlocks(t)') \in Nat
      BY <3>1, FS_CardinalityType DEF Recorded
    <3> QED
      BY <1>4, <1>5, <2>2, <3>1, <3>2 DEF Recorded
  <2> QED
    BY <2>1, <2>2
<1>7. OnRecord(t)'
  BY <1>1, <1>6 DEF OnRecord, Live
<1> QED
  BY <1>1, <1>3, <1>7, RecordMoves

\* closeOpenToolCalls gives every call of the reply a result.
LEMMA ClosedOwes ==
  ASSUME IInv, NEW t \in Turns
  PROVE  \/ CloseOpenToolCalls(t) = <<>> /\ Owed(t) = 0
         \/ WholeStep(t, CloseOpenToolCalls(t)) /\ Owed(t) <= CloseOpenToolCalls(t)[2].n
<1>1. fresh[t] \in Seq(Rows) /\ loc[t] \in Locals /\ pc[t] \in PCs /\ Waiting(t) /\ Counted(t)
  BY DEF IInv, TypeOK
<1>2. CASE pc[t] \in Calling
  <2>1. loc[t].uses \in 1 .. MaxUses /\ loc[t].got \in SUBSET Items /\ loc[t].pend \in Nat /\ loc[t].uses \in Nat
    BY <1>1, <1>2, TurnAssumption DEF Counted, Locals
  <2>2. fresh[t] = <<Row("reply", t, loc[t].uses, {})>>
    BY <1>1, <1>2 DEF Waiting
  <2>3. Len(fresh[t]) = 1 /\ fresh[t][1] = Row("reply", t, loc[t].uses, {})
    BY <2>2
  <2>4. OpenReply(fresh[t]) /\ fresh[t][1].n = loc[t].uses
    BY <2>1, <2>2, <2>3 DEF OpenReply, Row
  <2>5. CloseOpenToolCalls(t)
          = <<Row("reply", t, loc[t].uses, {}), Row("results", t, loc[t].uses, loc[t].got)>>
    BY <2>2, <2>3, <2>4, AppendPair DEF CloseOpenToolCalls
  <2>6. WholeStep(t, CloseOpenToolCalls(t)) /\ CloseOpenToolCalls(t)[2].n = loc[t].uses
    <3>1. CloseOpenToolCalls(t)[2] = Row("results", t, loc[t].uses, loc[t].got)
      BY <2>5
    <3>2. WholeStep(t, CloseOpenToolCalls(t))
      BY <2>1, <2>5 DEF WholeStep
    <3> QED
      BY <3>1, <3>2 DEF Row
  <2>7. Owed(t) <= loc[t].uses
    BY <1>1, <1>2, <2>1 DEF Owed, Counted, Calling
  <2> QED
    BY <2>6, <2>7
<1>3. CASE pc[t] \notin Calling /\ fresh[t] = <<>>
  BY <1>3 DEF CloseOpenToolCalls, OpenReply, Owed, Calling
<1>4. CASE pc[t] \notin Calling /\ WholeStep(t, fresh[t])
  <2> PICK n \in 1 .. MaxUses, notes \in SUBSET Items :
             fresh[t] = <<Row("reply", t, n, {}), Row("results", t, n, notes)>>
    BY <1>4 DEF WholeStep
  <2>1. Len(fresh[t]) = 2 /\ fresh[t][2] = Row("results", t, n, notes) /\ fresh[t] # <<>> /\ fresh[t][2].n = n
    BY DEF Row
  <2>2. ~OpenReply(fresh[t])
    BY <2>1 DEF OpenReply, Row
  <2>3. CloseOpenToolCalls(t) = fresh[t] /\ Owed(t) = n
    BY <1>4, <2>1, <2>2 DEF CloseOpenToolCalls, Owed, Calling
  <2> QED
    BY <1>4, <2>1, <2>3, TurnAssumption
<1> QED
  BY <1>1, <1>2, <1>3, <1>4 DEF Waiting, PCs, Parked, Calling

LEMMA FailRecord ==
  ASSUME IInv, RecordInv, CleanInv', NEW t \in Turns, Live(t), NEW status, FailTurn(t, status), UNCHANGED ran
  PROVE  RecordInv'
<1> DEFINE C == CloseOpenToolCalls(t)
<1>1. \/ C = <<>> /\ Owed(t) = 0
      \/ WholeStep(t, C) /\ Owed(t) <= C[2].n
  BY ClosedOwes, Zenon
<1>2. EndTurn(t, C, status)
  BY DEF FailTurn
<1> HIDE DEF C
<1>3. C \in Seq(Rows) /\ \A k \in DOMAIN C : C[k].turn = t
  <2>1. CASE C = <<>>
    BY <2>1, EmptySeq
  <2>2. CASE WholeStep(t, C)
    BY <2>2, WholeStepTurn
  <2> QED
    BY <1>1, <2>1, <2>2
<1>4. \/ WholeStep(t, C) /\ Owed(t) <= C[2].n
      \/ (\A k \in DOMAIN C : C[k].kind = "reply") /\ Owed(t) = 0
  BY <1>1
<1> QED
  BY <1>2, <1>3, <1>4, EndRecord

\* A call is served: it moves from the running ones to the results.
LEMMA PushRecord ==
  ASSUME IInv, RecordInv, IInv', CleanInv', NEW t \in Turns, pc[t] \in Calling, NEW A, NEW l \in Locals,
         l.uses = loc[t].uses, l.pend = loc[t].pend, PushResult(t, A, l), UNCHANGED store,
         \A u \in Turns : u # t => ran'[u] = ran[u] /\ runStatus'[u] = runStatus[u],
         \/ ran'[t] = ran[t]
         \/ ran'[t] = ran[t] + 1 /\ pc[t] \in {"use", "confirm"}
  PROVE  RecordInv'
<1> DEFINE full == l.pend + 1 = l.uses
           p == [l EXCEPT !.pend = @ + 1, !.got = IF full THEN {} ELSE l.got \cup A, !.asking = {}]
           q == IF full THEN "top" ELSE "use"
           r == Row("results", t, l.uses, l.got \cup A)
           f == IF full THEN Append(fresh[t], r) ELSE fresh[t]
<1>1. loc'[t] = p /\ pc'[t] = q /\ fresh'[t] = f
  BY DEF PushResult, IInv, TypeOK
<1>2. \A u \in Turns : u # t => pc'[u] = pc[u] /\ loc'[u] = loc[u] /\ fresh'[u] = fresh[u]
  BY DEF PushResult, IInv, TypeOK
<1>3. l.pend \in Nat /\ l.uses \in Nat /\ p.pend = l.pend + 1 /\ Live(t)
  BY TurnAssumption DEF Locals, Live, Calling
<1>4. Owed(t)' = l.pend + 1
  <2>1. CASE ~full
    BY <1>1, <1>3, <2>1 DEF Owed
  <2>2. CASE full
    <3>1. fresh[t] = <<Row("reply", t, l.uses, {})>>
      BY DEF IInv, Waiting
    <3>2. fresh'[t] = <<Row("reply", t, l.uses, {}), r>>
      BY <1>1, <2>2, <3>1, AppendPair
    <3>3. r.n = l.uses
      BY DEF Row
    <3> HIDE DEF r
    <3>4. fresh'[t] # <<>> /\ fresh'[t][2].n = l.uses
      BY <3>2, <3>3
    <3> QED
      BY <1>1, <2>2, <3>4 DEF Owed
  <2> QED
    BY <2>1, <2>2
<1>5. Owed(t) = IF pc[t] \in {"use", "confirm"} THEN l.pend ELSE l.pend + 1
  BY DEF Owed, Calling
<1>6. \A u \in Turns : Recorded(u)
  BY SameRecord DEF RecordInv, OnRecord
<1>7. runStatus'[t] \notin {"done", "error", "aborted"}
  BY <1>1, LiveIsActiveNext DEF Live
<1>8. ran[t] \in Nat
  BY OwedType
<1> HIDE DEF full, p, q, r, f
<1>9. Owed(t)' \in Nat
  BY <1>3, <1>4
<1>10. \/ ran'[t] = ran[t] /\ Owed(t)' >= Owed(t)
       \/ ran'[t] = ran[t] + 1 /\ Owed(t)' >= Owed(t) + 1
  BY <1>3, <1>4, <1>5
<1> QED
  BY <1>2, <1>3, <1>6, <1>7, <1>9, <1>10, RecordOn

\* No turn moves; a run that is over keeps its status.
LEMMA StayRecord ==
  ASSUME IInv, RecordInv, CleanInv', UNCHANGED <<pc, loc, fresh, ran>>, \A u \in Turns : Recorded(u),
         \A u \in Turns : runStatus'[u] \in {"done", "error", "aborted"} => runStatus'[u] = runStatus[u]
  PROVE  RecordInv'
<1> SUFFICES ASSUME NEW u \in Turns PROVE OnRecord(u)'
  BY DEF RecordInv
<1>1. OnRecord(u) /\ Owed(u)' = Owed(u) /\ (Live(u)' <=> Live(u)) /\ Recorded(u) /\ ran'[u] = ran[u]
  BY DEF RecordInv, Owed, Live
<1>2. /\ Cardinality(ResultBlocks(u)) \in Nat /\ Cardinality(ResultBlocks(u)') \in Nat
      /\ Cardinality(ResultBlocks(u)) <= Cardinality(ResultBlocks(u)')
  BY <1>1, FS_CardinalityType DEF Recorded, OnRecord
<1>3. Owed(u) \in Nat /\ ran[u] \in Nat
  BY OwedType
<1>4. Live(u)' => ran'[u] <= Cardinality(ResultBlocks(u)') + Owed(u)'
  BY <1>1, <1>2, <1>3 DEF OnRecord
<1>5. runStatus'[u] \in {"done", "error", "aborted"} => ran'[u] <= Cardinality(ResultBlocks(u)')
  BY <1>1, <1>2, <1>3 DEF OnRecord
<1> QED
  BY <1>1, <1>4, <1>5 DEF OnRecord, Recorded

LEMMA KickoffRecord ==
  ASSUME IInv, RecordInv, IInv', CleanInv', NEW notes \in SUBSET Items, Kickoff(notes)
  PROVE  RecordInv'
<1>0. turnCount + 1 \in Turns /\ turnCount \in Nat
  BY TurnAssumption DEF IInv, TypeOK, Kickoff, Turns
<1> PICK t \in Turns : t = turnCount + 1
  BY <1>0
<1> DEFINE r == Row("user", t, 0, notes)
<1>1. r \in Rows /\ r.kind = "user"
  BY TurnsType, RowType DEF Row, Kinds
<1>2. /\ store' = store \o <<r>> /\ <<r>> \in Seq(Rows) /\ pc'[t] = "prep" /\ UNCHANGED <<ran, fresh>>
      /\ \A u \in Turns : u # t => loc'[u] = loc[u] /\ pc'[u] = pc[u] /\ runStatus'[u] = runStatus[u]
  BY <1>1, AppendJoins DEF Kickoff, IInv, TypeOK
<1> HIDE DEF r
<1>3. \A k \in DOMAIN <<r>> : <<r>>[k].kind = "user"
  BY <1>1
<1>4. \A u \in Turns : Recorded(u)
  BY <1>2, <1>3, BatchRecord DEF RecordInv, OnRecord
<1>5. pc[t] = "none" /\ ran[t] = 0
  BY <1>0, TurnsType DEF RecordInv, CleanInv, Clean
<1>6. runStatus'[t] \notin {"done", "error", "aborted"} /\ Owed(t)' = 0
  <2>1. fresh'[t] = <<>>
    BY <1>2, <1>5 DEF IInv, Waiting
  <2>2. Live(t)'
    BY <1>2 DEF Live
  <2> QED
    BY <1>2, <2>1, <2>2, LiveIsActiveNext DEF Owed
<1>7. OnRecord(t)'
  <2>1. Cardinality(ResultBlocks(t)') \in Nat /\ ran'[t] = 0
    BY <1>2, <1>4, <1>5, FS_CardinalityType DEF Recorded
  <2> QED
    BY <1>4, <1>6, <2>1 DEF OnRecord, Recorded
<1> QED
  BY <1>2, <1>4, <1>7, RecordMoves

LEMMA UserRecord == ASSUME IInv, RecordInv, IInv', CleanInv', UserStep PROVE RecordInv'
<1>0. \A u \in Turns : IsFiniteSet(ResultBlocks(u))
  BY DEF RecordInv, OnRecord
<1>1. CASE SendMessage
  BY <1>1, KickoffRecord DEF SendMessage
<1>2. CASE Kill
  <2>1. controller \in Turns /\ Live(controller) /\ UNCHANGED ran
    BY <1>2 DEF Kill, IInv, OneTurn, TypeOK, Turns, NoTurn
  <2>2. CASE pc[controller] \in {"confirm", "human", "wait"}
    BY <1>2, <2>1, <2>2, FailRecord DEF Kill
  <2>3. CASE pc[controller] \notin {"confirm", "human", "wait"}
    BY <1>0, <1>2, <2>1, <2>3, SameRecord, StayRecord DEF Kill
  <2> QED
    BY <2>2, <2>3
<1>3. CASE CompactStart
  BY <1>0, <1>3, SameRecord, StayRecord DEF CompactStart, local, runs
<1>4. CASE CompactEnd
  <2>1. compacting \in Nat /\ UNCHANGED <<pc, loc, fresh, ran, runStatus>> /\ (Summarise(compacting) \/ UNCHANGED store)
    BY <1>4 DEF CompactEnd, local, runs, IInv, TypeOK
  <2> QED
    BY <1>0, <2>1, SummaryRecord, StayRecord
<1>5. ASSUME NEW t \in Turns, NEW A, pc[t] = "human", PushResult(t, A, loc[t]), UNCHANGED <<store, ran, runStatus>>
      PROVE  RecordInv'
  <2>1. pc[t] \in Calling /\ loc[t] \in Locals
    BY <1>5 DEF Calling, IInv, TypeOK
  <2> QED
    BY <1>5, <2>1, PushRecord
<1>6. ASSUME NEW i \in Items, RespondBlocking(i) \/ AnswerTimeout(i) PROVE RecordInv'
  BY <1>5, <1>6 DEF RespondBlocking, AnswerTimeout, runs
<1>7. ASSUME NEW i \in Items, Dismiss(i) PROVE RecordInv'
  <2>0. UNCHANGED <<store, ran, runStatus>>
    BY <1>7 DEF Dismiss, runs
  <2>1. CASE i \in waiter
    BY <1>5, <1>7, <2>0, <2>1 DEF Dismiss
  <2>2. CASE i \notin waiter
    BY <1>0, <1>7, <2>0, <2>2, SameRecord, StayRecord DEF Dismiss
  <2> QED
    BY <2>1, <2>2
<1>8. ASSUME NEW i \in Items, RespondToInbox(i) PROVE RecordInv'
  BY <1>0, <1>8, SameRecord, StayRecord DEF RespondToInbox, local
<1>9. ASSUME NEW i \in Items, RespondStartsTurn(i) PROVE RecordInv'
  <2>1. {i} \in SUBSET Items
    OBVIOUS
  <2> QED
    BY <1>9, <2>1, KickoffRecord DEF RespondStartsTurn
<1> QED
  BY <1>1, <1>2, <1>3, <1>4, <1>6, <1>7, <1>8, <1>9 DEF UserStep

\* A turn goes on between two requests, or within a call.
LEMMA GoesRecord ==
  ASSUME IInv, RecordInv, IInv', CleanInv', NEW t \in Turns, Live(t), NEW q \in PCs \ {"none", "ended"},
         pc' = [pc EXCEPT ![t] = q], \A u \in Turns : u # t => loc'[u] = loc[u] /\ fresh'[u] = fresh[u],
         \A u \in Turns : u # t => ran'[u] = ran[u] /\ runStatus'[u] = runStatus[u],
         \A u \in Turns : Recorded(u),
         \/ ran'[t] = ran[t] /\ Owed(t)' = Owed(t)
         \/ ran'[t] = ran[t] + 1 /\ Owed(t)' = Owed(t) + 1
  PROVE  RecordInv'
<1>1. pc'[t] = q /\ \A u \in Turns : u # t => pc'[u] = pc[u]
  BY DEF IInv, TypeOK
<1>2. runStatus'[t] \notin {"done", "error", "aborted"}
  BY <1>1, LiveIsActiveNext DEF Live
<1>3. Owed(t) \in Nat /\ ran[t] \in Nat
  BY OwedType
<1> QED
  BY <1>1, <1>2, <1>3, RecordOn

LEMMA PreparedRecord ==
  ASSUME IInv, RecordInv, IInv', CleanInv', NEW t \in Turns, Prepared(t) \/ Compacted(t) \/ Recompacted(t)
  PROVE  RecordInv'
<1>0. \A u \in Turns : IsFiniteSet(ResultBlocks(u))
  BY DEF RecordInv, OnRecord
<1>1. /\ Live(t) /\ loc[t].upTo \in Nat /\ UNCHANGED ran /\ fresh[t] = <<>> /\ pc[t] \in {"prep", "compact", "recompact"}
  BY DEF Prepared, Compacted, Recompacted, Live, IInv, TypeOK, Locals, Waiting
<1>2. ASSUME NEW status, FailTurn(t, status) PROVE RecordInv'
  BY <1>1, <1>2, FailRecord
<1>3. ASSUME NEW q \in {"top", "compact"}, pc' = [pc EXCEPT ![t] = q], NEW l, loc' = [loc EXCEPT ![t] = l],
             Summarise(loc[t].upTo) \/ UNCHANGED store, UNCHANGED <<fresh, runStatus>>
      PROVE  RecordInv'
  <2>1. Owed(t) = 0 /\ Owed(t)' = 0
    BY <1>1, <1>3 DEF Owed, IInv, TypeOK
  <2>2. \A u \in Turns : Recorded(u)
    BY <1>0, <1>1, <1>3, SummaryRecord
  <2>3. \A u \in Turns : u # t => loc'[u] = loc[u]
    BY <1>3 DEF IInv, TypeOK
  <2> QED
    BY <1>1, <1>3, <2>1, <2>2, <2>3, Onward, GoesRecord
<1>4. ASSUME UNCHANGED loc PROVE loc' = [loc EXCEPT ![t] = loc[t]]
  BY <1>4 DEF IInv, TypeOK
<1>5. CASE Prepared(t)
  BY <1>2, <1>3, <1>4, <1>5 DEF Prepared, IInv, TypeOK
<1>6. CASE Compacted(t)
  BY <1>2, <1>3, <1>4, <1>6 DEF Compacted, IInv, TypeOK
<1>7. CASE Recompacted(t)
  BY <1>2, <1>3, <1>7 DEF Recompacted, IInv, TypeOK
<1> QED
  BY <1>5, <1>6, <1>7

LEMMA LoopTopRecord == ASSUME IInv, RecordInv, IInv', CleanInv', NEW t \in Turns, LoopTop(t) PROVE RecordInv'
<1>1. pc[t] = "top" /\ Live(t) /\ UNCHANGED ran /\ \A u \in Turns : IsFiniteSet(ResultBlocks(u))
  BY DEF LoopTop, Live, RecordInv, OnRecord
<1>2. CASE aborted[t]
  BY <1>1, <1>2, FailRecord DEF LoopTop
<1>3. CASE ~aborted[t]
  <2> DEFINE batch == WithInbox(t)
  <2>1. /\ pc'[t] = "llm" /\ fresh'[t] = <<>> /\ store' = store \o batch /\ UNCHANGED runStatus
        /\ \A u \in Turns : u # t => loc'[u] = loc[u] /\ pc'[u] = pc[u] /\ fresh'[u] = fresh[u]
    <3>1. DOMAIN pc = Turns /\ DOMAIN fresh = Turns /\ DOMAIN loc = Turns  BY DEF IInv, TypeOK
    <3>2. /\ store' = store \o batch /\ UNCHANGED <<runStatus, srv>>
          /\ fresh' = [fresh EXCEPT ![t] = <<>>] /\ pc' = [pc EXCEPT ![t] = "llm"]
          /\ loc' = [loc EXCEPT ![t].steps = @ + 1, ![t].storedAny = @ \/ fresh[t] # <<>>]
      BY <1>3, Zenon DEF LoopTop
    <3>3. \A u \in Turns : u # t => loc'[u] = loc[u]  BY <3>1, <3>2
    <3> HIDE DEF batch
    <3> QED  BY <3>1, <3>2, <3>3, Zenon
  <2>2. Owed(t)' = 0 /\ runStatus'[t] \notin {"done", "error", "aborted"}
    BY <2>1, LiveIsActiveNext DEF Owed, Live
  <2>3. CASE fresh[t] = <<>>
    <3>1. batch = <<>>
      BY <1>1, <2>3, WithInboxShape
    <3>2. UNCHANGED store
      BY <2>1, <3>1 DEF IInv, TypeOK
    <3>3. Owed(t) = 0 /\ \A u \in Turns : Recorded(u)
      BY <1>1, <2>3, <3>2, SameRecord DEF Owed
    <3> HIDE DEF batch
    <3> QED
      BY <1>1, <2>1, <2>2, <3>3, RecordOn
  <2>4. CASE fresh[t] # <<>>
    <3>1. WholeStep(t, batch) /\ WholeStep(t, fresh[t])
      BY <1>1, <2>4, WithInboxShape DEF IInv, Waiting
    <3>2. batch[2].n = fresh[t][2].n
      <4> PICK n \in 1 .. MaxUses, notes \in SUBSET Items :
                 fresh[t] = <<Row("reply", t, n, {}), Row("results", t, n, notes)>>
        BY <3>1 DEF WholeStep
      <4> DEFINE a == Row("reply", t, n, {})
                 b == Row("results", t, n, notes)
                 c == Row("results", t, n, notes \cup inbox[t])
      <4>1. batch = [<<a, b>> EXCEPT ![2].notes = @ \cup inbox[t]]
        BY DEF WithInbox
      <4>2. batch = <<a, c>>
        BY <4>1, NotesAdded
      <4>3. c.n = n /\ b.n = n
        BY DEF Row
      <4>4. fresh[t] = <<a, b>>
        OBVIOUS
      <4> HIDE DEF a, b, c, batch
      <4> QED
        BY <4>2, <4>3, <4>4
    <3> HIDE DEF batch
    <3>3. /\ IsFiniteSet(ResultBlocks(t)') /\ batch[2].n \in Nat
          /\ Cardinality(ResultBlocks(t)) + batch[2].n <= Cardinality(ResultBlocks(t)')
      BY <1>1, <2>1, <3>1, StepRecord
    <3>4. Owed(t) = batch[2].n
      BY <1>1, <2>4, <3>2 DEF Owed
    <3>5. batch \in Seq(Rows) /\ \A k \in DOMAIN batch : batch[k].turn = t
      BY <3>1, WholeStepTurn
    <3>6. \A u \in Turns : u # t => Recorded(u)
      BY <1>1, <2>1, <3>5, BatchRecord
    <3>7. /\ Cardinality(ResultBlocks(t)) \in Nat /\ Cardinality(ResultBlocks(t)') \in Nat /\ ran[t] \in Nat
          /\ ran[t] <= Cardinality(ResultBlocks(t)) + Owed(t)
      BY <1>1, <3>3, OwedType, FS_CardinalityType DEF RecordInv, OnRecord
    <3>8. ran'[t] <= Cardinality(ResultBlocks(t)') + Owed(t)'
      BY <1>1, <2>2, <3>3, <3>4, <3>7
    <3>9. OnRecord(t)'
      BY <2>2, <3>3, <3>8 DEF OnRecord
    <3> QED
      BY <1>1, <2>1, <3>6, <3>9, RecordMoves
  <2> QED
    BY <2>3, <2>4
<1> QED
  BY <1>2, <1>3

LEMMA ReplyRecord ==
  ASSUME IInv, RecordInv, IInv', CleanInv', NEW t \in Turns, FinalReply(t) \/ ToolReply(t) \/ TooLong(t) \/ RequestFails(t)
  PROVE  RecordInv'
<1>1. /\ pc[t] = "llm" /\ Live(t) /\ loc[t] \in Locals /\ fresh[t] = <<>> /\ UNCHANGED ran /\ TypeOK
      /\ \A u \in Turns : IsFiniteSet(ResultBlocks(u))
  BY DEF FinalReply, ToolReply, TooLong, RequestFails, Live, IInv, TypeOK, Waiting, RecordInv, OnRecord
<1>2. Owed(t) = 0
  BY <1>1 DEF Owed
<1>3. CASE FinalReply(t)
  <2> DEFINE r == Row("reply", t, 0, {})
  <2>1. EndTurn(t, <<r>>, "done") /\ <<r>> \in Seq(Rows)
    BY <1>1, <1>3, AppendToEmpty, ReplyType, TurnAssumption DEF FinalReply
  <2>2. r.turn = t /\ r.kind = "reply"
    BY DEF Row
  <2> HIDE DEF r
  <2>3. \A k \in DOMAIN <<r>> : <<r>>[k].turn = t /\ <<r>>[k].kind = "reply"
    BY <2>2
  <2> QED
    BY <1>1, <1>2, <2>1, <2>3, EndRecord
<1>4. CASE ToolReply(t)
  <2>0. PICK n \in 1 .. MaxUses : loc' = [loc EXCEPT ![t].uses = n, ![t].pend = 0]
    BY <1>4 DEF ToolReply
  <2>1. loc' = [loc EXCEPT ![t] = [loc[t] EXCEPT !.uses = n, !.pend = 0]]
    BY <1>1, <2>0 DEF TypeOK
  <2>2. loc'[t].pend = 0
    BY <1>1, <2>1 DEF TypeOK, Locals
  <2>3. /\ pc' = [pc EXCEPT ![t] = "use"] /\ UNCHANGED <<store, runStatus>>
        /\ \A u \in Turns : u # t => loc'[u] = loc[u] /\ fresh'[u] = fresh[u]
    BY <1>1, <1>4 DEF ToolReply, TypeOK, runs
  <2>4. Owed(t)' = 0
    BY <1>1, <2>2, <2>3 DEF Owed, TypeOK
  <2> QED
    BY <1>1, <1>2, <2>3, <2>4, SameRecord, Onward, GoesRecord
<1>5. CASE TooLong(t)
  <2>1. /\ pc' = [pc EXCEPT ![t] = "recompact"] /\ UNCHANGED <<store, fresh, runStatus>>
        /\ \A u \in Turns : u # t => loc'[u] = loc[u]
    BY <1>1, <1>5 DEF TooLong, TypeOK, runs
  <2>2. Owed(t)' = 0
    BY <1>1, <2>1 DEF Owed, TypeOK
  <2> QED
    BY <1>1, <1>2, <2>1, <2>2, SameRecord, Onward, GoesRecord
<1>6. CASE RequestFails(t)
  BY <1>1, <1>6, FailRecord DEF RequestFails
<1> QED
  BY <1>3, <1>4, <1>5, <1>6

LEMMA StartToolRecord ==
  ASSUME IInv, RecordInv, IInv', CleanInv', NEW t \in Turns, pc[t] \in {"use", "confirm"}, StartTool(t), UNCHANGED store
  PROVE  RecordInv'
<1> DEFINE l == [loc[t] EXCEPT !.toolRan = TRUE]
<1>1. /\ loc[t] \in Locals /\ loc[t].pend \in Nat /\ Live(t) /\ pc[t] \in Calling /\ ran'[t] = ran[t] + 1
      /\ \A u \in Turns : u # t => ran'[u] = ran[u]
  <2>1. loc[t] \in Locals /\ ran' = [ran EXCEPT ![t] = @ + 1] /\ ran \in [Turns -> Nat]
    BY DEF IInv, TypeOK, StartTool
  <2>2. loc[t].pend \in Nat
    BY <2>1, TurnAssumption DEF Locals
  <2> QED
    BY <2>1, <2>2 DEF Live, Calling
<1>2. l \in Locals /\ l.uses = loc[t].uses /\ l.pend = loc[t].pend
  BY <1>1, AskingLocals
<1>3. \A u \in Turns : Recorded(u)
  BY SameRecord DEF RecordInv, OnRecord
<1>4. Owed(t) = loc[t].pend
  BY DEF Owed
<1>5. ASSUME NEW q \in {"tool", "human", "wait"}, pc' = [pc EXCEPT ![t] = q], NEW k, loc' = [loc EXCEPT ![t] = k],
             k.pend = loc[t].pend, UNCHANGED fresh, \A u \in Turns : u # t => runStatus'[u] = runStatus[u]
      PROVE  RecordInv'
  <2>1. loc'[t] = k /\ pc'[t] = q /\ \A u \in Turns : u # t => loc'[u] = loc[u]
    BY <1>5 DEF IInv, TypeOK
  <2>2. Owed(t)' = Owed(t) + 1
    BY <1>4, <1>5, <2>1 DEF Owed
  <2> QED
    BY <1>1, <1>3, <1>5, <2>1, <2>2, Onward, GoesRecord
<1>6. CASE loc' = [loc EXCEPT ![t] = l] /\ pc' = [pc EXCEPT ![t] = "tool"] /\ UNCHANGED <<fresh, runStatus>>
  <2> HIDE DEF l
  <2> QED
    BY <1>2, <1>5, <1>6
<1>7. CASE /\ loc' = [loc EXCEPT ![t] = l] /\ pc' = [pc EXCEPT ![t] = "wait"] /\ UNCHANGED fresh
           /\ runStatus' = [runStatus EXCEPT ![t] = "waiting_children"]
  <2>1. \A u \in Turns : u # t => runStatus'[u] = runStatus[u]
    BY <1>7 DEF IInv, TypeOK
  <2> HIDE DEF l
  <2> QED
    BY <1>2, <1>5, <1>7, <2>1
<1>8. ASSUME NEW i \in Items, loc' = [loc EXCEPT ![t] = [l EXCEPT !.asking = {i}]], pc' = [pc EXCEPT ![t] = "human"],
             UNCHANGED <<fresh, runStatus>>
      PROVE  RecordInv'
  <2> DEFINE k == [l EXCEPT !.asking = {i}]
  <2>1. k.pend = loc[t].pend
    <3> HIDE DEF l
    <3> QED
      BY <1>2, AskingLocals
  <2>2. loc' = [loc EXCEPT ![t] = k]
    BY <1>8
  <2> HIDE DEF k, l
  <2> QED
    BY <1>5, <1>8, <2>1, <2>2
<1>9. CASE PushResult(t, {}, l) /\ UNCHANGED runStatus
  <2> HIDE DEF l
  <2> QED
    BY <1>1, <1>2, <1>9, PushRecord
<1> QED
  BY <1>6, <1>7, <1>8, <1>9 DEF StartTool

LEMMA CallRecord ==
  ASSUME IInv, RecordInv, IInv', CleanInv', NEW t \in Turns,
         NextUse(t) \/ Approve(t) \/ Deny(t) \/ ToolReturns(t) \/ WaitReturns(t)
  PROVE  RecordInv'
<1>1. loc[t] \in Locals /\ Live(t) /\ pc[t] \in Calling
  BY DEF IInv, TypeOK, Live, Calling, NextUse, Approve, Deny, ToolReturns, WaitReturns
<1>2. ASSUME PushResult(t, {}, loc[t]), UNCHANGED <<store, ran>>, \A u \in Turns : u # t => runStatus'[u] = runStatus[u]
      PROVE  RecordInv'
  BY <1>1, <1>2, PushRecord
<1>3. CASE Deny(t)
  BY <1>2, <1>3 DEF Deny, runs
<1>4. CASE ToolReturns(t)
  BY <1>1, <1>2, <1>4, FailRecord DEF ToolReturns
<1>5. CASE WaitReturns(t)
  BY <1>2, <1>5 DEF WaitReturns, IInv, TypeOK
<1>6. CASE Approve(t)
  BY <1>6, StartToolRecord DEF Approve
<1>7. CASE NextUse(t)
  <2>0. pc[t] = "use"
    BY <1>7 DEF NextUse
  <2>1. CASE aborted[t]
    BY <1>1, <1>7, <2>1, FailRecord DEF NextUse
  <2>2. CASE ~aborted[t]
    <3>0. UNCHANGED store
      BY <1>7, <2>2 DEF NextUse
    <3>1. CASE PushResult(t, {}, loc[t]) /\ UNCHANGED <<ran, runStatus>>
      BY <1>2, <3>0, <3>1
    <3>2. CASE pc' = [pc EXCEPT ![t] = "confirm"] /\ UNCHANGED <<loc, fresh, ran, runStatus>>
      <4>1. Owed(t)' = Owed(t)
        BY <2>0, <3>2 DEF Owed, IInv, TypeOK
      <4>2. \A u \in Turns : Recorded(u)
        BY <3>0, SameRecord DEF RecordInv, OnRecord
      <4> QED
        BY <1>1, <3>2, <4>1, <4>2, Onward, GoesRecord
    <3>3. CASE StartTool(t)
      BY <2>0, <3>0, <3>3, StartToolRecord
    <3> QED
      BY <1>7, <2>2, <3>1, <3>2, <3>3 DEF NextUse
  <2> QED
    BY <2>1, <2>2
<1> QED
  BY <1>3, <1>4, <1>5, <1>6, <1>7

LEMMA NextRecord == ASSUME IInv, RecordInv, IInv', CleanInv', [Next]_vars PROVE RecordInv'
<1>0. \A u \in Turns : IsFiniteSet(ResultBlocks(u))
  BY DEF RecordInv, OnRecord
<1>1. CASE UNCHANGED vars
  BY <1>0, <1>1, SameRecord, StayRecord DEF vars
<1>2. CASE Restart
  <2>1. \A u \in Turns : runStatus'[u] \in {"done", "error", "aborted"} => runStatus'[u] = runStatus[u]
    BY <1>2 DEF Restart, IInv, TypeOK
  <2> QED
    BY <1>0, <1>2, <2>1, SameRecord, StayRecord DEF Restart, local
<1>3. CASE Crash
  <2>1. UNCHANGED <<ran, store, runStatus>> /\ \A t \in Turns : ~Live(t)'
    BY <1>3 DEF Crash, Live, IInv, TypeOK, runs
  <2>2. \A t \in Turns : ResultBlocks(t)' = ResultBlocks(t)
    BY <1>0, <2>1, SameRecord
  <2> QED
    BY <2>1, <2>2 DEF RecordInv, OnRecord
<1>4. ASSUME NEW t \in Turns, TurnStep(t) PROVE RecordInv'
  BY <1>4, PreparedRecord, LoopTopRecord, ReplyRecord, CallRecord DEF TurnStep
<1> QED
  BY <1>1, <1>2, <1>3, <1>4, UserRecord DEF Next

LEMMA InitRecord == Init => RecordInv
<1> SUFFICES ASSUME Init, NEW t \in Turns PROVE OnRecord(t)
  BY InitClean DEF RecordInv
<1>1. \A k \in DOMAIN store : store[k].kind # "results"
  BY DEF Init, Past, Row
<1>2. ResultBlocks(t) = {}
  BY <1>1 DEF ResultBlocks, ResultsOf
<1>3. ~Live(t) /\ runStatus[t] = "none"
  BY DEF Init, Live
<1> QED
  BY <1>2, <1>3, FS_EmptySet DEF OnRecord

\* When a turn is over, done, failed or killed, the conversation holds a result for every tool call it started: nothing
\* the agent did is missing from what it and the user read later.
THEOREM ToolsAreOnRecord == Spec => []ToolsOnRecord
<1>1. IInv /\ RecordInv /\ IInv' /\ [Next]_vars => RecordInv'
  BY NextClean, NextRecord DEF RecordInv
<1>2. RecordInv => ToolsOnRecord
  BY DEF RecordInv, OnRecord, ToolsOnRecord
<1> QED
  BY <1>1, <1>2, InitRecord, Invariant, PTL DEF Spec

-----------------------------------------------------------------------------
(***************************************************************************)
(* Turn implements ChatLog, and what follows from it for the stored        *)
(* conversation.                                                           *)
(***************************************************************************)

logVars == <<store, activeRoot, turnCount>>

-----------------------------------------------------------------------------
(* Where a summary ends.                                                   *)

\* After row u come only summaries, then a message of the user.
CutBefore(s, u) ==
  \E k \in DOMAIN s : /\ u < k
                      /\ s[k].kind = "user"
                      /\ \A j \in u + 1 .. k - 1 : s[j].kind = "summary"

\* Every compaction in progress will store a summary that ends at such a place.
CutsKept ==
  /\ compacting # 0 => compacting \in DOMAIN store /\ CutBefore(store, compacting)
  /\ \A t \in Turns : pc[t] \in {"compact", "recompact"} => loc[t].upTo \in DOMAIN store /\ CutBefore(store, loc[t].upTo)

LInv == IInv /\ CutsKept

LEMMA StoreIndex ==
  ASSUME IInv
  PROVE  /\ DOMAIN store = 1 .. Len(store)
         /\ Len(store) \in Nat
         /\ \A k \in DOMAIN store : k \in Nat /\ store[k] \in Rows
BY LenProperties, ElementOfSeq DEF IInv, TypeOK

LEMMA UpToCut ==
  ASSUME IInv, NEW b, NEW keep, NEW u \in UpTos(b, keep), b \in Nat
  PROVE  u \in DOMAIN store /\ CutBefore(store, u)
<1>1. u \in HistoryBefore(b) /\ u \in DOMAIN store /\ u \in Nat
  BY StoreIndex DEF UpTos, HistoryBefore
<1> PICK c \in Cuts(b, keep) : u < c /\ \A k \in HistoryBefore(b) : k < c => k <= u
  BY DEF UpTos
<1>2. c \in HistoryBefore(b) /\ c \in DOMAIN store /\ c \in Nat /\ c < b /\ store[c].kind = "user"
  BY StoreIndex DEF Cuts, HistoryBefore
<1>3. ASSUME NEW j \in u + 1 .. c - 1 PROVE store[j].kind = "summary"
  <2>1. j \in DOMAIN store /\ j \in Nat /\ u < j /\ j < c /\ j < b
    BY <1>1, <1>2, StoreIndex
  <2>2. j \notin HistoryBefore(b)
    BY <2>1, <1>1
  <2>3. ASSUME NEW s \in LatestSummary(b) PROVE store[s].n < j
    <3>1. store[s].n \in Nat
      BY StoreIndex DEF LatestSummary, Rows
    <3>2. store[s].n < u
      BY <1>1 DEF HistoryBefore
    <3> QED
      BY <2>1, <3>1, <3>2, <1>1
  <2> QED
    BY <2>1, <2>2, <2>3 DEF HistoryBefore
<1> QED
  BY <1>1, <1>2, <1>3 DEF CutBefore

\* The store is only added to.
Longer ==
  /\ store' \in Seq(Rows)
  /\ Len(store) <= Len(store')
  /\ \A k \in DOMAIN store : store'[k] = store[k]

LEMMA CutStays ==
  ASSUME IInv, Longer, NEW u \in DOMAIN store, CutBefore(store, u)
  PROVE  u \in DOMAIN store' /\ CutBefore(store', u)
<1>1. DOMAIN store' = 1 .. Len(store') /\ Len(store') \in Nat
  BY LenProperties DEF Longer
<1>2. DOMAIN store \subseteq DOMAIN store'
  BY <1>1, StoreIndex DEF Longer
<1> PICK k \in DOMAIN store : u < k /\ store[k].kind = "user" /\ \A j \in u + 1 .. k - 1 : store[j].kind = "summary"
  BY DEF CutBefore
<1>3. \A j \in u + 1 .. k - 1 : j \in DOMAIN store
  BY StoreIndex
<1> QED
  BY <1>2, <1>3 DEF CutBefore, Longer

-----------------------------------------------------------------------------
(* Every step of Turn is a step of ChatLog or leaves the conversation      *)
(* alone.                                                                  *)

LogStep == Log!Next \/ UNCHANGED logVars

LEMMA StoreType == IInv => store \in Seq(Rows) /\ store \o <<>> = store
BY ConcatEmptySeq DEF IInv, TypeOK

LEMMA BeginLog ==
  ASSUME IInv, NEW notes \in SUBSET Items, activeRoot = NoTurn, Kickoff(notes)
  PROVE  LogStep
BY DEF Kickoff, LogStep, Log!Next, Log!Begin, Log!Entry, Row, NoTurn

LEMMA FailLog ==
  ASSUME IInv, NEW t \in Turns, Live(t), NEW status, FailTurn(t, status), UNCHANGED life
  PROVE  LogStep
<1>1. activeRoot = t /\ activeRoot # 0 /\ UNCHANGED turnCount /\ activeRoot' = 0
  BY TurnsType DEF IInv, OneTurn, life, FailTurn, EndTurn, NoTurn
<1>2. store' = store \o CloseOpenToolCalls(t)
  BY DEF FailTurn, EndTurn
<1>3. CASE CloseOpenToolCalls(t) = <<>>
  BY <1>1, <1>2, <1>3 DEF LogStep, Log!Next, Log!FinishSilent, Log!Finish
<1>4. CASE WholeStep(t, CloseOpenToolCalls(t))
  <2> PICK n \in 1 .. MaxUses, notes \in SUBSET Items :
             CloseOpenToolCalls(t) = <<Row("reply", t, n, {}), Row("results", t, n, notes)>>
    BY <1>4 DEF WholeStep
  <2>1. CloseOpenToolCalls(t) = Log!Step(activeRoot, n, notes)
    BY <1>1 DEF Row, Log!Step, Log!Entry
  <2>2. Log!FinishStep(n, notes)
    BY <1>1, <1>2, <2>1 DEF Log!FinishStep, Log!Finish
  <2> QED
    BY <2>2 DEF LogStep, Log!Next
<1> QED
  BY <1>3, <1>4, ClosedShape

LEMMA SummaryLog ==
  ASSUME IInv, NEW u \in DOMAIN store, CutBefore(store, u), Summarise(u) \/ UNCHANGED store, UNCHANGED <<srv, life>>
  PROVE  LogStep
<1>1. CASE UNCHANGED store
  BY <1>1 DEF LogStep, logVars, srv, life
<1>2. CASE Summarise(u)
  <2>1. Log!Summary(u)
    BY <1>2 DEF Log!Summary, CutBefore, Summarise, Row, Log!Entry, srv, life, NoTurn
  <2> QED
    BY <2>1 DEF LogStep, Log!Next
<1> QED
  BY <1>1, <1>2

LEMMA SendMessageLog == ASSUME LInv, SendMessage PROVE LogStep
<1>1. activeRoot = NoTurn
  BY DEF LInv, IInv, OneTurn, SendMessage, Busy
<1> QED
  BY <1>1, BeginLog DEF SendMessage, LInv

LEMMA KillLog == ASSUME LInv, Kill PROVE LogStep
<1>1. controller \in Turns /\ Live(controller)
  BY DEF Kill, LInv, IInv, OneTurn, TypeOK, Turns, NoTurn
<1>2. CASE pc[controller] \in {"confirm", "human", "wait"}
  BY <1>1, <1>2, FailLog DEF Kill, LInv
<1>3. CASE pc[controller] \notin {"confirm", "human", "wait"}
  BY <1>3 DEF Kill, LogStep, logVars, srv, life
<1> QED
  BY <1>2, <1>3

LEMMA AnswerLog ==
  ASSUME LInv, NEW i \in Items, RespondBlocking(i) \/ RespondToInbox(i) \/ Dismiss(i) \/ AnswerTimeout(i)
  PROVE  LogStep
BY DEF RespondBlocking, RespondToInbox, Dismiss, AnswerTimeout, LogStep, logVars, srv, life

LEMMA RespondStartsTurnLog == ASSUME LInv, NEW i \in Items, RespondStartsTurn(i) PROVE LogStep
BY BeginLog DEF RespondStartsTurn, LInv

LEMMA CompactLog == ASSUME LInv, CompactStart \/ CompactEnd PROVE LogStep
<1>1. CASE CompactStart
  BY <1>1 DEF CompactStart, LogStep, logVars, srv, life
<1>2. CASE CompactEnd
  BY <1>2, SummaryLog DEF CompactEnd, LInv, CutsKept
<1> QED
  BY <1>1, <1>2

LEMMA PreparedLog == ASSUME LInv, NEW t \in Turns, Prepared(t) PROVE LogStep
<1>1. CASE FailTurn(t, IF aborted[t] THEN "aborted" ELSE "error")
  BY <1>1, FailLog DEF Prepared, LInv, Live
<1>2. CASE UNCHANGED <<store, srv>>
  BY <1>2 DEF Prepared, LogStep, logVars, srv, life
<1> QED
  BY <1>1, <1>2 DEF Prepared

LEMMA CompactedLog == ASSUME LInv, NEW t \in Turns, Compacted(t) PROVE LogStep
<1>1. CASE FailTurn(t, "aborted")
  BY <1>1, FailLog DEF Compacted, LInv, Live
<1>2. CASE (Summarise(loc[t].upTo) \/ UNCHANGED store) /\ UNCHANGED srv
  BY <1>2, SummaryLog DEF Compacted, LInv, CutsKept
<1> QED
  BY <1>1, <1>2 DEF Compacted

LEMMA RecompactedLog == ASSUME LInv, NEW t \in Turns, Recompacted(t) PROVE LogStep
<1>1. CASE FailTurn(t, IF aborted[t] THEN "aborted" ELSE "error")
  BY <1>1, FailLog DEF Recompacted, LInv, Live
<1>2. CASE Summarise(loc[t].upTo) /\ UNCHANGED srv
  BY <1>2, SummaryLog DEF Recompacted, LInv, CutsKept
<1> QED
  BY <1>1, <1>2 DEF Recompacted

LEMMA LoopTopLog == ASSUME LInv, NEW t \in Turns, LoopTop(t) PROVE LogStep
<1>1. CASE aborted[t]
  BY <1>1, FailLog DEF LoopTop, LInv, Live
<1>2. CASE ~aborted[t]
  <2>1. activeRoot = t /\ activeRoot # 0
    BY TurnsType DEF LInv, IInv, OneTurn, LoopTop, Live, NoTurn
  <2>2. store' = store \o WithInbox(t) /\ UNCHANGED <<srv, life>> /\ pc[t] = "top"
    BY <1>2 DEF LoopTop
  <2>3. CASE fresh[t] = <<>>
    <3>1. WithInbox(t) = <<>>
      BY <2>2, <2>3, WithInboxShape DEF LInv
    <3>2. store' = store
      BY <2>2, <3>1, StoreType DEF LInv
    <3> QED
      BY <2>2, <3>2 DEF LogStep, logVars, srv, life
  <2>4. CASE fresh[t] # <<>>
    <3>1. WholeStep(t, WithInbox(t))
      BY <2>2, <2>4, WithInboxShape DEF LInv
    <3> PICK n \in 1 .. MaxUses, notes \in SUBSET Items :
               WithInbox(t) = <<Row("reply", t, n, {}), Row("results", t, n, notes)>>
      BY <3>1 DEF WholeStep
    <3>2. Log!Record(n, notes)
      BY <2>1, <2>2 DEF Log!Record, Log!Step, Log!Entry, Row, srv, life
    <3> QED
      BY <3>2 DEF LogStep, Log!Next
  <2> QED
    BY <2>3, <2>4
<1> QED
  BY <1>1, <1>2

LEMMA FinalReplyLog == ASSUME LInv, NEW t \in Turns, FinalReply(t) PROVE LogStep
<1>1. activeRoot = t /\ activeRoot # 0 /\ fresh[t] = <<>> /\ UNCHANGED turnCount
  BY TurnsType DEF LInv, IInv, OneTurn, FinalReply, Live, NoTurn, Waiting, life
<1>2. store' = store \o <<Row("reply", t, 0, {})>> /\ activeRoot' = 0
  BY <1>1, AppendToEmpty DEF FinalReply, EndTurn, NoTurn
<1>3. Log!FinishReply
  BY <1>1, <1>2 DEF Log!FinishReply, Log!Finish, Log!Entry, Row
<1> QED
  BY <1>3 DEF LogStep, Log!Next

LEMMA NextUseLog == ASSUME LInv, NEW t \in Turns, NextUse(t) PROVE LogStep
<1>1. CASE aborted[t]
  BY <1>1, FailLog DEF NextUse, LInv, Live
<1>2. CASE ~aborted[t]
  BY <1>2 DEF NextUse, LogStep, logVars, srv, life
<1> QED
  BY <1>1, <1>2

LEMMA RequestLog == ASSUME LInv, NEW t \in Turns, ToolReply(t) \/ TooLong(t) \/ RequestFails(t) PROVE LogStep
<1>1. CASE RequestFails(t)
  BY <1>1, FailLog DEF RequestFails, LInv, Live
<1>2. CASE ToolReply(t) \/ TooLong(t)
  BY <1>2 DEF ToolReply, TooLong, LogStep, logVars, srv, life
<1> QED
  BY <1>1, <1>2

LEMMA ToolLog == ASSUME LInv, NEW t \in Turns, Approve(t) \/ Deny(t) \/ ToolReturns(t) \/ WaitReturns(t) PROVE LogStep
<1>1. CASE ToolReturns(t)
  <2>1. CASE FailTurn(t, IF aborted[t] THEN "aborted" ELSE "error")
    BY <1>1, <2>1, FailLog DEF ToolReturns, LInv, Live
  <2>2. CASE UNCHANGED <<store, srv>>
    BY <1>1, <2>2 DEF ToolReturns, LogStep, logVars, srv, life
  <2> QED
    BY <1>1, <2>1, <2>2 DEF ToolReturns
<1>2. CASE Approve(t) \/ Deny(t) \/ WaitReturns(t)
  BY <1>2 DEF Approve, Deny, WaitReturns, LogStep, logVars, srv, life
<1> QED
  BY <1>1, <1>2

\* A crash ends the turn without a word.
LEMMA CrashLog == ASSUME LInv, Crash PROVE LogStep
<1>1. activeRoot' = 0 /\ UNCHANGED <<store, turnCount>> /\ store = store \o <<>>
  BY StoreType DEF Crash, LInv, NoTurn
<1>2. CASE activeRoot = 0
  BY <1>1, <1>2 DEF LogStep, logVars
<1>3. CASE activeRoot # 0
  <2>1. Log!FinishSilent
    BY <1>1, <1>3 DEF Log!FinishSilent, Log!Finish
  <2> QED
    BY <2>1 DEF LogStep, Log!Next
<1> QED
  BY <1>2, <1>3

LEMMA StepLog == ASSUME LInv, [Next]_vars PROVE LogStep
<1>1. CASE UNCHANGED vars
  BY <1>1 DEF vars, LogStep, logVars
<1>2. CASE Restart
  BY <1>2 DEF Restart, LogStep, logVars, srv
<1>3. ASSUME NEW t \in Turns, TurnStep(t) PROVE LogStep
  BY <1>3, PreparedLog, CompactedLog, LoopTopLog, FinalReplyLog, RequestLog, RecompactedLog, NextUseLog, ToolLog
     DEF TurnStep
<1>4. CASE UserStep
  BY <1>4, SendMessageLog, KillLog, CompactLog, AnswerLog, RespondStartsTurnLog DEF UserStep
<1> QED
  BY <1>1, <1>2, <1>3, <1>4, CrashLog DEF Next

-----------------------------------------------------------------------------
(* The rows that are there stay, so the cuts of the running compactions do *)

LEMMA StepLonger == ASSUME IInv, LogStep PROVE Longer
<1>1. store \in Seq(Rows) /\ DOMAIN store = 1 .. Len(store) /\ Len(store) \in Nat
  BY StoreIndex DEF IInv, TypeOK
<1>2. ASSUME NEW w \in Seq(Rows), store' = store \o w PROVE Longer
  BY <1>1, <1>2, ConcatProperties, LenProperties DEF Longer
<1>3. ASSUME NEW r \in Rows, store' = Append(store, r) PROVE Longer
  BY <1>1, <1>3, AppendProperties DEF Longer
<1>4. CASE UNCHANGED logVars
  BY <1>1, <1>4 DEF Longer, logVars
<1>5. activeRoot # 0 => activeRoot \in Turns
  BY DEF IInv, TypeOK, Turns
<1>6. ASSUME NEW n \in 1 .. MaxUses, NEW notes \in SUBSET Items, activeRoot # 0
      PROVE  Log!Step(activeRoot, n, notes) \in Seq(Rows)
  <2>1. WholeStep(activeRoot, Log!Step(activeRoot, n, notes))
    BY DEF WholeStep, Log!Step, Log!Entry, Row
  <2> QED
    BY <1>5, <1>6, <2>1, WholeStepType
<1>7. CASE \E notes \in SUBSET Items : Log!Begin(notes)
  <2> PICK notes \in SUBSET Items : Log!Begin(notes)
    BY <1>7
  <2>1. turnCount + 1 \in 0 .. MaxTurns
    BY TurnAssumption DEF Log!Begin, IInv, TypeOK
  <2>2. Row("user", turnCount + 1, 0, notes) \in Rows
    BY <2>1, RowType DEF Kinds
  <2>3. store' = Append(store, Row("user", turnCount + 1, 0, notes))
    BY DEF Log!Begin, Log!Entry, Row
  <2> QED
    BY <1>3, <2>2, <2>3
<1>8. ASSUME NEW n \in 1 .. MaxUses, NEW notes \in SUBSET Items, Log!Record(n, notes) \/ Log!FinishStep(n, notes)
      PROVE  Longer
  <2>1. activeRoot # 0 /\ store' = store \o Log!Step(activeRoot, n, notes)
    BY <1>8 DEF Log!Record, Log!FinishStep, Log!Finish
  <2> QED
    BY <1>2, <1>6, <2>1
<1>9. CASE Log!FinishReply
  <2>1. activeRoot # 0 /\ store' = store \o <<Row("reply", activeRoot, 0, {})>>
    BY <1>9 DEF Log!FinishReply, Log!Finish, Log!Entry, Row
  <2>2. <<Row("reply", activeRoot, 0, {})>> \in Seq(Rows)
    BY <1>5, <2>1, ReplyType, TurnAssumption
  <2> QED
    BY <1>2, <2>1, <2>2
<1>10. CASE Log!FinishSilent
  BY <1>2, <1>10, EmptySeq DEF Log!FinishSilent, Log!Finish
<1>11. CASE \E u \in DOMAIN store : Log!Summary(u)
  <2> PICK u \in DOMAIN store : Log!Summary(u)
    BY <1>11
  <2>1. Row("summary", 0, u, {}) \in Rows
    <3>1. "summary" \in Kinds /\ 0 \in 0 .. MaxTurns /\ {} \in SUBSET Items /\ u \in Nat
      BY <1>1, TurnAssumption DEF Kinds
    <3> QED
      BY <3>1, RowType
  <2>2. store' = Append(store, Row("summary", 0, u, {}))
    BY DEF Log!Summary, Log!Entry, Row
  <2> QED
    BY <1>3, <2>1, <2>2
<1> QED
  BY <1>4, <1>7, <1>8, <1>9, <1>10, <1>11 DEF LogStep, Log!Next

\* A turn enters a compaction with a cut of its own choice, and keeps it.
Holds(u) ==
  pc'[u] \in {"compact", "recompact"} =>
    \/ pc'[u] = pc[u] /\ loc'[u] = loc[u]
    \/ loc'[u].upTo \in UpTos(loc[u].msg, 3) \cup UpTos(loc[u].msg, 2)

LEMMA EndHolds == ASSUME IInv, NEW t \in Turns, NEW u \in Turns, NEW b, NEW status, EndTurn(t, b, status) PROVE Holds(u)
BY DEF EndTurn, Holds, IInv, TypeOK

LEMMA PushHolds == ASSUME IInv, NEW t \in Turns, NEW u \in Turns, NEW a, NEW l, PushResult(t, a, l) PROVE Holds(u)
BY DEF PushResult, Holds, IInv, TypeOK

LEMMA StartToolHolds == ASSUME IInv, NEW t \in Turns, NEW u \in Turns, StartTool(t) PROVE Holds(u)
BY PushHolds DEF StartTool, Holds, IInv, TypeOK

LEMMA KickoffHolds == ASSUME IInv, NEW u \in Turns, NEW notes, Kickoff(notes) PROVE Holds(u)
BY DEF Kickoff, Holds, IInv, TypeOK

LEMMA UserHolds == ASSUME IInv, UserStep, NEW u \in Turns PROVE Holds(u)
<1>1. CASE UNCHANGED <<pc, loc>>
  BY <1>1 DEF Holds
<1>2. CASE SendMessage
  BY <1>2, KickoffHolds DEF SendMessage
<1>3. CASE Kill
  <2>1. controller \in Turns
    BY <1>3 DEF Kill, IInv, TypeOK, Turns, NoTurn
  <2> QED
    BY <1>1, <1>3, <2>1, EndHolds DEF Kill, FailTurn
<1>4. CASE CompactStart \/ CompactEnd
  BY <1>1, <1>4 DEF CompactStart, CompactEnd, local
<1>5. ASSUME NEW i \in Items, RespondBlocking(i) \/ Dismiss(i) \/ AnswerTimeout(i) PROVE Holds(u)
  BY <1>1, <1>5, PushHolds DEF RespondBlocking, Dismiss, AnswerTimeout
<1>6. ASSUME NEW i \in Items, RespondToInbox(i) PROVE Holds(u)
  BY <1>1, <1>6 DEF RespondToInbox, local
<1>7. ASSUME NEW i \in Items, RespondStartsTurn(i) PROVE Holds(u)
  BY <1>7, KickoffHolds DEF RespondStartsTurn
<1> QED
  BY <1>2, <1>3, <1>4, <1>5, <1>6, <1>7 DEF UserStep

LEMMA TurnHolds == ASSUME IInv, NEW t \in Turns, TurnStep(t), NEW u \in Turns PROVE Holds(u)
<1>1. ASSUME NEW status, FailTurn(t, status) PROVE Holds(u)
  BY <1>1, EndHolds DEF FailTurn
<1>2. CASE Prepared(t)
  <2>1. CASE pc' = [pc EXCEPT ![t] = "top"] /\ UNCHANGED loc
    BY <2>1 DEF Holds, IInv, TypeOK
  <2>2. CASE pc' = [pc EXCEPT ![t] = "compact"] /\ \E v \in UpTos(loc[t].msg, 3) : loc' = [loc EXCEPT ![t].upTo = v]
    <3> PICK v \in UpTos(loc[t].msg, 3) : loc' = [loc EXCEPT ![t] = [loc[t] EXCEPT !.upTo = v]]
      BY <2>2 DEF IInv, TypeOK
    <3>1. loc[t] \in Locals => [loc[t] EXCEPT !.upTo = v].upTo = v
      BY DEF Locals
    <3> QED
      BY <2>2, <3>1 DEF Holds, IInv, TypeOK
  <2> QED
    BY <1>1, <1>2, <2>1, <2>2 DEF Prepared
<1>3. CASE Compacted(t)
  BY <1>1, <1>3 DEF Compacted, Holds, IInv, TypeOK
<1>4. CASE LoopTop(t)
  BY <1>1, <1>4 DEF LoopTop, Holds, IInv, TypeOK
<1>5. CASE FinalReply(t)
  BY <1>5, EndHolds DEF FinalReply
<1>6. CASE ToolReply(t)
  BY <1>6 DEF ToolReply, Holds, IInv, TypeOK
<1>7. CASE TooLong(t)
  BY <1>7 DEF TooLong, Holds, IInv, TypeOK
<1>8. CASE RequestFails(t)
  BY <1>1, <1>8 DEF RequestFails
<1>9. CASE Recompacted(t)
  BY <1>1, <1>9 DEF Recompacted, Holds, IInv, TypeOK
<1>10. CASE NextUse(t)
  <2>1. CASE aborted[t]
    BY <1>1, <1>10, <2>1 DEF NextUse
  <2>2. CASE pc' = [pc EXCEPT ![t] = "confirm"] /\ UNCHANGED loc
    BY <2>2 DEF Holds, IInv, TypeOK
  <2> QED
    BY <1>10, <2>1, <2>2, PushHolds, StartToolHolds DEF NextUse
<1>11. CASE Approve(t) \/ Deny(t) \/ WaitReturns(t)
  BY <1>11, PushHolds, StartToolHolds DEF Approve, Deny, WaitReturns
<1>12. CASE ToolReturns(t)
  BY <1>1, <1>12, PushHolds DEF ToolReturns
<1> QED
  BY <1>2, <1>3, <1>4, <1>5, <1>6, <1>7, <1>8, <1>9, <1>10, <1>11, <1>12 DEF TurnStep

LEMMA AllHold == ASSUME IInv, [Next]_vars, NEW u \in Turns PROVE Holds(u)
<1>1. CASE UNCHANGED vars
  BY <1>1 DEF vars, Holds
<1>2. CASE Crash
  BY <1>2 DEF Crash, Holds, Live, IInv, TypeOK
<1>3. CASE Restart
  BY <1>3 DEF Restart, local, Holds
<1> QED
  BY <1>1, <1>2, <1>3, UserHolds, TurnHolds DEF Next

LEMMA CompactingHolds ==
  ASSUME IInv, [Next]_vars
  PROVE  compacting' = compacting \/ compacting' = 0 \/ compacting' \in UpTos(Len(store) + 1, 3)
BY DEF Next, vars, UserStep, TurnStep, SendMessage, Kill, CompactStart, CompactEnd, RespondBlocking, RespondToInbox,
   RespondStartsTurn, Dismiss, AnswerTimeout, Prepared, Compacted, LoopTop, FinalReply, ToolReply, TooLong,
   RequestFails, Recompacted, NextUse, Approve, Deny, ToolReturns, WaitReturns, Crash, Restart

LEMMA CutsKeptStep == ASSUME LInv, [Next]_vars PROVE CutsKept'
<1>1. IInv /\ Longer
  BY StepLog, StepLonger DEF LInv
<1>2. ASSUME compacting' # 0 PROVE compacting' \in DOMAIN store' /\ CutBefore(store', compacting')
  <2>1. CASE compacting' = compacting
    BY <1>1, <1>2, <2>1, CutStays DEF LInv, CutsKept
  <2>2. CASE compacting' \in UpTos(Len(store) + 1, 3)
    <3>1. Len(store) + 1 \in Nat
      BY <1>1, StoreIndex
    <3> QED
      BY <1>1, <2>2, <3>1, UpToCut, CutStays
  <2> QED
    BY <1>1, <1>2, <2>1, <2>2, CompactingHolds
<1>3. ASSUME NEW t \in Turns, pc'[t] \in {"compact", "recompact"}
      PROVE  loc'[t].upTo \in DOMAIN store' /\ CutBefore(store', loc'[t].upTo)
  <2>1. CASE pc'[t] = pc[t] /\ loc'[t] = loc[t]
    BY <1>1, <1>3, <2>1, CutStays DEF LInv, CutsKept
  <2>2. CASE loc'[t].upTo \in UpTos(loc[t].msg, 3) \cup UpTos(loc[t].msg, 2)
    <3>1. loc[t].msg \in Nat
      BY <1>1 DEF IInv, TypeOK, Locals
    <3> QED
      BY <1>1, <2>2, <3>1, UpToCut, CutStays
  <2> QED
    BY <1>1, <1>3, <2>1, <2>2, AllHold DEF Holds
<1> QED
  BY <1>2, <1>3 DEF CutsKept

-----------------------------------------------------------------------------
(* The theorems.                                                           *)

LEMMA InitLog == Init => Log!Init
<1> SUFFICES ASSUME Init PROVE Log!Init
  OBVIOUS
<1> DEFINE R == [kind : {"user", "reply"}, turn : {0}, n : {0}, notes : {{}}]
<1>1. 2 * PastTurns \in Nat
  BY TurnAssumption
<1>2. \A k \in 1 .. 2 * PastTurns : Row(IF k % 2 = 1 THEN "user" ELSE "reply", NoTurn, 0, {}) \in R
  BY DEF Row, NoTurn
<1> HIDE DEF R
<1>3. Past \in Seq(R)
  BY <1>1, <1>2, IsASeq DEF Past
<1> QED
  BY <1>3 DEF Init, Log!Init, NoTurn, R

LEMMA InitCuts == Init => CutsKept
BY DEF Init, CutsKept

LEMMA LogInvariant == Spec => []LInv
<1>1. Init => LInv
  BY InitInv, InitCuts DEF LInv
<1>2. LInv /\ [Next]_vars => LInv'
  <2> SUFFICES ASSUME LInv, [Next]_vars PROVE LInv'
    OBVIOUS
  <2>1. IInv'
    BY TurnStepInv, UserStepInv, CrashInv, RestartInv, StutterInv DEF Next, LInv
  <2> QED
    BY <2>1, CutsKeptStep DEF LInv
<1> QED
  BY <1>1, <1>2, PTL DEF Spec

\* Turn implements ChatLog: whatever the order of answers, kills, retries, compactions and crashes, the stored
\* conversation only grows, one turn at a time writes to it, steps are stored whole, and a summary never ends inside a
\* turn.
THEOREM ImplementsChatLog == Spec => LogSpec
<1>1. Init => Log!Init
  BY InitLog
<1>2. LInv /\ [Next]_vars => [Log!Next]_<<store, activeRoot, turnCount>>
  BY StepLog DEF LogStep, logVars
<1> QED
  BY <1>1, <1>2, LogInvariant, PTL DEF Spec, LogSpec, Log!Spec

\* The rows of one call and its results.
LEMMA ClosedStep == ASSUME IInv, ClosedCalls, LogStep PROVE ClosedCalls'
<1> DEFINE n0 == Len(store)
<1>1. store \in Seq(Rows) /\ DOMAIN store = 1 .. n0 /\ n0 \in Nat
  BY StoreIndex DEF IInv, TypeOK
<1>2. activeRoot # 0 => activeRoot \in Turns
  BY DEF IInv, TypeOK, Turns
\* a plain row: no calls, no results
<1>3. ASSUME NEW r \in Rows, store' = Append(store, r), r.kind # "results", r.kind = "reply" => r.n = 0
      PROVE  ClosedCalls'
  <2>1. /\ DOMAIN store' = 1 .. n0 + 1
        /\ Len(store') = n0 + 1
        /\ \A k \in 1 .. n0 : store'[k] = store[k]
        /\ store'[n0 + 1] = r
    BY <1>1, <1>3, AppendProperties, LenProperties
  <2>2. ASSUME NEW k \in DOMAIN store'
        PROVE  /\ store'[k].kind = "reply" /\ store'[k].n > 0 =>
                    k < Len(store') /\ store'[k + 1] = Row("results", store'[k].turn, store'[k].n, store'[k + 1].notes)
               /\ store'[k].kind = "results" =>
                    k > 1 /\ store'[k - 1] = Row("reply", store'[k].turn, store'[k].n, {})
    <3>1. CASE k = n0 + 1
      BY <1>3, <2>1, <3>1
    <3>2. CASE k \in 1 .. n0
      <4>1. store'[k] = store[k] /\ (k < n0 => store'[k + 1] = store[k + 1]) /\ (k > 1 => store'[k - 1] = store[k - 1])
        BY <1>1, <2>1, <3>2
      <4> QED
        BY <1>1, <2>1, <3>2, <4>1 DEF ClosedCalls
    <3> QED
      BY <1>1, <2>1, <3>1, <3>2
  <2> QED
    BY <2>2 DEF ClosedCalls
\* a whole step
<1>4. ASSUME NEW t \in Turns, NEW n \in 1 .. MaxUses, NEW notes \in SUBSET Items, store' = store \o Log!Step(t, n, notes)
      PROVE  ClosedCalls'
  <2> DEFINE a == Row("reply", t, n, {})
             b == Row("results", t, n, notes)
  <2>1. Log!Step(t, n, notes) = <<a, b>> /\ <<a, b>> \in Seq(Rows) /\ n \in Nat
    <3>1. Log!Step(t, n, notes) = <<a, b>>
      BY DEF Log!Step, Log!Entry, Row
    <3>2. WholeStep(t, <<a, b>>)
      BY DEF WholeStep
    <3> QED
      BY <3>1, <3>2, WholeStepType
  <2>2. /\ DOMAIN store' = 1 .. n0 + 2
        /\ Len(store') = n0 + 2
        /\ \A k \in 1 .. n0 : store'[k] = store[k]
        /\ store'[n0 + 1] = a
        /\ store'[n0 + 2] = b
    <3> HIDE DEF a, b
    <3> QED
      BY <1>1, <1>4, <2>1, ConcatProperties, LenProperties
  <2>3. a.kind = "reply" /\ a.turn = t /\ a.n = n /\ b.kind = "results" /\ b.turn = t /\ b.n = n /\ b.notes = notes
    BY DEF Row
  <2>4. ASSUME NEW k \in DOMAIN store'
        PROVE  /\ store'[k].kind = "reply" /\ store'[k].n > 0 =>
                    k < Len(store') /\ store'[k + 1] = Row("results", store'[k].turn, store'[k].n, store'[k + 1].notes)
               /\ store'[k].kind = "results" =>
                    k > 1 /\ store'[k - 1] = Row("reply", store'[k].turn, store'[k].n, {})
    <3>1. CASE k = n0 + 1
      BY <1>1, <2>2, <2>3, <3>1
    <3>2. CASE k = n0 + 2
      BY <1>1, <2>2, <2>3, <3>2
    <3>3. CASE k \in 1 .. n0
      <4>1. store'[k] = store[k] /\ (k < n0 => store'[k + 1] = store[k + 1]) /\ (k > 1 => store'[k - 1] = store[k - 1])
        BY <1>1, <2>2, <3>3
      <4> QED
        BY <1>1, <2>2, <3>3, <4>1 DEF ClosedCalls
    <3> QED
      BY <1>1, <2>2, <3>1, <3>2, <3>3
  <2> QED
    BY <2>4 DEF ClosedCalls
<1>5. CASE UNCHANGED logVars
  BY <1>5 DEF ClosedCalls, logVars
<1>6. CASE \E notes \in SUBSET Items : Log!Begin(notes)
  <2> PICK notes \in SUBSET Items : Log!Begin(notes)
    BY <1>6
  <2>1. turnCount + 1 \in 0 .. MaxTurns
    BY TurnAssumption DEF Log!Begin, IInv, TypeOK
  <2> DEFINE r == Row("user", turnCount + 1, 0, notes)
  <2>2. r \in Rows /\ r.kind = "user"
    BY <2>1, RowType DEF Kinds, Row
  <2>3. store' = Append(store, r)
    BY DEF Log!Begin, Log!Entry, Row
  <2> QED
    BY <1>3, <2>2, <2>3
<1>7. ASSUME NEW n \in 1 .. MaxUses, NEW notes \in SUBSET Items, Log!Record(n, notes) \/ Log!FinishStep(n, notes)
      PROVE  ClosedCalls'
  <2>1. activeRoot # 0 /\ store' = store \o Log!Step(activeRoot, n, notes)
    BY <1>7 DEF Log!Record, Log!FinishStep, Log!Finish
  <2> QED
    BY <1>2, <1>4, <2>1
<1>8. CASE Log!FinishReply
  <2> DEFINE r == Row("reply", activeRoot, 0, {})
  <2>1. activeRoot # 0 /\ store' = store \o <<r>>
    BY <1>8 DEF Log!FinishReply, Log!Finish, Log!Entry, Row
  <2>2. r \in Rows
    BY <1>2, <2>1, RowType, TurnsType DEF Kinds
  <2>3. r.kind = "reply" /\ r.n = 0
    BY DEF Row
  <2>4. store' = Append(store, r)
    BY <1>1, <2>1, <2>2, AppendIsConcat
  <2> QED
    BY <1>3, <2>2, <2>3, <2>4
<1>9. CASE Log!FinishSilent
  <2>1. store' = store
    BY <1>1, <1>9, ConcatEmptySeq DEF Log!FinishSilent, Log!Finish
  <2> QED
    BY <2>1 DEF ClosedCalls
<1>10. CASE \E u \in DOMAIN store : Log!Summary(u)
  <2> PICK u \in DOMAIN store : Log!Summary(u)
    BY <1>10
  <2> DEFINE r == Row("summary", 0, u, {})
  <2>1. r \in Rows
    <3>1. "summary" \in Kinds /\ 0 \in 0 .. MaxTurns /\ {} \in SUBSET Items /\ u \in Nat
      BY <1>1, TurnAssumption DEF Kinds
    <3> QED
      BY <3>1, RowType
  <2>2. r.kind = "summary"
    BY DEF Row
  <2>3. store' = Append(store, r)
    BY DEF Log!Summary, Log!Entry, Row
  <2> QED
    BY <1>3, <2>1, <2>2, <2>3
<1> QED
  BY <1>5, <1>6, <1>7, <1>8, <1>9, <1>10 DEF LogStep, Log!Next

\* Every stored tool call is answered in the next row, at every moment, so also in what a crash leaves behind.
THEOREM CallsAreClosed == Spec => []ClosedCalls
<1>1. Init => ClosedCalls
  <2> SUFFICES ASSUME Init PROVE ClosedCalls
    OBVIOUS
  <2>1. \A k \in DOMAIN store : store[k].kind # "results" /\ store[k].n = 0
    BY DEF Init, Past, Row
  <2> QED
    BY <2>1 DEF ClosedCalls
<1>2. LInv /\ ClosedCalls /\ [Next]_vars => ClosedCalls'
  BY StepLog, ClosedStep DEF LInv
<1> QED
  BY <1>1, <1>2, LogInvariant, PTL DEF Spec
=============================================================================
