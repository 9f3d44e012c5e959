----------------------------- MODULE SlotsProofs -----------------------------
(***************************************************************************)
(* The books of the queue are right and no slot is lost, for any number of *)
(* workers and any limit.                                                  *)
(***************************************************************************)
EXTENDS Slots, FiniteSetTheorems, SequenceTheorems, TLAPS

\* NoSlotLost needs to know who is in line: a worker taken from its head becomes one more woken worker.
IInv == TypeOK /\ Books /\ NoSlotLost

-----------------------------------------------------------------------------
\* Counting workers that move between two places.
LEMMA PlaceFinite ==
  ASSUME NEW S, S \subseteq Workers
  PROVE  IsFiniteSet(S) /\ Cardinality(S) \in Nat
BY SlotsAssumption, FS_Subset, FS_CardinalityType

LEMMA AddedOne ==
  ASSUME NEW S, S \subseteq Workers, NEW w \in Workers, w \notin S
  PROVE  Cardinality(S \cup {w}) = Cardinality(S) + 1
BY PlaceFinite, FS_AddElement

LEMMA RemovedOne ==
  ASSUME NEW S, S \subseteq Workers, NEW w \in S
  PROVE  Cardinality(S \ {w}) = Cardinality(S) - 1 /\ Cardinality(S) > 0
<1>1. IsFiniteSet(S)  BY PlaceFinite
<1>2. Cardinality(S \ {w}) = Cardinality(S) - 1  BY <1>1, FS_RemoveElement
<1>3. S # {}  OBVIOUS
<1>4. Cardinality(S) # 0  BY <1>1, <1>3, FS_EmptySet
<1>5. Cardinality(S) \in Nat  BY PlaceFinite
<1> QED  BY <1>2, <1>4, <1>5

-----------------------------------------------------------------------------
\* The line: what Append, Tail and RemoveAt do to a sequence without repetitions.
LEMMA LineGrows ==
  ASSUME NEW q \in Seq(Workers), IsInjective(q), NEW w \in Workers, w \notin ToSet(q)
  PROVE  /\ Append(q, w) \in Seq(Workers)
         /\ IsInjective(Append(q, w))
         /\ ToSet(Append(q, w)) = ToSet(q) \cup {w}
<1> DEFINE r == Append(q, w)
<1>1. r \in Seq(Workers) /\ Len(r) = Len(q) + 1 /\ r[Len(q) + 1] = w  OBVIOUS
<1>2. \A k \in 1..Len(q) : r[k] = q[k]  OBVIOUS
<1>3. \A k \in 1..Len(q) : q[k] # w  BY DEF ToSet
<1>4. IsInjective(r)  BY <1>1, <1>2, <1>3 DEF IsInjective
<1>5. ToSet(r) \subseteq ToSet(q) \cup {w}  BY <1>1, <1>2 DEF ToSet
<1>6. ToSet(q) \subseteq ToSet(r)
  <2>1. \A k \in 1..Len(q) : k \in 1..Len(r)  BY <1>1
  <2> QED  BY <1>1, <1>2, <2>1 DEF ToSet
<1>7. w \in ToSet(r)
  <2>1. Len(q) + 1 \in 1..Len(r)  BY <1>1
  <2> QED  BY <1>1, <2>1 DEF ToSet
<1> QED  BY <1>1, <1>4, <1>5, <1>6, <1>7

LEMMA LineServed ==
  ASSUME NEW q \in Seq(Workers), IsInjective(q), q # <<>>
  PROVE  /\ Tail(q) \in Seq(Workers)
         /\ Head(q) \in ToSet(q)
         /\ IsInjective(Tail(q))
         /\ ToSet(Tail(q)) = ToSet(q) \ {Head(q)}
<1>1. Tail(q) \in Seq(Workers) /\ Head(q) = q[1] /\ Len(q) >= 1 /\ Len(Tail(q)) = Len(q) - 1  OBVIOUS
<1>2. \A k \in 1..Len(Tail(q)) : Tail(q)[k] = q[k + 1]  BY <1>1
<1>3. IsInjective(Tail(q))  BY <1>1, <1>2 DEF IsInjective
<1>4. ToSet(Tail(q)) \subseteq ToSet(q) \ {Head(q)}  BY <1>1, <1>2 DEF IsInjective, ToSet
<1>5. ASSUME NEW x \in ToSet(q), x # Head(q)  PROVE x \in ToSet(Tail(q))
  <2>1. PICK k \in 1..Len(q) : q[k] = x  BY DEF ToSet
  <2>2. k # 1 /\ k - 1 \in 1..Len(Tail(q))  BY <1>1, <1>5, <2>1
  <2>3. Tail(q)[k - 1] = x  BY <1>2, <2>1, <2>2
  <2>4. k - 1 \in DOMAIN Tail(q)  BY <1>1, <2>2
  <2> QED  BY <2>3, <2>4 DEF ToSet
<1>6. Head(q) \in ToSet(q)
  <2>1. 1 \in DOMAIN q  BY <1>1
  <2> QED  BY <1>1, <2>1 DEF ToSet
<1> QED  BY <1>1, <1>3, <1>4, <1>5, <1>6

LEMMA LineLeft ==
  ASSUME NEW q \in Seq(Workers), IsInjective(q), NEW i \in DOMAIN q
  PROVE  /\ RemoveAt(q, i) \in Seq(Workers)
         /\ IsInjective(RemoveAt(q, i))
         /\ ToSet(RemoveAt(q, i)) = ToSet(q) \ {q[i]}
<1> DEFINE r == RemoveAt(q, i)
<1>1. r \in Seq(Workers) /\ Len(r) = Len(q) - 1  BY DEF RemoveAt
<1>2. \A k \in 1..Len(r) : r[k] = IF k < i THEN q[k] ELSE q[k + 1]
  <2> DEFINE a == SubSeq(q, 1, i - 1)
             b == SubSeq(q, i + 1, Len(q))
  <2>1. i \in 1..Len(q) /\ r = a \o b  BY DEF RemoveAt
  <2>2. a \in Seq(Workers) /\ Len(a) = i - 1 /\ \A k \in 1..(i - 1) : a[k] = q[k]  BY <2>1
  <2>3. b \in Seq(Workers) /\ Len(b) = Len(q) - i /\ \A k \in 1..(Len(q) - i) : b[k] = q[k + i]
    <3>1. i + 1 \in Int /\ Len(q) \in Int /\ \A k \in (i + 1)..Len(q) : q[k] \in Workers  BY <2>1
    <3>2. /\ b \in Seq(Workers)
          /\ Len(b) = IF i + 1 <= Len(q) THEN Len(q) - (i + 1) + 1 ELSE 0
          /\ \A k \in 1..(Len(q) - (i + 1) + 1) : b[k] = q[(i + 1) + k - 1]  BY <3>1, SubSeqProperties
    <3> HIDE DEF b
    <3>3. i \in Int /\ Len(q) \in Int /\ i <= Len(q)  BY <2>1
    <3>4. Len(b) = Len(q) - i  BY <3>2, <3>3
    <3>5. ASSUME NEW k \in 1..(Len(q) - i)  PROVE b[k] = q[k + i]
      <4>1. k \in 1..(Len(q) - (i + 1) + 1) /\ (i + 1) + k - 1 = k + i  BY <3>3
      <4> QED  BY <3>2, <4>1
    <3> QED  BY <3>2, <3>4, <3>5
  <2>4. \A k \in 1..(Len(a) + Len(b)) : (a \o b)[k] = IF k <= Len(a) THEN a[k] ELSE b[k - Len(a)]  BY <2>2, <2>3
  <2> HIDE DEF a, b
  <2>5. ASSUME NEW k \in 1..Len(r)  PROVE r[k] = IF k < i THEN q[k] ELSE q[k + 1]
    <3>1. k \in 1..(Len(a) + Len(b))  BY <1>1, <2>1, <2>2, <2>3
    <3>2. CASE k < i  BY <2>1, <2>2, <2>4, <3>1, <3>2
    <3>3. CASE k >= i
      <4>1. k - (i - 1) \in 1..(Len(q) - i) /\ k > i - 1
        <5>1. i \in 1..Len(q) /\ k \in 1..((i - 1) + (Len(q) - i))  BY <2>1, <2>2, <2>3, <3>1
        <5> QED  BY <3>3, <5>1
      <4>2. r[k] = b[k - (i - 1)]  BY <2>1, <2>2, <2>4, <3>1, <4>1
      <4>3. b[k - (i - 1)] = q[(k - (i - 1)) + i]  BY <2>3, <4>1
      <4>4. (k - (i - 1)) + i = k + 1  BY <2>1
      <4> QED  BY <3>3, <4>2, <4>3, <4>4
    <3> QED  BY <2>1, <3>2, <3>3
  <2> QED  BY <2>5
<1>3. IsInjective(r)  BY <1>1, <1>2 DEF IsInjective
<1>4. ToSet(r) \subseteq ToSet(q) \ {q[i]}  BY <1>1, <1>2 DEF IsInjective, ToSet
<1>5. ASSUME NEW x \in ToSet(q), x # q[i]  PROVE x \in ToSet(r)
  <2>1. PICK k \in 1..Len(q) : q[k] = x  BY DEF ToSet
  <2>2. CASE k < i
    <3>1. k \in 1..Len(r) /\ r[k] = x  BY <1>1, <1>2, <2>1, <2>2
    <3> QED  BY <1>1, <3>1 DEF ToSet
  <2>3. CASE k > i
    <3>1. k - 1 \in 1..Len(r) /\ r[k - 1] = x  BY <1>1, <1>2, <2>1, <2>3
    <3> QED  BY <1>1, <3>1 DEF ToSet
  <2> QED  BY <1>5, <2>1, <2>2, <2>3
<1> QED  BY <1>1, <1>3, <1>4, <1>5
-----------------------------------------------------------------------------
LEMMA InitIInv == Init => IInv
<1> SUFFICES ASSUME Init  PROVE IInv
    OBVIOUS
<1>1. TypeOK  BY DEF Init, TypeOK
<1>2. In("request") = {} /\ In("line") = {}  BY DEF Init, In
<1>3. Books  BY <1>2, FS_EmptySet DEF Init, Books, IsInjective, ToSet
<1>4. NoSlotLost  BY DEF Init, NoSlotLost
<1> QED  BY <1>1, <1>3, <1>4 DEF IInv

LEMMA EnterKeeps == ASSUME IInv, NEW w \in Workers, Enter(w)  PROVE IInv'
<1> USE DEF IInv, TypeOK
<1>1. TypeOK'  BY DEF Enter
<1>2. /\ In("request")' = In("request") \cup {w} /\ w \notin In("request")
      /\ In("line")' = In("line") /\ In("woken")' = In("woken")  BY DEF Enter, In
<1>3. Cardinality(In("request")') = Cardinality(In("request")) + 1  BY <1>2, AddedOne DEF In
<1>4. Books'  BY <1>2, <1>3 DEF Books, Enter
<1>5. NoSlotLost'
  <2>1. Cardinality(In("woken")) \in Nat  BY PlaceFinite DEF In
  <2> QED  BY <1>2, <2>1, SlotsAssumption DEF NoSlotLost, Enter
<1> QED  BY <1>1, <1>4, <1>5

LEMMA QueueKeeps == ASSUME IInv, NEW w \in Workers, Queue(w)  PROVE IInv'
<1> USE DEF IInv, TypeOK
<1>1. w \notin ToSet(waiters)  BY DEF Queue, Books, In
<1>2. /\ Append(waiters, w) \in Seq(Workers) /\ IsInjective(Append(waiters, w))
      /\ ToSet(Append(waiters, w)) = ToSet(waiters) \cup {w}  BY <1>1, LineGrows DEF Books
<1>3. TypeOK'  BY <1>2 DEF Queue
<1>4. In("request")' = In("request") /\ In("line")' = In("line") \cup {w} /\ In("woken")' = In("woken")
    BY DEF Queue, In
<1>5. Books'  BY <1>2, <1>4 DEF Books, Queue
<1>6. NoSlotLost'
  <2>1. Cardinality(In("woken")) \in Nat  BY PlaceFinite DEF In
  <2> QED  BY <1>4, <2>1, SlotsAssumption DEF NoSlotLost, Queue
<1> QED  BY <1>3, <1>5, <1>6

LEMMA ResumeKeeps == ASSUME IInv, NEW w \in Workers, Resume(w)  PROVE IInv'
<1> USE DEF IInv, TypeOK
<1>1. TypeOK'  BY DEF Resume
<1>2. /\ In("request")' = In("request") \cup {w} /\ w \notin In("request")
      /\ In("line")' = In("line")
      /\ In("woken")' = In("woken") \ {w} /\ w \in In("woken")  BY DEF Resume, In
<1>3. Cardinality(In("request")') = Cardinality(In("request")) + 1  BY <1>2, AddedOne DEF In
<1>4. Cardinality(In("woken")') = Cardinality(In("woken")) - 1  BY <1>2, RemovedOne DEF In
<1>5. Books'  BY <1>2, <1>3 DEF Books, Resume
<1>6. NoSlotLost'
  <2>1. Cardinality(In("woken")) \in Nat  BY PlaceFinite DEF In
  <2> QED  BY <1>4, <2>1, SlotsAssumption DEF NoSlotLost, Resume
<1> QED  BY <1>1, <1>5, <1>6

LEMMA ReleaseKeeps == ASSUME IInv, NEW w \in Workers, Release(w)  PROVE IInv'
<1> USE DEF IInv, TypeOK
<1>1. w \in In("request") /\ In("request") \subseteq Workers  BY DEF Release, In
<1>2. Cardinality(In("request") \ {w}) = active - 1 /\ active > 0  BY <1>1, RemovedOne DEF Books
<1>3. Cardinality(In("woken")) \in Nat  BY PlaceFinite DEF In
<1>4. CASE waiters = <<>>
  <2>1. TypeOK'  BY <1>2, <1>4 DEF Release
  <2>2. In("request")' = In("request") \ {w} /\ In("line")' = In("line")  BY <1>4 DEF Release, In
  <2>3. Books'  BY <1>2, <1>4, <2>2 DEF Books, Release
  <2>4. NoSlotLost'  BY <1>4 DEF NoSlotLost, Release
  <2> QED  BY <2>1, <2>3, <2>4
<1>5. CASE waiters # <<>>
  <2> DEFINE h == Head(waiters)
  <2>1. /\ Tail(waiters) \in Seq(Workers) /\ h \in ToSet(waiters)
        /\ IsInjective(Tail(waiters)) /\ ToSet(Tail(waiters)) = ToSet(waiters) \ {h}
      BY <1>5, LineServed DEF Books
  <2>2. h \in In("line")  BY <2>1 DEF Books
  <2> HIDE DEF h
  <2>3. h \in Workers /\ at[h] = "line" /\ h # w  BY <1>1, <2>2 DEF In
  <2>4. /\ waiters' = Tail(waiters) /\ active' = active - 1
        /\ at' = [at EXCEPT ![w] = "outside", ![h] = "woken"]  BY <1>5 DEF Release, h
  <2>5. TypeOK'  BY <1>2, <2>1, <2>3, <2>4
  <2>6. In("request")' = In("request") \ {w}  BY <2>3, <2>4 DEF In
  <2>7. In("line")' = In("line") \ {h}  BY <1>1, <2>3, <2>4 DEF In
  <2>8. In("woken")' = In("woken") \cup {h} /\ h \notin In("woken")  BY <1>1, <2>3, <2>4 DEF In
  <2>9. Cardinality(In("woken")') = Cardinality(In("woken")) + 1  BY <2>3, <2>8, AddedOne DEF In
  <2>10. Books'  BY <1>2, <2>1, <2>4, <2>6, <2>7 DEF Books
  <2>11. NoSlotLost'  BY <1>2, <1>3, <1>5, <2>4, <2>9, SlotsAssumption DEF NoSlotLost
  <2> QED  BY <2>5, <2>10, <2>11
<1> QED  BY <1>4, <1>5

LEMMA AbortInLineKeeps == ASSUME IInv, NEW w \in Workers, AbortInLine(w)  PROVE IInv'
<1> USE DEF IInv, TypeOK
<1>1. PICK i \in DOMAIN waiters : waiters[i] = w /\ waiters' = RemoveAt(waiters, i)  BY DEF AbortInLine
<1>2. waiters' \in Seq(Workers) /\ IsInjective(waiters') /\ ToSet(waiters') = ToSet(waiters) \ {w}
    BY <1>1, LineLeft DEF Books
<1>3. TypeOK'  BY <1>2 DEF AbortInLine
<1>4. In("request")' = In("request") /\ In("line")' = In("line") \ {w} /\ In("woken")' = In("woken")
    BY DEF AbortInLine, In
<1>5. Books'  BY <1>2, <1>4 DEF Books, AbortInLine
<1>6. waiters # <<>>  BY <1>1
<1>7. NoSlotLost'  BY <1>4, <1>6 DEF NoSlotLost, AbortInLine
<1> QED  BY <1>3, <1>5, <1>7

\* Together: the types, the count and the line, and no slot lost.
THEOREM SlotsAreKept == Spec => [](TypeOK /\ Books /\ NoSlotLost)
<1>1. IInv /\ [Next]_vars => IInv'
  <2> SUFFICES ASSUME IInv, [Next]_vars  PROVE IInv'
      OBVIOUS
  <2>1. CASE UNCHANGED vars
      BY <2>1 DEF IInv, TypeOK, Books, NoSlotLost, In, vars
  <2>2. CASE Next
    <3>1. PICK w \in Workers : Enter(w) \/ Queue(w) \/ Resume(w) \/ Release(w) \/ AbortInLine(w)
        BY <2>2 DEF Next
    <3> QED  BY <3>1, EnterKeeps, QueueKeeps, ResumeKeeps, ReleaseKeeps, AbortInLineKeeps
  <2> QED  BY <2>1, <2>2
<1>2. IInv => TypeOK /\ Books /\ NoSlotLost  BY DEF IInv
<1> QED  BY InitIInv, <1>1, <1>2, PTL DEF Spec

\* Semaphore.active is the number of requests under way, and its line holds exactly the workers that wait, each once:
\* after any number of releases and aborts.
THEOREM BooksAreRight == Spec => []Books
BY SlotsAreKept, PTL

\* As long as a worker waits all slots are taken or promised: a release or an abort never leaves a free slot behind it.
THEOREM SlotsAreUsed == Spec => []NoSlotLost
BY SlotsAreKept, PTL
=============================================================================
