--------------------------- MODULE TerminalsProofs ---------------------------
(***************************************************************************)
(* No shell is lost and the limit on terminals is kept, commands run in    *)
(* the order they came in, and a command that runs out of time is told so, *)
(* for any number of names and calls and any limit.                        *)
(***************************************************************************)
EXTENDS Terminals, FiniteSetTheorems, SequenceTheorems, TLAPS

\* The types that the two properties depend on.
MapTypes ==
  /\ calls \in 0..MaxCalls
  /\ name \in [Calls -> Names]
  /\ terminals \in [Names -> 0..MaxCalls]
  /\ creating \in [Names -> Seq(Calls)]
  /\ closed \subseteq Calls
  /\ alive \subseteq Calls

\* A shell is named after a call that has come in.
Known == \A s \in alive \union closed : s <= calls

\* The map has a terminal under the name its first call asked for.
Named == \A n \in Open : name[terminals[n]] = n

\* While a shell is being started its name is not in the map, and the call it will be named after has named no other.
Starting ==
  \A n \in Pending :
    /\ Head(creating[n]) <= calls
    /\ name[Head(creating[n])] = n
    /\ Head(creating[n]) \notin alive \union closed
    /\ terminals[n] = 0

\* Only a shell that was started has commands; so a time limit closes no other.
Handed ==
  /\ line \in [Calls -> Seq(Calls)]
  /\ \A s \in Calls : line[s] # <<>> => s \in alive \union closed

MapInv == MapTypes /\ Known /\ Named /\ Starting /\ Tracked /\ LimitKept

IInv == MapInv /\ Handed

-----------------------------------------------------------------------------
LEMMA CountsAreNumbers ==
  ASSUME NEW S, S \subseteq Names
  PROVE  IsFiniteSet(S) /\ Cardinality(S) \in Nat
BY TerminalsAssumption, FS_Subset, FS_CardinalityType

LEMMA SubsetCount ==
  ASSUME NEW S, NEW T, S \subseteq T, T \subseteq Names
  PROVE  Cardinality(S) <= Cardinality(T)
BY CountsAreNumbers, FS_Subset

\* What is in the map is a shell that is not closed.
LEMMA OpenIsAlive ==
  ASSUME MapInv, NEW n \in Open
  PROVE  terminals[n] \in Calls /\ terminals[n] \in alive \ closed
<1>1. n \in Names /\ terminals[n] # 0 /\ terminals[n] \in Calls  BY DEF MapInv, MapTypes, Open, Calls
<1>2. terminals[name[terminals[n]]] = terminals[n]  BY DEF MapInv, Named
<1> QED  BY <1>1, <1>2 DEF MapInv, Tracked

\* The shell of a call that has not come in is in no place.
LEMMA NextIsNew ==
  ASSUME MapInv, calls < MaxCalls
  PROVE  /\ calls + 1 \in Calls
         /\ calls + 1 \notin alive \union closed
         /\ \A n \in Names : terminals[n] # calls + 1
<1>1. calls + 1 \in Calls /\ calls \in Nat  BY TerminalsAssumption DEF MapInv, MapTypes, Calls
<1>2. calls + 1 \notin alive \union closed  BY <1>1 DEF MapInv, Known
<1>3. ASSUME NEW n \in Names, terminals[n] = calls + 1  PROVE FALSE
  <2>1. n \in Open  BY <1>1, <1>3 DEF Open
  <2> QED  BY <1>2, <1>3, <2>1, OpenIsAlive
<1> QED  BY <1>1, <1>2, <1>3

-----------------------------------------------------------------------------
\* A call that comes in disturbs nothing but what its creating entry becomes.
LEMMA ArrivesKeeps ==
  ASSUME MapInv, NEW n \in Names, Arrives(n), UNCHANGED <<terminals, closed, alive>>,
         creating' \in [Names -> Seq(Calls)],
         \A m \in Names : \/ creating'[m] = creating[m]
                          \/ m \in Pending /\ Head(creating'[m]) = Head(creating[m])
                          \/ m = n /\ terminals[n] = 0 /\ Head(creating'[m]) = calls + 1
  PROVE  MapTypes' /\ Known' /\ Named' /\ Starting' /\ Tracked'
<1> DEFINE c == calls + 1
<1>0. calls < MaxCalls /\ calls \in Nat  BY DEF Arrives, MapInv, MapTypes
<1>1. /\ c \in Calls /\ c \notin alive \union closed
      /\ \A m \in Names : terminals[m] # c  BY <1>0, NextIsNew
<1>2. /\ calls' = c /\ name'[c] = n
      /\ name' \in [Calls -> Names]
      /\ \A d \in Calls : d # c => name'[d] = name[d]  BY <1>1 DEF Arrives, MapInv, MapTypes
<1>3. MapTypes'  BY <1>0, <1>1, <1>2 DEF MapInv, MapTypes, Calls
<1>4. Known'  BY <1>0, <1>2 DEF MapInv, Known, MapTypes, Calls
<1>5. Named'
  <2> SUFFICES ASSUME NEW m \in Open'  PROVE name'[terminals'[m]] = m
      BY DEF Named
  <2>1. m \in Open  BY DEF Open
  <2>2. terminals[m] \in Calls /\ terminals[m] # c  BY <1>1, <2>1, OpenIsAlive DEF Open
  <2> QED  BY <1>2, <2>1, <2>2 DEF MapInv, Named
<1>6. Tracked'
  <2> SUFFICES ASSUME NEW s \in Calls  PROVE s \in alive' \ closed' <=> terminals'[name'[s]] = s
      BY DEF Tracked
  <2>1. CASE s = c  BY <1>1, <1>2, <2>1
  <2>2. CASE s # c  BY <1>2, <2>2 DEF MapInv, Tracked
  <2> QED  BY <2>1, <2>2
<1>7. Starting'
  <2> SUFFICES ASSUME NEW m \in Pending'
               PROVE  /\ Head(creating'[m]) <= calls'
                      /\ name'[Head(creating'[m])] = m
                      /\ Head(creating'[m]) \notin alive' \union closed'
                      /\ terminals'[m] = 0
      BY DEF Starting
  <2>1. m \in Names /\ creating'[m] # <<>>  BY DEF Pending
  <2>2. CASE m = n /\ terminals[n] = 0 /\ Head(creating'[m]) = c  BY <1>0, <1>1, <1>2, <2>2
  <2>3. CASE m \in Pending /\ Head(creating'[m]) = Head(creating[m])
    <3>1. /\ Head(creating[m]) <= calls /\ name[Head(creating[m])] = m
          /\ Head(creating[m]) \notin alive \union closed /\ terminals[m] = 0
        BY <2>3 DEF MapInv, Starting
    <3>2. Head(creating[m]) \in Calls  BY <2>1, <2>3 DEF MapInv, MapTypes, Pending
    <3>3. Head(creating[m]) # c /\ Head(creating[m]) <= c  BY <1>0, <3>1, <3>2 DEF Calls
    <3> QED  BY <1>2, <2>3, <3>1, <3>2, <3>3
  <2>4. CASE creating'[m] = creating[m]
    <3>1. m \in Pending  BY <2>1, <2>4 DEF Pending
    <3> QED  BY <2>3, <2>4, <3>1
  <2> QED  BY <2>1, <2>2, <2>3, <2>4
<1> QED  BY <1>3, <1>4, <1>5, <1>6, <1>7

\* Closing shells that have been started frees their names and loses none.
LEMMA MarkClosedKeeps ==
  ASSUME MapInv, NEW S, S \subseteq alive \union closed, MarkClosed(S), alive' \subseteq alive, alive \ alive' \subseteq S,
         UNCHANGED <<calls, name, creating>>
  PROVE  MapInv'
<1>1. /\ closed' = closed \union S /\ closed' \subseteq Calls /\ alive' \subseteq Calls
      /\ terminals' \in [Names -> 0..MaxCalls]
      /\ \A n \in Names : terminals'[n] = IF terminals[n] \in S THEN 0 ELSE terminals[n]
    BY TerminalsAssumption DEF MarkClosed, MapInv, MapTypes
<1>2. MapTypes'  BY <1>1 DEF MapInv, MapTypes
<1>3. alive' \union closed' \subseteq alive \union closed  BY <1>1
<1>4. Known'  BY <1>3 DEF MapInv, Known
<1>5. Named'  BY <1>1 DEF MapInv, Named, Open
<1>6. Pending' = Pending  BY DEF Pending
<1>7. Starting'
  <2> SUFFICES ASSUME NEW m \in Pending
               PROVE  /\ Head(creating[m]) \notin alive' \union closed'
                      /\ terminals'[m] = 0
      BY <1>6 DEF Starting, MapInv
  <2>1. m \in Names /\ terminals[m] = 0 /\ Head(creating[m]) \notin alive \union closed  BY DEF MapInv, Starting, Pending
  <2> QED  BY <1>1, <1>3, <2>1
<1>8. Tracked'
  <2> SUFFICES ASSUME NEW s \in Calls  PROVE s \in alive' \ closed' <=> terminals'[name[s]] = s
      BY DEF Tracked
  <2>1. name[s] \in Names /\ s # 0  BY DEF MapInv, MapTypes, Calls
  <2>2. s \in alive \ closed <=> terminals[name[s]] = s  BY DEF MapInv, Tracked
  <2>3. s \in alive' \ closed' <=> s \in alive \ closed /\ s \notin S  BY <1>1
  <2> QED  BY <1>1, <2>1, <2>2, <2>3
<1>9. LimitKept'
  <2>1. Open' \subseteq Open /\ Open \subseteq Names /\ Pending \subseteq Names  BY <1>1 DEF Open, Pending
  <2>2. Cardinality(Open') <= Cardinality(Open)  BY <2>1, SubsetCount
  <2>3. Cardinality(Open') \in Nat /\ Cardinality(Open) \in Nat /\ Cardinality(Pending) \in Nat
      BY <2>1, CountsAreNumbers
  <2> QED  BY <1>6, <2>2, <2>3, TerminalsAssumption DEF MapInv, LimitKept
<1> QED  BY <1>2, <1>4, <1>5, <1>7, <1>8, <1>9 DEF MapInv

-----------------------------------------------------------------------------
LEMMA InitMapInv == Init => MapInv
<1> SUFFICES ASSUME Init  PROVE MapInv
    OBVIOUS
<1>1. (CHOOSE n \in Names : TRUE) \in Names  BY TerminalsAssumption
<1>2. MapTypes  BY <1>1, TerminalsAssumption DEF Init, MapTypes
<1>3. Open = {} /\ Pending = {}  BY DEF Init, Open, Pending
<1>4. LimitKept  BY <1>3, FS_EmptySet, TerminalsAssumption DEF LimitKept
<1>5. Tracked
  <2> SUFFICES ASSUME NEW s \in Calls  PROVE s \in alive \ closed <=> terminals[name[s]] = s
      BY DEF Tracked
  <2>1. name[s] \in Names /\ s # 0  BY <1>2 DEF MapTypes, Calls
  <2> QED  BY <2>1 DEF Init
<1> QED  BY <1>2, <1>3, <1>4, <1>5 DEF MapInv, Known, Named, Starting, Init

\* Steps of a shell that leave the map and the starts alone.
LEMMA OthersKeep ==
  ASSUME MapInv, UNCHANGED <<calls, name, terminals, creating, closed, alive>>
  PROVE  MapInv'
BY DEF MapInv, MapTypes, Known, Named, Starting, Tracked, LimitKept, Open, Pending

LEMMA RunInExistingKeeps ==
  ASSUME MapInv, NEW n \in Names, RunInExisting(n)
  PROVE  MapInv'
<1>1. Arrives(n) /\ UNCHANGED <<terminals, creating, closed, alive>>  BY DEF RunInExisting
<1>2. MapTypes' /\ Known' /\ Named' /\ Starting' /\ Tracked'  BY <1>1, ArrivesKeeps DEF MapInv, MapTypes
<1>3. LimitKept'  BY <1>1 DEF MapInv, LimitKept, Open, Pending
<1> QED  BY <1>2, <1>3 DEF MapInv

LEMMA RunWaitsKeeps ==
  ASSUME MapInv, NEW n \in Names, RunWaits(n)
  PROVE  MapInv'
<1>1. /\ Arrives(n) /\ UNCHANGED <<terminals, closed, alive>>
      /\ creating[n] # <<>>
      /\ creating' = [creating EXCEPT ![n] = Append(@, calls + 1)]  BY DEF RunWaits
<1>2. calls + 1 \in Calls  BY <1>1, NextIsNew DEF Arrives
<1>3. creating[n] \in Seq(Calls)  BY DEF MapInv, MapTypes
<1>4. /\ Append(creating[n], calls + 1) \in Seq(Calls)
      /\ Append(creating[n], calls + 1) # <<>>
      /\ Head(Append(creating[n], calls + 1)) = Head(creating[n])  BY <1>1, <1>2, <1>3
<1>5. creating' \in [Names -> Seq(Calls)]  BY <1>1, <1>4 DEF MapInv, MapTypes
<1>6. \A m \in Names : IF m = n THEN creating'[m] = Append(creating[n], calls + 1) ELSE creating'[m] = creating[m]
    BY <1>1 DEF MapInv, MapTypes
<1>7. MapTypes' /\ Known' /\ Named' /\ Starting' /\ Tracked'
    BY <1>1, <1>4, <1>5, <1>6, ArrivesKeeps DEF Pending
<1>8. Pending' = Pending /\ Open' = Open  BY <1>1, <1>4, <1>6 DEF Pending, Open
<1>9. LimitKept'  BY <1>8 DEF MapInv, LimitKept
<1> QED  BY <1>7, <1>9 DEF MapInv

LEMMA RunCreatesKeeps ==
  ASSUME MapInv, NEW n \in Names, RunCreates(n)
  PROVE  MapInv'
<1>1. Arrives(n) /\ UNCHANGED <<terminals, closed, alive>> /\ terminals[n] = 0 /\ creating[n] = <<>>
    BY DEF RunCreates
<1>2. CASE UNCHANGED creating
  <2>1. MapTypes' /\ Known' /\ Named' /\ Starting' /\ Tracked'  BY <1>1, <1>2, ArrivesKeeps DEF MapInv, MapTypes
  <2>2. LimitKept'  BY <1>1, <1>2 DEF MapInv, LimitKept, Open, Pending
  <2> QED  BY <2>1, <2>2 DEF MapInv
<1>3. CASE /\ ~(Cardinality(Open) + Cardinality(Pending) >= MaxTerminals)
           /\ creating' = [creating EXCEPT ![n] = <<calls + 1>>]
  <2>1. calls + 1 \in Calls  BY <1>1, NextIsNew DEF Arrives
  <2>2. creating' \in [Names -> Seq(Calls)]  BY <1>3, <2>1 DEF MapInv, MapTypes
  <2>3. \A m \in Names : creating'[m] = IF m = n THEN <<calls + 1>> ELSE creating[m]  BY <1>3 DEF MapInv, MapTypes
  <2>4. MapTypes' /\ Known' /\ Named' /\ Starting' /\ Tracked'  BY <1>1, <2>2, <2>3, ArrivesKeeps
  <2>5. Open' = Open /\ Pending' = Pending \union {n} /\ n \notin Pending
      BY <1>1, <2>3 DEF Open, Pending
  <2>6. Open \subseteq Names /\ Pending \subseteq Names  BY DEF Open, Pending
  <2>7. Cardinality(Pending') = Cardinality(Pending) + 1  BY <2>5, <2>6, CountsAreNumbers, FS_AddElement
  <2>8. Cardinality(Open) \in Nat /\ Cardinality(Pending) \in Nat  BY <2>6, CountsAreNumbers
  <2>9. LimitKept'  BY <1>3, <2>5, <2>7, <2>8, TerminalsAssumption DEF LimitKept
  <2> QED  BY <2>4, <2>9 DEF MapInv
<1> QED  BY <1>2, <1>3 DEF RunCreates

LEMMA CreatedKeeps ==
  ASSUME MapInv, NEW n \in Names, Created(n)
  PROVE  MapInv'
<1> DEFINE s == Head(creating[n])
<1>1. /\ creating[n] # <<>> /\ n \in Pending
      /\ terminals' = [terminals EXCEPT ![n] = s]
      /\ creating' = [creating EXCEPT ![n] = <<>>]
      /\ alive' = alive \union {s}
      /\ UNCHANGED <<calls, name, closed>>  BY DEF Created, Pending
<1>2. s \in Calls  BY <1>1 DEF MapInv, MapTypes
<1>3. s <= calls /\ name[s] = n /\ s \notin alive \union closed /\ terminals[n] = 0  BY <1>1 DEF MapInv, Starting
<1>4. /\ \A m \in Names : terminals'[m] = IF m = n THEN s ELSE terminals[m]
      /\ \A m \in Names : creating'[m] = IF m = n THEN <<>> ELSE creating[m]  BY <1>1 DEF MapInv, MapTypes
<1> HIDE DEF s
<1>5. MapTypes'
  <2>1. s \in 0..MaxCalls  BY <1>2, TerminalsAssumption DEF Calls
  <2> QED  BY <1>1, <1>2, <2>1 DEF MapInv, MapTypes
<1>6. Known'  BY <1>1, <1>3 DEF MapInv, Known
<1>7. Named'
  <2> SUFFICES ASSUME NEW m \in Open'  PROVE name[terminals'[m]] = m
      BY <1>1 DEF Named
  <2>1. m \in Names /\ (m # n => m \in Open)  BY <1>4 DEF Open
  <2> QED  BY <1>3, <1>4, <2>1 DEF MapInv, Named
<1>8. Tracked'
  <2> SUFFICES ASSUME NEW r \in Calls  PROVE r \in alive' \ closed <=> terminals'[name[r]] = r
      BY <1>1 DEF Tracked
  <2>1. name[r] \in Names /\ r # 0  BY DEF MapInv, MapTypes, Calls
  <2>2. r \in alive \ closed <=> terminals[name[r]] = r  BY DEF MapInv, Tracked
  <2>3. CASE r = s  BY <1>1, <1>3, <1>4, <2>1, <2>3
  <2>4. CASE r # s  BY <1>1, <1>3, <1>4, <2>1, <2>2, <2>4
  <2> QED  BY <2>3, <2>4
<1>9. Pending' = Pending \ {n} /\ Open' = Open \union {n} /\ n \notin Open
    BY <1>2, <1>3, <1>4 DEF Pending, Open, Calls
<1>10. Starting'
  <2> SUFFICES ASSUME NEW m \in Pending'
               PROVE  /\ Head(creating'[m]) <= calls
                      /\ name[Head(creating'[m])] = m
                      /\ Head(creating'[m]) \notin alive' \union closed
                      /\ terminals'[m] = 0
      BY <1>1 DEF Starting
  <2>1. m \in Pending /\ m \in Names /\ m # n  BY <1>9 DEF Pending
  <2>2. creating'[m] = creating[m] /\ terminals'[m] = terminals[m]  BY <1>4, <2>1
  <2>3. /\ Head(creating[m]) <= calls /\ name[Head(creating[m])] = m
        /\ Head(creating[m]) \notin alive \union closed /\ terminals[m] = 0  BY <2>1 DEF MapInv, Starting
  <2>4. Head(creating[m]) # s  BY <1>3, <2>1, <2>3
  <2> QED  BY <1>1, <2>2, <2>3, <2>4
<1>11. LimitKept'
  <2>1. Open \subseteq Names /\ Pending \subseteq Names  BY DEF Open, Pending
  <2>2. Cardinality(Open') = Cardinality(Open) + 1  BY <1>9, <2>1, CountsAreNumbers, FS_AddElement
  <2>3. Cardinality(Pending') = Cardinality(Pending) - 1  BY <1>1, <1>9, <2>1, CountsAreNumbers, FS_RemoveElement
  <2>4. Cardinality(Open) \in Nat /\ Cardinality(Pending) \in Nat  BY <2>1, CountsAreNumbers
  <2> QED  BY <2>2, <2>3, <2>4 DEF MapInv, LimitKept
<1> QED  BY <1>5, <1>6, <1>7, <1>8, <1>10, <1>11 DEF MapInv

LEMMA CreateFailsKeeps ==
  ASSUME MapInv, NEW n \in Names, CreateFails(n)
  PROVE  MapInv'
<1>1. /\ creating' = [creating EXCEPT ![n] = <<>>]
      /\ UNCHANGED <<calls, name, terminals, closed, alive>>  BY DEF CreateFails
<1>2. \A m \in Names : creating'[m] = IF m = n THEN <<>> ELSE creating[m]  BY <1>1 DEF MapInv, MapTypes
<1>3. MapTypes'  BY <1>1 DEF MapInv, MapTypes
<1>4. Pending' \subseteq Pending /\ \A m \in Pending' : creating'[m] = creating[m]  BY <1>2 DEF Pending
<1>5. Known' /\ Named' /\ Tracked'  BY <1>1 DEF MapInv, Known, Named, Tracked, Open
<1>6. Starting'  BY <1>1, <1>4 DEF MapInv, Starting
<1>7. LimitKept'
  <2>1. Open' = Open /\ Open \subseteq Names /\ Pending \subseteq Names  BY <1>1 DEF Open, Pending
  <2>2. Cardinality(Pending') <= Cardinality(Pending)  BY <1>4, <2>1, SubsetCount
  <2>3. Cardinality(Open) \in Nat /\ Cardinality(Pending) \in Nat /\ Cardinality(Pending') \in Nat
      BY <1>4, <2>1, CountsAreNumbers
  <2> QED  BY <2>1, <2>2, <2>3, TerminalsAssumption DEF MapInv, LimitKept
<1> QED  BY <1>3, <1>5, <1>6, <1>7 DEF MapInv

LEMMA CloseKeeps ==
  ASSUME MapInv, NEW N, N \subseteq Open, Close({terminals[n] : n \in N})
  PROVE  MapInv'
<1> DEFINE S == {terminals[n] : n \in N}
<1>1. S \subseteq alive \union closed  BY OpenIsAlive
<1>2. MarkClosed(S) /\ UNCHANGED <<calls, name, creating, alive>>  BY DEF Close
<1> HIDE DEF S
<1> QED  BY <1>1, <1>2, MarkClosedKeeps

\* No step breaks the map.
LEMMA NextMapInv == IInv /\ [Next]_vars => MapInv'
<1> SUFFICES ASSUME IInv, [Next]_vars  PROVE MapInv'
    OBVIOUS
<1>0. MapInv /\ Handed  BY DEF IInv
<1>1. ASSUME NEW n \in Names, RunInExisting(n)  PROVE MapInv'  BY <1>0, <1>1, RunInExistingKeeps
<1>2. ASSUME NEW n \in Names, RunWaits(n)  PROVE MapInv'  BY <1>0, <1>2, RunWaitsKeeps
<1>3. ASSUME NEW n \in Names, RunCreates(n)  PROVE MapInv'  BY <1>0, <1>3, RunCreatesKeeps
<1>4. ASSUME NEW n \in Names, Created(n)  PROVE MapInv'  BY <1>0, <1>4, CreatedKeeps
<1>5. ASSUME NEW n \in Names, CreateFails(n)  PROVE MapInv'  BY <1>0, <1>5, CreateFailsKeeps
<1>6. ASSUME NEW n \in Names, CloseTerminal(n)  PROVE MapInv'
  <2>1. {n} \subseteq Open /\ {terminals[m] : m \in {n}} = {terminals[n]}  BY <1>0, <1>6 DEF CloseTerminal
  <2>2. Close({terminals[m] : m \in {n}})  BY <1>0, <1>6, <2>1 DEF CloseTerminal
  <2> QED  BY <2>1, <2>2, CloseKeeps, <1>0
<1>7. ASSUME NEW s \in Calls, Reports(s) \/ Killed(s)  PROVE MapInv'
    BY <1>0, <1>7, OthersKeep DEF Reports, Killed
<1>8. ASSUME NEW s \in Calls, TimeUp(s)  PROVE MapInv'
  <2>1. s \in alive \union closed  BY <1>0, <1>8 DEF TimeUp, Handed
  <2>2. MarkClosed({s}) /\ UNCHANGED <<calls, name, creating, alive>>  BY <1>8 DEF TimeUp
  <2> QED  BY <1>0, <2>1, <2>2, MarkClosedKeeps
<1>9. ASSUME NEW s \in Calls, ShellExits(s)  PROVE MapInv'
  <2>1. {s} \subseteq alive \union closed /\ MarkClosed({s}) /\ alive' = alive \ {s} /\ UNCHANGED <<calls, name, creating>>
      BY <1>0, <1>9 DEF ShellExits
  <2> QED  BY <2>1, MarkClosedKeeps, <1>0
<1>10. CASE CloseAll  BY <1>0, <1>10, CloseKeeps DEF CloseAll
<1>11. CASE SweepIdle
  <2>1. PICK N \in SUBSET {n \in Open : line[terminals[n]] = <<>>} : Close({terminals[n] : n \in N})
      BY <1>0, <1>11 DEF SweepIdle
  <2>2. N \subseteq Open  OBVIOUS
  <2> QED  BY <2>1, <2>2, CloseKeeps, <1>0
<1>12. CASE UNCHANGED vars  BY <1>0, <1>12, OthersKeep DEF vars
<1> QED  BY <1>0, <1>1, <1>2, <1>3, <1>4, <1>5, <1>6, <1>7, <1>8, <1>9, <1>10, <1>11, <1>12 DEF Next

\* A verdict gives no shell a command it did not have.
LEMMA FinishKeeps ==
  ASSUME Handed, NEW s \in Calls, line[s] # <<>>, NEW answer, Finish(s, answer)
  PROVE  /\ line' \in [Calls -> Seq(Calls)]
         /\ \A r \in Calls : line'[r] # <<>> => line[r] # <<>>
<1>1. Tail(line[s]) \in Seq(Calls) /\ <<>> \in Seq(Calls)  BY DEF Handed
<1>2. line' = [line EXCEPT ![s] = Tail(line[s])] \/ line' = [line EXCEPT ![s] = <<>>]  BY DEF Finish
<1> QED  BY <1>1, <1>2 DEF Handed

LEMMA NextHanded == IInv /\ [Next]_vars => Handed'
<1> SUFFICES ASSUME IInv, [Next]_vars  PROVE Handed'
    OBVIOUS
<1>0. MapInv /\ Handed  BY DEF IInv
<1>1. ASSUME alive \union closed \subseteq alive' \union closed',
             line' \in [Calls -> Seq(Calls)],
             \A r \in Calls : line'[r] # <<>> => line[r] # <<>>
      PROVE  Handed'
    BY <1>0, <1>1 DEF Handed
<1>2. ASSUME UNCHANGED line, alive \union closed \subseteq alive' \union closed'  PROVE Handed'
    BY <1>0, <1>2 DEF Handed
<1>3. ASSUME NEW n \in Names, RunInExisting(n)  PROVE Handed'
  <2>1. n \in Open /\ Arrives(n)  BY <1>3 DEF RunInExisting, Open
  <2>2. terminals[n] \in Calls /\ terminals[n] \in alive  BY <1>0, <2>1, OpenIsAlive
  <2>3. calls + 1 \in Calls  BY <1>0, <2>1, NextIsNew DEF Arrives
  <2>4. line' = [line EXCEPT ![terminals[n]] = Append(@, calls + 1)] /\ UNCHANGED <<alive, closed>>
      BY <1>3 DEF RunInExisting
  <2> QED  BY <1>0, <2>2, <2>3, <2>4 DEF Handed
<1>4. ASSUME NEW n \in Names, RunWaits(n) \/ RunCreates(n) \/ CreateFails(n)  PROVE Handed'
    BY <1>2, <1>4 DEF RunWaits, RunCreates, CreateFails
<1>5. ASSUME NEW n \in Names, Created(n)  PROVE Handed'
  <2>1. creating[n] \in Seq(Calls) /\ creating[n] # <<>>  BY <1>0, <1>5 DEF Created, MapInv, MapTypes
  <2>2. /\ line' = [line EXCEPT ![Head(creating[n])] = creating[n]]
        /\ alive' = alive \union {Head(creating[n])} /\ closed' = closed  BY <1>5 DEF Created
  <2> QED  BY <1>0, <2>1, <2>2 DEF Handed
<1>6. ASSUME NEW S, Close(S)  PROVE Handed'  BY <1>2, <1>6 DEF Close, MarkClosed
<1>7. ASSUME NEW s \in Calls, Reports(s)  PROVE Handed'  BY <1>0, <1>1, <1>7, FinishKeeps DEF Reports
<1>8. ASSUME NEW s \in Calls, Killed(s)  PROVE Handed'  BY <1>0, <1>1, <1>8, FinishKeeps DEF Killed
<1>9. ASSUME NEW s \in Calls, TimeUp(s)  PROVE Handed'  BY <1>2, <1>9 DEF TimeUp, MarkClosed
<1>10. ASSUME NEW s \in Calls, ShellExits(s)  PROVE Handed'
  <2>1. alive \union closed \subseteq alive' \union closed'  BY <1>10 DEF ShellExits, MarkClosed
  <2>2. CASE line[s] # <<>> /\ Finish(s, "died")  BY <1>0, <1>1, <2>1, <2>2, FinishKeeps
  <2>3. CASE UNCHANGED line  BY <1>2, <2>1, <2>3
  <2> QED  BY <1>10, <2>2, <2>3 DEF ShellExits
<1>11. ASSUME UNCHANGED vars  PROVE Handed'  BY <1>2, <1>11 DEF vars
<1> QED  BY <1>3, <1>4, <1>5, <1>6, <1>7, <1>8, <1>9, <1>10, <1>11 DEF Next, CloseTerminal, CloseAll, SweepIdle

LEMMA InitIInv == Init => IInv
<1>1. Init => Handed  BY DEF Init, Handed
<1> QED  BY <1>1, InitMapInv DEF IInv

LEMMA NextIInv == IInv /\ [Next]_vars => IInv'
BY NextMapInv, NextHanded DEF IInv

\* No shell is lost and the terminals stay within the limit: TerminalManager of terminals.ts.
THEOREM TerminalsAreKept == Spec => [](Tracked /\ LimitKept)
<1>1. IInv => Tracked /\ LimitKept  BY DEF IInv, MapInv
<1> QED  BY InitIInv, NextIInv, <1>1, PTL DEF Spec

-----------------------------------------------------------------------------
(* The chains of promises.                                                 *)

\* The chain of shell s: calls in the order of their arrival, the first one under way, and in a shell that lives the
\* others came after every command of the name that was started.
InLine(s) ==
  \A i \in DOMAIN line[s] :
    /\ line[s][i] <= calls /\ at[line[s][i]] = s /\ name[line[s][i]] = name[s]
    /\ i = 1 => status[line[s][i]] = "running" \/ (status[line[s][i]] = "killing" /\ s \in closed)
    /\ i > 1 => status[line[s][i]] = "queued"
    /\ i > 1 /\ s \notin closed => lastRun[name[s]] < line[s][i]
    /\ \A j \in DOMAIN line[s] : i < j => line[s][i] < line[s][j]

\* Those who wait for the shell of terminal n to start.
InCreating(n) ==
  \A i \in DOMAIN creating[n] :
    /\ creating[n][i] <= calls /\ name[creating[n][i]] = n /\ status[creating[n][i]] = "waiting"
    /\ lastRun[n] < creating[n][i]
    /\ \A j \in DOMAIN creating[n] : i < j => creating[n][i] < creating[n][j]

Chains ==
  /\ at \in [Calls -> 0..MaxCalls]
  /\ status \in [Calls -> Statuses]
  /\ lastRun \in [Names -> 0..MaxCalls]
  /\ \A n \in Names : lastRun[n] <= calls
  /\ \A c \in Calls : c > calls => status[c] = "new"
  /\ \A s \in Calls : InLine(s)
  /\ \A n \in Names : InCreating(n)

\* What RunsInOrder and TimeoutWins ask of a step.
InOrder == \A n \in Names : lastRun'[n] >= lastRun[n]
LimitTold == \A c \in Calls : status[c] = "killing" => status'[c] \in {"killing", "timedOut"}

Good == Chains' /\ InOrder /\ LimitTold

LEMMA CallsAreNumbers == Calls \subseteq Nat /\ 0 \notin Calls /\ Calls \subseteq 0..MaxCalls
BY TerminalsAssumption DEF Calls

LEMMA LinesAreSequences ==
  ASSUME IInv, NEW s \in Calls
  PROVE  line[s] \in Seq(Calls) /\ Len(line[s]) \in Nat /\ DOMAIN line[s] = 1..Len(line[s])
BY LenProperties DEF IInv, Handed

LEMMA WaitersAreSequences ==
  ASSUME IInv, NEW n \in Names
  PROVE  creating[n] \in Seq(Calls) /\ Len(creating[n]) \in Nat /\ DOMAIN creating[n] = 1..Len(creating[n])
BY LenProperties DEF IInv, MapInv, MapTypes

LEMMA InSeq ==
  ASSUME NEW S, NEW q \in Seq(S)
  PROVE  /\ \A i \in DOMAIN q : q[i] \in S /\ i \in Nat /\ i >= 1
         /\ q # <<>> => 1 \in DOMAIN q /\ Head(q) = q[1]
         /\ \A c \in ToSet(q) : \E i \in DOMAIN q : q[i] = c
         /\ \A i \in DOMAIN q : q[i] \in ToSet(q)
BY LenProperties DEF ToSet

LEMMA RunTypes ==
  ASSUME IInv
  PROVE  calls \in Nat /\ name \in [Calls -> Names] /\ \A s \in Calls : name[s] \in Names
BY TerminalsAssumption DEF IInv, MapInv, MapTypes

\* A shell that lives has the name to itself.
LEMMA OneShell ==
  ASSUME IInv, NEW s \in Calls, s \notin closed, line[s] # <<>>
  PROVE  /\ s \in alive /\ terminals[name[s]] = s /\ creating[name[s]] = <<>>
         /\ \A u \in Calls : u \notin closed /\ line[u] # <<>> /\ name[u] = name[s] => u = s
<1>1. \A u \in Calls : u \notin closed /\ line[u] # <<>> => terminals[name[u]] = u /\ u \in alive
  BY DEF IInv, Handed, MapInv, Tracked
<1>2. name[s] \in Names /\ s # 0
  BY RunTypes, CallsAreNumbers
<1>3. name[s] \notin Pending
  BY <1>1, <1>2 DEF IInv, MapInv, Starting
<1> QED
  BY <1>1, <1>2, <1>3 DEF Pending

\* A chain in which nothing changes.
LEMMA OldLine ==
  ASSUME IInv, Chains, NEW s \in Calls, line'[s] = line[s], calls <= calls', calls' \in Nat, closed \subseteq closed',
         \A c \in Calls : c <= calls => name'[c] = name[c],
         \A c \in Calls : c <= calls /\ at[c] = s /\ status[c] \in {"running", "killing", "queued"}
                            => at'[c] = s /\ status'[c] = status[c],
         s \notin closed /\ line[s] # <<>> => lastRun'[name[s]] = lastRun[name[s]]
  PROVE  InLine(s)'
<1> SUFFICES ASSUME NEW i \in DOMAIN line[s]
             PROVE  /\ line[s][i] <= calls' /\ at'[line[s][i]] = s /\ name'[line[s][i]] = name'[s]
                    /\ i = 1 => status'[line[s][i]] = "running" \/ (status'[line[s][i]] = "killing" /\ s \in closed')
                    /\ i > 1 => status'[line[s][i]] = "queued"
                    /\ i > 1 /\ s \notin closed' => lastRun'[name'[s]] < line[s][i]
                    /\ \A j \in DOMAIN line[s] : i < j => line[s][i] < line[s][j]
  BY DEF InLine
<1>1. line[s] \in Seq(Calls) /\ line[s][i] \in Calls /\ line[s][i] \in Nat /\ line[s] # <<>>
  <2>1. line[s] \in Seq(Calls) /\ DOMAIN line[s] = 1..Len(line[s])
    BY LinesAreSequences
  <2>2. line[s][i] \in Calls
    BY <2>1, InSeq
  <2>3. line[s] # <<>>
    <3> SUFFICES ASSUME line[s] = <<>> PROVE FALSE
      OBVIOUS
    <3>1. i \in DOMAIN <<>>
      OBVIOUS
    <3> QED
      BY <3>1
  <2> QED
    BY <2>1, <2>2, <2>3, CallsAreNumbers
<1>2. InLine(s)
  BY DEF Chains
<1>3. s <= calls
  BY <1>1 DEF IInv, Handed, MapInv, Known
<1>4. calls \in Nat /\ name'[s] = name[s]
  BY <1>3, RunTypes
<1>5. line[s][i] <= calls /\ at[line[s][i]] = s /\ name[line[s][i]] = name[s]
      /\ status[line[s][i]] \in {"running", "killing", "queued"}
  <2>1. i = 1 \/ i > 1
    BY LinesAreSequences, InSeq
  <2> QED
    BY <1>2, <2>1 DEF InLine
<1>6. at'[line[s][i]] = s /\ status'[line[s][i]] = status[line[s][i]] /\ name'[line[s][i]] = name[s]
  BY <1>1, <1>5
<1>7. line[s][i] <= calls'
  BY <1>1, <1>4, <1>5
<1>8. i > 1 /\ s \notin closed' => lastRun'[name'[s]] < line[s][i]
  BY <1>1, <1>2, <1>4 DEF InLine
<1> QED
  BY <1>2, <1>4, <1>6, <1>7, <1>8 DEF InLine

LEMMA OldCreating ==
  ASSUME IInv, Chains, NEW n \in Names, creating'[n] = creating[n], calls <= calls', calls' \in Nat,
         \A c \in Calls : c <= calls => name'[c] = name[c],
         \A c \in Calls : c <= calls /\ name[c] = n /\ status[c] = "waiting" => status'[c] = "waiting",
         creating[n] # <<>> => lastRun'[n] = lastRun[n]
  PROVE  InCreating(n)'
<1> SUFFICES ASSUME NEW i \in DOMAIN creating[n]
             PROVE  /\ creating[n][i] <= calls' /\ name'[creating[n][i]] = n /\ status'[creating[n][i]] = "waiting"
                    /\ lastRun'[n] < creating[n][i]
                    /\ \A j \in DOMAIN creating[n] : i < j => creating[n][i] < creating[n][j]
  BY DEF InCreating
<1>1. creating[n] \in Seq(Calls) /\ creating[n][i] \in Calls /\ creating[n][i] \in Nat /\ creating[n] # <<>>
  <2>1. creating[n] \in Seq(Calls) /\ DOMAIN creating[n] = 1..Len(creating[n])
    BY WaitersAreSequences
  <2>2. creating[n][i] \in Calls
    BY <2>1, InSeq
  <2>3. creating[n] # <<>>
    <3> SUFFICES ASSUME creating[n] = <<>> PROVE FALSE
      OBVIOUS
    <3>1. i \in DOMAIN <<>>
      OBVIOUS
    <3> QED
      BY <3>1
  <2> QED
    BY <2>1, <2>2, <2>3, CallsAreNumbers
<1>2. InCreating(n) /\ calls \in Nat
  BY RunTypes DEF Chains
<1>3. creating[n][i] <= calls /\ name[creating[n][i]] = n /\ status[creating[n][i]] = "waiting"
  BY <1>2 DEF InCreating
<1>4. name'[creating[n][i]] = n /\ status'[creating[n][i]] = "waiting"
  BY <1>1, <1>3
<1>5. creating[n][i] <= calls'
  BY <1>1, <1>2, <1>3
<1>6. lastRun'[n] < creating[n][i]
  BY <1>1, <1>2 DEF InCreating
<1> QED
  BY <1>2, <1>4, <1>5, <1>6 DEF InCreating

-----------------------------------------------------------------------------
LEMMA Arrival ==
  ASSUME IInv, Chains, NEW n \in Names, Arrives(n)
  PROVE  /\ calls + 1 \in Calls /\ calls \in Nat /\ calls' = calls + 1 /\ calls' \in Nat /\ calls <= calls'
         /\ calls + 1 \notin alive \union closed /\ line[calls + 1] = <<>>
         /\ name'[calls + 1] = n /\ \A c \in Calls : c # calls + 1 => name'[c] = name[c]
         /\ \A c \in Calls : c <= calls => c # calls + 1
         /\ \A c \in Calls : c > calls' => c > calls /\ c # calls + 1
         /\ status[calls + 1] = "new"
<1>1. calls + 1 \in Calls /\ calls + 1 \notin alive \union closed /\ calls \in Nat
  BY NextIsNew, RunTypes DEF IInv, Arrives
<1>2. calls' = calls + 1 /\ name'[calls + 1] = n /\ \A c \in Calls : c # calls + 1 => name'[c] = name[c]
  BY <1>1, RunTypes DEF Arrives
<1>3. line[calls + 1] = <<>>
  BY <1>1 DEF IInv, Handed
<1>4. status[calls + 1] = "new"
  BY <1>1 DEF Chains
<1>5. \A c \in Calls : c \in Nat
  BY CallsAreNumbers
<1> QED
  BY <1>1, <1>2, <1>3, <1>4, <1>5

LEMMA AppendAt ==
  ASSUME NEW S, NEW q \in Seq(S), NEW c \in S
  PROVE  /\ DOMAIN q = 1..Len(q) /\ Len(q) \in Nat /\ DOMAIN Append(q, c) = 1..(Len(q) + 1)
         /\ \A i \in DOMAIN Append(q, c) : \/ i \in DOMAIN q /\ Append(q, c)[i] = q[i] /\ i < Len(q) + 1
                                           \/ i = Len(q) + 1 /\ Append(q, c)[i] = c
         /\ q = <<>> <=> Len(q) = 0
BY LenProperties, AppendProperties, EmptySeq

LEMMA RunInExistingGood == ASSUME IInv, Chains, NEW n \in Names, RunInExisting(n) PROVE Good
<1>0. Arrives(n) /\ n \in Open
  BY DEF RunInExisting, Open
<1>a. calls + 1 \in Calls /\ terminals[n] \in Calls
  BY <1>0, Arrival, OpenIsAlive DEF IInv
<1> PICK c \in Calls : c = calls + 1
  BY <1>a
<1> PICK s \in Calls : s = terminals[n]
  BY <1>a
<1> DEFINE idle == line[s] = <<>>
<1>1. /\ c \in Calls /\ calls \in Nat /\ calls' = c /\ calls' \in Nat /\ calls <= calls'
      /\ c \notin alive \union closed /\ line[c] = <<>>
      /\ name'[c] = n /\ \A d \in Calls : d # c => name'[d] = name[d]
      /\ \A d \in Calls : d <= calls => d # c
      /\ \A d \in Calls : d > calls' => d > calls /\ d # c
      /\ status[c] = "new"
  BY <1>0, Arrival
<1>2. /\ s \in Calls /\ s \in alive /\ s \notin closed /\ name[s] = n /\ s # c /\ s <= calls
  <2>1. s \in Calls /\ s \in alive \ closed /\ name[s] = n
    BY <1>0, OpenIsAlive DEF IInv, MapInv, Named
  <2>2. s <= calls
    BY <2>1 DEF IInv, MapInv, Known
  <2> QED
    BY <1>1, <2>1, <2>2
<1>3. /\ at' = [at EXCEPT ![c] = s]
      /\ line' = [line EXCEPT ![s] = Append(line[s], c)]
      /\ status' = [status EXCEPT ![c] = IF idle THEN "running" ELSE "queued"]
      /\ lastRun' = [lastRun EXCEPT ![n] = IF idle THEN c ELSE lastRun[n]]
      /\ UNCHANGED <<terminals, creating, closed, alive, killed>>
  BY DEF RunInExisting, Chains
<1>4. /\ at' \in [Calls -> 0..MaxCalls] /\ at'[c] = s /\ \A d \in Calls : d # c => at'[d] = at[d]
      /\ status' \in [Calls -> Statuses] /\ status'[c] = (IF idle THEN "running" ELSE "queued")
      /\ \A d \in Calls : d # c => status'[d] = status[d]
  BY <1>1, <1>2, <1>3, CallsAreNumbers DEF Chains, Statuses
<1>5. /\ lastRun' \in [Names -> 0..MaxCalls] /\ \A m \in Names : m # n => lastRun'[m] = lastRun[m]
      /\ lastRun'[n] = IF idle THEN c ELSE lastRun[n]
  BY <1>1, <1>3, CallsAreNumbers DEF Chains
<1>6. line[s] \in Seq(Calls) /\ line'[s] = Append(line[s], c) /\ \A u \in Calls : u # s => line'[u] = line[u]
  BY <1>2, <1>3, LinesAreSequences DEF IInv, Handed
<1>7. \A m \in Names : lastRun[m] \in Nat /\ lastRun[m] <= calls
  BY DEF Chains
<1>8. InOrder
  BY <1>1, <1>5, <1>7 DEF InOrder
<1>9. LimitTold
  BY <1>1, <1>4 DEF LimitTold
<1>10. \A m \in Names : lastRun'[m] <= calls'
  BY <1>1, <1>5, <1>7
<1>11. \A d \in Calls : d > calls' => status'[d] = "new"
  BY <1>1, <1>4 DEF Chains
<1>12. ASSUME NEW m \in Names PROVE InCreating(m)'
  <2>1. creating'[m] = creating[m] /\ (creating[m] # <<>> => m # n)
    BY <1>0, <1>3 DEF IInv, MapInv, Starting, Pending, Open
  <2> QED
    BY <1>1, <1>4, <1>5, <2>1, OldCreating
<1>13. ASSUME NEW u \in Calls, u # s PROVE InLine(u)'
  <2>1. u \notin closed /\ line[u] # <<>> => lastRun'[name[u]] = lastRun[name[u]]
    <3> SUFFICES ASSUME u \notin closed, line[u] # <<>> PROVE name[u] # n
      BY <1>5, RunTypes
    <3>1. terminals[name[u]] = u
      BY OneShell
    <3> QED
      BY <1>13, <3>1
  <2> QED
    BY <1>1, <1>3, <1>4, <1>6, <1>13, <2>1, OldLine
<1>14. InLine(s)'
  <2> DEFINE q == line[s]
             r == Append(q, c)
  <2>0. InLine(s)
    BY <1>2 DEF Chains
  <2>1. /\ DOMAIN q = 1..Len(q) /\ Len(q) \in Nat /\ DOMAIN r = 1..(Len(q) + 1) /\ (q = <<>> <=> Len(q) = 0)
        /\ \A i \in DOMAIN r : \/ i \in DOMAIN q /\ r[i] = q[i] /\ i < Len(q) + 1
                               \/ i = Len(q) + 1 /\ r[i] = c
    BY <1>1, <1>6, AppendAt
  <2>2. line'[s] = r
    BY <1>6
  <2> HIDE DEF r
  <2>3. \A i \in DOMAIN q : q[i] \in Calls /\ q[i] \in Nat /\ q[i] <= calls /\ q[i] < c
    <3>1. \A i \in DOMAIN q : q[i] \in Calls
      BY <1>6, InSeq
    <3>2. \A i \in DOMAIN q : q[i] <= calls
      BY <2>0 DEF InLine
    <3> QED
      BY <1>1, <3>1, <3>2, CallsAreNumbers
  <2>4. ASSUME NEW i \in DOMAIN r
        PROVE  /\ r[i] <= calls' /\ at'[r[i]] = s /\ name'[r[i]] = name'[s]
               /\ i = 1 => status'[r[i]] = "running" \/ (status'[r[i]] = "killing" /\ s \in closed')
               /\ i > 1 => status'[r[i]] = "queued"
               /\ i > 1 /\ s \notin closed' => lastRun'[name'[s]] < r[i]
               /\ \A j \in DOMAIN r : i < j => r[i] < r[j]
    <3>0. name'[s] = n /\ i \in Nat
      <4>1. name'[s] = n
        BY <1>1, <1>2
      <4>2. i \in Nat
        BY <2>1
      <4> QED
        BY <4>1, <4>2
    <3>1. CASE i \in DOMAIN q /\ r[i] = q[i] /\ i < Len(q) + 1
      <4>1. r[i] \in Calls /\ r[i] <= calls /\ r[i] < c /\ r[i] # c /\ ~idle
        BY <1>1, <2>1, <2>3, <3>1
      <4>2. at'[r[i]] = at[q[i]] /\ name'[r[i]] = name[q[i]] /\ status'[r[i]] = status[q[i]]
            /\ lastRun'[n] = lastRun[n]
        BY <1>1, <1>4, <1>5, <3>1, <4>1
      <4>3. ASSUME NEW j \in DOMAIN r, i < j PROVE r[i] < r[j]
        <5>1. CASE j \in DOMAIN q /\ r[j] = q[j]
          BY <2>0, <3>1, <4>3, <5>1 DEF InLine
        <5>2. CASE r[j] = c
          BY <4>1, <5>2
        <5> QED
          BY <2>1, <5>1, <5>2
      <4>4. r[i] <= calls'
        <5>1. r[i] <= calls /\ r[i] \in Nat /\ calls <= calls' /\ calls \in Nat /\ calls' \in Nat
          BY <1>1, <4>1, CallsAreNumbers
        <5> HIDE DEF q
        <5> QED
          BY <5>1
      <4>5. /\ at[q[i]] = s /\ name[q[i]] = n
            /\ i = 1 => status[q[i]] = "running" \/ (status[q[i]] = "killing" /\ s \in closed)
            /\ i > 1 => status[q[i]] = "queued" /\ lastRun[n] < q[i]
        BY <1>2, <2>0, <3>1 DEF InLine
      <4> QED
        BY <1>3, <3>0, <3>1, <4>2, <4>3, <4>4, <4>5
    <3>2. CASE i = Len(q) + 1 /\ r[i] = c
      <4>1. i = 1 <=> idle
        BY <2>1, <3>2
      <4>2. \A j \in DOMAIN r : ~(i < j)
        BY <2>1, <3>2
      <4>3. ~idle => lastRun'[n] < c
        BY <1>1, <1>5, <1>7
      <4>4. i > 1 => ~idle
        BY <4>1, <3>0
      <4> QED
        BY <1>1, <1>4, <3>0, <3>2, <4>1, <4>2, <4>3, <4>4
    <3> QED
      BY <2>1, <3>1, <3>2
  <2> HIDE DEF q
  <2> QED
    BY <2>2, <2>4 DEF InLine
<1>15. Chains'
  <2>1. \A u \in Calls : InLine(u)'
    BY <1>13, <1>14
  <2> QED
    BY <2>1, <1>4, <1>5, <1>10, <1>11, <1>12, <1>13, <1>14 DEF Chains
<1> QED
  BY <1>8, <1>9, <1>15 DEF Good

-----------------------------------------------------------------------------
\* A call that finds no shell waits for one, or is refused.
LEMMA NewWaiter ==
  ASSUME IInv, Chains, NEW n \in Names, Arrives(n), NEW x \in {"waiting", "refused"},
         status' = [status EXCEPT ![calls + 1] = x], UNCHANGED <<at, line, closed, alive, lastRun>>,
         \A m \in Names : m # n => creating'[m] = creating[m],
         creating'[n] = creating[n] \/ (x = "waiting" /\ creating'[n] = Append(creating[n], calls + 1))
  PROVE  Good
<1>a. calls + 1 \in Calls
  BY Arrival
<1> PICK c \in Calls : c = calls + 1
  BY <1>a
<1>1. /\ calls \in Nat /\ calls' = c /\ calls' \in Nat /\ calls <= calls'
      /\ name'[c] = n /\ \A d \in Calls : d # c => name'[d] = name[d]
      /\ \A d \in Calls : d <= calls => d # c
      /\ \A d \in Calls : d > calls' => d > calls /\ d # c
      /\ status[c] = "new"
  BY Arrival
<1>2. /\ status' \in [Calls -> Statuses] /\ status'[c] = x /\ \A d \in Calls : d # c => status'[d] = status[d]
  BY DEF Chains, Statuses, Answers
<1>3. InOrder
  <2>1. \A m \in Names : lastRun[m] \in Nat
    BY DEF Chains
  <2> QED
    BY <2>1 DEF InOrder
<1>4. LimitTold
  BY <1>1, <1>2 DEF LimitTold
<1>5. \A m \in Names : lastRun'[m] <= calls'
  <2>1. \A m \in Names : lastRun[m] \in Nat /\ lastRun[m] <= calls
    BY DEF Chains
  <2> QED
    BY <1>1, <2>1
<1>6. \A d \in Calls : d > calls' => status'[d] = "new"
  BY <1>1, <1>2 DEF Chains
<1>7. ASSUME NEW u \in Calls PROVE InLine(u)'
  BY <1>1, <1>2, OldLine
<1>8. ASSUME NEW m \in Names, creating'[m] = creating[m] PROVE InCreating(m)'
  BY <1>1, <1>2, <1>8, OldCreating
<1>9. ASSUME x = "waiting" /\ creating'[n] = Append(creating[n], c) PROVE InCreating(n)'
  <2> DEFINE q == creating[n]
             r == Append(q, c)
  <2>0. InCreating(n) /\ creating'[n] = r /\ q \in Seq(Calls)
    BY <1>9, WaitersAreSequences DEF Chains
  <2>1. /\ DOMAIN q = 1..Len(q) /\ Len(q) \in Nat /\ DOMAIN r = 1..(Len(q) + 1)
        /\ \A i \in DOMAIN r : \/ i \in DOMAIN q /\ r[i] = q[i] /\ i < Len(q) + 1
                               \/ i = Len(q) + 1 /\ r[i] = c
    BY <2>0, AppendAt
  <2> HIDE DEF r
  <2>2. \A i \in DOMAIN q : q[i] \in Calls
    BY <2>0, InSeq
  <2>3. \A i \in DOMAIN q : q[i] <= calls /\ name[q[i]] = n /\ status[q[i]] = "waiting" /\ lastRun[n] < q[i]
    BY <2>0 DEF InCreating
  <2>4. \A i, j \in DOMAIN q : i < j => q[i] < q[j]
    BY <2>0 DEF InCreating
  <2> HIDE DEF q
  <2>5. \A i \in DOMAIN q : q[i] <= calls' /\ q[i] < c /\ q[i] # c
    <3>1. \A i \in DOMAIN q : q[i] \in Nat /\ q[i] <= calls
      BY <2>2, <2>3, CallsAreNumbers
    <3> QED
      BY <1>1, <3>1
  <2>6. lastRun[n] < c
    <3>1. lastRun[n] \in Nat /\ lastRun[n] <= calls
      BY DEF Chains
    <3> QED
      BY <1>1, <3>1
  <2>7. ASSUME NEW i \in DOMAIN r
        PROVE  /\ r[i] <= calls' /\ name'[r[i]] = n /\ status'[r[i]] = "waiting"
               /\ lastRun'[n] < r[i]
               /\ \A j \in DOMAIN r : i < j => r[i] < r[j]
    <3>1. CASE i \in DOMAIN q /\ r[i] = q[i]
      <4>1. name'[r[i]] = n /\ status'[r[i]] = "waiting" /\ lastRun'[n] < r[i] /\ r[i] <= calls'
        <5>1. q[i] \in Calls /\ q[i] # c /\ q[i] <= calls'
          BY <2>2, <2>5, <3>1
        <5>2. name[q[i]] = n /\ status[q[i]] = "waiting" /\ lastRun'[n] < q[i]
          BY <2>3, <3>1
        <5>3. name'[q[i]] = name[q[i]] /\ status'[q[i]] = status[q[i]]
          BY <1>1, <1>2, <5>1
        <5> QED
          BY <3>1, <5>1, <5>2, <5>3
      <4>2. ASSUME NEW j \in DOMAIN r, i < j PROVE r[i] < r[j]
        BY <2>1, <2>4, <2>5, <3>1, <4>2
      <4> QED
        BY <4>1, <4>2
    <3>2. CASE i = Len(q) + 1 /\ r[i] = c
      <4>1. \A j \in DOMAIN r : ~(i < j)
        BY <2>1, <3>2
      <4>2. r[i] <= calls'
        BY <1>1, <3>2
      <4> QED
        BY <1>1, <1>2, <1>9, <2>6, <3>2, <4>1, <4>2
    <3> QED
      BY <2>1, <3>1, <3>2
  <2> QED
    BY <2>0, <2>7 DEF InCreating
<1>10. \A m \in Names : InCreating(m)'
  BY <1>8, <1>9
<1>11. Chains'
  BY <1>2, <1>5, <1>6, <1>7, <1>10 DEF Chains
<1> QED
  BY <1>3, <1>4, <1>11 DEF Good

LEMMA RunWaitsGood == ASSUME IInv, Chains, NEW n \in Names, RunWaits(n) PROVE Good
<1>1. /\ Arrives(n) /\ status' = [status EXCEPT ![calls + 1] = "waiting"]
      /\ creating' = [creating EXCEPT ![n] = Append(creating[n], calls + 1)]
      /\ UNCHANGED <<at, line, closed, alive, lastRun>>
  BY DEF RunWaits, IInv, MapInv, MapTypes
<1>2. creating'[n] = Append(creating[n], calls + 1) /\ \A m \in Names : m # n => creating'[m] = creating[m]
  BY <1>1 DEF IInv, MapInv, MapTypes
<1> QED
  BY <1>1, <1>2, NewWaiter

LEMMA RunCreatesGood == ASSUME IInv, Chains, NEW n \in Names, RunCreates(n) PROVE Good
<1>1. Arrives(n) /\ creating[n] = <<>> /\ UNCHANGED <<at, line, closed, alive, lastRun>>
  BY DEF RunCreates
<1>2. CASE status' = [status EXCEPT ![calls + 1] = "refused"] /\ UNCHANGED creating
  BY <1>1, <1>2, NewWaiter
<1>3. CASE status' = [status EXCEPT ![calls + 1] = "waiting"] /\ creating' = [creating EXCEPT ![n] = <<calls + 1>>]
  <2>1. creating'[n] = <<calls + 1>> /\ \A m \in Names : m # n => creating'[m] = creating[m]
    BY <1>3 DEF IInv, MapInv, MapTypes
  <2>2. Append(creating[n], calls + 1) = <<calls + 1>>
    BY <1>1
  <2> QED
    BY <1>1, <1>3, <2>1, <2>2, NewWaiter
<1> QED
  BY <1>2, <1>3 DEF RunCreates

LEMMA CreateFailsGood == ASSUME IInv, Chains, NEW n \in Names, CreateFails(n) PROVE Good
<1>1. /\ creating' = [creating EXCEPT ![n] = <<>>] /\ UNCHANGED <<calls, name, at, line, closed, alive, lastRun>>
      /\ status' = [c \in Calls |-> IF c \in ToSet(creating[n]) THEN "failed" ELSE status[c]]
  BY DEF CreateFails
<1>2. \A c \in ToSet(creating[n]) : name[c] = n /\ status[c] = "waiting" /\ c <= calls
  <2>1. \A c \in ToSet(creating[n]) : \E i \in DOMAIN creating[n] : creating[n][i] = c
    BY WaitersAreSequences, InSeq
  <2> QED
    BY <2>1 DEF Chains, InCreating
<1>3. status' \in [Calls -> Statuses]
  BY <1>1 DEF Chains, Statuses, Answers
<1>4. calls \in Nat /\ calls <= calls' /\ calls' \in Nat
  BY <1>1, RunTypes
<1>5. InOrder
  <2>1. \A m \in Names : lastRun[m] \in Nat
    BY DEF Chains
  <2> QED
    BY <1>1, <2>1 DEF InOrder
<1>6. LimitTold
  BY <1>1, <1>2 DEF LimitTold
<1>7. \A c \in Calls : c > calls => status'[c] = "new"
  <2>1. \A c \in Calls : c > calls => c \notin ToSet(creating[n])
    BY <1>2, <1>4, CallsAreNumbers
  <2> QED
    BY <1>1, <2>1 DEF Chains
<1>8. ASSUME NEW u \in Calls PROVE InLine(u)'
  <2>1. ASSUME NEW i \in DOMAIN line[u] PROVE status'[line[u][i]] = status[line[u][i]]
    <3>1. line[u][i] \in Calls /\ i \in Nat /\ i >= 1
      BY LinesAreSequences, InSeq
    <3>2. status[line[u][i]] # "waiting"
      <4>1. i = 1 \/ i > 1
        BY <3>1
      <4> QED
        BY <4>1 DEF Chains, InLine
    <3> QED
      BY <1>1, <1>2, <3>1, <3>2
  <2>2. InLine(u) /\ UNCHANGED <<calls, name, at, line, closed, lastRun>>
    BY <1>1 DEF Chains
  <2> QED
    BY <2>1, <2>2 DEF InLine
<1>9. ASSUME NEW m \in Names PROVE InCreating(m)'
  <2>1. CASE m = n
    <3>1. creating'[n] = <<>>
      BY <1>1 DEF IInv, MapInv, MapTypes
    <3> QED
      BY <2>1, <3>1 DEF InCreating
  <2>2. CASE m # n
    <3>1. creating'[m] = creating[m]
      BY <1>1, <2>2 DEF IInv, MapInv, MapTypes
    <3>2. \A c \in Calls : name[c] = m /\ status[c] = "waiting" => status'[c] = "waiting"
      BY <1>1, <1>2, <2>2
    <3> QED
      BY <1>1, <1>4, <3>1, <3>2, OldCreating
  <2> QED
    BY <2>1, <2>2
<1>10. Chains'
  BY <1>1, <1>3, <1>7, <1>8, <1>9 DEF Chains
<1> QED
  BY <1>5, <1>6, <1>10 DEF Good

-----------------------------------------------------------------------------
\* The calls in a chain, and those who wait for a shell.
LEMMA LineFacts ==
  ASSUME IInv, Chains, NEW s \in Calls, line[s] # <<>>
  PROVE  /\ line[s] \in Seq(Calls) /\ Len(line[s]) \in Nat \ {0} /\ DOMAIN line[s] = 1..Len(line[s])
         /\ Head(line[s]) = line[s][1] /\ Head(line[s]) \in Calls
         /\ \A i \in DOMAIN line[s] : /\ line[s][i] \in Calls /\ line[s][i] <= calls /\ at[line[s][i]] = s
                                      /\ name[line[s][i]] = name[s]
         /\ status[Head(line[s])] = "running" \/ (status[Head(line[s])] = "killing" /\ s \in closed)
         /\ \A i \in DOMAIN line[s] : i > 1 => status[line[s][i]] = "queued" /\ line[s][i] # Head(line[s])
<1>1. line[s] \in Seq(Calls) /\ Len(line[s]) \in Nat \ {0} /\ DOMAIN line[s] = 1..Len(line[s])
  BY LinesAreSequences, EmptySeq
<1>2. Head(line[s]) = line[s][1] /\ 1 \in DOMAIN line[s] /\ \A i \in DOMAIN line[s] : line[s][i] \in Calls
  BY <1>1, InSeq
<1>3. InLine(s)
  BY DEF Chains
<1>4. \A i \in DOMAIN line[s] : line[s][i] <= calls /\ at[line[s][i]] = s /\ name[line[s][i]] = name[s]
  BY <1>3 DEF InLine
<1>5. status[line[s][1]] = "running" \/ (status[line[s][1]] = "killing" /\ s \in closed)
  BY <1>2, <1>3 DEF InLine
<1>6. \A i \in DOMAIN line[s] : i > 1 => status[line[s][i]] = "queued"
  BY <1>3 DEF InLine
<1>7. \A i \in DOMAIN line[s] : i > 1 => line[s][i] # Head(line[s])
  BY <1>2, <1>5, <1>6
<1> QED
  BY <1>1, <1>2, <1>4, <1>5, <1>6, <1>7

LEMMA TailFacts ==
  ASSUME NEW S, NEW q \in Seq(S), q # <<>>
  PROVE  /\ Tail(q) \in Seq(S) /\ Len(Tail(q)) \in Nat /\ DOMAIN Tail(q) = 1..Len(Tail(q))
         /\ \A i \in DOMAIN Tail(q) : i + 1 \in DOMAIN q /\ Tail(q)[i] = q[i + 1] /\ i + 1 > 1
         /\ \A c \in ToSet(Tail(q)) : \E i \in DOMAIN q : i > 1 /\ q[i] = c
         /\ Tail(q) # <<>> => 1 \in DOMAIN Tail(q) /\ Head(Tail(q)) = q[2] /\ 2 \in DOMAIN q
<1>1. q \in Seq(S) /\ Len(q) \in Nat \ {0} /\ DOMAIN q = 1..Len(q)
  BY LenProperties, EmptySeq
<1>2. /\ Tail(q) \in Seq(S) /\ Len(Tail(q)) = Len(q) - 1
      /\ \A i \in 1..Len(Tail(q)) : Tail(q)[i] = q[i + 1]
  BY <1>1, HeadTailProperties
<1>3. Len(Tail(q)) \in Nat /\ DOMAIN Tail(q) = 1..Len(Tail(q))
  BY <1>2, LenProperties
<1>4. \A i \in DOMAIN Tail(q) : i + 1 \in DOMAIN q /\ Tail(q)[i] = q[i + 1] /\ i + 1 > 1
  BY <1>1, <1>2, <1>3
<1>5. \A c \in ToSet(Tail(q)) : \E i \in DOMAIN q : i > 1 /\ q[i] = c
  <2>1. \A c \in ToSet(Tail(q)) : \E i \in DOMAIN Tail(q) : Tail(q)[i] = c
    BY <1>2, InSeq
  <2> QED
    BY <1>4, <2>1
<1>6. Tail(q) # <<>> => 1 \in DOMAIN Tail(q) /\ Head(Tail(q)) = Tail(q)[1]
  BY <1>2, InSeq
<1>7. 1 \in DOMAIN Tail(q) => Tail(q)[1] = q[2] /\ 2 \in DOMAIN q
  BY <1>4
<1> QED
  BY <1>2, <1>3, <1>4, <1>5, <1>6, <1>7

LEMMA StillGood ==
  ASSUME IInv, Chains, UNCHANGED <<calls, name, at, status, creating, line, lastRun>>, closed \subseteq closed'
  PROVE  Good
<1>1. InOrder
  <2>1. \A m \in Names : lastRun[m] \in Nat
    BY DEF Chains
  <2> QED
    BY <2>1 DEF InOrder
<1>2. LimitTold
  BY DEF LimitTold
<1>3. calls \in Nat /\ calls <= calls' /\ calls' \in Nat
  BY RunTypes
<1>4. \A s \in Calls : InLine(s)'
  BY <1>3, OldLine
<1>5. \A n \in Names : InCreating(n)'
  BY <1>3, OldCreating
<1>6. Chains'
  BY <1>4, <1>5 DEF Chains
<1> QED
  BY <1>1, <1>2, <1>6 DEF Good

LEMMA TimeUpGood == ASSUME IInv, Chains, NEW s \in Calls, TimeUp(s) PROVE Good
<1> DEFINE h == Head(line[s])
<1>1. /\ line[s] # <<>> /\ status[h] = "running" /\ status' = [status EXCEPT ![h] = "killing"]
      /\ closed' = closed \union {s} /\ UNCHANGED <<calls, name, at, creating, line, lastRun>>
  BY DEF TimeUp, MarkClosed
<1>2. /\ h = line[s][1] /\ h \in Calls /\ h <= calls /\ at[h] = s /\ DOMAIN line[s] = 1..Len(line[s]) /\ Len(line[s]) \in Nat \ {0}
      /\ \A i \in DOMAIN line[s] : line[s][i] \in Calls
      /\ \A i \in DOMAIN line[s] : i > 1 => status[line[s][i]] = "queued" /\ line[s][i] # h
  <2>1. 1 \in 1..Len(line[s])
    BY <1>1, LineFacts
  <2> QED
    BY <1>1, <2>1, LineFacts
<1> HIDE DEF h
<1>3. status' \in [Calls -> Statuses] /\ status'[h] = "killing" /\ \A c \in Calls : c # h => status'[c] = status[c]
  BY <1>1, <1>2 DEF Chains, Statuses
<1>4. calls \in Nat /\ calls <= calls' /\ calls' \in Nat
  BY <1>1, RunTypes
<1>5. InOrder
  <2>1. \A m \in Names : lastRun[m] \in Nat
    BY DEF Chains
  <2> QED
    BY <1>1, <2>1 DEF InOrder
<1>6. LimitTold
  BY <1>1, <1>3 DEF LimitTold
<1>7. \A c \in Calls : c > calls => status'[c] = "new"
  BY <1>2, <1>3, <1>4, CallsAreNumbers DEF Chains
<1>8. ASSUME NEW u \in Calls PROVE InLine(u)'
  <2>1. CASE u # s
    BY <1>1, <1>2, <1>3, <1>4, <2>1, OldLine
  <2>2. CASE u = s
    <3>1. InLine(s) /\ s \in closed'
      BY <1>1 DEF Chains
    <3>2. \A i \in DOMAIN line[s] : (i = 1 => status'[line[s][i]] = "killing") /\ (i > 1 => status'[line[s][i]] = "queued")
      BY <1>2, <1>3
    <3> QED
      BY <1>1, <2>2, <3>1, <3>2 DEF InLine
  <2> QED
    BY <2>1, <2>2
<1>9. ASSUME NEW n \in Names PROVE InCreating(n)'
  BY <1>1, <1>3, <1>4, OldCreating
<1>10. Chains'
  BY <1>1, <1>3, <1>7, <1>8, <1>9 DEF Chains
<1> QED
  BY <1>5, <1>6, <1>10 DEF Good

-----------------------------------------------------------------------------
LEMMA CreatedGood == ASSUME IInv, Chains, NEW n \in Names, Created(n) PROVE Good
<1>a. creating[n] # <<>> /\ n \in Pending
  BY DEF Created, Pending
<1>b. /\ creating[n] \in Seq(Calls) /\ DOMAIN creating[n] = 1..Len(creating[n])
      /\ Head(creating[n]) = creating[n][1] /\ 1 \in DOMAIN creating[n]
      /\ \A i \in DOMAIN creating[n] : creating[n][i] \in Calls /\ i \in Nat /\ i >= 1
      /\ \A c \in ToSet(creating[n]) : \E i \in DOMAIN creating[n] : creating[n][i] = c
      /\ \A i \in DOMAIN creating[n] : creating[n][i] \in ToSet(creating[n])
  BY <1>a, WaitersAreSequences, InSeq
<1> PICK s \in Calls : s = Head(creating[n])
  BY <1>b
<1> DEFINE q == creating[n]
<1>1. /\ UNCHANGED <<calls, name, closed>>
      /\ creating' = [creating EXCEPT ![n] = <<>>] /\ line' = [line EXCEPT ![s] = q]
      /\ at' = [c \in Calls |-> IF c \in ToSet(q) THEN s ELSE at[c]]
      /\ status' = [c \in Calls |-> IF c = s THEN "running" ELSE IF c \in ToSet(q) THEN "queued" ELSE status[c]]
      /\ lastRun' = [lastRun EXCEPT ![n] = s]
  BY DEF Created
<1>2. /\ s = q[1] /\ s \in ToSet(q) /\ s \notin alive \union closed /\ name[s] = n /\ s <= calls
  BY <1>a, <1>b DEF IInv, MapInv, Starting
<1>3. InCreating(n)
  BY DEF Chains
<1>4. \A c \in ToSet(q) : name[c] = n /\ status[c] = "waiting" /\ c <= calls
  BY <1>b, <1>3 DEF InCreating
<1>5. \A i \in DOMAIN q : i > 1 => q[i] > s /\ q[i] # s
  <2>1. \A i \in DOMAIN q : i > 1 => s < q[i]
    BY <1>b, <1>2, <1>3 DEF InCreating
  <2> QED
    BY <1>b, <2>1, CallsAreNumbers
<1>6. lastRun[n] < s /\ s \in Nat
  BY <1>b, <1>2, <1>3, CallsAreNumbers DEF InCreating
<1> HIDE DEF q
<1>7. /\ at' \in [Calls -> 0..MaxCalls] /\ status' \in [Calls -> Statuses]
      /\ lastRun' \in [Names -> 0..MaxCalls] /\ lastRun'[n] = s /\ \A m \in Names : m # n => lastRun'[m] = lastRun[m]
  BY <1>1, CallsAreNumbers DEF Chains, Statuses
<1>8. calls \in Nat /\ calls <= calls' /\ calls' \in Nat
  BY <1>1, RunTypes
<1>9. InOrder
  <2>1. \A m \in Names : lastRun[m] \in Nat
    BY DEF Chains
  <2>2. ASSUME NEW m \in Names PROVE lastRun'[m] >= lastRun[m]
    <3>1. CASE m = n
      BY <1>6, <1>7, <2>1, <3>1
    <3>2. CASE m # n
      BY <1>7, <2>1, <3>2
    <3> QED
      BY <3>1, <3>2
  <2> QED
    BY <2>2 DEF InOrder
<1>10. LimitTold
  BY <1>1, <1>2, <1>4 DEF LimitTold
<1>11. \A c \in Calls : c > calls => status'[c] = "new"
  <2>1. \A c \in Calls : c > calls => c \notin ToSet(q) /\ c # s
    BY <1>2, <1>4, <1>8, CallsAreNumbers
  <2> QED
    BY <1>1, <2>1 DEF Chains
<1>12. \A m \in Names : lastRun'[m] <= calls'
  BY <1>1, <1>2, <1>7 DEF Chains
<1>13. ASSUME NEW u \in Calls, u # s PROVE InLine(u)'
  <2>1. line'[u] = line[u]
    BY <1>1, <1>13 DEF IInv, Handed
  <2>2. u \notin closed /\ line[u] # <<>> => lastRun'[name[u]] = lastRun[name[u]]
    <3> SUFFICES ASSUME u \notin closed, line[u] # <<>> PROVE name[u] # n
      BY <1>7, RunTypes
    <3>1. creating[name[u]] = <<>>
      BY OneShell
    <3> QED
      BY <1>a, <3>1
  <2>3. \A c \in Calls : status[c] \in {"running", "killing", "queued"} => at'[c] = at[c] /\ status'[c] = status[c]
    BY <1>1, <1>2, <1>4
  <2> QED
    BY <1>1, <1>8, <2>1, <2>2, <2>3, OldLine
<1>14. InLine(s)'
  <2>1. line'[s] = q
    BY <1>1 DEF IInv, Handed
  <2>2. ASSUME NEW i \in DOMAIN q
        PROVE  /\ q[i] <= calls' /\ at'[q[i]] = s /\ name'[q[i]] = name'[s]
               /\ i = 1 => status'[q[i]] = "running" \/ (status'[q[i]] = "killing" /\ s \in closed')
               /\ i > 1 => status'[q[i]] = "queued"
               /\ i > 1 /\ s \notin closed' => lastRun'[name'[s]] < q[i]
               /\ \A j \in DOMAIN q : i < j => q[i] < q[j]
    <3>1. q[i] \in Calls /\ q[i] \in ToSet(q) /\ i \in Nat /\ i >= 1
      BY <1>b DEF q
    <3>2. q[i] <= calls' /\ at'[q[i]] = s /\ name'[q[i]] = n /\ name'[s] = n
      BY <1>1, <1>2, <1>4, <3>1
    <3>3. i = 1 => status'[q[i]] = "running"
      BY <1>1, <1>2, <3>1
    <3>4. i > 1 => status'[q[i]] = "queued" /\ s < q[i]
      <4>1. i > 1 => q[i] > s /\ q[i] # s
        BY <1>5
      <4>2. q[i] \in Nat
        BY <3>1, CallsAreNumbers
      <4> QED
        BY <1>1, <1>6, <3>1, <4>1, <4>2
    <3>5. \A j \in DOMAIN q : i < j => q[i] < q[j]
      BY <1>3 DEF InCreating, q
    <3> QED
      BY <1>7, <3>2, <3>3, <3>4, <3>5
  <2> QED
    BY <2>1, <2>2 DEF InLine
<1>15. ASSUME NEW m \in Names PROVE InCreating(m)'
  <2>1. CASE m = n
    <3>1. creating'[n] = <<>>
      BY <1>1 DEF IInv, MapInv, MapTypes
    <3> QED
      BY <2>1, <3>1 DEF InCreating
  <2>2. CASE m # n
    <3>1. creating'[m] = creating[m]
      BY <1>1, <2>2 DEF IInv, MapInv, MapTypes
    <3>2. \A c \in Calls : name[c] = m /\ status[c] = "waiting" => status'[c] = "waiting"
      BY <1>1, <1>2, <1>4, <2>2
    <3> QED
      BY <1>1, <1>7, <1>8, <2>2, <3>1, <3>2, OldCreating
  <2> QED
    BY <2>1, <2>2
<1>16. Chains'
  <2>1. \A u \in Calls : InLine(u)'
    BY <1>13, <1>14
  <2> QED
    BY <1>1, <1>7, <1>11, <1>12, <1>15, <2>1 DEF Chains
<1> QED
  BY <1>9, <1>10, <1>16 DEF Good

\* The verdict on a command: the next one starts, or the rest of the chain is told that the shell is closed.
LEMMA FinishGood ==
  ASSUME IInv, Chains, NEW s \in Calls, line[s] # <<>>, NEW answer \in Answers, Finish(s, answer),
         answer = "timedOut" \/ status[Head(line[s])] = "running",
         UNCHANGED <<calls, name, at, creating>>, closed \subseteq closed'
  PROVE  Good
<1> DEFINE h == Head(line[s])
           rest == Tail(line[s])
<1>1. /\ line[s] \in Seq(Calls) /\ h = line[s][1] /\ h \in Calls /\ h <= calls /\ at[h] = s /\ name[h] = name[s]
      /\ \A i \in DOMAIN line[s] : /\ line[s][i] \in Calls /\ line[s][i] <= calls /\ at[line[s][i]] = s
                                   /\ name[line[s][i]] = name[s]
      /\ \A i \in DOMAIN line[s] : i > 1 => status[line[s][i]] = "queued" /\ line[s][i] # h
      /\ status[h] \in {"running", "killing"}
  <2>1. 1 \in DOMAIN line[s]
    BY LineFacts
  <2> QED
    BY <2>1, LineFacts
<1>2. calls \in Nat /\ calls <= calls' /\ calls' \in Nat
  BY RunTypes
<1>3. \A c \in ToSet(rest) : c \in Calls /\ status[c] = "queued" /\ at[c] = s /\ c <= calls /\ c # h
  BY <1>1, TailFacts
<1>4. \A m \in Names : lastRun[m] \in Nat /\ lastRun[m] <= calls
  BY DEF Chains
<1> HIDE DEF h
<1>5. ASSUME status' \in [Calls -> Statuses], lastRun' \in [Names -> 0..MaxCalls], status'[h] = answer,
             \A c \in Calls : status[c] # "queued" /\ c # h => status'[c] = status[c],
             \A c \in Calls : at[c] # s => status'[c] = status[c],
             \A u \in Calls : u # s => line'[u] = line[u],
             UNCHANGED lastRun \/ /\ s \notin closed /\ \A m \in Names : m # name[s] => lastRun'[m] = lastRun[m]
                                  /\ lastRun'[name[s]] >= lastRun[name[s]] /\ lastRun'[name[s]] <= calls,
             \A c \in Calls : c > calls => status'[c] = status[c],
             InLine(s)'
      PROVE  Good
  <2>1. InOrder
    BY <1>4, <1>5 DEF InOrder
  <2>2. LimitTold
    <3> SUFFICES ASSUME NEW c \in Calls, status[c] = "killing" PROVE status'[c] \in {"killing", "timedOut"}
      BY DEF LimitTold
    <3>1. CASE c = h
      <4>1. answer = "timedOut"
        BY <3>1 DEF h
      <4> QED
        BY <1>5, <3>1, <4>1
    <3>2. CASE c # h
      BY <1>5, <3>2
    <3> QED
      BY <3>1, <3>2
  <2>3. ASSUME NEW u \in Calls, u # s PROVE InLine(u)'
    <3>1. u \notin closed /\ line[u] # <<>> => lastRun'[name[u]] = lastRun[name[u]]
      <4> SUFFICES ASSUME u \notin closed, line[u] # <<>>, s \notin closed PROVE name[u] # name[s]
        BY <1>5, RunTypes
      <4> QED
        BY <2>3, OneShell
    <3>2. \A c \in Calls : at[c] = u => status'[c] = status[c]
      BY <1>5, <2>3
    <3> QED
      BY <1>2, <1>5, <2>3, <3>1, <3>2, OldLine
  <2>4. ASSUME NEW m \in Names PROVE InCreating(m)'
    <3>1. creating[m] # <<>> => lastRun'[m] = lastRun[m]
      BY <1>5, OneShell
    <3>2. \A c \in Calls : status[c] = "waiting" => status'[c] = "waiting"
      BY <1>1, <1>5
    <3> QED
      BY <1>2, <3>1, <3>2, OldCreating
  <2>5. \A m \in Names : lastRun'[m] <= calls'
    BY <1>4, <1>5
  <2>6. \A c \in Calls : c > calls' => status'[c] = "new"
    BY <1>5 DEF Chains
  <2>7. Chains'
    <3>1. (\A u \in Calls : InLine(u)') /\ at' \in [Calls -> 0..MaxCalls]
      BY <1>5, <2>3 DEF Chains
    <3> QED
      BY <1>5, <2>4, <2>5, <2>6, <3>1 DEF Chains
  <2> QED
    BY <2>1, <2>2, <2>7 DEF Good
<1>6. CASE s \in closed' \/ rest = <<>>
  <2>1. /\ status' = [c \in Calls |-> IF c \in ToSet(rest) THEN "closed" ELSE [status EXCEPT ![h] = answer][c]]
        /\ line' = [line EXCEPT ![s] = <<>>] /\ UNCHANGED lastRun
    BY <1>6 DEF Finish, h
  <2> HIDE DEF rest
  <2>2. [status EXCEPT ![h] = answer] \in [Calls -> Statuses]
    BY DEF Chains, Statuses
  <2>3. \A c \in Calls : [status EXCEPT ![h] = answer][c] = IF c = h THEN answer ELSE status[c]
    BY DEF Chains
  <2>4. status' \in [Calls -> Statuses]
    BY <2>1, <2>2 DEF Statuses, Answers
  <2>5. \A c \in Calls : status'[c] = IF c \in ToSet(rest) THEN "closed" ELSE IF c = h THEN answer ELSE status[c]
    BY <2>1, <2>3
  <2>6. line'[s] = <<>> /\ \A u \in Calls : u # s => line'[u] = line[u]
    BY <2>1 DEF IInv, Handed
  <2>7. InLine(s)'
    BY <2>6 DEF InLine
  <2>8. status'[h] = answer
    BY <1>1, <1>3, <2>5
  <2>9. \A c \in Calls : /\ status[c] # "queued" /\ c # h => status'[c] = status[c]
                         /\ at[c] # s => status'[c] = status[c]
    BY <1>1, <1>3, <2>5
  <2>10. \A c \in Calls : c > calls => c \notin ToSet(rest) /\ c # h
    BY <1>1, <1>2, <1>3, CallsAreNumbers
  <2>11. \A c \in Calls : c > calls => status'[c] = status[c]
    BY <2>5, <2>10
  <2>12. lastRun' \in [Names -> 0..MaxCalls]
    BY <2>1 DEF Chains
  <2> QED
    BY <1>5, <2>1, <2>4, <2>6, <2>7, <2>8, <2>9, <2>11, <2>12
<1>7. CASE s \notin closed' /\ rest # <<>>
  <2> DEFINE k == line[s][2]
  <2>1. /\ Head(rest) = k /\ 2 \in DOMAIN line[s] /\ DOMAIN rest = 1..Len(rest) /\ Len(rest) \in Nat
        /\ \A i \in DOMAIN rest : i + 1 \in DOMAIN line[s] /\ rest[i] = line[s][i + 1] /\ i + 1 > 1
    BY <1>1, <1>7, TailFacts
  <2>2. /\ status' = [[status EXCEPT ![h] = answer] EXCEPT ![k] = "running"]
        /\ line' = [line EXCEPT ![s] = rest]
        /\ lastRun' = [lastRun EXCEPT ![name[k]] = k]
    BY <1>7, <2>1 DEF Finish, h
  <2>3. k \in Calls /\ k <= calls /\ k # h /\ name[k] = name[s] /\ at[k] = s /\ status[k] = "queued"
    BY <1>1, <2>1
  <2>4. s \notin closed /\ InLine(s) /\ name[s] \in Names
    BY <1>7, RunTypes DEF Chains
  <2>5. lastRun[name[s]] < k /\ k \in Nat
    <3>1. lastRun[name[s]] < line[s][2]
      BY <2>1, <2>4 DEF InLine
    <3>2. k \in Nat
      BY <2>3, CallsAreNumbers
    <3> QED
      BY <3>1, <3>2
  <2> HIDE DEF k
  <2>6. [status EXCEPT ![h] = answer] \in [Calls -> Statuses]
        /\ \A c \in Calls : [status EXCEPT ![h] = answer][c] = IF c = h THEN answer ELSE status[c]
    BY <1>1 DEF Chains, Statuses
  <2>7. /\ status' \in [Calls -> Statuses]
        /\ \A c \in Calls : status'[c] = IF c = k THEN "running" ELSE IF c = h THEN answer ELSE status[c]
    BY <2>2, <2>3, <2>6 DEF Statuses
  <2>8. lastRun' \in [Names -> 0..MaxCalls] /\ lastRun'[name[s]] = k /\ \A m \in Names : m # name[s] => lastRun'[m] = lastRun[m]
    BY <2>2, <2>3, <2>4, CallsAreNumbers DEF Chains
  <2>9. line'[s] = rest /\ \A u \in Calls : u # s => line'[u] = line[u]
    BY <2>2 DEF IInv, Handed
  <2>10. ASSUME NEW i \in DOMAIN rest
         PROVE  /\ rest[i] <= calls' /\ at'[rest[i]] = s /\ name'[rest[i]] = name'[s]
                /\ i = 1 => status'[rest[i]] = "running" \/ (status'[rest[i]] = "killing" /\ s \in closed')
                /\ i > 1 => status'[rest[i]] = "queued"
                /\ i > 1 /\ s \notin closed' => lastRun'[name'[s]] < rest[i]
                /\ \A j \in DOMAIN rest : i < j => rest[i] < rest[j]
    <3>1. rest[i] = line[s][i + 1] /\ i + 1 \in DOMAIN line[s] /\ i \in Nat /\ i + 1 > 1 /\ (i > 1 => 2 < i + 1)
      BY <2>1
    <3>2. /\ rest[i] \in Calls /\ rest[i] <= calls' /\ at'[rest[i]] = s /\ name'[rest[i]] = name'[s]
          /\ status[rest[i]] = "queued" /\ rest[i] # h
      BY <1>1, <3>1
    <3>3. i = 1 => rest[i] = k
      BY <3>1 DEF k
    <3>4. i > 1 => k < rest[i]
      <4>1. \A j \in DOMAIN line[s] : 2 < j => line[s][2] < line[s][j]
        BY <2>1, <2>4 DEF InLine
      <4> QED
        BY <3>1, <4>1 DEF k
    <3>5. i > 1 => rest[i] # k
      <4>1. rest[i] \in Nat
        BY <3>2, CallsAreNumbers
      <4> QED
        BY <2>5, <3>4, <4>1
    <3>6. \A j \in DOMAIN rest : i < j => rest[i] < rest[j]
      <4> SUFFICES ASSUME NEW j \in DOMAIN rest, i < j PROVE rest[i] < rest[j]
        OBVIOUS
      <4>1. rest[j] = line[s][j + 1] /\ j + 1 \in DOMAIN line[s] /\ i + 1 < j + 1
        BY <2>1
      <4>2. line[s][i + 1] < line[s][j + 1]
        BY <2>4, <3>1, <4>1 DEF InLine
      <4> QED
        BY <3>1, <4>1, <4>2
    <3>7. status'[rest[i]] = IF i = 1 THEN "running" ELSE "queued"
      <4>1. i = 1 \/ i > 1
        BY <2>1
      <4> QED
        BY <2>7, <3>2, <3>3, <3>5, <4>1
    <3>8. i > 1 => ~(i = 1)
      BY <3>1
    <3> QED
      BY <2>8, <3>2, <3>4, <3>6, <3>7, <3>8
  <2>11. InLine(s)'
    BY <2>9, <2>10 DEF InLine
  <2>12. /\ status'[h] = answer
         /\ \A c \in Calls : status[c] # "queued" /\ c # h => status'[c] = status[c]
         /\ \A c \in Calls : at[c] # s => status'[c] = status[c]
    BY <1>1, <2>3, <2>7
  <2>13. \A c \in Calls : c > calls => c # k /\ c # h
    BY <1>1, <1>2, <2>3, CallsAreNumbers
  <2>14. \A c \in Calls : c > calls => status'[c] = status[c]
    BY <2>7, <2>13
  <2>15. lastRun'[name[s]] >= lastRun[name[s]] /\ lastRun'[name[s]] <= calls
    BY <1>4, <2>3, <2>4, <2>5, <2>8
  <2> QED
    BY <1>5, <2>4, <2>7, <2>8, <2>9, <2>11, <2>12, <2>14, <2>15
<1> QED
  BY <1>6, <1>7

-----------------------------------------------------------------------------
LEMMA NextGood == ASSUME IInv, Chains, [Next]_vars PROVE Good
<1>1. ASSUME NEW n \in Names, RunInExisting(n) \/ RunWaits(n) \/ RunCreates(n) \/ Created(n) \/ CreateFails(n) PROVE Good
  BY <1>1, RunInExistingGood, RunWaitsGood, RunCreatesGood, CreatedGood, CreateFailsGood
<1>2. ASSUME NEW S, Close(S) PROVE Good
  BY <1>2, StillGood DEF Close, MarkClosed
<1>3. ASSUME NEW s \in Calls, Reports(s) PROVE Good
  BY <1>3, FinishGood DEF Reports, Answers
<1>4. ASSUME NEW s \in Calls, Killed(s) PROVE Good
  BY <1>4, FinishGood DEF Killed, Answers
<1>5. ASSUME NEW s \in Calls, ShellExits(s) PROVE Good
  <2>1. UNCHANGED <<calls, name, at, creating>> /\ closed \subseteq closed'
    BY <1>5 DEF ShellExits, MarkClosed
  <2>2. CASE line[s] # <<>> /\ status[Head(line[s])] = "running"
    BY <1>5, <2>1, <2>2, FinishGood DEF ShellExits, Answers
  <2>3. CASE UNCHANGED <<status, line, lastRun>>
    BY <2>1, <2>3, StillGood
  <2> QED
    BY <1>5, <2>2, <2>3 DEF ShellExits
<1>6. CASE UNCHANGED vars
  BY <1>6, StillGood DEF vars
<1> QED
  BY <1>1, <1>2, <1>3, <1>4, <1>5, <1>6, TimeUpGood DEF Next, CloseTerminal, CloseAll, SweepIdle

LEMMA InitChains == Init => Chains
<1> SUFFICES ASSUME Init PROVE Chains
  OBVIOUS
<1>1. \A s \in Calls : line[s] = <<>>
  BY DEF Init
<1>2. \A n \in Names : creating[n] = <<>>
  BY DEF Init
<1>3. calls = 0 /\ 0 \in 0..MaxCalls
  BY TerminalsAssumption DEF Init
<1> QED
  BY <1>1, <1>2, <1>3 DEF Init, Chains, InLine, InCreating, Statuses

LEMMA ChainsTyped == ASSUME IInv, Chains, killed \subseteq Calls PROVE TypeOK
<1>1. creating \in [Names -> Seq({c \in Calls : status[c] = "waiting"})]
  <2> DEFINE W == {c \in Calls : status[c] = "waiting"}
  <2>1. ASSUME NEW n \in Names PROVE creating[n] \in Seq(W)
    <3>1. creating[n] \in Seq(Calls) /\ Len(creating[n]) \in Nat /\ DOMAIN creating[n] = 1..Len(creating[n])
      BY WaitersAreSequences
    <3>2. \A i \in DOMAIN creating[n] : creating[n][i] \in W
      BY <3>1, InSeq DEF Chains, InCreating
    <3> HIDE DEF W
    <3> QED
      BY <3>1, <3>2
  <2> HIDE DEF W
  <2>2. creating \in [Names -> Seq(W)]
    BY <2>1 DEF IInv, MapInv, MapTypes
  <2> QED
    BY <2>2 DEF W
<1> QED
  BY <1>1 DEF TypeOK, Chains, IInv, MapInv, MapTypes, Handed

LEMMA KilledAreCalls == ASSUME IInv, killed \subseteq Calls, [Next]_vars PROVE killed' \subseteq Calls
<1>1. \A n \in Names : n \in Open => terminals[n] \in Calls
  BY OpenIsAlive DEF IInv
<1>2. ASSUME NEW S, S \subseteq Calls, Close(S) PROVE killed' \subseteq Calls
  BY <1>2 DEF Close
<1>3. ASSUME NEW n \in Names, CloseTerminal(n) PROVE killed' \subseteq Calls
  BY <1>1, <1>2, <1>3 DEF CloseTerminal
<1>4. CASE CloseAll
  BY <1>1, <1>2, <1>4 DEF CloseAll, Open
<1>5. CASE SweepIdle
  BY <1>1, <1>2, <1>5 DEF SweepIdle, Open
<1> QED
  BY <1>3, <1>4, <1>5 DEF Next, RunInExisting, RunWaits, RunCreates, Created, CreateFails, Reports, TimeUp, Killed,
                          ShellExits, vars

\* The chains at all times.
THEOREM ChainsHold == Spec => [](IInv /\ Chains /\ killed \subseteq Calls)
<1>1. Init => IInv /\ Chains /\ killed \subseteq Calls
  BY InitIInv, InitChains DEF Init
<1>2. IInv /\ Chains /\ killed \subseteq Calls /\ [Next]_vars => (IInv /\ Chains /\ killed \subseteq Calls)'
  BY NextIInv, NextGood, KilledAreCalls DEF Good
<1> QED
  BY <1>1, <1>2, PTL DEF Spec

\* The variables keep their types, those in `creating` wait for their shell, and no shell is lost.
THEOREM TerminalsAreSound == Spec => []Sound
<1>1. IInv /\ Chains /\ killed \subseteq Calls => Sound
  BY ChainsTyped DEF Sound, IInv, MapInv
<1> QED
  BY <1>1, ChainsHold, PTL

\* The terminals, those being started included, stay within the limit: for any number of names and calls and any limit.
THEOREM TerminalsAreLimited == Spec => []LimitKept
BY TerminalsAreKept, PTL

\* Commands for one name are run in the order the calls came in, across the death of a shell and the start of its
\* successor.
THEOREM CommandsRunInOrder == Spec => RunsInOrder
<1>1. IInv /\ Chains /\ [Next]_vars => [\A n \in Names : lastRun'[n] >= lastRun[n]]_vars
  BY NextGood DEF Good, InOrder
<1> QED
  BY <1>1, ChainsHold, PTL DEF RunsInOrder, Spec

\* A command that ran into its time limit is reported as such and never as a shell that died or was closed.
THEOREM TimeLimitIsTold == Spec => TimeoutWins
<1>1. IInv /\ Chains /\ [Next]_vars => [\A c \in Calls : status[c] = "killing" => status'[c] \in {"killing", "timedOut"}]_vars
  BY NextGood DEF Good, LimitTold
<1> QED
  BY <1>1, ChainsHold, PTL DEF TimeoutWins, Spec
=============================================================================
