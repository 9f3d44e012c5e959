-------------------------- MODULE AgentTreeProofs ---------------------------
(***************************************************************************)
(* For any number of agents, any depth and any budget: a run looks alive   *)
(* exactly while it is, workers stop with their turn, and a worker gets at *)
(* most one reply over the budget.                                         *)
(***************************************************************************)
EXTENDS AgentTree, TLAPS

\* Why a second reply over the budget cannot come: after the first the budget is gone for good, so nothing is started any
\* more, and the worker, if the manager knows it, carries an abort signal that keeps it from its next request.
OneOver ==
  \A r \in Workers :
    over[r] > 0 => /\ spent = Hard
                   /\ registered[r] /\ Executing(r) => aborted[r] /\ pc[r] # "llm"

IInv == TypeOK /\ StatusMatches /\ StoppedWithTurn /\ OneOver /\ OverBudgetOnce

USE DEF Executing

LEMMA RunSets == Root \in Runs /\ Workers \subseteq Runs /\ Root \notin Workers
BY TreeAssumption DEF Root, Workers, Runs

-----------------------------------------------------------------------------
(* The building block of all endings.  R are the runs that end, S those    *)
(* whose controllers are aborted.                                          *)

LEMMA SettledTypes ==
  ASSUME TypeOK, NEW R \in SUBSET Runs, NEW S \in SUBSET Runs, NEW stay \in BOOLEAN,
         NEW st \in TerminalStatuses, Settled(R, st, S, stay)
  PROVE  /\ Gone(R, S) \subseteq Runs
         /\ status' \in [Runs -> ActiveStatuses \cup TerminalStatuses \cup {"none"}]
         /\ aborted' \in [Runs -> BOOLEAN]
         /\ linked' \in [Runs -> BOOLEAN]
         /\ registered' \in [Runs -> BOOLEAN]
         /\ leaving' \subseteq Runs
<1>1. Gone(R, S) \subseteq Runs
    BY RunSets DEF Gone, Cut, Hit, Stoppable
<1>2. status' \in [Runs -> ActiveStatuses \cup TerminalStatuses \cup {"none"}]
    BY DEF Settled, TypeOK, TerminalStatuses
<1>3. aborted' \in [Runs -> BOOLEAN] /\ linked' \in [Runs -> BOOLEAN] /\ registered' \in [Runs -> BOOLEAN]
    BY DEF Settled, TypeOK
<1>4. leaving' \subseteq Runs
    BY <1>1 DEF Settled, TypeOK
<1> QED  BY <1>1, <1>2, <1>3, <1>4

\* A run that goes on is as it was, and has its signal if it was hit.
LEMMA SettledFacts ==
  ASSUME TypeOK, NEW R \in SUBSET Runs, NEW S \in SUBSET Runs, NEW stay \in BOOLEAN, NEW st, Settled(R, st, S, stay),
         NEW r \in Runs
  PROVE  /\ registered'[r] => registered[r]
         /\ r \notin Gone(R, S) => /\ status'[r] = status[r]
                                   /\ registered'[r] = registered[r]
                                   /\ aborted[r] => aborted'[r]
                                   /\ r \in Hit(R, S) /\ Executing(r) => aborted'[r]
         /\ r \in Gone(R, S) => status'[r] \in {st, "aborted"}
BY DEF Settled, Gone, Cut, TypeOK

\* When the root is among the ended, every worker that goes on and is known has been hit.
LEMMA RootTakesAll ==
  ASSUME NEW R \in SUBSET Runs, NEW S \in SUBSET Runs, Root \in Gone(R, S),
         NEW r \in Workers, r \notin Gone(R, S), registered[r]
  PROVE  r \in Hit(R, S)
<1>1. Root \in R \/ (Root \in S /\ pc[Root] \in Parked)
    BY RunSets DEF Gone, Cut, Hit, Stoppable
<1>2. r \in Stoppable(Workers) /\ r \notin R
    BY DEF Stoppable, Gone
<1> QED  BY <1>1, <1>2 DEF Hit

\* The part of the invariant that does not look at the budget, for endings after which nobody but `mover` is elsewhere.
LEMMA SettledKeeps ==
  ASSUME TypeOK, StatusMatches, StoppedWithTurn,
         NEW R \in SUBSET Runs, NEW S \in SUBSET Runs, NEW stay \in BOOLEAN, NEW st \in TerminalStatuses,
         Settled(R, st, S, stay), late' = late,
         \A r \in Gone(R, S) : pc'[r] = "idle",
         \A r \in Runs \ Gone(R, S) : pc'[r] = "idle" <=> pc[r] = "idle"
  PROVE  StatusMatches' /\ StoppedWithTurn'
<1>1. StatusMatches'
  <2>1. ASSUME NEW r \in Runs  PROVE status'[r] \in ActiveStatuses <=> pc'[r] # "idle"
    <3>1. CASE r \in Gone(R, S)
        BY <3>1, SettledFacts DEF ActiveStatuses, TerminalStatuses
    <3>2. CASE r \notin Gone(R, S)
        BY <3>2, SettledFacts DEF StatusMatches
    <3> QED  BY <3>1, <3>2
  <2> QED  BY <2>1 DEF StatusMatches
<1>2. StoppedWithTurn'
  <2> SUFFICES ASSUME pc'[Root] = "idle", NEW r \in Workers, pc'[r] # "idle", registered'[r]
               PROVE  aborted'[r] \/ late[r]
      BY RunSets DEF StoppedWithTurn, TypeOK
  <2>1. r \in Runs /\ r \notin Gone(R, S) /\ pc[r] # "idle" /\ registered[r]
      BY RunSets, SettledFacts
  <2>2. CASE Root \in Gone(R, S)
    <3>1. r \in Hit(R, S)  BY <2>1, <2>2, RootTakesAll
    <3> QED  BY <2>1, <3>1, SettledFacts
  <2>3. CASE Root \notin Gone(R, S)
    <3>1. pc[Root] = "idle"  BY <2>3, RunSets
    <3>2. aborted[r] \/ late[r]  BY <2>1, <3>1 DEF StoppedWithTurn
    <3> QED  BY <2>1, <3>2, SettledFacts
  <2> QED  BY <2>2, <2>3
<1> QED  BY <1>1, <1>2

\* Endings that leave the budget alone.
LEMMA StopKeeps ==
  ASSUME IInv, NEW R \in SUBSET Runs, NEW S \in SUBSET Runs, NEW stay \in BOOLEAN, NEW st \in TerminalStatuses,
         Stop(R, st, S, stay), UNCHANGED <<crashes, count, line, spent, history>>
  PROVE  IInv'
<1> USE DEF IInv
<1>1. Settled(R, st, S, stay) /\ pc' = PlacesAfter(R, S)
    BY DEF Stop
<1>2. \A r \in Runs : pc'[r] = IF r \in Gone(R, S) THEN "idle" ELSE pc[r]
    BY <1>1 DEF PlacesAfter
<1>3. TypeOK'
  <2>1. pc' \in [Runs -> {"idle", "llm", "use", "tool", "ask", "wait"}]
      BY <1>1 DEF PlacesAfter, TypeOK
  <2>2. UNCHANGED <<crashes, count, line, spent, late, unsaved, over>>
      BY DEF history
  <2> QED  BY <1>1, <2>1, <2>2, SettledTypes DEF TypeOK
<1>4. Gone(R, S) \subseteq Runs
    BY <1>1, SettledTypes
<1>5. StatusMatches' /\ StoppedWithTurn'
    BY <1>1, <1>2, <1>4, SettledKeeps DEF history
<1>6. OneOver' /\ OverBudgetOnce'
  <2> SUFFICES ASSUME NEW r \in Workers
               PROVE  /\ over[r] > 0 => spent = Hard /\ (registered'[r] /\ pc'[r] # "idle" => aborted'[r] /\ pc'[r] # "llm")
                      /\ over[r] = 2 => ~registered'[r]
      BY DEF OneOver, OverBudgetOnce, history
  <2>1. r \in Runs  BY RunSets
  <2> QED  BY <1>1, <1>2, <2>1, SettledFacts DEF OneOver, OverBudgetOnce
<1> QED  BY <1>3, <1>5, <1>6
-----------------------------------------------------------------------------
(* One lemma per action.                                                   *)

\* FailedStatus and the statuses used for endings.
LEMMA EndStatuses == \A r : FailedStatus(r) \in TerminalStatuses /\ "done" \in TerminalStatuses /\ "aborted" \in TerminalStatuses
BY DEF FailedStatus, TerminalStatuses

LEMMA EndsKeeps ==
  ASSUME IInv, NEW r \in Runs, Ends(r, FailedStatus(r)), UNCHANGED <<crashes, count, line, spent, history>>
  PROVE  IInv'
<1> USE DEF Ends
<1>1. Stop({r}, FailedStatus(r), {}, FALSE)  OBVIOUS
<1>2. {r} \in SUBSET Runs /\ {} \in SUBSET Runs /\ FALSE \in BOOLEAN  OBVIOUS
<1> QED  BY <1>1, <1>2, EndStatuses, StopKeeps

LEMMA AbortKeeps ==
  ASSUME IInv, NEW S \in SUBSET Runs, NEW stay \in BOOLEAN, Stop({}, "aborted", S, stay),
         UNCHANGED <<crashes, count, line, spent, history>>
  PROVE  IInv'
<1>1. {} \in SUBSET Runs  OBVIOUS
<1> QED  BY <1>1, EndStatuses, StopKeeps

\* A run that goes from one await to the next.
LEMMA ParkKeeps ==
  ASSUME IInv, NEW r \in Runs, Executing(r),
         NEW place \in {"llm", "use", "tool", "ask", "wait"}, NEW st \in ActiveStatuses, Park(r, place, st),
         place = "llm" => ~aborted[r]
  PROVE  IInv'
<1> USE DEF IInv
<1>1. TypeOK'
    BY DEF Park, TypeOK, history
<1>2. \A x \in Runs : pc'[x] = IF x = r THEN place ELSE pc[x]
    BY DEF Park, TypeOK
<1>3. \A x \in Runs : status'[x] = IF x = r THEN st ELSE status[x]
    BY DEF Park, TypeOK
<1>4. StatusMatches'
    BY <1>2, <1>3 DEF StatusMatches
<1>5. UNCHANGED <<aborted, registered, late, over, spent>>
    BY DEF Park, history
<1>6. StoppedWithTurn'
    BY <1>2, <1>5, RunSets DEF StoppedWithTurn
<1>7. OneOver' /\ OverBudgetOnce'
    BY <1>2, <1>5, RunSets DEF OneOver, OverBudgetOnce
<1> QED  BY <1>1, <1>4, <1>6, <1>7

LEMMA SpendFacts ==
  ASSUME TypeOK, NEW r \in Runs, NEW total, Spend(r, total)
  PROVE  /\ total \in 0..Hard /\ spent' = total
         /\ spent = Hard => total = Hard
         /\ over' \in [Runs -> 0..2]
         /\ \A x \in Runs : x # r => over'[x] = over[x]
         /\ over'[r] > 0 => spent = Hard \/ over[r] > 0
         /\ over'[r] = 2 => over[r] > 0
<1>1. spent \in 0..Hard /\ Hard \in Nat \ {0}  BY TreeAssumption DEF TypeOK
<1>2. total \in 0..Hard /\ spent' = total /\ (spent = Hard => total = Hard)  BY <1>1 DEF Spend
<1>3. over' = [over EXCEPT ![r] = IF r # Root /\ spent = Hard /\ over[r] < 2 THEN over[r] + 1 ELSE over[r]] /\ over \in [Runs -> 0..2]
    BY DEF Spend, TypeOK
<1>4. over' \in [Runs -> 0..2] /\ \A x \in Runs : x # r => over'[x] = over[x]  BY <1>3
<1>5. over'[r] = IF r # Root /\ spent = Hard /\ over[r] < 2 THEN over[r] + 1 ELSE over[r]  BY <1>3
<1>6. over[r] \in 0..2  BY <1>3
<1> QED  BY <1>2, <1>4, <1>5, <1>6

LEMMA FinalReplyKeeps == ASSUME IInv, NEW r \in Runs, FinalReply(r)  PROVE IInv'
<1> USE DEF IInv
<1>1. PICK total \in 0..Hard : Spend(r, total) /\ Stop({r}, "done", BudgetStops(r, total), FALSE)
    BY DEF FinalReply
<1> DEFINE R == {r}
           S == BudgetStops(r, total)
<1>2. R \in SUBSET Runs /\ S \in SUBSET Runs
    BY RunSets DEF BudgetStops, Stoppable
<1>3. r \in Gone(R, S)
    BY DEF Gone
<1> HIDE DEF R, S
<1>4. Settled(R, "done", S, FALSE) /\ pc' = PlacesAfter(R, S)
    BY <1>1 DEF Stop, R, S
<1>5. \A x \in Runs : pc'[x] = IF x \in Gone(R, S) THEN "idle" ELSE pc[x]
    BY <1>4 DEF PlacesAfter
<1>6. Gone(R, S) \subseteq Runs
    BY <1>2, <1>4, SettledTypes, EndStatuses
<1>7. TypeOK'
  <2>1. pc' \in [Runs -> {"idle", "llm", "use", "tool", "ask", "wait"}]
      BY <1>4 DEF PlacesAfter, TypeOK
  <2>2. spent' \in 0..Hard /\ over' \in [Runs -> 0..2]
      BY <1>1, SpendFacts
  <2>3. UNCHANGED <<crashes, count, line, late>> /\ unsaved' \in [Runs -> BOOLEAN]
      BY DEF FinalReply, TypeOK
  <2> QED  BY <1>2, <1>4, <2>1, <2>2, <2>3, SettledTypes, EndStatuses DEF TypeOK
<1>8. StatusMatches' /\ StoppedWithTurn'
  <2>1. late' = late  BY DEF FinalReply
  <2> QED  BY <1>2, <1>4, <1>5, <1>6, <2>1, SettledKeeps, EndStatuses
<1>9. ~registered'[r]
    BY <1>3, <1>4 DEF Settled
<1>10. OneOver' /\ OverBudgetOnce'
  <2> SUFFICES ASSUME NEW x \in Workers
               PROVE  /\ over'[x] > 0 => spent' = Hard /\ (registered'[x] /\ pc'[x] # "idle" => aborted'[x] /\ pc'[x] # "llm")
                      /\ over'[x] = 2 => ~registered'[x]
      BY DEF OneOver, OverBudgetOnce
  <2>1. x \in Runs  BY RunSets
  <2>2. CASE x = r
    <3>1. over'[x] > 0 => spent' = Hard  BY <1>1, <2>2, SpendFacts DEF OneOver
    <3> QED  BY <1>9, <2>2, <3>1
  <2>3. CASE x # r
    <3>1. over'[x] = over[x] /\ (spent = Hard => spent' = Hard)  BY <1>1, <2>1, <2>3, SpendFacts
    <3>2. /\ registered'[x] => registered[x]
          /\ x \notin Gone(R, S) => (aborted[x] => aborted'[x])  BY <1>2, <1>4, <2>1, SettledFacts
    <3> QED  BY <1>5, <2>1, <3>1, <3>2 DEF OneOver, OverBudgetOnce
  <2> QED  BY <2>2, <2>3
<1> QED  BY <1>7, <1>8, <1>10

LEMMA ToolReplyKeeps == ASSUME IInv, NEW r \in Runs, ToolReply(r)  PROVE IInv'
<1> USE DEF IInv
<1>1. PICK total \in 0..Hard :
        /\ Spend(r, total)
        /\ Settled({}, "aborted", BudgetStops(r, total), FALSE)
        /\ pc' = [PlacesAfter({}, BudgetStops(r, total)) EXCEPT ![r] = "use"]
    BY DEF ToolReply
<1> DEFINE R == {}
           S == BudgetStops(r, total)
<1>2. R \in SUBSET Runs /\ S \in SUBSET Runs
    BY RunSets DEF BudgetStops, Stoppable
<1>3. pc[r] = "llm" /\ r \notin Gone(R, S)
    BY DEF ToolReply, Gone, Cut, Parked
<1>4. r # Root /\ total = Hard /\ registered[r] => r \in Hit(R, S)
    BY DEF BudgetStops, Stoppable, Hit, Workers, Runs, Root
<1> HIDE DEF R, S
<1>5. Settled(R, "aborted", S, FALSE)
    BY <1>1 DEF R, S
<1>6. \A x \in Runs : pc'[x] = IF x = r THEN "use" ELSE IF x \in Gone(R, S) THEN "idle" ELSE pc[x]
    BY <1>1 DEF PlacesAfter, R, S
<1>7. Gone(R, S) \subseteq Runs
    BY <1>2, <1>5, SettledTypes, EndStatuses
<1>8. TypeOK'
  <2>1. pc' \in [Runs -> {"idle", "llm", "use", "tool", "ask", "wait"}]
      BY <1>1 DEF PlacesAfter, TypeOK
  <2>2. spent' \in 0..Hard /\ over' \in [Runs -> 0..2]
      BY <1>1, SpendFacts
  <2>3. UNCHANGED <<crashes, count, line, late>> /\ unsaved' \in [Runs -> BOOLEAN]
      BY DEF ToolReply, TypeOK
  <2> QED  BY <1>2, <1>5, <2>1, <2>2, <2>3, SettledTypes, EndStatuses DEF TypeOK
<1>9. StatusMatches' /\ StoppedWithTurn'
  <2>1. late' = late  BY DEF ToolReply
  <2>2. \A x \in Gone(R, S) : pc'[x] = "idle"  BY <1>3, <1>6, <1>7
  <2>3. \A x \in Runs \ Gone(R, S) : pc'[x] = "idle" <=> pc[x] = "idle"  BY <1>3, <1>6
  <2> QED  BY <1>2, <1>5, <2>1, <2>2, <2>3, SettledKeeps, EndStatuses
<1>10. OneOver' /\ OverBudgetOnce'
  <2> SUFFICES ASSUME NEW x \in Workers
               PROVE  /\ over'[x] > 0 => spent' = Hard /\ (registered'[x] /\ pc'[x] # "idle" => aborted'[x] /\ pc'[x] # "llm")
                      /\ over'[x] = 2 => ~registered'[x]
      BY DEF OneOver, OverBudgetOnce
  <2>1. x \in Runs /\ x # Root  BY RunSets
  <2>2. /\ registered'[x] => registered[x]
        /\ x \notin Gone(R, S) => /\ aborted[x] => aborted'[x]
                                  /\ x \in Hit(R, S) /\ Executing(x) => aborted'[x]
      BY <1>2, <1>5, <2>1, SettledFacts
  <2>3. CASE x = r
    <3>1. over'[x] > 0 => spent' = Hard /\ total = Hard  BY <1>1, <2>3, SpendFacts DEF OneOver
    <3>2. pc'[x] = "use"  BY <1>6, <2>1, <2>3
    <3>3. total = Hard /\ registered[x] => aborted'[x]  BY <1>3, <1>4, <2>1, <2>2, <2>3
    <3>4. over'[x] = 2 => over[x] > 0  BY <1>1, <2>3, SpendFacts
    <3>5. over[x] > 0 => ~registered[x]  BY <1>3, <2>3 DEF OneOver
    <3> QED  BY <2>2, <3>1, <3>2, <3>3, <3>4, <3>5
  <2>4. CASE x # r
    <3>1. over'[x] = over[x] /\ (spent = Hard => spent' = Hard)  BY <1>1, <2>1, <2>4, SpendFacts
    <3> QED  BY <1>6, <2>1, <2>2, <2>4, <3>1 DEF OneOver, OverBudgetOnce
  <2> QED  BY <2>3, <2>4
<1> QED  BY <1>8, <1>9, <1>10

\* Something starts only while there is budget left, so nobody has been over it.
LEMMA StartKeeps ==
  ASSUME IInv, NEW x \in Workers, NEW l \in BOOLEAN, Start(x, l), spent < Hard,
         count' \in 0..MaxRuns, line' \in [Runs -> SUBSET Runs]
  PROVE  IInv'
<1> USE DEF IInv
<1>1. x \in Runs /\ x # Root /\ Root \in Runs  BY RunSets
<1>2. TypeOK'
    BY <1>1 DEF Start, TypeOK, ActiveStatuses
<1>3. \A r \in Runs : pc'[r] = IF r = x THEN "llm" ELSE pc[r]
    BY <1>1 DEF Start, TypeOK
<1>4. StatusMatches'
    BY <1>1, <1>3 DEF StatusMatches, Start, TypeOK, ActiveStatuses
<1>5. late'[x] = ~Executing(Root)
    BY <1>1 DEF Start, TypeOK
<1>6. \A r \in Runs : r # x => late'[r] = late[r] /\ aborted'[r] = aborted[r] /\ registered'[r] = registered[r]
    BY <1>1 DEF Start, TypeOK
<1>7. StoppedWithTurn'
  <2> SUFFICES ASSUME pc'[Root] = "idle", NEW r \in Workers, pc'[r] # "idle", registered'[r]
               PROVE  aborted'[r] \/ late'[r]
      BY DEF StoppedWithTurn
  <2>1. r \in Runs /\ pc[Root] = "idle"  BY <1>1, <1>3, RunSets
  <2>2. CASE r = x  BY <1>5, <2>1, <2>2
  <2>3. CASE r # x
    <3>1. pc[r] # "idle" /\ registered[r]  BY <1>3, <1>6, <2>1, <2>3
    <3>2. aborted[r] \/ late[r]  BY <2>1, <3>1 DEF StoppedWithTurn
    <3> QED  BY <1>6, <2>1, <2>3, <3>2
  <2> QED  BY <2>2, <2>3
<1>8. \A r \in Workers : ~(over[r] > 0)
    BY TreeAssumption DEF OneOver, TypeOK
<1>9. over' = over
    BY DEF Start
<1>10. \A r \in Workers : over'[r] \in 0..2 /\ ~(over'[r] > 0)
    BY <1>8, <1>9, RunSets DEF TypeOK
<1>11. OneOver' /\ OverBudgetOnce'
    BY <1>10 DEF OneOver, OverBudgetOnce
<1> QED  BY <1>2, <1>4, <1>7, <1>11

LEMMA SpawnKeeps == ASSUME IInv, NEW p \in Runs, Spawn(p)  PROVE IInv'
<1>1. count + 1 \in Workers /\ count' \in 0..MaxRuns
    BY TreeAssumption DEF IInv, TypeOK, Spawn, Workers
<1>2. line' \in [Runs -> SUBSET Runs]
  <2>1. count + 1 \in Runs  BY <1>1, RunSets
  <2> QED  BY <2>1 DEF IInv, TypeOK, Spawn
<1>3. spent < Hard /\ Start(count + 1, registered[p] /\ (p = Root \/ linked[p]))
    BY DEF Spawn
<1>4. (registered[p] /\ (p = Root \/ linked[p])) \in BOOLEAN  OBVIOUS
<1> QED  BY <1>1, <1>2, <1>3, <1>4, StartKeeps

LEMMA ResumeKeeps == ASSUME IInv, NEW x \in Runs, Resume(x)  PROVE IInv'
<1>1. x \in Workers /\ spent < Hard /\ Start(x, FALSE) /\ count' = count /\ line' = line
    BY DEF Resume
<1>2. count' \in 0..MaxRuns /\ line' \in [Runs -> SUBSET Runs] /\ FALSE \in BOOLEAN
    BY <1>1 DEF IInv, TypeOK
<1> QED  BY <1>1, <1>2, StartKeeps

LEMMA LeaveKeeps == ASSUME IInv, Leave  PROVE IInv'
<1> USE DEF IInv
<1>1. TypeOK'  BY DEF Leave, TypeOK, store, history
<1>2. UNCHANGED <<pc, status, aborted, late, over, spent>>  BY DEF Leave, store, history
<1>3. \A r \in Runs : registered'[r] => registered[r]  BY DEF Leave
<1>4. StatusMatches' /\ StoppedWithTurn'  BY <1>2, <1>3, RunSets DEF StatusMatches, StoppedWithTurn
<1>5. OneOver' /\ OverBudgetOnce'  BY <1>2, <1>3, RunSets DEF OneOver, OverBudgetOnce
<1> QED  BY <1>1, <1>4, <1>5

LEMMA RestartKeeps == ASSUME IInv, Restart  PROVE IInv'
<1> USE DEF IInv
<1>1. TypeOK'
    BY TreeAssumption DEF Restart, TypeOK, history, TerminalStatuses
<1>2. \A r \in Runs : pc'[r] = "idle" /\ ~registered'[r] /\ status'[r] \notin ActiveStatuses
    BY DEF Restart, ActiveStatuses
<1>3. StatusMatches' /\ StoppedWithTurn'
    BY <1>2, RunSets DEF StatusMatches, StoppedWithTurn
<1>4. over' = over /\ spent' = spent
    BY DEF Restart, history
<1>5. OneOver' /\ OverBudgetOnce'
    BY <1>2, <1>4, RunSets DEF OneOver, OverBudgetOnce
<1> QED  BY <1>1, <1>3, <1>5

LEMMA InitIInv == Init => IInv
<1> SUFFICES ASSUME Init  PROVE IInv
    OBVIOUS
<1>1. TypeOK
    BY TreeAssumption, RunSets DEF Init, TypeOK, ActiveStatuses
<1>2. StatusMatches
    BY DEF Init, StatusMatches, ActiveStatuses
<1>3. StoppedWithTurn /\ OneOver /\ OverBudgetOnce
    BY RunSets DEF Init, StoppedWithTurn, OneOver, OverBudgetOnce
<1> QED  BY <1>1, <1>2, <1>3 DEF IInv

LEMMA StepKeeps == IInv /\ [Next]_vars => IInv'
<1> SUFFICES ASSUME IInv, [Next]_vars  PROVE IInv'
    OBVIOUS
<1>1. CASE UNCHANGED vars
    BY <1>1 DEF IInv, TypeOK, StatusMatches, StoppedWithTurn, OneOver, OverBudgetOnce, vars, store, code, history
<1>2. ASSUME NEW r \in Runs, FinalReply(r)  PROVE IInv'
    BY <1>2, FinalReplyKeeps
<1>3. ASSUME NEW r \in Runs, ToolReply(r)  PROVE IInv'
    BY <1>3, ToolReplyKeeps
<1>4. ASSUME NEW r \in Runs, RequestFails(r) \/ Breaks(r)  PROVE IInv'
    BY <1>4, EndsKeeps DEF RequestFails, Breaks
<1>5. ASSUME NEW r \in Runs, NextRequest(r) \/ StartTool(r) \/ Ask(r) \/ WaitAgents(r)  PROVE IInv'
  <2>1. Executing(r) /\ ~aborted[r] /\ status[r] \in ActiveStatuses
      BY <1>5 DEF NextRequest, StartTool, Ask, WaitAgents, MayCall, IInv, StatusMatches
  <2>2. PICK place \in {"llm", "use", "tool", "ask", "wait"}, st \in ActiveStatuses : Park(r, place, st)
      BY <1>5, <2>1 DEF NextRequest, StartTool, Ask, WaitAgents, ActiveStatuses
  <2> QED  BY <2>1, <2>2, ParkKeeps
<1>6. ASSUME NEW r \in Runs, ToolReturns(r)  PROVE IInv'
  <2>1. Executing(r) /\ status[r] \in ActiveStatuses
      BY <1>6 DEF ToolReturns, IInv, StatusMatches
  <2>2. CASE Park(r, "use", status[r])
      BY <2>1, <2>2, ParkKeeps
  <2>3. CASE Ends(r, FailedStatus(r)) /\ UNCHANGED <<crashes, count, line, spent, history>>
      BY <2>3, EndsKeeps
  <2> QED  BY <1>6, <2>2, <2>3 DEF ToolReturns
<1>7. ASSUME NEW r \in Runs, Answered(r) \/ WaitReturns(r)  PROVE IInv'
  <2>1. Executing(r) /\ Park(r, "use", "running") /\ "running" \in ActiveStatuses
      BY <1>7 DEF Answered, WaitReturns, ActiveStatuses
  <2> QED  BY <2>1, ParkKeeps
<1>8. ASSUME NEW p \in Runs, Spawn(p)  PROVE IInv'
    BY <1>8, SpawnKeeps
<1>9. ASSUME NEW x \in Runs, Resume(x)  PROVE IInv'
    BY <1>9, ResumeKeeps
<1>10. ASSUME NEW x \in Runs, NEW stay \in BOOLEAN, Stop({}, "aborted", Stoppable(Below(x)), stay),
              UNCHANGED <<crashes, count, line, spent, history>>  PROVE IInv'
  <2>1. Created \subseteq Runs
      BY TreeAssumption DEF IInv, TypeOK, Created, Runs
  <2>2. Stoppable(Below(x)) \in SUBSET Runs
      BY <2>1 DEF Stoppable, Below
  <2> QED  BY <1>10, <2>2, AbortKeeps
<1>11. CASE Kill
  <2>1. {Root} \cup {r \in Workers : linked[r]} \in SUBSET Runs  BY RunSets
  <2>2. FALSE \in BOOLEAN  OBVIOUS
  <2> QED  BY <1>11, <2>1, <2>2, AbortKeeps DEF Kill, Abort
<1>12. CASE Leave  BY <1>12, LeaveKeeps
<1>13. CASE Restart  BY <1>13, RestartKeeps
<1> QED  BY <1>1, <1>2, <1>3, <1>4, <1>5, <1>6, <1>7, <1>8, <1>9, <1>10, <1>11, <1>12, <1>13
         DEF Next, Progress, Wake, UserMessage, StopAgent, UserStop, Abort

THEOREM Invariance == Spec => []IInv
BY InitIInv, StepKeeps, PTL DEF Spec

\* The types of the run records, the places that name a run and the budget hold for every size of the tree.
THEOREM TypesAreKept == Spec => []TypeOK
<1>1. IInv => TypeOK  BY DEF IInv
<1> QED  BY Invariance, <1>1, PTL

\* runs.status is active exactly while code executes the run, across stops, resumptions and restarts: no dead agent that
\* looks alive, none that could be resumed twice.
THEOREM StatusTellsTheTruth == Spec => []StatusMatches
<1>1. IInv => StatusMatches  BY DEF IInv
<1> QED  BY Invariance, <1>1, PTL

\* When the chat turn is over, every worker that still executes has its abort signal, was started later, or is one that
\* AgentManager.live lost.
THEOREM WorkersStopWithTheTurn == Spec => []StoppedWithTurn
<1>1. IInv => StoppedWithTurn  BY DEF IInv
<1> QED  BY Invariance, <1>1, PTL

\* The overrun of the token budget by workers is at most one reply each, however often they were resumed.
THEOREM OverrunIsBounded == Spec => []OverBudgetOnce
<1>1. IInv => OverBudgetOnce  BY DEF IInv
<1> QED  BY Invariance, <1>1, PTL
=============================================================================
