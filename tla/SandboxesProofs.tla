--------------------------- MODULE SandboxesProofs ---------------------------
(***************************************************************************)
(* The sandbox manager keeps its limit, its map is true and a destroy is   *)
(* total, with the exceptions the properties name, for any number of       *)
(* owners, containers, timers, calls and faults and any limit.             *)
(***************************************************************************)
EXTENDS Sandboxes, FiniteSetTheorems, TLAPS

\* A container belongs to the owner it was made for: the map, the start-ups, the stops, the sweep and the destroys know only
\* containers that Docker made, under the owner that they were made for.
Owned ==
  /\ \A c \in Containers : box[c].st = "unused" => box[c].owner = None /\ ~rec[c].run
  /\ \A c \in Containers : box[c].st # "unused" => box[c].owner \in Owners
  /\ \A o \in Owners : entry[o] # None => box[entry[o]].owner = o
  /\ \A o \in Owners : start[o].old # None => box[start[o].old].owner = o
  /\ \A o \in Owners : start[o].pc = "boot" => start[o].old # None
  /\ \A k \in Stoppers : halt[k].pc # "none" => halt[k].c # None /\ box[halt[k].c].st # "unused"
  /\ gc.pc # "none" => gc.c # None /\ box[gc.c].st # "unused"
  /\ \A o \in Owners : \A c \in destroy[o].ids : box[c].st # "unused"

\* Two stops of one container are on record as crossed.  A stop that is under way for a container in the map
\* finds it running, and from the mark on its record says it does not.
Stopping(k) == halt[k].pc \in {"close", "kill"}
Halted ==
  /\ \A j, k \in Stoppers : j # k /\ Stopping(j) /\ Stopping(k) /\ halt[j].c = halt[k].c => halt[k].c \in blurred
  /\ \A k \in Stoppers : Stopping(k) /\ halt[k].c \in Mapped \ blurred =>
       /\ box[halt[k].c].st = "up"
       /\ halt[k].pc = "kill" => ~rec[halt[k].c].run

\* While start-ups have not overlapped, the one that passed its capacity check has room: at once, or when the
\* sandbox it evicts is marked.
Frees(o) == start[o].pc = "evict" /\ halt[o].pc = "close"
Remain(o) == IF Frees(o) THEN Others(o) \ {halt[o].c} ELSE Others(o)
HasRoom(o) == Cardinality(Remain(o)) < MaxRunning
Room ==
  /\ LimitKept
  /\ ~excess => /\ \A o, p \in Admitted : o = p
                /\ \A o \in Admitted : HasRoom(o)

\* A destroy that nobody overlapped is alone with what it has not removed yet.
Alone ==
  \A o \in Owners : destroy[o].alone =>
    /\ destroy[o].pc \in {"close", "list", "remove", "volume"} => start[o].pc = "none" /\ browse[o] = "none"
    /\ destroy[o].pc = "remove" => \A c \in Containers : Exists(c) /\ box[c].owner = o => c \in destroy[o].ids
    /\ destroy[o].pc = "volume" => \A c \in Containers : box[c].owner = o => box[c].st = "gone"

IInv == TypeOK /\ Owned /\ MapIsTrue /\ Halted /\ Room /\ OneCreator /\ Alone

-----------------------------------------------------------------------------
(* The types, one by one.                                                   *)

BoxT == box \in [Containers -> [st : {"unused", "up", "down", "gone"}, owner : Owners \cup {None}]]
VolT == vol \in [Owners -> BOOLEAN]
EntryT == entry \in [Owners -> Containers \cup {None}]
RecT == rec \in [Containers -> [run : BOOLEAN, old : BOOLEAN]]
StartT == start \in [Owners -> [pc : {"none", "look", "evict", "boot", "volume", "create"}, old : Containers \cup {None}]]
BrowseT == browse \in [Owners -> {"none", "volume", "create"}]
HaltT == halt \in [Stoppers -> [pc : {"none", "look", "close", "kill"}, c : Containers \cup {None}]]
DestroyT == destroy \in [Owners -> [pc : {"none", "wait", "close", "list", "remove", "volume"}, ids : SUBSET Containers, alone : BOOLEAN]]
GcT == gc \in [pc : {"none", "look", "remove"}, c : Containers \cup {None}]
CallT == call \in [Calls -> [pc : {"idle", "claim", "log", "runs"}, owner : Owners \cup {None}, c : Containers \cup {None}, kind : Kinds]]
RestT == excess \in BOOLEAN /\ blurred \subseteq Containers /\ faults \in 0..Faults
StateT == BoxT /\ VolT /\ EntryT /\ RecT /\ StartT /\ BrowseT /\ HaltT /\ DestroyT /\ GcT /\ RestT

LEMMA TypesAreThese == TypeOK <=> StateT /\ CallT
BY DEF TypeOK, StateT, BoxT, VolT, EntryT, RecT, StartT, BrowseT, HaltT, DestroyT, GcT, CallT, RestT

\* Whatever becomes of the calls, each stays a call.
LEMMA CallTypes ==
  ASSUME CallT,
         \/ UNCHANGED call
         \/ \E x \in Calls, o \in Owners, k \in Kinds : call' = [call EXCEPT ![x] = [pc |-> "claim", owner |-> o, c |-> None, kind |-> k]]
         \/ \E o \in Owners, c \in Containers \cup {None} : Answered(o, c)
         \/ \E o \in Owners : Refused(o)
         \/ \E x \in Calls : Begin(x) \/ End(x)
         \/ \E cs \in SUBSET Containers : call' = Cut(cs)
         \/ \E c \in Containers \cup {None} : call' = CloseAll(c)
         \/ call' = [x \in Calls |-> Idle]
  PROVE  CallT'
<1> DEFINE Call == [pc : {"idle", "claim", "log", "runs"}, owner : Owners \cup {None}, c : Containers \cup {None}, kind : Kinds]
<1>1. Idle \in Call  BY DEF Idle, Kinds
<1>2. ASSUME NEW o \in Owners, NEW c \in Containers \cup {None}, Answered(o, c)  PROVE CallT'
  <2>1. \A x \in Calls : [call[x] EXCEPT !.c = c, !.pc = "log"] \in Call  BY <1>2 DEF CallT
  <2> HIDE DEF Call
  <2> QED  BY <1>1, <1>2, <2>1 DEF CallT, Answered, Call
<1>3. ASSUME NEW o \in Owners, Refused(o)  PROVE CallT'  BY <1>1, <1>3 DEF CallT, Refused
<1>4. ASSUME NEW x \in Calls, Begin(x) \/ End(x)  PROVE CallT'
  <2>1. [call[x] EXCEPT !.pc = "runs"] \in Call  BY <1>4 DEF CallT
  <2>2. \E d \in Call : call' = [call EXCEPT ![x] = d]
    <3> HIDE DEF Call
    <3> QED  BY <1>1, <1>4, <2>1 DEF Begin, End
  <2> QED  BY <2>2 DEF CallT
<1>5. ASSUME NEW cs \in SUBSET Containers, call' = Cut(cs)  PROVE CallT'  BY <1>1, <1>5 DEF CallT, Cut
<1>6. ASSUME NEW c \in Containers \cup {None}, call' = CloseAll(c)  PROVE CallT'  BY <1>1, <1>6 DEF CallT, CloseAll
<1>7. ASSUME NEW x \in Calls, NEW o \in Owners, NEW k \in Kinds,
             call' = [call EXCEPT ![x] = [pc |-> "claim", owner |-> o, c |-> None, kind |-> k]]
      PROVE  CallT'  BY <1>7 DEF CallT
<1>8. ASSUME call' = [x \in Calls |-> Idle]  PROVE CallT'  BY <1>1, <1>8 DEF CallT
<1> QED  BY <1>2, <1>3, <1>4, <1>5, <1>6, <1>7, <1>8 DEF CallT

LEMMA NextStateT ==
  ASSUME TypeOK, Owned, [Next]_vars
  PROVE  StateT'
<1>0. StateT /\ CallT  BY TypesAreThese
<1> USE DEF StateT
<1>1. ASSUME NEW x \in Calls, Begin(x)  PROVE StateT'  BY <1>0, <1>1 DEF Begin, BoxT, VolT, EntryT, RecT, StartT, BrowseT, HaltT, DestroyT, GcT, RestT
<1>2. ASSUME NEW x \in Calls, End(x)  PROVE StateT'  BY <1>0, <1>2 DEF End, BoxT, VolT, EntryT, RecT, StartT, BrowseT, HaltT, DestroyT, GcT, RestT
<1>3. ASSUME NEW x \in Calls, NEW o \in Owners, NEW k \in Kinds, Claim(x, o, k)  PROVE StateT'
  <2>1. StartT'  BY <1>0, <1>3 DEF Claim, StartT
  <2>2. DestroyT'  BY <1>0, <1>3 DEF Claim, DestroyT, Overlaps
  <2> QED  BY <1>0, <1>3, <2>1, <2>2 DEF Claim, BoxT, VolT, EntryT, RecT, BrowseT, HaltT, GcT, RestT
<1>4. ASSUME NEW o \in Owners, Wake(o)  PROVE StateT'
  <2>1. StartT'  BY <1>0, <1>4 DEF Wake, StartT
  <2>2. DestroyT'  BY <1>0, <1>4 DEF Wake, DestroyT, Overlaps
  <2> QED  BY <1>0, <1>4, <2>1, <2>2 DEF Wake, BoxT, VolT, EntryT, RecT, BrowseT, HaltT, GcT, RestT
<1>5. ASSUME NEW o \in Owners, LookRunning(o)  PROVE StateT'
  <2>1. StartT'  BY <1>0, <1>5 DEF LookRunning, StartT, NoStart
  <2> QED  BY <1>0, <1>5, <2>1 DEF LookRunning, BoxT, VolT, EntryT, RecT, BrowseT, HaltT, DestroyT, GcT, RestT
<1>6. ASSUME NEW o \in Owners, LookRoom(o)  PROVE StateT'
  <2>1. StartT'  BY <1>0, <1>6 DEF LookRoom, StartT, NextStage, EntryT
  <2>2. RestT'  BY <1>0, <1>6 DEF LookRoom, RestT
  <2> QED  BY <1>0, <1>6, <2>1, <2>2 DEF LookRoom, BoxT, VolT, EntryT, RecT, BrowseT, HaltT, DestroyT, GcT
<1>7. ASSUME NEW o \in Owners, LookEvict(o)  PROVE StateT'
  <2>1. HaltT'  BY <1>0, <1>7 DEF LookEvict, HaltT, Others, RunningSandboxes, Mapped, EntryT, Stoppers
  <2>2. RestT'  BY <1>0, <1>7 DEF LookEvict, RestT, Crossed, Others, RunningSandboxes, Mapped, EntryT
  <2>3. StartT'  BY <1>0, <1>7 DEF LookEvict, StartT, EntryT
  <2> QED  BY <1>0, <1>7, <2>1, <2>2, <2>3 DEF LookEvict, BoxT, VolT, EntryT, RecT, BrowseT, DestroyT, GcT
<1>8. ASSUME NEW o \in Owners, LookFull(o)  PROVE StateT'
  <2>1. StartT'  BY <1>0, <1>8 DEF LookFull, StartT, NoStart
  <2> QED  BY <1>0, <1>8, <2>1 DEF LookFull, BoxT, VolT, EntryT, RecT, BrowseT, HaltT, DestroyT, GcT, RestT
<1>9. ASSUME NEW o \in Owners, Evicted(o)  PROVE StateT'
  <2>1. StartT'  BY <1>0, <1>9 DEF Evicted, StartT, NextStage
  <2> QED  BY <1>0, <1>9, <2>1 DEF Evicted, BoxT, VolT, EntryT, RecT, BrowseT, HaltT, DestroyT, GcT, RestT
<1>10. ASSUME NEW o \in Owners, Boot(o)  PROVE StateT'
  <2>1. BoxT'  BY <1>0, <1>10 DEF Boot, BoxT
  <2>2. RecT'  BY <1>0, <1>10 DEF Boot, RecT
  <2>3. StartT'  BY <1>0, <1>10 DEF Boot, StartT, NoStart
  <2> QED  BY <1>0, <1>10, <2>1, <2>2, <2>3 DEF Boot, VolT, EntryT, BrowseT, HaltT, DestroyT, GcT, RestT
<1>11. ASSUME NEW o \in Owners, BootFails(o)  PROVE StateT'
  <2>1. StartT'  BY <1>0, <1>11 DEF BootFails, StartT
  <2> QED  BY <1>0, <1>11, <2>1 DEF BootFails, BoxT, VolT, EntryT, RecT, BrowseT, HaltT, DestroyT, GcT, RestT
<1>12. ASSUME NEW o \in Owners, EnsureVolume(o)  PROVE StateT'
  <2>1. VolT'  BY <1>0, <1>12 DEF EnsureVolume, VolT
  <2>2. StartT'  BY <1>0, <1>12 DEF EnsureVolume, StartT
  <2> QED  BY <1>0, <1>12, <2>1, <2>2 DEF EnsureVolume, BoxT, EntryT, RecT, BrowseT, HaltT, DestroyT, GcT, RestT
<1>13. ASSUME NEW o \in Owners, Create(o)  PROVE StateT'
  <2>1. BoxT'  BY <1>0, <1>13 DEF Create, BoxT
  <2>2. RecT'  BY <1>0, <1>13 DEF Create, RecT
  <2>3. EntryT'  BY <1>0, <1>13 DEF Create, EntryT
  <2>4. VolT'  BY <1>0, <1>13 DEF Create, VolT
  <2>5. StartT'  BY <1>0, <1>13 DEF Create, StartT, NoStart
  <2> QED  BY <1>0, <1>13, <2>1, <2>2, <2>3, <2>4, <2>5 DEF Create, BrowseT, HaltT, DestroyT, GcT, RestT
<1>14. ASSUME NEW o \in Owners, CreateFails(o)  PROVE StateT'
  <2>1. BoxT'  BY <1>0, <1>14 DEF CreateFails, BoxT
  <2>2. VolT'  BY <1>0, <1>14 DEF CreateFails, VolT
  <2>3. StartT'  BY <1>0, <1>14 DEF CreateFails, StartT, NoStart
  <2> QED  BY <1>0, <1>14, <2>1, <2>2, <2>3 DEF CreateFails, EntryT, RecT, BrowseT, HaltT, DestroyT, GcT, RestT
<1>15. ASSUME NEW o \in Owners, Browse(o)  PROVE StateT'
  <2>1. BrowseT'  BY <1>0, <1>15 DEF Browse, BrowseT
  <2>2. DestroyT'  BY <1>0, <1>15 DEF Browse, DestroyT, Overlaps
  <2> QED  BY <1>0, <1>15, <2>1, <2>2 DEF Browse, BoxT, VolT, EntryT, RecT, StartT, HaltT, GcT, RestT
<1>16. ASSUME NEW o \in Owners, BrowseVolume(o)  PROVE StateT'
  <2>1. BrowseT'  BY <1>0, <1>16 DEF BrowseVolume, BrowseT
  <2> QED  BY <1>0, <1>16, <2>1 DEF BrowseVolume, BoxT, VolT, EntryT, RecT, StartT, HaltT, DestroyT, GcT, RestT
<1>17. ASSUME NEW o \in Owners, BrowseCreate(o)  PROVE StateT'
  <2>1. BrowseT'  BY <1>0, <1>17 DEF BrowseCreate, BrowseT
  <2>2. BoxT'  BY <1>0, <1>17 DEF BrowseCreate, BoxT
  <2>3. EntryT'  BY <1>0, <1>17 DEF BrowseCreate, EntryT
  <2>4. VolT'  BY <1>0, <1>17 DEF BrowseCreate, VolT
  <2> QED  BY <1>0, <1>17, <2>1, <2>2, <2>3, <2>4 DEF BrowseCreate, RecT, StartT, HaltT, DestroyT, GcT, RestT
<1>18. ASSUME NEW o \in Owners, Destroy(o)  PROVE StateT'
  <2>1. DestroyT'  BY <1>0, <1>18 DEF Destroy, DestroyT
  <2> QED  BY <1>0, <1>18, <2>1 DEF Destroy, BoxT, VolT, EntryT, RecT, StartT, BrowseT, HaltT, GcT, RestT
<1>19. ASSUME NEW o \in Owners, DestroyCloses(o)  PROVE StateT'
  <2>1. DestroyT'
    <3> DEFINE d == [destroy[o] EXCEPT !.pc = IF entry[o] = None THEN "list" ELSE "close", !.ids = {entry[o]} \ {None}]
    <3>1. destroy' = [destroy EXCEPT ![o] = d]  BY <1>19 DEF DestroyCloses
    <3>2. d \in [pc : {"none", "wait", "close", "list", "remove", "volume"}, ids : SUBSET Containers, alone : BOOLEAN]
        BY <1>0 DEF DestroyT, EntryT
    <3> HIDE DEF d
    <3> QED  BY <1>0, <3>1, <3>2 DEF DestroyT
  <2> QED  BY <1>0, <1>19, <2>1 DEF DestroyCloses, BoxT, VolT, EntryT, RecT, StartT, BrowseT, HaltT, GcT, RestT
<1>20. ASSUME NEW o \in Owners, DestroyForgets(o)  PROVE StateT'
  <2>1. EntryT'  BY <1>0, <1>20 DEF DestroyForgets, EntryT
  <2>2. DestroyT'  BY <1>0, <1>20 DEF DestroyForgets, DestroyT
  <2> QED  BY <1>0, <1>20, <2>1, <2>2 DEF DestroyForgets, BoxT, VolT, RecT, StartT, BrowseT, HaltT, GcT, RestT
<1>21. ASSUME NEW o \in Owners, DestroyLists(o)  PROVE StateT'
  <2>1. DestroyT'  BY <1>0, <1>21 DEF DestroyLists, DestroyT
  <2> QED  BY <1>0, <1>21, <2>1 DEF DestroyLists, BoxT, VolT, EntryT, RecT, StartT, BrowseT, HaltT, GcT, RestT
<1>22. ASSUME NEW o \in Owners, DestroyRemoves(o)  PROVE StateT'
  <2>1. BoxT'  BY <1>0, <1>22 DEF DestroyRemoves, BoxT
  <2>2. RestT'  BY <1>0, <1>22 DEF DestroyRemoves, RestT, DestroyT
  <2>3. DestroyT'  BY <1>0, <1>22 DEF DestroyRemoves, DestroyT
  <2> QED  BY <1>0, <1>22, <2>1, <2>2, <2>3 DEF DestroyRemoves, VolT, EntryT, RecT, StartT, BrowseT, HaltT, GcT
<1>23. ASSUME NEW o \in Owners, DestroyFails(o)  PROVE StateT'
  <2>1. DestroyT'  BY <1>0, <1>23 DEF DestroyFails, DestroyT, NoDestroy
  <2> QED  BY <1>0, <1>23, <2>1 DEF DestroyFails, BoxT, VolT, EntryT, RecT, StartT, BrowseT, HaltT, GcT, RestT
<1>24. ASSUME NEW o \in Owners, DestroyVolume(o)  PROVE StateT'
  <2>1. VolT'  BY <1>0, <1>24 DEF DestroyVolume, VolT
  <2>2. DestroyT'  BY <1>0, <1>24 DEF DestroyVolume, DestroyT, NoDestroy
  <2> QED  BY <1>0, <1>24, <2>1, <2>2 DEF DestroyVolume, BoxT, EntryT, RecT, StartT, BrowseT, HaltT, GcT, RestT
<1>25. ASSUME NEW o \in Owners, Stop(o)  PROVE StateT'
  <2>1. HaltT'  BY <1>0, <1>25 DEF Stop, HaltT, EntryT, Stoppers
  <2>2. RestT'  BY <1>0, <1>25 DEF Stop, RestT, Crossed, IsRunning, EntryT
  <2> QED  BY <1>0, <1>25, <2>1, <2>2 DEF Stop, BoxT, VolT, EntryT, RecT, StartT, BrowseT, DestroyT, GcT
<1>26. ASSUME NEW o \in Owners, Ages(o)  PROVE StateT'
  <2>1. RecT'  BY <1>0, <1>26 DEF Ages, RecT
  <2> QED  BY <1>0, <1>26, <2>1 DEF Ages, BoxT, VolT, EntryT, StartT, BrowseT, HaltT, DestroyT, GcT, RestT
<1>27. ASSUME NEW o \in Owners, SweepLooks(o)  PROVE StateT'
  <2>1. GcT'  BY <1>0, <1>27 DEF SweepLooks, GcT, EntryT
  <2> QED  BY <1>0, <1>27, <2>1 DEF SweepLooks, BoxT, VolT, EntryT, RecT, StartT, BrowseT, HaltT, DestroyT, RestT
<1>28. ASSUME NEW h \in House, HouseLooks(h)  PROVE StateT'
  <2>1. HaltT'  BY <1>0, <1>28 DEF HouseLooks, HaltT, RunningSandboxes, Mapped, EntryT, Stoppers
  <2> QED  BY <1>0, <1>28, <2>1 DEF HouseLooks, BoxT, VolT, EntryT, RecT, StartT, BrowseT, DestroyT, GcT, RestT
<1>29. ASSUME NEW h \in House, HouseStops(h)  PROVE StateT'
  <2>1. HaltT'  BY <1>0, <1>29 DEF HouseStops, HaltT, Stoppers
  <2>2. RestT'
    <3>1. h \in Stoppers /\ halt[h].c # None  BY <1>29 DEF HouseStops, Owned, Stoppers
    <3> QED  BY <1>0, <1>29, <3>1 DEF HouseStops, RestT, Crossed, HaltT
  <2> QED  BY <1>0, <1>29, <2>1, <2>2 DEF HouseStops, BoxT, VolT, EntryT, RecT, StartT, BrowseT, DestroyT, GcT
<1>30. ASSUME NEW h \in House, HousePasses(h)  PROVE StateT'
  <2>1. HaltT'  BY <1>0, <1>30 DEF HousePasses, HaltT, NoHalt, Stoppers
  <2> QED  BY <1>0, <1>30, <2>1 DEF HousePasses, BoxT, VolT, EntryT, RecT, StartT, BrowseT, DestroyT, GcT, RestT
<1>31. ASSUME NEW k \in Stoppers, Mark(k)  PROVE StateT'
  <2>1. RecT'  BY <1>0, <1>31 DEF Mark, RecT
  <2>2. HaltT'  BY <1>0, <1>31 DEF Mark, HaltT
  <2> QED  BY <1>0, <1>31, <2>1, <2>2 DEF Mark, BoxT, VolT, EntryT, StartT, BrowseT, DestroyT, GcT, RestT
<1>32. ASSUME NEW k \in Stoppers, Kill(k) \/ KillFails(k)  PROVE StateT'
  <2>1. BoxT'  BY <1>0, <1>32 DEF Kill, KillFails, BoxT
  <2>2. HaltT'  BY <1>0, <1>32 DEF Kill, KillFails, HaltT, NoHalt
  <2>3. RestT'  BY <1>0, <1>32, BoundsAssumption DEF Kill, KillFails, Fault, RestT
  <2> QED  BY <1>0, <1>32, <2>1, <2>2, <2>3 DEF Kill, KillFails, VolT, EntryT, RecT, StartT, BrowseT, DestroyT, GcT
<1>33. ASSUME SweepChecks  PROVE StateT'
  <2>1. GcT'  BY <1>0, <1>33 DEF SweepChecks, GcT, NoHalt
  <2> QED  BY <1>0, <1>33, <2>1 DEF SweepChecks, BoxT, VolT, EntryT, RecT, StartT, BrowseT, HaltT, DestroyT, RestT
<1>34. ASSUME SweepRemoves  PROVE StateT'
  <2>1. BoxT'  BY <1>0, <1>34 DEF SweepRemoves, BoxT
  <2>2. EntryT'  BY <1>0, <1>34 DEF SweepRemoves, EntryT
  <2>3. GcT'  BY <1>0, <1>34 DEF SweepRemoves, GcT, NoHalt
  <2> QED  BY <1>0, <1>34, <2>1, <2>2, <2>3 DEF SweepRemoves, VolT, RecT, StartT, BrowseT, HaltT, DestroyT, RestT
<1>35. ASSUME SweepFails  PROVE StateT'
  <2>1. GcT'  BY <1>0, <1>35 DEF SweepFails, GcT, NoHalt
  <2> QED  BY <1>0, <1>35, <2>1 DEF SweepFails, BoxT, VolT, EntryT, RecT, StartT, BrowseT, HaltT, DestroyT, RestT
<1>36. ASSUME NEW c \in Containers, Vanishes(c)  PROVE StateT'
  <2>1. BoxT'  BY <1>0, <1>36 DEF Vanishes, BoxT
  <2>2. RestT'  BY <1>0, <1>36, BoundsAssumption DEF Vanishes, RestT, Fault
  <2> QED  BY <1>0, <1>36, <2>1, <2>2 DEF Vanishes, VolT, EntryT, RecT, StartT, BrowseT, HaltT, DestroyT, GcT
<1>37. ASSUME Restart  PROVE StateT'
  <2>1. BoxT'  BY <1>0, <1>37 DEF Restart, BoxT
  <2>2. EntryT'  BY <1>0, <1>37 DEF Restart, EntryT
  <2>3. RestT'  BY <1>0, <1>37, BoundsAssumption DEF Restart, RestT, Fault
  <2>4. RecT'  BY <1>0, <1>37 DEF Restart, RecT
  <2>5. StartT'  BY <1>0, <1>37 DEF Restart, StartT, NoStart
  <2>6. BrowseT'  BY <1>0, <1>37 DEF Restart, BrowseT
  <2>7. HaltT'  BY <1>0, <1>37 DEF Restart, HaltT, NoHalt
  <2>8. DestroyT'  BY <1>0, <1>37 DEF Restart, DestroyT, NoDestroy
  <2>9. GcT'  BY <1>0, <1>37 DEF Restart, GcT, NoHalt
  <2> QED  BY <1>0, <1>37, <2>1, <2>2, <2>3, <2>4, <2>5, <2>6, <2>7, <2>8, <2>9 DEF Restart, VolT
<1>38. ASSUME UNCHANGED vars  PROVE StateT'  BY <1>0, <1>38 DEF vars, BoxT, VolT, EntryT, RecT, StartT, BrowseT, HaltT, DestroyT, GcT, RestT
<1> QED
  BY <1>1, <1>2, <1>3, <1>4, <1>5, <1>6, <1>7, <1>8, <1>9, <1>10, <1>11, <1>12, <1>13, <1>14, <1>15, <1>16, <1>17, <1>18, <1>19, <1>20, <1>21, <1>22, <1>23, <1>24, <1>25, <1>26, <1>27, <1>28, <1>29, <1>30, <1>31, <1>32, <1>33, <1>34, <1>35, <1>36, <1>37, <1>38 DEF Next, StartStep, BrowseStep, HaltStep, DestroyStep

LEMMA NextCallT ==
  ASSUME TypeOK, Owned, [Next]_vars
  PROVE  CallT'
<1>0. StateT /\ CallT  BY TypesAreThese
<1> USE DEF StateT
<1>1. ASSUME NEW x \in Calls, Begin(x)  PROVE CallT'  BY <1>0, <1>1, CallTypes
<1>2. ASSUME NEW x \in Calls, End(x)  PROVE CallT'  BY <1>0, <1>2, CallTypes
<1>3. ASSUME NEW x \in Calls, NEW o \in Owners, NEW k \in Kinds, Claim(x, o, k)  PROVE CallT'  BY <1>0, <1>3, CallTypes DEF Claim
<1>4. ASSUME NEW o \in Owners, LookRunning(o)  PROVE CallT'  BY <1>0, <1>4, CallTypes DEF LookRunning, EntryT
<1>5. ASSUME NEW o \in Owners, LookFull(o)  PROVE CallT'  BY <1>0, <1>5, CallTypes DEF LookFull
<1>6. ASSUME NEW o \in Owners, Boot(o)  PROVE CallT'  BY <1>0, <1>6, CallTypes DEF Boot, StartT
<1>7. ASSUME NEW o \in Owners, Create(o)  PROVE CallT'  BY <1>0, <1>7, CallTypes DEF Create
<1>8. ASSUME NEW o \in Owners, CreateFails(o)  PROVE CallT'  BY <1>0, <1>8, CallTypes DEF CreateFails
<1>9. ASSUME NEW o \in Owners, DestroyCloses(o)  PROVE CallT'
  <2>1. \/ UNCHANGED call
        \/ call' = CloseAll(entry[o]) /\ entry[o] \in Containers \cup {None}  BY <1>0, <1>9 DEF DestroyCloses, EntryT
  <2> QED  BY <1>0, <2>1, CallTypes
<1>10. ASSUME NEW o \in Owners, DestroyRemoves(o)  PROVE CallT'  BY <1>0, <1>10, CallTypes DEF DestroyRemoves, DestroyT
<1>11. ASSUME NEW o \in Owners, Stop(o)  PROVE CallT'  BY <1>0, <1>11, CallTypes DEF Stop, EntryT
<1>12. ASSUME NEW h \in House, HouseStops(h)  PROVE CallT'  BY <1>0, <1>12, CallTypes DEF HouseStops, HaltT, Stoppers
<1>13. ASSUME NEW k \in Stoppers, Kill(k) \/ KillFails(k)  PROVE CallT'
  <2>1. CASE Kill(k)
    <3>1. halt[k].c \in Containers  BY <1>0, <2>1 DEF Kill, Owned, HaltT
    <3>2. call' = Cut({halt[k].c}) /\ {halt[k].c} \in SUBSET Containers  BY <2>1, <3>1 DEF Kill
    <3> QED  BY <1>0, <3>2, CallTypes
  <2>2. CASE KillFails(k)
    <3>1. UNCHANGED call  BY <2>2 DEF KillFails
    <3> QED  BY <1>0, <3>1, CallTypes
  <2> QED  BY <1>13, <2>1, <2>2
<1>14. ASSUME SweepRemoves  PROVE CallT'
  <2>1. gc.c \in Containers  BY <1>0, <1>14 DEF SweepRemoves, Owned, GcT
  <2>2. call' = Cut({gc.c}) /\ {gc.c} \in SUBSET Containers  BY <1>14, <2>1 DEF SweepRemoves
  <2> QED  BY <1>0, <2>2, CallTypes
<1>15. ASSUME NEW c \in Containers, Vanishes(c)  PROVE CallT'  BY <1>0, <1>15, CallTypes DEF Vanishes
<1>16. ASSUME Restart  PROVE CallT'  BY <1>0, <1>16, CallTypes DEF Restart
<1>17. ASSUME NEW o \in Owners, Wake(o) \/ LookRoom(o) \/ LookEvict(o) \/ Evicted(o) \/ BootFails(o) \/ EnsureVolume(o) \/ Browse(o) \/ BrowseVolume(o) \/ BrowseCreate(o) \/ Destroy(o) \/ DestroyForgets(o) \/ DestroyLists(o) \/ DestroyFails(o) \/ DestroyVolume(o) \/ Ages(o) \/ SweepLooks(o)  PROVE CallT'
  <2>1. UNCHANGED call  BY <1>17 DEF Wake, LookRoom, LookEvict, Evicted, BootFails, EnsureVolume, Browse, BrowseVolume, BrowseCreate, Destroy, DestroyForgets, DestroyLists, DestroyFails, DestroyVolume, Ages, SweepLooks
  <2> QED  BY <1>0, <2>1, CallTypes
<1>18. ASSUME NEW h \in House, HouseLooks(h) \/ HousePasses(h)  PROVE CallT'
  <2>1. UNCHANGED call  BY <1>18 DEF HouseLooks, HousePasses
  <2> QED  BY <1>0, <2>1, CallTypes
<1>19. ASSUME NEW k \in Stoppers, Mark(k)  PROVE CallT'
  <2>1. UNCHANGED call  BY <1>19 DEF Mark
  <2> QED  BY <1>0, <2>1, CallTypes
<1>20. ASSUME SweepChecks \/ SweepFails  PROVE CallT'
  <2>1. UNCHANGED call  BY <1>20 DEF SweepChecks, SweepFails
  <2> QED  BY <1>0, <2>1, CallTypes
<1>21. ASSUME UNCHANGED vars  PROVE CallT'  BY <1>0, <1>21 DEF vars, CallT
<1> QED
  BY <1>1, <1>2, <1>3, <1>4, <1>5, <1>6, <1>7, <1>8, <1>9, <1>10, <1>11, <1>12, <1>13, <1>14, <1>15, <1>16, <1>17, <1>18, <1>19, <1>20, <1>21 DEF Next, StartStep, BrowseStep, HaltStep, DestroyStep

LEMMA NextTypes ==
  ASSUME TypeOK, Owned, [Next]_vars
  PROVE  TypeOK'
<1>1. (StateT /\ CallT)'  BY NextStateT, NextCallT
<1> QED  BY <1>1, TypesAreThese, PTL

-----------------------------------------------------------------------------
(* Containers and their owners.                                             *)

LEMMA NextOwned ==
  ASSUME TypeOK, Owned, [Next]_vars
  PROVE  Owned'
<1>0. StateT  BY TypesAreThese
<1> USE NoneAssumption, StopperAssumption DEF StateT
<1>1. ASSUME NEW x \in Calls, NEW o \in Owners, NEW k \in Kinds, Claim(x, o, k)  PROVE Owned'  BY <1>0, <1>1 DEF Claim, Owned, BoxT, EntryT, RecT, StartT, HaltT, GcT, DestroyT, Overlaps
<1>2. ASSUME NEW o \in Owners, Wake(o)  PROVE Owned'  BY <1>0, <1>2 DEF Wake, Owned, BoxT, EntryT, RecT, StartT, HaltT, GcT, DestroyT, Overlaps
<1>3. ASSUME NEW o \in Owners, LookRunning(o)  PROVE Owned'  BY <1>0, <1>3 DEF LookRunning, Owned, BoxT, EntryT, RecT, StartT, HaltT, GcT, DestroyT, NoStart
<1>4. ASSUME NEW o \in Owners, LookRoom(o)  PROVE Owned'  BY <1>0, <1>4 DEF LookRoom, Owned, BoxT, EntryT, RecT, StartT, HaltT, GcT, DestroyT, NeedsStart, NextStage
<1>5. ASSUME NEW o \in Owners, LookEvict(o)  PROVE Owned'  BY <1>0, <1>5 DEF LookEvict, Owned, BoxT, EntryT, RecT, StartT, HaltT, GcT, DestroyT, NeedsStart, Others, RunningSandboxes, Mapped
<1>6. ASSUME NEW o \in Owners, LookFull(o)  PROVE Owned'  BY <1>0, <1>6 DEF LookFull, Owned, BoxT, EntryT, RecT, StartT, HaltT, GcT, DestroyT, NoStart
<1>7. ASSUME NEW o \in Owners, Evicted(o)  PROVE Owned'  BY <1>0, <1>7 DEF Evicted, Owned, BoxT, EntryT, RecT, StartT, HaltT, GcT, DestroyT, NextStage
<1>8. ASSUME NEW o \in Owners, Boot(o)  PROVE Owned'  BY <1>0, <1>8 DEF Boot, Owned, BoxT, EntryT, RecT, StartT, HaltT, GcT, DestroyT, NoStart
<1>9. ASSUME NEW o \in Owners, BootFails(o)  PROVE Owned'  BY <1>0, <1>9 DEF BootFails, Owned, BoxT, EntryT, RecT, StartT, HaltT, GcT, DestroyT
<1>10. ASSUME NEW o \in Owners, EnsureVolume(o)  PROVE Owned'  BY <1>0, <1>10 DEF EnsureVolume, Owned, BoxT, EntryT, RecT, StartT, HaltT, GcT, DestroyT
<1>11. ASSUME NEW o \in Owners, Create(o)  PROVE Owned'  BY <1>0, <1>11 DEF Create, Owned, BoxT, EntryT, RecT, StartT, HaltT, GcT, DestroyT, NoStart, Fresh
<1>12. ASSUME NEW o \in Owners, CreateFails(o)  PROVE Owned'
  <2>1. CASE UNCHANGED <<box, vol>>  BY <1>0, <1>12, <2>1 DEF CreateFails, Owned, StartT, NoStart
  <2>2. ASSUME NEW c \in Containers, Fresh(c), box' = [box EXCEPT ![c] = [st |-> "down", owner |-> o]]  PROVE Owned'
      BY <1>0, <1>12, <2>2 DEF CreateFails, Owned, Fresh, BoxT, EntryT, RecT, StartT, HaltT, GcT, DestroyT, NoStart
  <2> QED  BY <1>12, <2>1, <2>2 DEF CreateFails
<1>13. ASSUME NEW o \in Owners, Browse(o)  PROVE Owned'  BY <1>0, <1>13 DEF Browse, Owned, BoxT, EntryT, RecT, StartT, HaltT, GcT, DestroyT, Overlaps
<1>14. ASSUME NEW o \in Owners, BrowseCreate(o)  PROVE Owned'
  <2>1. CASE UNCHANGED <<box, entry, vol>>  BY <1>0, <1>14, <2>1 DEF BrowseCreate, Owned
  <2>2. ASSUME NEW c \in Containers, Fresh(c), box' = [box EXCEPT ![c] = [st |-> "down", owner |-> o]],
               entry' = [entry EXCEPT ![o] = c]
        PROVE  Owned'
      BY <1>0, <1>14, <2>2 DEF BrowseCreate, Owned, Fresh, BoxT, EntryT, RecT, StartT, HaltT, GcT, DestroyT
  <2> QED  BY <1>14, <2>1, <2>2 DEF BrowseCreate
<1>15. ASSUME NEW o \in Owners, Destroy(o)  PROVE Owned'  BY <1>0, <1>15 DEF Destroy, Owned, BoxT, EntryT, RecT, StartT, HaltT, GcT, DestroyT
<1>16. ASSUME NEW o \in Owners, DestroyCloses(o)  PROVE Owned'  BY <1>0, <1>16 DEF DestroyCloses, Owned, BoxT, EntryT, RecT, StartT, HaltT, GcT, DestroyT
<1>17. ASSUME NEW o \in Owners, DestroyForgets(o)  PROVE Owned'  BY <1>0, <1>17 DEF DestroyForgets, Owned, BoxT, EntryT, RecT, StartT, HaltT, GcT, DestroyT
<1>18. ASSUME NEW o \in Owners, DestroyLists(o)  PROVE Owned'  BY <1>0, <1>18 DEF DestroyLists, Owned, BoxT, EntryT, RecT, StartT, HaltT, GcT, DestroyT, Exists
<1>19. ASSUME NEW o \in Owners, DestroyRemoves(o)  PROVE Owned'  BY <1>0, <1>19 DEF DestroyRemoves, Owned, BoxT, EntryT, RecT, StartT, HaltT, GcT, DestroyT
<1>20. ASSUME NEW o \in Owners, DestroyFails(o)  PROVE Owned'  BY <1>0, <1>20 DEF DestroyFails, Owned, BoxT, EntryT, RecT, StartT, HaltT, GcT, DestroyT, NoDestroy
<1>21. ASSUME NEW o \in Owners, DestroyVolume(o)  PROVE Owned'  BY <1>0, <1>21 DEF DestroyVolume, Owned, BoxT, EntryT, RecT, StartT, HaltT, GcT, DestroyT, NoDestroy
<1>22. ASSUME NEW o \in Owners, Stop(o)  PROVE Owned'  BY <1>0, <1>22 DEF Stop, Owned, BoxT, EntryT, RecT, StartT, HaltT, GcT, DestroyT, IsRunning
<1>23. ASSUME NEW o \in Owners, Ages(o)  PROVE Owned'  BY <1>0, <1>23 DEF Ages, Owned, BoxT, EntryT, RecT, StartT, HaltT, GcT, DestroyT
<1>24. ASSUME NEW o \in Owners, SweepLooks(o)  PROVE Owned'  BY <1>0, <1>24 DEF SweepLooks, Owned, BoxT, EntryT, RecT, StartT, HaltT, GcT, DestroyT
<1>25. ASSUME NEW h \in House, HouseLooks(h)  PROVE Owned'  BY <1>0, <1>25 DEF HouseLooks, Owned, BoxT, EntryT, RecT, StartT, HaltT, GcT, DestroyT, RunningSandboxes, Mapped
<1>26. ASSUME NEW h \in House, HouseStops(h)  PROVE Owned'  BY <1>0, <1>26 DEF HouseStops, Owned, BoxT, EntryT, RecT, StartT, HaltT, GcT, DestroyT
<1>27. ASSUME NEW h \in House, HousePasses(h)  PROVE Owned'  BY <1>0, <1>27 DEF HousePasses, Owned, BoxT, EntryT, RecT, StartT, HaltT, GcT, DestroyT, NoHalt
<1>28. ASSUME NEW k \in Stoppers, Mark(k)  PROVE Owned'  BY <1>0, <1>28 DEF Mark, Owned, BoxT, EntryT, RecT, StartT, HaltT, GcT, DestroyT
<1>29. ASSUME NEW k \in Stoppers, Kill(k) \/ KillFails(k)  PROVE Owned'
  <2>1. CASE Kill(k)  BY <1>0, <2>1 DEF Kill, Owned, BoxT, EntryT, RecT, StartT, HaltT, GcT, DestroyT, NoHalt
  <2>2. CASE KillFails(k)  BY <1>0, <2>2 DEF KillFails, Owned, BoxT, EntryT, RecT, StartT, HaltT, GcT, DestroyT, NoHalt
  <2> QED  BY <1>29, <2>1, <2>2
<1>30. ASSUME SweepChecks  PROVE Owned'  BY <1>0, <1>30 DEF SweepChecks, Owned, BoxT, EntryT, RecT, StartT, HaltT, GcT, DestroyT, NoHalt
<1>31. ASSUME SweepRemoves  PROVE Owned'  BY <1>0, <1>31 DEF SweepRemoves, Owned, BoxT, EntryT, RecT, StartT, HaltT, GcT, DestroyT, NoHalt
<1>32. ASSUME SweepFails  PROVE Owned'  BY <1>0, <1>32 DEF SweepFails, Owned, BoxT, EntryT, RecT, StartT, HaltT, GcT, DestroyT, NoHalt
<1>33. ASSUME NEW c \in Containers, Vanishes(c)  PROVE Owned'  BY <1>0, <1>33 DEF Vanishes, Owned, BoxT, EntryT, RecT, StartT, HaltT, GcT, DestroyT, Exists
<1>34. ASSUME Restart  PROVE Owned'  BY <1>0, <1>34 DEF Restart, Owned, BoxT, EntryT, RecT, StartT, HaltT, GcT, DestroyT, NoStart, NoHalt, NoDestroy, Exists
<1>35. ASSUME NEW x \in Calls, Begin(x) \/ End(x)  PROVE Owned'
    BY <1>35 DEF Begin, End, Owned
<1>36. ASSUME NEW o \in Owners, BrowseVolume(o)  PROVE Owned'
    BY <1>36 DEF BrowseVolume, Owned
<1>37. ASSUME UNCHANGED vars  PROVE Owned'  BY <1>37 DEF vars, Owned
<1> QED
  BY <1>1, <1>2, <1>3, <1>4, <1>5, <1>6, <1>7, <1>8, <1>9, <1>10, <1>11, <1>12, <1>13, <1>14, <1>15, <1>16, <1>17, <1>18, <1>19, <1>20, <1>21, <1>22, <1>23, <1>24, <1>25, <1>26, <1>27, <1>28, <1>29, <1>30, <1>31, <1>32, <1>33, <1>34, <1>35, <1>36, <1>37 DEF Next, StartStep, BrowseStep, HaltStep, DestroyStep

-----------------------------------------------------------------------------
(* The map and the stops.                                                   *)

LEMMA NextMap ==
  ASSUME TypeOK, Owned, MapIsTrue, Halted, [Next]_vars
  PROVE  (MapIsTrue /\ Halted)'
<1>0. StateT  BY TypesAreThese
<1> USE NoneAssumption, StopperAssumption, LimitAssumption DEF StateT
<1>1. ASSUME NEW o \in Owners, LookEvict(o)  PROVE (MapIsTrue /\ Halted)'
    BY <1>0, <1>1 DEF LookEvict, MapIsTrue, IsRunning, Halted, Stopping, Mapped, Owned, BoxT, EntryT, RecT, HaltT, Crossed, Others, RunningSandboxes, Stoppers
<1>2. ASSUME NEW o \in Owners, Boot(o)  PROVE (MapIsTrue /\ Halted)'
    BY <1>0, <1>2 DEF Boot, MapIsTrue, IsRunning, Halted, Stopping, Mapped, Owned, BoxT, EntryT, RecT, HaltT, NoStart
<1>3. ASSUME NEW o \in Owners, Create(o)  PROVE (MapIsTrue /\ Halted)'
    BY <1>0, <1>3 DEF Create, MapIsTrue, IsRunning, Halted, Stopping, Mapped, Owned, BoxT, EntryT, RecT, HaltT, Fresh, NoStart
<1>4. ASSUME NEW o \in Owners, CreateFails(o)  PROVE (MapIsTrue /\ Halted)'
    BY <1>0, <1>4 DEF CreateFails, MapIsTrue, IsRunning, Halted, Stopping, Mapped, Owned, BoxT, EntryT, RecT, HaltT, Fresh
<1>5. ASSUME NEW o \in Owners, BrowseCreate(o)  PROVE (MapIsTrue /\ Halted)'
  <2>1. CASE UNCHANGED <<box, entry, vol>>
      BY <1>5, <2>1 DEF BrowseCreate, MapIsTrue, IsRunning, Halted, Stopping, Mapped
  <2>2. ASSUME NEW c \in Containers, Fresh(c), box' = [box EXCEPT ![c] = [st |-> "down", owner |-> o]],
               entry' = [entry EXCEPT ![o] = c]
        PROVE  (MapIsTrue /\ Halted)'
      BY <1>0, <1>5, <2>2 DEF BrowseCreate, MapIsTrue, IsRunning, Halted, Stopping, Mapped, Owned, BoxT, EntryT, RecT, HaltT, Fresh
  <2> QED  BY <1>5, <2>1, <2>2 DEF BrowseCreate
<1>6. ASSUME NEW o \in Owners, DestroyForgets(o)  PROVE (MapIsTrue /\ Halted)'
    BY <1>0, <1>6 DEF DestroyForgets, MapIsTrue, IsRunning, Halted, Stopping, Mapped, Owned, BoxT, EntryT, RecT, HaltT
<1>7. ASSUME NEW o \in Owners, DestroyRemoves(o)  PROVE (MapIsTrue /\ Halted)'
    BY <1>0, <1>7 DEF DestroyRemoves, MapIsTrue, IsRunning, Halted, Stopping, Mapped, Owned, BoxT, EntryT, RecT, HaltT
<1>8. ASSUME NEW o \in Owners, Stop(o)  PROVE (MapIsTrue /\ Halted)'
    BY <1>0, <1>8 DEF Stop, MapIsTrue, IsRunning, Halted, Stopping, Mapped, Owned, BoxT, EntryT, RecT, HaltT, Crossed, Stoppers
<1>9. ASSUME NEW o \in Owners, Ages(o)  PROVE (MapIsTrue /\ Halted)'
    BY <1>0, <1>9 DEF Ages, MapIsTrue, IsRunning, Halted, Stopping, Mapped, Owned, BoxT, EntryT, RecT, HaltT
<1>10. ASSUME NEW h \in House, HouseLooks(h)  PROVE (MapIsTrue /\ Halted)'
    BY <1>0, <1>10 DEF HouseLooks, MapIsTrue, IsRunning, Halted, Stopping, Mapped, Owned, BoxT, EntryT, RecT, HaltT, Stoppers
<1>11. ASSUME NEW h \in House, HouseStops(h)  PROVE (MapIsTrue /\ Halted)'
    BY <1>0, <1>11 DEF HouseStops, MapIsTrue, IsRunning, Halted, Stopping, Mapped, Owned, BoxT, EntryT, RecT, HaltT, Crossed, Stoppers
<1>12. ASSUME NEW h \in House, HousePasses(h)  PROVE (MapIsTrue /\ Halted)'
    BY <1>0, <1>12 DEF HousePasses, MapIsTrue, IsRunning, Halted, Stopping, Mapped, Owned, BoxT, EntryT, RecT, HaltT, NoHalt, Stoppers
<1>13. ASSUME NEW k \in Stoppers, Mark(k)  PROVE (MapIsTrue /\ Halted)'
    BY <1>0, <1>13 DEF Mark, MapIsTrue, IsRunning, Halted, Stopping, Mapped, Owned, BoxT, EntryT, RecT, HaltT
<1>14. ASSUME NEW k \in Stoppers, Kill(k) \/ KillFails(k)  PROVE (MapIsTrue /\ Halted)'
  <2>1. CASE Kill(k)  BY <1>0, <2>1 DEF Kill, MapIsTrue, IsRunning, Halted, Stopping, Mapped, Owned, BoxT, EntryT, RecT, HaltT, NoHalt
  <2>2. CASE KillFails(k)  BY <1>0, <2>2 DEF KillFails, MapIsTrue, IsRunning, Halted, Stopping, Mapped, Owned, BoxT, EntryT, RecT, HaltT, NoHalt
  <2> QED  BY <1>14, <2>1, <2>2
<1>15. ASSUME SweepRemoves  PROVE (MapIsTrue /\ Halted)'
    BY <1>0, <1>15 DEF SweepRemoves, MapIsTrue, IsRunning, Halted, Stopping, Mapped, Owned, BoxT, EntryT, RecT, HaltT
<1>16. ASSUME NEW c \in Containers, Vanishes(c)  PROVE (MapIsTrue /\ Halted)'
    BY <1>0, <1>16 DEF Vanishes, MapIsTrue, IsRunning, Halted, Stopping, Mapped, Owned, BoxT, EntryT, RecT, HaltT, Exists
<1>17. ASSUME Restart  PROVE (MapIsTrue /\ Halted)'
  <2> DEFINE stopping == {halt[k].c : k \in {j \in Stoppers : halt[j].pc = "kill"}}
             up(c) == box[c].st = "up" /\ c \notin stopping
  <2>1. /\ box' = [c \in Containers |-> IF box[c].st = "up" /\ ~up(c) THEN [box[c] EXCEPT !.st = "down"] ELSE box[c]]
        /\ rec' = [c \in Containers |-> [run |-> up(c), old |-> FALSE]]
        /\ halt' = [k \in Stoppers |-> NoHalt]
      BY <1>17 DEF Restart
  <2>2. \E kept \in [Owners -> Containers \cup {None}] : entry' = kept  BY <1>17 DEF Restart
  <2> HIDE DEF stopping
  <2>3. \A c \in Containers : rec'[c].run => box'[c].st = "up"  BY <2>1
  <2>4. MapIsTrue'  BY <2>2, <2>3 DEF MapIsTrue, IsRunning
  <2>5. \A k \in Stoppers : ~Stopping(k)'  BY <2>1 DEF Stopping, NoHalt
  <2> QED  BY <2>4, <2>5 DEF Halted
<1>18. ASSUME NEW x \in Calls, Begin(x) \/ End(x)  PROVE (MapIsTrue /\ Halted)'
    BY <1>18 DEF Begin, End, MapIsTrue, IsRunning, Halted, Stopping, Mapped, Owned, BoxT, EntryT, RecT, HaltT
<1>19. ASSUME NEW x \in Calls, NEW o \in Owners, NEW k \in Kinds, Claim(x, o, k)  PROVE (MapIsTrue /\ Halted)'
    BY <1>19 DEF Claim, MapIsTrue, IsRunning, Halted, Stopping, Mapped, Owned, BoxT, EntryT, RecT, HaltT
<1>20. ASSUME NEW o \in Owners, Wake(o) \/ LookRunning(o) \/ LookRoom(o) \/ LookFull(o) \/ Evicted(o) \/ BootFails(o) \/ EnsureVolume(o) \/ Browse(o) \/ BrowseVolume(o) \/ Destroy(o) \/ DestroyCloses(o) \/ DestroyLists(o) \/ DestroyFails(o) \/ DestroyVolume(o) \/ SweepLooks(o)  PROVE (MapIsTrue /\ Halted)'
    BY <1>20 DEF Wake, LookRunning, LookRoom, LookFull, Evicted, BootFails, EnsureVolume, Browse, BrowseVolume, Destroy, DestroyCloses, DestroyLists, DestroyFails, DestroyVolume, SweepLooks, MapIsTrue, IsRunning, Halted, Stopping, Mapped, Owned, BoxT, EntryT, RecT, HaltT
<1>21. ASSUME SweepChecks \/ SweepFails  PROVE (MapIsTrue /\ Halted)'
    BY <1>21 DEF SweepChecks, SweepFails, MapIsTrue, IsRunning, Halted, Stopping, Mapped, Owned, BoxT, EntryT, RecT, HaltT
<1>22. ASSUME UNCHANGED vars  PROVE (MapIsTrue /\ Halted)'  BY <1>22 DEF vars, MapIsTrue, IsRunning, Halted, Stopping, Mapped, Owned, BoxT, EntryT, RecT, HaltT
<1> QED
  BY <1>1, <1>2, <1>3, <1>4, <1>5, <1>6, <1>7, <1>8, <1>9, <1>10, <1>11, <1>12, <1>13, <1>14, <1>15, <1>16, <1>17, <1>18, <1>19, <1>20, <1>21, <1>22 DEF Next, StartStep, BrowseStep, HaltStep, DestroyStep

-----------------------------------------------------------------------------
(* Who makes a container.                                                   *)

LEMMA NextOneCreator ==
  ASSUME TypeOK, OneCreator, [Next]_vars
  PROVE  OneCreator'
<1>0. StateT  BY TypesAreThese
<1> USE NoneAssumption, StopperAssumption, LimitAssumption DEF StateT
<1>1. ASSUME NEW x \in Calls, NEW o \in Owners, NEW k \in Kinds, Claim(x, o, k)  PROVE OneCreator'
    BY <1>0, <1>1 DEF Claim, OneCreator, StartT, BrowseT
<1>2. ASSUME NEW o \in Owners, Wake(o)  PROVE OneCreator'
    BY <1>0, <1>2 DEF Wake, OneCreator, StartT, BrowseT
<1>3. ASSUME NEW o \in Owners, LookRunning(o)  PROVE OneCreator'
    BY <1>0, <1>3 DEF LookRunning, OneCreator, StartT, BrowseT, NoStart
<1>4. ASSUME NEW o \in Owners, LookRoom(o)  PROVE OneCreator'
    BY <1>0, <1>4 DEF LookRoom, OneCreator, StartT, BrowseT, NeedsStart, StartWaits, NextStage
<1>5. ASSUME NEW o \in Owners, LookEvict(o)  PROVE OneCreator'
    BY <1>0, <1>5 DEF LookEvict, OneCreator, StartT, BrowseT, NeedsStart, StartWaits
<1>6. ASSUME NEW o \in Owners, LookFull(o)  PROVE OneCreator'
    BY <1>0, <1>6 DEF LookFull, OneCreator, StartT, BrowseT, NoStart
<1>7. ASSUME NEW o \in Owners, Evicted(o)  PROVE OneCreator'
    BY <1>0, <1>7 DEF Evicted, OneCreator, StartT, BrowseT, NextStage
<1>8. ASSUME NEW o \in Owners, Boot(o)  PROVE OneCreator'
    BY <1>0, <1>8 DEF Boot, OneCreator, StartT, BrowseT, NoStart
<1>9. ASSUME NEW o \in Owners, BootFails(o)  PROVE OneCreator'
    BY <1>0, <1>9 DEF BootFails, OneCreator, StartT, BrowseT
<1>10. ASSUME NEW o \in Owners, EnsureVolume(o)  PROVE OneCreator'
    BY <1>0, <1>10 DEF EnsureVolume, OneCreator, StartT, BrowseT
<1>11. ASSUME NEW o \in Owners, Create(o)  PROVE OneCreator'
    BY <1>0, <1>11 DEF Create, OneCreator, StartT, BrowseT, NoStart
<1>12. ASSUME NEW o \in Owners, CreateFails(o)  PROVE OneCreator'
    BY <1>0, <1>12 DEF CreateFails, OneCreator, StartT, BrowseT, NoStart
<1>13. ASSUME NEW o \in Owners, Browse(o)  PROVE OneCreator'
    BY <1>0, <1>13 DEF Browse, OneCreator, StartT, BrowseT
<1>14. ASSUME NEW o \in Owners, BrowseVolume(o)  PROVE OneCreator'
    BY <1>0, <1>14 DEF BrowseVolume, OneCreator, StartT, BrowseT
<1>15. ASSUME NEW o \in Owners, BrowseCreate(o)  PROVE OneCreator'
    BY <1>0, <1>15 DEF BrowseCreate, OneCreator, StartT, BrowseT
<1>16. ASSUME Restart  PROVE OneCreator'
    BY <1>0, <1>16 DEF Restart, OneCreator, StartT, BrowseT, NoStart
<1>17. ASSUME NEW x \in Calls, Begin(x) \/ End(x)  PROVE OneCreator'
    BY <1>17 DEF Begin, End, OneCreator, StartT, BrowseT
<1>18. ASSUME NEW o \in Owners, Destroy(o) \/ DestroyCloses(o) \/ DestroyForgets(o) \/ DestroyLists(o) \/ DestroyRemoves(o) \/ DestroyFails(o) \/ DestroyVolume(o) \/ Stop(o) \/ Ages(o) \/ SweepLooks(o)  PROVE OneCreator'
    BY <1>18 DEF Destroy, DestroyCloses, DestroyForgets, DestroyLists, DestroyRemoves, DestroyFails, DestroyVolume, Stop, Ages, SweepLooks, OneCreator, StartT, BrowseT
<1>19. ASSUME NEW h \in House, HouseLooks(h) \/ HouseStops(h) \/ HousePasses(h)  PROVE OneCreator'
    BY <1>19 DEF HouseLooks, HouseStops, HousePasses, OneCreator, StartT, BrowseT
<1>20. ASSUME NEW k \in Stoppers, Mark(k) \/ Kill(k) \/ KillFails(k)  PROVE OneCreator'
    BY <1>20 DEF Mark, Kill, KillFails, OneCreator, StartT, BrowseT
<1>21. ASSUME SweepChecks \/ SweepRemoves \/ SweepFails  PROVE OneCreator'
    BY <1>21 DEF SweepChecks, SweepRemoves, SweepFails, OneCreator, StartT, BrowseT
<1>22. ASSUME NEW c \in Containers, Vanishes(c)  PROVE OneCreator'
    BY <1>22 DEF Vanishes, OneCreator, StartT, BrowseT
<1>23. ASSUME UNCHANGED vars  PROVE OneCreator'  BY <1>23 DEF vars, OneCreator, StartT, BrowseT
<1> QED
  BY <1>1, <1>2, <1>3, <1>4, <1>5, <1>6, <1>7, <1>8, <1>9, <1>10, <1>11, <1>12, <1>13, <1>14, <1>15, <1>16, <1>17, <1>18, <1>19, <1>20, <1>21, <1>22, <1>23 DEF Next, StartStep, BrowseStep, HaltStep, DestroyStep

-----------------------------------------------------------------------------
(* A destroy.                                                               *)

LEMMA NextAlone ==
  ASSUME TypeOK, Owned, Alone, [Next]_vars
  PROVE  Alone'
<1>0. StateT  BY TypesAreThese
<1> USE NoneAssumption, StopperAssumption, LimitAssumption DEF StateT
<1>1. ASSUME NEW x \in Calls, NEW o \in Owners, NEW k \in Kinds, Claim(x, o, k)  PROVE Alone'
  <2>1. /\ \A p \in Owners : p # o => destroy'[p] = destroy[p]
        /\ destroy'[o].pc = destroy[o].pc /\ destroy'[o].ids = destroy[o].ids
        /\ destroy'[o].alone => destroy[o].alone /\ destroy[o].pc = "none"
    BY <1>0, <1>1 DEF Claim, Overlaps, DestroyT
  <2>2. UNCHANGED box /\ \A p \in Owners : p # o => start'[p] = start[p]  BY <1>0, <1>1 DEF Claim, StartT, BrowseT
  <2>3. UNCHANGED browse  BY <1>1 DEF Claim
  <2> QED  BY <2>1, <2>2, <2>3 DEF Alone, Exists
<1>2. ASSUME NEW o \in Owners, Wake(o)  PROVE Alone'
  <2>1. /\ \A p \in Owners : p # o => destroy'[p] = destroy[p]
        /\ destroy'[o].pc = destroy[o].pc /\ destroy'[o].ids = destroy[o].ids
        /\ destroy'[o].alone => destroy[o].alone /\ destroy[o].pc = "none"
    BY <1>0, <1>2 DEF Wake, Overlaps, DestroyT
  <2>2. UNCHANGED box /\ \A p \in Owners : p # o => start'[p] = start[p]  BY <1>0, <1>2 DEF Wake, StartT, BrowseT
  <2>3. UNCHANGED browse  BY <1>2 DEF Wake
  <2> QED  BY <2>1, <2>2, <2>3 DEF Alone, Exists
<1>3. ASSUME NEW o \in Owners, LookRunning(o)  PROVE Alone'
    BY <1>0, <1>3 DEF LookRunning, Alone, Exists, Owned, BoxT, StartT, BrowseT, DestroyT, NoStart
<1>4. ASSUME NEW o \in Owners, LookRoom(o)  PROVE Alone'
  <2>1. /\ start[o].pc = "look" /\ UNCHANGED <<box, browse, destroy>>
        /\ \A p \in Owners : p # o => start'[p] = start[p]
    BY <1>0, <1>4 DEF LookRoom, NeedsStart, StartT
  <2>2. destroy[o].alone => destroy[o].pc \notin {"close", "list", "remove", "volume"}  BY <2>1 DEF Alone
  <2> QED  BY <2>1, <2>2 DEF Alone, Exists
<1>5. ASSUME NEW o \in Owners, LookEvict(o)  PROVE Alone'
  <2>1. /\ start[o].pc = "look" /\ UNCHANGED <<box, browse, destroy>>
        /\ \A p \in Owners : p # o => start'[p] = start[p]
    BY <1>0, <1>5 DEF LookEvict, NeedsStart, StartT
  <2>2. destroy[o].alone => destroy[o].pc \notin {"close", "list", "remove", "volume"}  BY <2>1 DEF Alone
  <2> QED  BY <2>1, <2>2 DEF Alone, Exists
<1>6. ASSUME NEW o \in Owners, LookFull(o)  PROVE Alone'
    BY <1>0, <1>6 DEF LookFull, Alone, Exists, Owned, BoxT, StartT, BrowseT, DestroyT, NoStart
<1>7. ASSUME NEW o \in Owners, Evicted(o)  PROVE Alone'
    BY <1>0, <1>7 DEF Evicted, Alone, Exists, Owned, BoxT, StartT, BrowseT, DestroyT
<1>8. ASSUME NEW o \in Owners, Boot(o)  PROVE Alone'
    BY <1>0, <1>8 DEF Boot, Alone, Exists, Owned, BoxT, StartT, BrowseT, DestroyT, NoStart
<1>9. ASSUME NEW o \in Owners, BootFails(o)  PROVE Alone'
    BY <1>0, <1>9 DEF BootFails, Alone, Exists, Owned, BoxT, StartT, BrowseT, DestroyT
<1>10. ASSUME NEW o \in Owners, EnsureVolume(o)  PROVE Alone'
    BY <1>0, <1>10 DEF EnsureVolume, Alone, Exists, Owned, BoxT, StartT, BrowseT, DestroyT
<1>11. ASSUME NEW o \in Owners, Create(o)  PROVE Alone'
    BY <1>0, <1>11 DEF Create, Alone, Exists, Owned, BoxT, StartT, BrowseT, DestroyT, NoStart, Fresh
<1>12. ASSUME NEW o \in Owners, CreateFails(o)  PROVE Alone'
  <2>1. /\ start[o].pc = "create" /\ UNCHANGED <<destroy, browse>>
        /\ \A p \in Owners : p # o => start'[p] = start[p]
    BY <1>0, <1>12 DEF CreateFails, StartT, BrowseT
  <2>2. destroy[o].alone => destroy[o].pc \notin {"close", "list", "remove", "volume"}  BY <2>1 DEF Alone
  <2>3. \A c \in Containers : box'[c].owner # o => box'[c] = box[c]
    <3>1. CASE UNCHANGED box  BY <3>1
    <3>2. ASSUME NEW c \in Containers, box' = [box EXCEPT ![c] = [st |-> "down", owner |-> o]]
          PROVE  \A d \in Containers : box'[d].owner # o => box'[d] = box[d]
      BY <1>0, <3>2 DEF BoxT
    <3> QED  BY <1>12, <3>1, <3>2 DEF CreateFails
  <2> QED  BY <2>1, <2>2, <2>3 DEF Alone, Exists
<1>13. ASSUME NEW o \in Owners, Browse(o)  PROVE Alone'
  <2>1. /\ \A p \in Owners : p # o => destroy'[p] = destroy[p]
        /\ destroy'[o].pc = destroy[o].pc /\ destroy'[o].ids = destroy[o].ids
        /\ destroy'[o].alone => destroy[o].alone /\ destroy[o].pc = "none"
    BY <1>0, <1>13 DEF Browse, Overlaps, DestroyT
  <2>2. UNCHANGED box /\ \A p \in Owners : p # o => browse'[p] = browse[p]  BY <1>0, <1>13 DEF Browse, StartT, BrowseT
  <2>3. UNCHANGED start  BY <1>13 DEF Browse
  <2> QED  BY <2>1, <2>2, <2>3 DEF Alone, Exists
<1>14. ASSUME NEW o \in Owners, BrowseVolume(o)  PROVE Alone'
    BY <1>0, <1>14 DEF BrowseVolume, Alone, Exists, Owned, BoxT, StartT, BrowseT, DestroyT
<1>15. ASSUME NEW o \in Owners, BrowseCreate(o)  PROVE Alone'
  <2>1. /\ browse[o] = "create" /\ UNCHANGED <<destroy, start>>
        /\ \A p \in Owners : p # o => browse'[p] = browse[p]
    BY <1>0, <1>15 DEF BrowseCreate, StartT, BrowseT
  <2>2. destroy[o].alone => destroy[o].pc \notin {"close", "list", "remove", "volume"}  BY <2>1 DEF Alone
  <2>3. \A c \in Containers : box'[c].owner # o => box'[c] = box[c]
    <3>1. CASE UNCHANGED box  BY <3>1
    <3>2. ASSUME NEW c \in Containers, box' = [box EXCEPT ![c] = [st |-> "down", owner |-> o]]
          PROVE  \A d \in Containers : box'[d].owner # o => box'[d] = box[d]
      BY <1>0, <3>2 DEF BoxT
    <3> QED  BY <1>15, <3>1, <3>2 DEF BrowseCreate
  <2> QED  BY <2>1, <2>2, <2>3 DEF Alone, Exists
<1>16. ASSUME NEW o \in Owners, Destroy(o)  PROVE Alone'
    BY <1>0, <1>16 DEF Destroy, Alone, Exists, Owned, BoxT, StartT, BrowseT, DestroyT
<1>17. ASSUME NEW o \in Owners, DestroyCloses(o)  PROVE Alone'
    BY <1>0, <1>17 DEF DestroyCloses, Alone, Exists, Owned, BoxT, StartT, BrowseT, DestroyT
<1>18. ASSUME NEW o \in Owners, DestroyForgets(o)  PROVE Alone'
    BY <1>0, <1>18 DEF DestroyForgets, Alone, Exists, Owned, BoxT, StartT, BrowseT, DestroyT
<1>19. ASSUME NEW o \in Owners, DestroyLists(o)  PROVE Alone'
    BY <1>0, <1>19 DEF DestroyLists, Alone, Exists, Owned, BoxT, StartT, BrowseT, DestroyT
<1>20. ASSUME NEW o \in Owners, DestroyRemoves(o)  PROVE Alone'
    BY <1>0, <1>20 DEF DestroyRemoves, Alone, Exists, Owned, BoxT, StartT, BrowseT, DestroyT
<1>21. ASSUME NEW o \in Owners, DestroyFails(o)  PROVE Alone'
    BY <1>0, <1>21 DEF DestroyFails, Alone, Exists, Owned, BoxT, StartT, BrowseT, DestroyT, NoDestroy
<1>22. ASSUME NEW o \in Owners, DestroyVolume(o)  PROVE Alone'
    BY <1>0, <1>22 DEF DestroyVolume, Alone, Exists, Owned, BoxT, StartT, BrowseT, DestroyT, NoDestroy
<1>23. ASSUME NEW k \in Stoppers, Kill(k) \/ KillFails(k)  PROVE Alone'
  <2>1. CASE Kill(k)  BY <1>0, <2>1 DEF Kill, Alone, Exists, Owned, BoxT, StartT, BrowseT, DestroyT, HaltT, NoHalt
  <2>2. CASE KillFails(k)  BY <1>0, <2>2 DEF KillFails, Alone, Exists, Owned, BoxT, StartT, BrowseT, DestroyT, HaltT, NoHalt
  <2> QED  BY <1>23, <2>1, <2>2
<1>24. ASSUME SweepRemoves  PROVE Alone'
    BY <1>0, <1>24 DEF SweepRemoves, Alone, Exists, Owned, BoxT, StartT, BrowseT, DestroyT, GcT
<1>25. ASSUME NEW c \in Containers, Vanishes(c)  PROVE Alone'
    BY <1>0, <1>25 DEF Vanishes, Alone, Exists, Owned, BoxT, StartT, BrowseT, DestroyT
<1>26. ASSUME Restart  PROVE Alone'
    BY <1>0, <1>26 DEF Restart, Alone, Exists, Owned, BoxT, StartT, BrowseT, DestroyT, NoDestroy
<1>27. ASSUME NEW x \in Calls, Begin(x) \/ End(x)  PROVE Alone'
    BY <1>27 DEF Begin, End, Alone, Exists, Owned, BoxT, StartT, BrowseT, DestroyT
<1>28. ASSUME NEW o \in Owners, Stop(o) \/ Ages(o) \/ SweepLooks(o)  PROVE Alone'
    BY <1>28 DEF Stop, Ages, SweepLooks, Alone, Exists, Owned, BoxT, StartT, BrowseT, DestroyT
<1>29. ASSUME NEW h \in House, HouseLooks(h) \/ HouseStops(h) \/ HousePasses(h)  PROVE Alone'
    BY <1>29 DEF HouseLooks, HouseStops, HousePasses, Alone, Exists, Owned, BoxT, StartT, BrowseT, DestroyT
<1>30. ASSUME NEW k \in Stoppers, Mark(k)  PROVE Alone'
    BY <1>30 DEF Mark, Alone, Exists, Owned, BoxT, StartT, BrowseT, DestroyT
<1>31. ASSUME SweepChecks \/ SweepFails  PROVE Alone'
    BY <1>31 DEF SweepChecks, SweepFails, Alone, Exists, Owned, BoxT, StartT, BrowseT, DestroyT
<1>32. ASSUME UNCHANGED vars  PROVE Alone'  BY <1>32 DEF vars, Alone, Exists, Owned, BoxT, StartT, BrowseT, DestroyT
<1> QED
  BY <1>1, <1>2, <1>3, <1>4, <1>5, <1>6, <1>7, <1>8, <1>9, <1>10, <1>11, <1>12, <1>13, <1>14, <1>15, <1>16, <1>17, <1>18, <1>19, <1>20, <1>21, <1>22, <1>23, <1>24, <1>25, <1>26, <1>27, <1>28, <1>29, <1>30, <1>31, <1>32 DEF Next, StartStep, BrowseStep, HaltStep, DestroyStep

-----------------------------------------------------------------------------
(* The limit.                                                               *)

LEMMA Smaller ==
  ASSUME NEW S, NEW T \in SUBSET S, IsFiniteSet(S)
  PROVE  IsFiniteSet(T) /\ Cardinality(T) \in Nat /\ Cardinality(S) \in Nat /\ Cardinality(T) <= Cardinality(S)
BY FS_Subset, FS_CardinalityType

LEMMA FewRun ==
  ASSUME EntryT
  PROVE  IsFiniteSet(RunningSandboxes) /\ \A o \in Owners : Others(o) \in SUBSET RunningSandboxes /\ Remain(o) \in SUBSET RunningSandboxes
<1>1. RunningSandboxes \in SUBSET Containers  BY DEF EntryT, RunningSandboxes, Mapped
<1>2. IsFiniteSet(RunningSandboxes)  BY <1>1, BoundsAssumption, FS_Subset
<1> QED  BY <1>2 DEF Others, Remain

\* What a step does that starts nothing: no more sandboxes run, and no start-up passes its check.
Fewer ==
  /\ excess' = excess
  /\ \A c \in RunningSandboxes' : c \in RunningSandboxes /\ box'[c].owner = box[c].owner
  /\ \A o \in Admitted' : /\ o \in Admitted
                          /\ Frees(o) => \/ Frees(o)' /\ halt'[o].c = halt[o].c
                                         \/ halt[o].c \notin RunningSandboxes'

LEMMA FewerRun ==
  ASSUME EntryT, RestT, Room, Fewer
  PROVE  Room'
<1>1. RunningSandboxes' \in SUBSET RunningSandboxes  BY DEF Fewer
<1>2. LimitKept'
  <2>1. Cardinality(RunningSandboxes') <= Cardinality(RunningSandboxes)
        /\ Cardinality(RunningSandboxes') \in Nat /\ Cardinality(RunningSandboxes) \in Nat
    BY <1>1, FewRun, Smaller
  <2> QED  BY <2>1, LimitAssumption DEF Room, LimitKept, Fewer
<1>3. ASSUME NEW o \in Admitted', ~excess  PROVE HasRoom(o)'
  <2>0. o \in Owners /\ o \in Admitted  BY <1>3 DEF Fewer, Admitted
  <2>1. Others(o)' \in SUBSET Others(o)  BY DEF Fewer, Others
  <2>2. Remain(o)' \in SUBSET Remain(o)
    <3>1. CASE ~Frees(o)  BY <2>1, <3>1 DEF Remain
    <3>2. CASE Frees(o) /\ Frees(o)' /\ halt'[o].c = halt[o].c  BY <2>1, <3>2 DEF Remain
    <3>3. CASE Frees(o) /\ halt[o].c \notin RunningSandboxes'  BY <2>1, <3>3 DEF Remain, Others
    <3> QED  BY <1>3, <3>1, <3>2, <3>3 DEF Fewer
  <2>3. IsFiniteSet(Remain(o))  BY <2>0, FewRun, FS_Subset
  <2>4. Cardinality(Remain(o)') <= Cardinality(Remain(o)) /\ Cardinality(Remain(o)') \in Nat /\ Cardinality(Remain(o)) \in Nat
    BY <2>2, <2>3, Smaller
  <2>5. HasRoom(o)  BY <1>3, <2>0 DEF Room
  <2> QED  BY <2>4, <2>5, LimitAssumption DEF HasRoom
<1> QED  BY <1>2, <1>3 DEF Room, Fewer

\* A start-up that ends adds its own sandbox, and had room for it.
LEMMA OneMoreRuns ==
  ASSUME EntryT, RestT, Room, excess' = excess, NEW o \in Admitted, start[o].pc # "evict",
         Admitted' \in SUBSET (Admitted \ {o}),
         NEW c, RunningSandboxes' \in SUBSET (Others(o) \cup {c})
  PROVE  Room'
<1>0. o \in Owners  BY DEF Admitted
<1>1. IsFiniteSet(Others(o))  BY <1>0, FewRun, FS_Subset
<1>2. /\ IsFiniteSet(Others(o) \cup {c}) /\ Cardinality(Others(o)) \in Nat
      /\ Cardinality(Others(o) \cup {c}) = IF c \in Others(o) THEN Cardinality(Others(o)) ELSE Cardinality(Others(o)) + 1
  BY <1>1, FS_AddElement, FS_CardinalityType
<1>3. /\ Cardinality(RunningSandboxes') \in Nat
      /\ Cardinality(RunningSandboxes') <= Cardinality(Others(o)) + 1
  <2>1. /\ Cardinality(RunningSandboxes') \in Nat
        /\ Cardinality(RunningSandboxes') <= Cardinality(Others(o) \cup {c})
    BY <1>2, Smaller
  <2> QED  BY <1>2, <2>1
<1>4. ~excess => Cardinality(Others(o)) < MaxRunning  BY DEF Room, HasRoom, Remain, Frees
<1>5. LimitKept'  BY <1>2, <1>3, <1>4, LimitAssumption DEF LimitKept
<1>6. ~excess => Admitted' = {}  BY DEF Room
<1> QED  BY <1>5, <1>6 DEF Room

LEMMA NextRoom ==
  ASSUME TypeOK, Owned, Room, [Next]_vars
  PROVE  Room'
<1>0. StateT  BY TypesAreThese
<1> USE NoneAssumption, StopperAssumption DEF StateT
<1>1. ASSUME NEW x \in Calls, NEW o \in Owners, NEW k \in Kinds, Claim(x, o, k)  PROVE Room'
  <2>1. Fewer
    BY <1>0, <1>1 DEF Claim, Fewer, Frees, RunningSandboxes, Mapped, Admitted, BoxT, EntryT, RecT, StartT, HaltT, Stoppers
  <2> QED  BY <1>0, <2>1, FewerRun
<1>2. ASSUME NEW o \in Owners, Wake(o)  PROVE Room'
  <2>1. Fewer
    BY <1>0, <1>2 DEF Wake, Fewer, Frees, RunningSandboxes, Mapped, Admitted, BoxT, EntryT, RecT, StartT, HaltT, Stoppers
  <2> QED  BY <1>0, <2>1, FewerRun
<1>3. ASSUME NEW o \in Owners, LookRunning(o)  PROVE Room'
  <2>1. Fewer
    BY <1>0, <1>3 DEF LookRunning, Fewer, Frees, RunningSandboxes, Mapped, Admitted, BoxT, EntryT, RecT, StartT, HaltT, Stoppers, NoStart
  <2> QED  BY <1>0, <2>1, FewerRun
<1>4. ASSUME NEW o \in Owners, LookRoom(o)  PROVE Room'
  <2>1. /\ start[o].pc = "look" /\ UNCHANGED <<box, entry, rec, halt>> /\ excess' = (excess \/ Admitted # {})
        /\ \A p \in Owners : p # o => start'[p] = start[p]
        /\ start'[o].pc \in {"boot", "volume"} /\ Cardinality(Others(o)) < MaxRunning
    BY <1>0, <1>4 DEF LookRoom, NeedsStart, NextStage, StartT
  <2>2. RunningSandboxes' = RunningSandboxes /\ Others(o)' = Others(o)  BY <2>1 DEF RunningSandboxes, Mapped, Others
  <2>3. LimitKept'  BY <2>1, <2>2 DEF LimitKept, Room, RestT
  <2>4. ~excess' => ~excess /\ \A p \in Admitted' : p = o  BY <2>1 DEF Admitted, RestT
  <2>5. HasRoom(o)'  BY <2>1, <2>2 DEF HasRoom, Remain, Frees
  <2> QED  BY <2>3, <2>4, <2>5 DEF Room
<1>5. ASSUME NEW o \in Owners, LookEvict(o)  PROVE Room'
  <2>1. /\ start[o].pc = "look" /\ UNCHANGED <<box, entry, rec>> /\ excess' = (excess \/ Admitted # {})
        /\ \A p \in Owners : p # o => start'[p] = start[p]
        /\ start'[o].pc = "evict"
    BY <1>0, <1>5 DEF LookEvict, NeedsStart, StartT
  <2>2. RunningSandboxes' = RunningSandboxes /\ Others(o)' = Others(o)  BY <2>1 DEF RunningSandboxes, Mapped, Others
  <2>3. LimitKept'  BY <2>1, <2>2 DEF LimitKept, Room, RestT
  <2>4. ~excess' => ~excess /\ \A p \in Admitted' : p = o  BY <2>1 DEF Admitted, RestT
  <2>5. ~excess => HasRoom(o)'
    <3>1. PICK v \in Others(o) : halt' = [halt EXCEPT ![o] = [pc |-> "close", c |-> v]]  BY <1>5 DEF LookEvict
    <3>2. halt'[o].pc = "close" /\ halt'[o].c = v  BY <1>0, <3>1 DEF HaltT, Stoppers
    <3>3. Remain(o)' = Others(o) \ {v}  BY <2>1, <2>2, <3>2 DEF Remain, Frees
    <3>4. IsFiniteSet(Others(o)) /\ IsFiniteSet(RunningSandboxes)  BY <1>0, FewRun, FS_Subset
    <3>5. Cardinality(Others(o) \ {v}) = Cardinality(Others(o)) - 1  BY <3>1, <3>4, FS_RemoveElement
    <3>6. /\ Cardinality(Others(o)) \in Nat /\ Cardinality(RunningSandboxes) \in Nat
          /\ Cardinality(Others(o)) <= Cardinality(RunningSandboxes)
      BY <1>0, <3>4, FewRun, Smaller
    <3>7. ~excess => Cardinality(RunningSandboxes) <= MaxRunning  BY DEF Room, LimitKept
    <3> QED  BY <3>3, <3>5, <3>6, <3>7, LimitAssumption DEF HasRoom
  <2> QED  BY <2>3, <2>4, <2>5 DEF Room
<1>6. ASSUME NEW o \in Owners, LookFull(o)  PROVE Room'
  <2>1. Fewer
    BY <1>0, <1>6 DEF LookFull, Fewer, Frees, RunningSandboxes, Mapped, Admitted, BoxT, EntryT, RecT, StartT, HaltT, Stoppers, NoStart
  <2> QED  BY <1>0, <2>1, FewerRun
<1>7. ASSUME NEW o \in Owners, Evicted(o)  PROVE Room'
  <2>1. Fewer
    BY <1>0, <1>7 DEF Evicted, Fewer, Frees, RunningSandboxes, Mapped, Admitted, BoxT, EntryT, RecT, StartT, HaltT, Stoppers, NextStage
  <2> QED  BY <1>0, <2>1, FewerRun
<1>8. ASSUME NEW o \in Owners, Boot(o)  PROVE Room'
  <2> DEFINE c == start[o].old
  <2>1. /\ o \in Admitted /\ start[o].pc = "boot" /\ excess' = excess
        /\ c \in Containers /\ box[c].owner = o
        /\ \A p \in Owners : p # o => start'[p] = start[p]
        /\ start'[o].pc = "none" /\ UNCHANGED entry
        /\ \A d \in Containers : d # c => rec'[d] = rec[d]
    BY <1>0, <1>8 DEF Boot, Owned, Admitted, StartT, RecT, NoStart
  <2>2. Admitted' \in SUBSET (Admitted \ {o})  BY <2>1 DEF Admitted
  <2>3. RunningSandboxes' \in SUBSET (Others(o) \cup {entry'[o]})
    BY <1>0, <2>1 DEF RunningSandboxes, Mapped, Others, Owned, EntryT
  <2> QED  BY <1>0, <2>1, <2>2, <2>3, OneMoreRuns
<1>9. ASSUME NEW o \in Owners, BootFails(o)  PROVE Room'
  <2>1. Fewer
    BY <1>0, <1>9 DEF BootFails, Fewer, Frees, RunningSandboxes, Mapped, Admitted, BoxT, EntryT, RecT, StartT, HaltT, Stoppers
  <2> QED  BY <1>0, <2>1, FewerRun
<1>10. ASSUME NEW o \in Owners, EnsureVolume(o)  PROVE Room'
  <2>1. Fewer
    BY <1>0, <1>10 DEF EnsureVolume, Fewer, Frees, RunningSandboxes, Mapped, Admitted, BoxT, EntryT, RecT, StartT, HaltT, Stoppers
  <2> QED  BY <1>0, <2>1, FewerRun
<1>11. ASSUME NEW o \in Owners, Create(o)  PROVE Room'
  <2>1. PICK c \in Containers : /\ Fresh(c)
                                /\ box' = [box EXCEPT ![c] = [st |-> "up", owner |-> o]]
                                /\ rec' = [rec EXCEPT ![c].run = TRUE]
                                /\ entry' = [entry EXCEPT ![o] = c]
    BY <1>11 DEF Create
  <2>2. /\ o \in Admitted /\ start[o].pc = "create" /\ excess' = excess
        /\ \A p \in Owners : p # o => start'[p] = start[p] /\ entry'[p] = entry[p]
        /\ start'[o].pc = "none" /\ entry'[o] = c
        /\ \A d \in Containers : d # c => rec'[d] = rec[d]
    BY <1>0, <1>11, <2>1 DEF Create, Admitted, StartT, EntryT, RecT, NoStart
  <2>3. Admitted' \in SUBSET (Admitted \ {o})  BY <2>2 DEF Admitted
  <2>4. RunningSandboxes' \in SUBSET (Others(o) \cup {c})
    BY <1>0, <2>2 DEF RunningSandboxes, Mapped, Others, Owned, EntryT
  <2> QED  BY <1>0, <2>2, <2>3, <2>4, OneMoreRuns
<1>12. ASSUME NEW o \in Owners, CreateFails(o)  PROVE Room'
  <2>1. CASE UNCHANGED <<box, vol>>
    <3>1. Fewer  BY <1>0, <1>12, <2>1 DEF CreateFails, Fewer, Frees, RunningSandboxes, Mapped, Admitted, StartT, NoStart
    <3> QED  BY <1>0, <3>1, FewerRun
  <2>2. ASSUME NEW c \in Containers, Fresh(c), box' = [box EXCEPT ![c] = [st |-> "down", owner |-> o]]
        PROVE  Room'
    <3>1. Fewer
      BY <1>0, <1>12, <2>2 DEF CreateFails, Fewer, Frees, Fresh, Owned, RunningSandboxes, Mapped, Admitted, BoxT, EntryT, StartT, NoStart
    <3> QED  BY <1>0, <3>1, FewerRun
  <2> QED  BY <1>12, <2>1, <2>2 DEF CreateFails
<1>13. ASSUME NEW o \in Owners, BrowseCreate(o)  PROVE Room'
  <2>1. CASE UNCHANGED <<box, entry, vol>>
    <3>1. Fewer  BY <1>0, <1>13, <2>1 DEF BrowseCreate, Fewer, Frees, RunningSandboxes, Mapped, Admitted, StartT, NoStart
    <3> QED  BY <1>0, <3>1, FewerRun
  <2>2. ASSUME NEW c \in Containers, Fresh(c), box' = [box EXCEPT ![c] = [st |-> "down", owner |-> o]], entry' = [entry EXCEPT ![o] = c]
        PROVE  Room'
    <3>1. Fewer
      BY <1>0, <1>13, <2>2 DEF BrowseCreate, Fewer, Frees, Fresh, Owned, RunningSandboxes, Mapped, Admitted, BoxT, EntryT, StartT, NoStart
    <3> QED  BY <1>0, <3>1, FewerRun
  <2> QED  BY <1>13, <2>1, <2>2 DEF BrowseCreate
<1>14. ASSUME NEW o \in Owners, DestroyForgets(o)  PROVE Room'
  <2>1. Fewer
    BY <1>0, <1>14 DEF DestroyForgets, Fewer, Frees, RunningSandboxes, Mapped, Admitted, BoxT, EntryT, RecT, StartT, HaltT, Stoppers
  <2> QED  BY <1>0, <2>1, FewerRun
<1>15. ASSUME NEW o \in Owners, DestroyRemoves(o)  PROVE Room'
  <2>1. Fewer
    BY <1>0, <1>15 DEF DestroyRemoves, Fewer, Frees, RunningSandboxes, Mapped, Admitted, BoxT, EntryT, RecT, StartT, HaltT, Stoppers
  <2> QED  BY <1>0, <2>1, FewerRun
<1>16. ASSUME NEW o \in Owners, Stop(o)  PROVE Room'
  <2>1. Fewer
    BY <1>0, <1>16 DEF Stop, Fewer, Frees, RunningSandboxes, Mapped, Admitted, BoxT, EntryT, RecT, StartT, HaltT, Stoppers
  <2> QED  BY <1>0, <2>1, FewerRun
<1>17. ASSUME NEW o \in Owners, Ages(o)  PROVE Room'
  <2>1. Fewer
    BY <1>0, <1>17 DEF Ages, Fewer, Frees, RunningSandboxes, Mapped, Admitted, BoxT, EntryT, RecT, StartT, HaltT, Stoppers
  <2> QED  BY <1>0, <2>1, FewerRun
<1>18. ASSUME NEW h \in House, HouseLooks(h)  PROVE Room'
  <2>1. Fewer
    BY <1>0, <1>18 DEF HouseLooks, Fewer, Frees, RunningSandboxes, Mapped, Admitted, BoxT, EntryT, RecT, StartT, HaltT, Stoppers
  <2> QED  BY <1>0, <2>1, FewerRun
<1>19. ASSUME NEW h \in House, HouseStops(h)  PROVE Room'
  <2>1. Fewer
    BY <1>0, <1>19 DEF HouseStops, Fewer, Frees, RunningSandboxes, Mapped, Admitted, BoxT, EntryT, RecT, StartT, HaltT, Stoppers
  <2> QED  BY <1>0, <2>1, FewerRun
<1>20. ASSUME NEW h \in House, HousePasses(h)  PROVE Room'
  <2>1. Fewer
    BY <1>0, <1>20 DEF HousePasses, Fewer, Frees, RunningSandboxes, Mapped, Admitted, BoxT, EntryT, RecT, StartT, HaltT, Stoppers, NoHalt
  <2> QED  BY <1>0, <2>1, FewerRun
<1>21. ASSUME NEW k \in Stoppers, Mark(k)  PROVE Room'
  <2>1. Fewer
    BY <1>0, <1>21 DEF Mark, Fewer, Frees, RunningSandboxes, Mapped, Admitted, BoxT, EntryT, RecT, StartT, HaltT, Stoppers, Owned
  <2> QED  BY <1>0, <2>1, FewerRun
<1>22. ASSUME NEW k \in Stoppers, Kill(k) \/ KillFails(k)  PROVE Room'
  <2>1. Fewer
    <3>1. CASE Kill(k)
      BY <1>0, <3>1 DEF Kill, Fewer, Frees, RunningSandboxes, Mapped, Admitted, BoxT, EntryT, RecT, StartT, HaltT, Stoppers, NoHalt
    <3>2. CASE KillFails(k)
      BY <1>0, <3>2 DEF KillFails, Fewer, Frees, RunningSandboxes, Mapped, Admitted, BoxT, EntryT, RecT, StartT, HaltT, Stoppers, NoHalt
    <3> QED  BY <1>22, <3>1, <3>2
  <2> QED  BY <1>0, <2>1, FewerRun
<1>23. ASSUME SweepRemoves  PROVE Room'
  <2>1. Fewer
    BY <1>0, <1>23 DEF SweepRemoves, Fewer, Frees, RunningSandboxes, Mapped, Admitted, BoxT, EntryT, RecT, StartT, HaltT, Stoppers
  <2> QED  BY <1>0, <2>1, FewerRun
<1>24. ASSUME NEW c \in Containers, Vanishes(c)  PROVE Room'
  <2>1. Fewer
    BY <1>0, <1>24 DEF Vanishes, Fewer, Frees, RunningSandboxes, Mapped, Admitted, BoxT, EntryT, RecT, StartT, HaltT, Stoppers
  <2> QED  BY <1>0, <2>1, FewerRun
<1>25. ASSUME Restart  PROVE Room'
  <2> DEFINE stopping == {halt[k].c : k \in {j \in Stoppers : halt[j].pc = "kill"}}
             up(c) == box[c].st = "up" /\ c \notin stopping
  <2>1. PICK kept \in [Owners -> Containers \cup {None}] :
           /\ entry' = kept
           /\ excess' = (excess \/ Cardinality({c \in Adopted(kept) : up(c)}) > MaxRunning)
    BY <1>25 DEF Restart
  <2>2. rec' = [c \in Containers |-> [run |-> up(c), old |-> FALSE]] /\ start' = [o \in Owners |-> NoStart]
    BY <1>25 DEF Restart
  <2> HIDE DEF up
  <2>3. RunningSandboxes' = {c \in Adopted(kept) : up(c)}  BY <2>1, <2>2 DEF RunningSandboxes, Mapped, Adopted
  <2>4. IsFiniteSet(RunningSandboxes')
    <3>1. RunningSandboxes' \in SUBSET Containers  BY <2>3 DEF Adopted
    <3> QED  BY <3>1, BoundsAssumption, FS_Subset
  <2>5. Cardinality(RunningSandboxes') \in Nat  BY <2>4, FS_CardinalityType
  <2>6. LimitKept'
    <3> DEFINE N == Cardinality(RunningSandboxes')
    <3>1. excess' = (excess \/ N > MaxRunning)  BY <2>1, <2>3
    <3>2. N \in Nat  BY <2>5
    <3>3. LimitKept' <=> excess' \/ N <= MaxRunning  BY DEF LimitKept
    <3> HIDE DEF N
    <3>4. ~(N > MaxRunning) => N <= MaxRunning  BY <3>2, LimitAssumption
    <3> QED  BY <3>1, <3>3, <3>4
  <2>7. Admitted' = {}  BY <2>2 DEF Admitted, NoStart
  <2> QED  BY <2>6, <2>7 DEF Room
<1>26. ASSUME NEW x \in Calls, Begin(x) \/ End(x)  PROVE Room'
  <2>1. Fewer
    BY <1>26 DEF Begin, End, Fewer, Frees, RunningSandboxes, Mapped, Admitted
  <2> QED  BY <1>0, <2>1, FewerRun
<1>27. ASSUME NEW o \in Owners, Browse(o) \/ BrowseVolume(o) \/ Destroy(o) \/ DestroyCloses(o) \/ DestroyLists(o) \/ DestroyFails(o) \/ DestroyVolume(o) \/ SweepLooks(o)  PROVE Room'
  <2>1. Fewer
    BY <1>27 DEF Browse, BrowseVolume, Destroy, DestroyCloses, DestroyLists, DestroyFails, DestroyVolume, SweepLooks, Fewer, Frees, RunningSandboxes, Mapped, Admitted
  <2> QED  BY <1>0, <2>1, FewerRun
<1>28. ASSUME SweepChecks \/ SweepFails  PROVE Room'
  <2>1. Fewer
    BY <1>28 DEF SweepChecks, SweepFails, Fewer, Frees, RunningSandboxes, Mapped, Admitted
  <2> QED  BY <1>0, <2>1, FewerRun
<1>29. ASSUME UNCHANGED vars  PROVE Room'
  <2>1. Fewer  BY <1>29 DEF vars, Fewer, Frees, RunningSandboxes, Mapped, Admitted
  <2> QED  BY <1>0, <2>1, FewerRun
<1> QED
  BY <1>1, <1>2, <1>3, <1>4, <1>5, <1>6, <1>7, <1>8, <1>9, <1>10, <1>11, <1>12, <1>13, <1>14, <1>15, <1>16, <1>17, <1>18, <1>19, <1>20, <1>21, <1>22, <1>23, <1>24, <1>25, <1>26, <1>27, <1>28, <1>29 DEF Next, StartStep, BrowseStep, HaltStep, DestroyStep

-----------------------------------------------------------------------------
(* The theorems.                                                            *)

LEMMA InitIInv == Init => IInv
<1> SUFFICES ASSUME Init PROVE IInv  OBVIOUS
<1> USE NoneAssumption, LimitAssumption, BoundsAssumption DEF Init, NoStart, NoHalt, NoDestroy, Idle
<1>1. TypeOK
  <2>1. BoxT /\ VolT /\ EntryT /\ RecT  BY DEF BoxT, VolT, EntryT, RecT
  <2>2. StartT /\ BrowseT /\ HaltT  BY DEF StartT, BrowseT, HaltT
  <2>3. DestroyT /\ GcT /\ CallT  BY DEF DestroyT, GcT, CallT, Kinds
  <2>4. RestT
    <3>1. faults \in 0..Faults  OBVIOUS
    <3>2. excess \in BOOLEAN /\ blurred \subseteq Containers  OBVIOUS
    <3> QED  BY <3>1, <3>2 DEF RestT
  <2> QED  BY <2>1, <2>2, <2>3, <2>4, TypesAreThese DEF StateT
<1>2. Owned  BY DEF Owned
<1>3. MapIsTrue  BY DEF MapIsTrue, IsRunning
<1>4. Halted  BY DEF Halted, Stopping
<1>5. Room
  <2>1. RunningSandboxes = {}  BY DEF RunningSandboxes, Mapped
  <2>2. Admitted = {}  BY DEF Admitted
  <2> QED  BY <2>1, <2>2, FS_EmptySet DEF Room, LimitKept
<1>6. OneCreator  BY DEF OneCreator
<1>7. Alone  BY DEF Alone
<1> QED  BY <1>1, <1>2, <1>3, <1>4, <1>5, <1>6, <1>7 DEF IInv

LEMMA NextIInv == IInv /\ [Next]_vars => IInv'
<1> SUFFICES ASSUME IInv, [Next]_vars PROVE IInv'  OBVIOUS
<1> USE DEF IInv
<1>1. TypeOK'  BY NextTypes
<1>2. Owned'  BY NextOwned
<1>3. (MapIsTrue /\ Halted)'  BY NextMap
<1>4. Room'  BY NextRoom
<1>5. OneCreator'  BY NextOneCreator
<1>6. Alone'  BY NextAlone
<1> QED  BY <1>1, <1>2, <1>3, <1>4, <1>5, <1>6

LEMMA IInvHolds == Spec => []IInv
BY InitIInv, NextIInv, PTL DEF Spec

\* The variables keep their types, and no owner gets a container from a start-up and from the explorer at once:
\* startOrCreate awaits materializing, browseTarget awaits inflight.
THEOREM SandboxesAreSound == Spec => []Sound
<1>1. IInv => Sound  BY DEF IInv, Sound
<1> QED  BY <1>1, IInvHolds, PTL

\* The manager never counts more running sandboxes than MAX_RUNNING_SANDBOXES, unless two start-ups were past
\* ensureCapacity together or a restart adopted more: for any number of owners and any limit.
THEOREM LimitIsKept == Spec => []LimitKept
<1>1. IInv => LimitKept  BY DEF IInv, Room
<1> QED  BY <1>1, IInvHolds, PTL

\* A sandbox the manager calls running runs in Docker, whatever stops, start-ups, sweeps, destroys and restarts
\* do in between, unless it was stopped twice at once or removed behind the manager's back.
THEOREM MapStaysTrue == Spec => []MapIsTrue
<1>1. IInv => MapIsTrue  BY DEF IInv
<1> QED  BY <1>1, IInvHolds, PTL

\* A destroy that no claim and no explorer request overlapped leaves neither a container nor the volume.
THEOREM DestroysAreTotal == Spec => DestroyIsTotal
<1> DEFINE Leaves(o) == destroy[o].pc = "volume" /\ destroy'[o].pc = "none" /\ destroy[o].alone /\ faults' = faults
           Total(o) == Leaves(o) => ~vol'[o] /\ \A c \in Containers : box'[c].owner = o => box'[c].st = "gone"
<1>1. IInv /\ [Next]_vars => [\A o \in Owners : Total(o)]_vars
  <2> SUFFICES ASSUME IInv, Next, NEW p \in Owners, Leaves(p)  PROVE Total(p)  BY DEF vars
  <2>0. StateT  BY TypesAreThese DEF IInv
  <2>1. DestroyVolume(p)
    <3>0. destroy[p].pc = "volume" /\ destroy'[p].pc = "none" /\ faults' = faults  OBVIOUS
    <3>1. ASSUME NEW x \in Calls, NEW o \in Owners, NEW k \in Kinds, Claim(x, o, k)  PROVE FALSE  BY <2>0, <3>0, <3>1 DEF Claim, StateT, DestroyT, Overlaps
    <3>2. ASSUME NEW o \in Owners, Wake(o)  PROVE FALSE  BY <2>0, <3>0, <3>2 DEF Wake, StateT, DestroyT, Overlaps
    <3>3. ASSUME NEW o \in Owners, Browse(o)  PROVE FALSE  BY <2>0, <3>0, <3>3 DEF Browse, StateT, DestroyT, Overlaps
    <3>4. ASSUME NEW o \in Owners, Destroy(o)  PROVE FALSE  BY <2>0, <3>0, <3>4 DEF Destroy, StateT, DestroyT
    <3>5. ASSUME NEW o \in Owners, DestroyCloses(o)  PROVE FALSE  BY <2>0, <3>0, <3>5 DEF DestroyCloses, StateT, DestroyT
    <3>6. ASSUME NEW o \in Owners, DestroyForgets(o)  PROVE FALSE  BY <2>0, <3>0, <3>6 DEF DestroyForgets, StateT, DestroyT
    <3>7. ASSUME NEW o \in Owners, DestroyLists(o)  PROVE FALSE  BY <2>0, <3>0, <3>7 DEF DestroyLists, StateT, DestroyT
    <3>8. ASSUME NEW o \in Owners, DestroyRemoves(o)  PROVE FALSE  BY <2>0, <3>0, <3>8 DEF DestroyRemoves, StateT, DestroyT
    <3>9. ASSUME NEW o \in Owners, DestroyFails(o)  PROVE FALSE  BY <2>0, <3>0, <3>9 DEF DestroyFails, StateT, DestroyT, NoDestroy
    <3>10. ASSUME NEW o \in Owners, DestroyVolume(o), o # p  PROVE FALSE  BY <2>0, <3>0, <3>10 DEF DestroyVolume, StateT, DestroyT
    <3>11. ASSUME Restart  PROVE FALSE  BY <2>0, <3>0, <3>11, BoundsAssumption DEF Restart, Fault, StateT, RestT
    <3>12. ASSUME NEW x \in Calls, Begin(x) \/ End(x)  PROVE FALSE
      BY <3>0, <3>12 DEF Begin, End
    <3>13. ASSUME NEW o \in Owners, LookRunning(o) \/ LookRoom(o) \/ LookEvict(o) \/ LookFull(o) \/ Evicted(o) \/ Boot(o) \/ BootFails(o) \/ EnsureVolume(o) \/ Create(o) \/ CreateFails(o) \/ BrowseVolume(o) \/ BrowseCreate(o) \/ Stop(o) \/ Ages(o) \/ SweepLooks(o)  PROVE FALSE
      BY <3>0, <3>13 DEF LookRunning, LookRoom, LookEvict, LookFull, Evicted, Boot, BootFails, EnsureVolume, Create, CreateFails, BrowseVolume, BrowseCreate, Stop, Ages, SweepLooks
    <3>14. ASSUME NEW h \in House, HouseLooks(h) \/ HouseStops(h) \/ HousePasses(h)  PROVE FALSE
      BY <3>0, <3>14 DEF HouseLooks, HouseStops, HousePasses
    <3>15. ASSUME NEW k \in Stoppers, Mark(k) \/ Kill(k) \/ KillFails(k)  PROVE FALSE
      BY <3>0, <3>15 DEF Mark, Kill, KillFails
    <3>16. ASSUME SweepChecks \/ SweepRemoves \/ SweepFails  PROVE FALSE
      BY <3>0, <3>16 DEF SweepChecks, SweepRemoves, SweepFails
    <3>17. ASSUME NEW c \in Containers, Vanishes(c)  PROVE FALSE
      BY <3>0, <3>17 DEF Vanishes
    <3> QED
      BY <3>1, <3>2, <3>3, <3>4, <3>5, <3>6, <3>7, <3>8, <3>9, <3>10, <3>11, <3>12, <3>13, <3>14, <3>15, <3>16, <3>17 DEF Next, StartStep, BrowseStep, HaltStep, DestroyStep
  <2>2. \A c \in Containers : box[c].owner = p => box[c].st = "gone"  BY DEF IInv, Alone
  <2> QED  BY <2>0, <2>1, <2>2 DEF DestroyVolume, Exists, StateT, BoxT, VolT
<1> QED  BY <1>1, IInvHolds, PTL DEF Spec, DestroyIsTotal
=============================================================================
