------------------------------ MODULE Sandboxes ------------------------------
(***************************************************************************)
(* The sandbox manager (sandbox-supervisor/src/sandboxes.ts): one Docker   *)
(* container and one volume per owner.  The manager's map is a cache of    *)
(* what Docker holds; every request goes on after awaiting Docker, so two  *)
(* requests of one owner, an eviction, the sweep and a destroy interleave. *)
(* A step is the code between two awaits of Docker (awaits that wait for   *)
(* nothing outside the process are merged).  A record of the manager and   *)
(* its container share their identity: record() makes one per container.   *)
(***************************************************************************)
EXTENDS Naturals, FiniteSets

CONSTANTS Owners,      \* projects, or chats without one
          Containers,  \* containers Docker can still create (bound)
          Calls,       \* commands and rollbacks asked for (bound)
          House,       \* timers that stop sandboxes: the sweep and the CPU watchdog, and
          Disk,        \* the disk watchdog, the one that does not look for running commands
          User,        \* the explicit stop of POST /release
          MaxRunning,  \* MAX_RUNNING_SANDBOXES
          Faults,      \* restarts, containers removed by someone else and stops that fail (bound)
          Crowd,       \* upkeep operations under way together (bound)
          None

ASSUME LimitAssumption == MaxRunning \in Nat \ {0}
ASSUME BoundsAssumption == IsFiniteSet(Containers) /\ Faults \in Nat
ASSUME NoneAssumption == None \notin Containers \cup Owners
ASSUME StopperAssumption == User \notin House /\ (House \cup {User}) \cap Owners = {} /\ Disk \in House

VARIABLES box,      \* Docker: each container's state and owner
          vol,      \* Docker: which owners have a workspace volume
          entry,    \* the manager's map: the record of each owner
          rec,      \* the records: running flag; stopped for longer than the TTL
          start,    \* inflight: the start-up under way of each owner
          browse,   \* materializing: a stopped container being made for the explorer
          halt,     \* each stopSandbox under way, by who asked for it
          destroy,  \* each project deletion under way
          gc,       \* the container the sweep is removing
          call,     \* commands and rollbacks
          excess,   \* two start-ups overlapped, or a restart adopted more than the limit
          blurred,  \* containers removed behind the manager's back, or stopped by two at once
          faults    \* how many faults there were

vars == <<box, vol, entry, rec, start, browse, halt, destroy, gc, call, excess, blurred, faults>>

Stoppers == Owners \cup House \cup {User}
NoStart == [pc |-> "none", old |-> None]
NoHalt == [pc |-> "none", c |-> None]
NoDestroy == [pc |-> "none", ids |-> {}, alone |-> TRUE]
Idle == [pc |-> "idle", owner |-> None, c |-> None, kind |-> "command"]

\* Destroys, stops, timers, explorer requests and the sweep under way
Upkeep == Cardinality({o \in Owners : destroy[o].pc # "none"}) + Cardinality({o \in Owners : browse[o] # "none"})
          + Cardinality({k \in House \cup {User} : halt[k].pc # "none"}) + (IF gc.pc = "none" THEN 0 ELSE 1)
Roomy == Upkeep < Crowd
Fault == faults < Faults /\ faults' = faults + 1

Kinds == {"command", "rollback"}

TypeOK ==
  /\ box \in [Containers -> [st : {"unused", "up", "down", "gone"}, owner : Owners \cup {None}]]
  /\ vol \in [Owners -> BOOLEAN]
  /\ entry \in [Owners -> Containers \cup {None}]
  /\ rec \in [Containers -> [run : BOOLEAN, old : BOOLEAN]]
  /\ start \in [Owners -> [pc : {"none", "look", "evict", "boot", "volume", "create"},
                           old : Containers \cup {None}]]
  /\ browse \in [Owners -> {"none", "volume", "create"}]
  /\ halt \in [Stoppers -> [pc : {"none", "look", "close", "kill"},
                            c : Containers \cup {None}]]
  /\ destroy \in [Owners -> [pc : {"none", "wait", "close", "list", "remove", "volume"},
                             ids : SUBSET Containers, alone : BOOLEAN]]
  /\ gc \in [pc : {"none", "look", "remove"}, c : Containers \cup {None}]
  /\ call \in [Calls -> [pc : {"idle", "claim", "log", "runs"},
                         owner : Owners \cup {None}, c : Containers \cup {None}, kind : Kinds]]
  /\ excess \in BOOLEAN
  /\ blurred \subseteq Containers
  /\ faults \in 0..Faults

Init ==
  /\ box = [c \in Containers |-> [st |-> "unused", owner |-> None]]
  /\ vol = [o \in Owners |-> FALSE]
  /\ entry = [o \in Owners |-> None]
  /\ rec = [c \in Containers |-> [run |-> FALSE, old |-> FALSE]]
  /\ start = [o \in Owners |-> NoStart]
  /\ browse = [o \in Owners |-> "none"]
  /\ halt = [k \in Stoppers |-> NoHalt]
  /\ destroy = [o \in Owners |-> NoDestroy]
  /\ gc = NoHalt
  /\ call = [x \in Calls |-> Idle]
  /\ excess = FALSE
  /\ blurred = {}
  /\ faults = 0

-----------------------------------------------------------------------------
(* What the manager sees.                                                   *)

Mapped == {entry[o] : o \in Owners} \ {None}
IsRunning(o) == entry[o] # None /\ rec[entry[o]].run
RunningSandboxes == {c \in Mapped : rec[c].run}

BusyCalls(c) == {x \in Calls : call[x].c = c /\ call[x].pc = "runs" /\ call[x].kind = "command"}
Busy(c) == BusyCalls(c) # {}

\* Start-ups that have passed their capacity check
Admitted == {o \in Owners : start[o].pc \in {"evict", "boot", "volume", "create"}}

-----------------------------------------------------------------------------
(* claim: requests of one owner share a start-up.                           *)

\* A new start-up, or a new explorer container, while a destroy of the owner is under way
Overlaps(o) == destroy' = [destroy EXCEPT ![o].alone = @ /\ destroy[o].pc = "none"]

Claim(x, o, k) ==
  /\ call[x].pc = "idle"
  /\ call' = [call EXCEPT ![x] = [pc |-> "claim", owner |-> o, c |-> None, kind |-> k]]
  /\ start' = [start EXCEPT ![o] = IF @.pc = "none" THEN [pc |-> "look", old |-> None] ELSE @]
  /\ Overlaps(o)
  /\ UNCHANGED <<box, vol, entry, rec, browse, halt, gc, excess, blurred, faults>>

\* A claim of which nothing is followed but the start-up: /claim, a preview, a checkpoint
Wake(o) ==
  /\ start[o].pc = "none"
  /\ start' = [start EXCEPT ![o] = [pc |-> "look", old |-> None]]
  /\ Overlaps(o)
  /\ UNCHANGED <<box, vol, entry, rec, browse, halt, gc, call, excess, blurred, faults>>

\* Everyone who waited for the start-up of o continues with container c
Answered(o, c) ==
  call' = [x \in Calls |->
             IF call[x].pc = "claim" /\ call[x].owner = o
             THEN IF call[x].kind = "rollback" /\ Busy(c) THEN Idle
                  ELSE [call[x] EXCEPT !.c = c, !.pc = "log"]
             ELSE call[x]]

Refused(o) ==
  call' = [x \in Calls |-> IF call[x].pc = "claim" /\ call[x].owner = o THEN Idle ELSE call[x]]

NextStage(old) == IF old = None THEN "volume" ELSE "boot"

StartNeverWaits(o) == FALSE

\* startOrCreate awaits materializing
StartWaits(o) == browse[o] # "none"

LookRunning(o) ==
  /\ start[o].pc = "look" /\ ~StartWaits(o)
  /\ IsRunning(o)
  /\ Answered(o, entry[o])
  /\ start' = [start EXCEPT ![o] = NoStart]
  /\ UNCHANGED <<box, vol, entry, rec, browse, halt, destroy, gc, excess, blurred, faults>>

OthersIdle(o) == {c \in RunningSandboxes : box[c].owner # o /\ ~Busy(c)}

Others(o) == {c \in RunningSandboxes : box[c].owner # o}

NeedsStart(o) ==
  /\ start[o].pc = "look" /\ ~StartWaits(o)
  /\ ~IsRunning(o)

LookRoom(o) ==
  /\ NeedsStart(o)
  /\ Cardinality(Others(o)) < MaxRunning
  /\ start' = [start EXCEPT ![o] = [pc |-> NextStage(entry[o]), old |-> entry[o]]]
  /\ excess' = (excess \/ Admitted # {})
  /\ UNCHANGED <<box, vol, entry, rec, browse, halt, destroy, gc, call, blurred, faults>>

\* A stop that begins while another one of the same sandbox is under way, or once it is marked
\* stopped, may stop the container under a start-up that runs by then
Crossed(c) == blurred' = IF ~rec[c].run \/ \E k \in Stoppers : halt[k].c = c /\ halt[k].pc \in {"close", "kill"}
                         THEN blurred \cup {c} ELSE blurred

LookEvict(o) ==
  /\ NeedsStart(o)
  /\ Cardinality(Others(o)) >= MaxRunning
  /\ \E v \in Others(o) :
       /\ ~Busy(v)
       /\ halt' = [halt EXCEPT ![o] = [pc |-> "close", c |-> v]]
       /\ Crossed(v)
  /\ start' = [start EXCEPT ![o] = [pc |-> "evict", old |-> entry[o]]]
  /\ excess' = (excess \/ Admitted # {})
  /\ UNCHANGED <<box, vol, entry, rec, browse, destroy, gc, call, faults>>

LookFull(o) ==
  /\ NeedsStart(o)
  /\ Cardinality(Others(o)) >= MaxRunning
  /\ \A v \in Others(o) : Busy(v)
  /\ Refused(o)
  /\ start' = [start EXCEPT ![o] = NoStart]
  /\ UNCHANGED <<box, vol, entry, rec, browse, halt, destroy, gc, excess, blurred, faults>>

Evicted(o) ==
  /\ start[o].pc = "evict" /\ halt[o].pc = "none"
  /\ start' = [start EXCEPT ![o].pc = NextStage(start[o].old)]
  /\ UNCHANGED <<box, vol, entry, rec, browse, halt, destroy, gc, call, excess, blurred, faults>>

\* Docker refuses to start a container that runs (304) or that is gone
Boot(o) ==
  LET c == start[o].old IN
  /\ start[o].pc = "boot"
  /\ box[c].st = "down"
  /\ box' = [box EXCEPT ![c].st = "up"]
  /\ rec' = [rec EXCEPT ![c] = [run |-> TRUE, old |-> FALSE]]
  /\ start' = [start EXCEPT ![o] = NoStart]
  /\ Answered(o, c)
  /\ UNCHANGED <<vol, entry, browse, halt, destroy, gc, excess, blurred, faults>>

BootFails(o) ==
  /\ start[o].pc = "boot"
  /\ start' = [start EXCEPT ![o].pc = "volume"]
  /\ UNCHANGED <<box, vol, entry, rec, browse, halt, destroy, gc, call, excess, blurred, faults>>

EnsureVolume(o) ==
  /\ start[o].pc = "volume"
  /\ vol' = [vol EXCEPT ![o] = TRUE]
  /\ start' = [start EXCEPT ![o].pc = "create"]
  /\ UNCHANGED <<box, entry, rec, browse, halt, destroy, gc, call, excess, blurred, faults>>

Fresh(c) == box[c].st = "unused"

\* Creating a container mounts the volume, which Docker makes if a destroy took it
Create(o) ==
  /\ start[o].pc = "create"
  /\ \E c \in Containers :
       /\ Fresh(c)
       /\ box' = [box EXCEPT ![c] = [st |-> "up", owner |-> o]]
       /\ rec' = [rec EXCEPT ![c].run = TRUE]
       /\ entry' = [entry EXCEPT ![o] = c]
       /\ Answered(o, c)
  /\ vol' = [vol EXCEPT ![o] = TRUE]
  /\ start' = [start EXCEPT ![o] = NoStart]
  /\ UNCHANGED <<browse, halt, destroy, gc, excess, blurred, faults>>

\* Docker fails before or after it made the container: the one it made is left without a record
CreateFails(o) ==
  /\ start[o].pc = "create"
  /\ \/ UNCHANGED <<box, vol>>
     \/ \E c \in Containers : /\ Fresh(c)
                              /\ box' = [box EXCEPT ![c] = [st |-> "down", owner |-> o]]
                              /\ vol' = [vol EXCEPT ![o] = TRUE]
  /\ Refused(o)
  /\ start' = [start EXCEPT ![o] = NoStart]
  /\ UNCHANGED <<entry, rec, browse, halt, destroy, gc, excess, blurred, faults>>

-----------------------------------------------------------------------------
(* A command: log it, run it in a terminal.  A rollback runs outside the    *)
(* terminals, so it does not count as busy.                                 *)

Begin(x) ==
  /\ call[x].pc = "log"
  /\ call' = [call EXCEPT ![x] = IF box[call[x].c].st = "up" THEN [@ EXCEPT !.pc = "runs"] ELSE Idle]
  /\ UNCHANGED <<box, vol, entry, rec, start, browse, halt, destroy, gc, excess, blurred, faults>>

End(x) ==
  /\ call[x].pc = "runs"
  /\ call' = [call EXCEPT ![x] = Idle]
  /\ UNCHANGED <<box, vol, entry, rec, start, browse, halt, destroy, gc, excess, blurred, faults>>

\* What runs in containers cs ends without a result
Cut(cs) == [x \in Calls |-> IF call[x].pc = "runs" /\ call[x].c \in cs THEN Idle ELSE call[x]]

\* Closing the terminals cuts the commands, not what was started with a plain exec
CloseAll(c) == [x \in Calls |-> IF x \in BusyCalls(c) THEN Idle ELSE call[x]]

-----------------------------------------------------------------------------
(* stopSandbox: close the terminals, mark the record, stop the container.   *)

Stop(o) ==
  /\ Roomy
  /\ IsRunning(o) /\ halt[User].pc = "none"
  /\ halt' = [halt EXCEPT ![User] = [pc |-> "close", c |-> entry[o]]]
  /\ call' = CloseAll(entry[o])
  /\ Crossed(entry[o])
  /\ UNCHANGED <<box, vol, entry, rec, start, browse, destroy, gc, excess, faults>>

\* A timer looks at a running sandbox, and decides after an await
HouseLooks(h) ==
  /\ Roomy
  /\ halt[h].pc = "none"
  /\ \E c \in RunningSandboxes : halt' = [halt EXCEPT ![h] = [pc |-> "look", c |-> c]]
  /\ UNCHANGED <<box, vol, entry, rec, start, browse, destroy, gc, call, excess, blurred, faults>>

HouseStops(h) ==
  /\ halt[h].pc = "look"
  /\ h = Disk \/ ~Busy(halt[h].c)
  /\ halt' = [halt EXCEPT ![h].pc = "close"]
  /\ call' = CloseAll(halt[h].c)
  /\ Crossed(halt[h].c)
  /\ UNCHANGED <<box, vol, entry, rec, start, browse, destroy, gc, excess, faults>>

HousePasses(h) ==
  /\ halt[h].pc = "look"
  /\ halt' = [halt EXCEPT ![h] = NoHalt]
  /\ UNCHANGED <<box, vol, entry, rec, start, browse, destroy, gc, call, excess, blurred, faults>>

MarkForgotten(k) ==
  /\ halt[k].pc = "close"
  /\ halt' = [halt EXCEPT ![k].pc = "kill"]
  /\ UNCHANGED <<box, vol, entry, rec, start, browse, destroy, gc, call, excess, blurred, faults>>

Mark(k) ==
  /\ halt[k].pc = "close"
  /\ rec' = [rec EXCEPT ![halt[k].c] = [run |-> FALSE, old |-> FALSE]]
  /\ halt' = [halt EXCEPT ![k].pc = "kill"]
  /\ UNCHANGED <<box, vol, entry, start, browse, destroy, gc, call, excess, blurred, faults>>

\* The container stops (or is stopped, or gone): every request to stop it is served
Kill(k) ==
  LET c == halt[k].c IN
  /\ halt[k].pc = "kill"
  /\ box' = [box EXCEPT ![c].st = IF @ = "up" THEN "down" ELSE @]
  /\ call' = Cut({c})
  /\ halt' = [j \in Stoppers |-> IF halt[j].pc = "kill" /\ halt[j].c = c THEN NoHalt ELSE halt[j]]
  /\ UNCHANGED <<vol, entry, rec, start, browse, destroy, gc, excess, blurred, faults>>

\* Docker does not stop it: a warning is logged and the sandbox stays marked stopped while its container runs
KillFails(k) ==
  /\ halt[k].pc = "kill" /\ Fault
  /\ halt' = [halt EXCEPT ![k] = NoHalt]
  /\ UNCHANGED <<box, vol, entry, rec, start, browse, destroy, gc, call, excess, blurred>>

-----------------------------------------------------------------------------
(* browseTarget: a stopped container around the volume, for the explorer.   *)

Browse(o) ==
  /\ Roomy
  /\ start[o].pc = "none"              \* it awaits inflight
  /\ entry[o] = None /\ browse[o] = "none"
  /\ browse' = [browse EXCEPT ![o] = "volume"]
  /\ Overlaps(o)
  /\ UNCHANGED <<box, vol, entry, rec, start, halt, gc, call, excess, blurred, faults>>

BrowseVolume(o) ==
  /\ browse[o] = "volume"
  /\ browse' = [browse EXCEPT ![o] = IF vol[o] THEN "create" ELSE "none"]
  /\ UNCHANGED <<box, vol, entry, rec, start, halt, destroy, gc, call, excess, blurred, faults>>

BrowseCreate(o) ==
  /\ browse[o] = "create"
  /\ browse' = [browse EXCEPT ![o] = "none"]
  /\ \/ \E c \in Containers :
          /\ Fresh(c)
          /\ box' = [box EXCEPT ![c] = [st |-> "down", owner |-> o]]
          /\ entry' = [entry EXCEPT ![o] = c]
          /\ vol' = [vol EXCEPT ![o] = TRUE]
     \/ UNCHANGED <<box, entry, vol>>
  /\ UNCHANGED <<rec, start, halt, destroy, gc, call, excess, blurred, faults>>

-----------------------------------------------------------------------------
(* destroy: wait for the start-up seen, close, forget, list, remove.        *)

Destroy(o) ==
  /\ Roomy
  /\ destroy[o].pc = "none"
  /\ destroy' = [destroy EXCEPT ![o] = [pc |-> "wait", ids |-> {}, alone |-> TRUE]]
  /\ UNCHANGED <<box, vol, entry, rec, start, browse, halt, gc, call, excess, blurred, faults>>

DestroyCloses(o) ==
  /\ destroy[o].pc = "wait" /\ start[o].pc = "none" /\ browse[o] = "none"
  /\ destroy' = [destroy EXCEPT ![o].pc = IF entry[o] = None THEN "list" ELSE "close",
                                ![o].ids = {entry[o]} \ {None}]
  /\ call' = IF entry[o] = None THEN call ELSE CloseAll(entry[o])
  /\ UNCHANGED <<box, vol, entry, rec, start, browse, halt, gc, excess, blurred, faults>>

DestroyForgets(o) ==
  /\ destroy[o].pc = "close"
  /\ entry' = [entry EXCEPT ![o] = None]
  /\ destroy' = [destroy EXCEPT ![o].pc = "list"]
  /\ UNCHANGED <<box, vol, rec, start, browse, halt, gc, call, excess, blurred, faults>>

Exists(c) == box[c].st \in {"up", "down"}

DestroyListsNothing(o) ==
  /\ destroy[o].pc = "list"
  /\ destroy' = [destroy EXCEPT ![o].pc = "remove"]
  /\ UNCHANGED <<box, vol, entry, rec, start, browse, halt, gc, call, excess, blurred, faults>>

DestroyLists(o) ==
  /\ destroy[o].pc = "list"
  /\ destroy' = [destroy EXCEPT ![o].pc = "remove",
                                ![o].ids = @ \cup {c \in Containers : Exists(c) /\ box[c].owner = o}]
  /\ UNCHANGED <<box, vol, entry, rec, start, browse, halt, gc, call, excess, blurred, faults>>

DestroyRemoves(o) ==
  LET cs == destroy[o].ids IN
  /\ destroy[o].pc = "remove"
  /\ box' = [c \in Containers |-> IF c \in cs THEN [box[c] EXCEPT !.st = "gone"] ELSE box[c]]
  /\ call' = Cut(cs)
  /\ blurred' = blurred \cup (cs \cap Mapped)
  /\ destroy' = [destroy EXCEPT ![o].pc = "volume"]
  /\ UNCHANGED <<vol, entry, rec, start, browse, halt, gc, excess, faults>>

\* Docker fails to list or to remove: the request fails as it stands
DestroyFails(o) ==
  /\ destroy[o].pc \in {"list", "remove"}
  /\ destroy' = [destroy EXCEPT ![o] = [NoDestroy EXCEPT !.alone = FALSE]]
  /\ UNCHANGED <<box, vol, entry, rec, start, browse, halt, gc, call, excess, blurred, faults>>

\* Docker refuses to remove a volume that a container uses: the request fails and the volume stays
DestroyVolume(o) ==
  /\ destroy[o].pc = "volume"
  /\ vol' = [vol EXCEPT ![o] = @ /\ \E c \in Containers : Exists(c) /\ box[c].owner = o]
  /\ destroy' = [destroy EXCEPT ![o] = NoDestroy]
  /\ UNCHANGED <<box, entry, rec, start, browse, halt, gc, call, excess, blurred, faults>>

-----------------------------------------------------------------------------
(* The sweep removes containers that have been stopped for too long.        *)

Quiet(o) == /\ start[o].pc = "none" /\ browse[o] = "none" /\ destroy[o].pc = "none"
            /\ \A k \in Stoppers : halt[k].c # entry[o]

Ages(o) ==
  /\ entry[o] # None /\ ~rec[entry[o]].run /\ ~rec[entry[o]].old /\ Quiet(o)
  /\ rec' = [rec EXCEPT ![entry[o]].old = TRUE]
  /\ UNCHANGED <<box, vol, entry, start, browse, halt, destroy, gc, call, excess, blurred, faults>>

SweepLooks(o) ==
  /\ Roomy
  /\ gc.pc = "none" /\ entry[o] # None /\ rec[entry[o]].old
  /\ gc' = [pc |-> "look", c |-> entry[o]]
  /\ UNCHANGED <<box, vol, entry, rec, start, browse, halt, destroy, call, excess, blurred, faults>>

SweepChecks ==
  /\ gc.pc = "look"
  /\ gc' = IF ~rec[gc.c].run /\ rec[gc.c].old /\ start[box[gc.c].owner].pc = "none"
           THEN [gc EXCEPT !.pc = "remove"] ELSE NoHalt
  /\ UNCHANGED <<box, vol, entry, rec, start, browse, halt, destroy, call, excess, blurred, faults>>

\* Docker removes the container by force; whatever entry the owner has by now is dropped
SweepRemoves ==
  /\ gc.pc = "remove"
  /\ box' = [box EXCEPT ![gc.c].st = "gone"]
  /\ call' = Cut({gc.c})
  /\ entry' = [entry EXCEPT ![box[gc.c].owner] = None]
  /\ gc' = NoHalt
  /\ UNCHANGED <<vol, rec, start, browse, halt, destroy, excess, blurred, faults>>

SweepFails ==
  /\ gc.pc = "remove"
  /\ gc' = NoHalt
  /\ UNCHANGED <<box, vol, entry, rec, start, browse, halt, destroy, call, excess, blurred, faults>>

-----------------------------------------------------------------------------
(* The world: a container removed or stopped by someone else; the           *)
(* supervisor restarted, which adopts what it finds.                        *)

Vanishes(c) ==
  /\ Exists(c) /\ Fault
  /\ box' = [box EXCEPT ![c].st = "gone"]
  /\ call' = Cut({c})
  /\ blurred' = blurred \cup {c}
  /\ UNCHANGED <<vol, entry, rec, start, browse, halt, destroy, gc, excess>>

Adopted(kept) == {c \in Containers : \E o \in Owners : kept[o] = c}

Restart ==
  LET stopping == {halt[k].c : k \in {j \in Stoppers : halt[j].pc = "kill"}}
      up(c) == box[c].st = "up" /\ c \notin stopping
  IN
  /\ Fault
  /\ box' = [c \in Containers |-> IF box[c].st = "up" /\ ~up(c) THEN [box[c] EXCEPT !.st = "down"] ELSE box[c]]
  /\ \E kept \in [Owners -> Containers \cup {None}] :
       /\ \A o \in Owners : /\ kept[o] # None => Exists(kept[o]) /\ box[kept[o]].owner = o
                            /\ kept[o] = None => \A c \in Containers : Exists(c) => box[c].owner # o
       /\ entry' = kept
       /\ excess' = (excess \/ Cardinality({c \in Adopted(kept) : up(c)}) > MaxRunning)
  /\ rec' = [c \in Containers |-> [run |-> up(c), old |-> FALSE]]
  /\ start' = [o \in Owners |-> NoStart]
  /\ browse' = [o \in Owners |-> "none"]
  /\ halt' = [k \in Stoppers |-> NoHalt]
  /\ destroy' = [o \in Owners |-> NoDestroy]
  /\ gc' = NoHalt
  /\ call' = [x \in Calls |-> Idle]
  /\ UNCHANGED <<vol, blurred>>

-----------------------------------------------------------------------------

StartStep(o) == \/ LookRunning(o) \/ LookRoom(o) \/ LookEvict(o) \/ LookFull(o) \/ Evicted(o)
                \/ Boot(o) \/ BootFails(o) \/ EnsureVolume(o) \/ Create(o) \/ CreateFails(o)
BrowseStep(o) == BrowseVolume(o) \/ BrowseCreate(o)
HaltStep(k) == Mark(k) \/ Kill(k) \/ KillFails(k)
DestroyStep(o) == \/ DestroyCloses(o) \/ DestroyForgets(o) \/ DestroyLists(o)
                  \/ DestroyRemoves(o) \/ DestroyFails(o) \/ DestroyVolume(o)

Next ==
  \/ \E x \in Calls : Begin(x) \/ End(x) \/ \E o \in Owners, k \in Kinds : Claim(x, o, k)
  \/ \E o \in Owners : \/ Wake(o) \/ StartStep(o) \/ Browse(o) \/ BrowseStep(o)
                       \/ Destroy(o) \/ DestroyStep(o)
                       \/ Stop(o) \/ Ages(o) \/ SweepLooks(o)
  \/ \E h \in House : HouseLooks(h) \/ HouseStops(h) \/ HousePasses(h)
  \/ \E k \in Stoppers : HaltStep(k)
  \/ SweepChecks \/ SweepRemoves \/ SweepFails
  \/ \E c \in Containers : Vanishes(c)
  \/ Restart

\* Docker answers every request, one way or another
Fairness ==
  /\ \A o \in Owners : WF_vars(StartStep(o)) /\ WF_vars(BrowseStep(o)) /\ WF_vars(DestroyStep(o))
  /\ \A k \in Stoppers : WF_vars(HaltStep(k))

Spec == Init /\ [][Next]_vars /\ Fairness

-----------------------------------------------------------------------------
(* Properties.                                                              *)

\* A start-up and the explorer never make a container for the same owner at the same time:
\* startOrCreate awaits materializing, browseTarget awaits inflight.
OneCreator ==
  \A o \in Owners : ~(start[o].pc \in {"evict", "boot", "volume", "create"} /\ browse[o] # "none")

\* The types, and no two makers: who holds which sandbox is always told the same way.
Sound == TypeOK /\ OneCreator

\* "At most maxRunning sandboxes run at once": true of what the manager counts unless two start-ups
\* were past ensureCapacity at the same time, or a restart adopted more.
LimitKept == excess \/ Cardinality(RunningSandboxes) <= MaxRunning

\* A sandbox the map calls running runs in Docker, however stops, start-ups, the sweep and restarts
\* interleave; unless it was removed behind the manager's back, by hand or by a destroy that a
\* claim overlapped, or two stops of it crossed, one of which ended after it was started again.
MapIsTrue ==
  \A o \in Owners : IsRunning(o) =>
     entry[o] \in blurred \/ box[entry[o]].st = "up"

\* A destroy that no claim and no explorer request overlapped leaves neither a container nor the
\* volume of the owner, leaked containers included, whatever timers did meanwhile.
DestroyIsTotal ==
  [][\A o \in Owners :
       destroy[o].pc = "volume" /\ destroy'[o].pc = "none" /\ destroy[o].alone /\ faults' = faults
       => ~vol'[o] /\ \A c \in Containers : box'[c].owner = o => box'[c].st = "gone"]_vars

\* Every claim is answered.
ClaimAnswered == \A x \in Calls : (call[x].pc = "claim") ~> (call[x].pc # "claim")

\* "Same owner, same container": an owner never has two containers running, of those that nothing
\* is stopping or removing.
SameContainer ==
  LET stays(c) == /\ box[c].st = "up" /\ gc.c # c /\ c \notin blurred
                  /\ \A k \in Stoppers : halt[k].c # c
                  /\ destroy[box[c].owner] = NoDestroy
  IN \A c, d \in Containers : c # d /\ stays(c) /\ stays(d) => box[c].owner # box[d].owner

=============================================================================
