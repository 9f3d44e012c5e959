-------------------------------- MODULE Slots --------------------------------
(***************************************************************************)
(* The queue in front of one provider: class Semaphore and queuedClient of *)
(* cli/src/agents.ts.  Every model request of a worker agent holds a slot; *)
(* a worker that finds none free waits in line.                            *)
(*                                                                         *)
(* The grain is finer than in the other modules: a release settles the     *)
(* promise of the first waiter, and that waiter counts itself only when    *)
(* its continuation runs, one microtask later.  Other continuations of the *)
(* same round (a second request that was aborted, the agent that aborted   *)
(* it and goes on to its own next request) may run in between.             *)
(***************************************************************************)
EXTENDS Naturals, Sequences, FiniteSets, SequencesExt

CONSTANTS
  Workers, \* worker agents on this provider
  Limit    \* its concurrency

ASSUME SlotsAssumption ==
  /\ IsFiniteSet(Workers)
  /\ Limit \in Nat \ {0}

VARIABLES
  active,  \* Semaphore.active
  waiters, \* Semaphore.waiters
  at       \* where each worker is: outside, in line, woken, or at its request

vars == <<active, waiters, at>>

In(place) == {w \in Workers : at[w] = place}

Init ==
  /\ active = 0
  /\ waiters = <<>>
  /\ at = [w \in Workers |-> "outside"]

\* acquire with a slot free: counted in the same step.
Enter(w) ==
  /\ at[w] = "outside"
  /\ active < Limit
  /\ active' = active + 1
  /\ at' = [at EXCEPT ![w] = "request"]
  /\ UNCHANGED waiters

\* acquire without one.
Queue(w) ==
  /\ at[w] = "outside"
  /\ active >= Limit
  /\ waiters' = Append(waiters, w)
  /\ at' = [at EXCEPT ![w] = "line"]
  /\ UNCHANGED active

\* The continuation of a woken waiter.  It does not look at the limit again, so a newcomer that took the slot in between
\* makes one request more than the limit.
Resume(w) ==
  /\ at[w] = "woken"
  /\ active' = active + 1
  /\ at' = [at EXCEPT ![w] = "request"]
  /\ UNCHANGED waiters

\* Mutant of Release: a slot that is taken again at once wakes nobody.
ReleaseWakesIfFull(w) ==
  /\ at[w] = "request"
  /\ active' = active - 1
  /\ IF waiters # <<>> /\ active = Limit
       THEN /\ waiters' = Tail(waiters)
            /\ at' = [at EXCEPT ![w] = "outside", ![Head(waiters)] = "woken"]
       ELSE /\ at' = [at EXCEPT ![w] = "outside"]
            /\ UNCHANGED waiters

\* The request is over, whatever its outcome: the release function, called in a finally block.
Release(w) ==
  /\ at[w] = "request"
  /\ active' = active - 1
  /\ IF waiters # <<>>
       THEN /\ waiters' = Tail(waiters)
            /\ at' = [at EXCEPT ![w] = "outside", ![Head(waiters)] = "woken"]
       ELSE /\ at' = [at EXCEPT ![w] = "outside"]
            /\ UNCHANGED waiters

\* Mutant of AbortInLine: the worker leaves and its place in line stays.
AbortKeepsPlace(w) ==
  /\ at[w] = "line"
  /\ at' = [at EXCEPT ![w] = "outside"]
  /\ UNCHANGED <<active, waiters>>

\* The worker is stopped while it waits in line: acquire rejects.  (Once woken it no longer listens to the signal.)
AbortInLine(w) ==
  /\ at[w] = "line"
  /\ \E i \in DOMAIN waiters : waiters[i] = w /\ waiters' = RemoveAt(waiters, i)
  /\ at' = [at EXCEPT ![w] = "outside"]
  /\ UNCHANGED active

Next == \E w \in Workers : Enter(w) \/ Queue(w) \/ Resume(w) \/ Release(w) \/ AbortInLine(w)

Spec == Init /\ [][Next]_vars

\* A continuation runs, and a request ends: the provider client has a time limit of its own.
FairSpec == Spec /\ \A w \in Workers : WF_vars(Resume(w)) /\ WF_vars(Release(w))

-----------------------------------------------------------------------------
TypeOK ==
  /\ active \in Nat
  /\ waiters \in Seq(Workers)
  /\ at \in [Workers -> {"outside", "line", "woken", "request"}]

\* The books are right: `active` counts the requests, and the line holds exactly the workers that wait in it, each once,
\* whichever of them were stopped or woken meanwhile.
Books ==
  /\ active = Cardinality(In("request"))
  /\ IsInjective(waiters)
  /\ ToSet(waiters) = In("line")

\* No slot is lost: while somebody waits, at least Limit slots are in use or promised to a woken waiter.
NoSlotLost == waiters # <<>> => active + Cardinality(In("woken")) >= Limit

\* A worker in line gets its turn, also when newcomers slip in ahead of it.
TurnComes == \A w \in Workers : at[w] = "line" ~> at[w] # "line"
=============================================================================
