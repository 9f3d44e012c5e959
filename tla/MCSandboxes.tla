---------------------------- MODULE MCSandboxes ----------------------------
(***************************************************************************)
(* Two instances in one: a single owner with everything that can go on     *)
(* about its sandbox, and two owners who compete for the limit while       *)
(* timers and the user stop sandboxes.                                     *)
(***************************************************************************)
EXTENDS Sandboxes, TLC

CONSTANT Single     \* the owner of the first instance
VARIABLE scene

Absent(o) == start'[o].pc = "none" /\ destroy'[o].pc = "none" /\ browse'[o] = "none"
\* One upkeep operation at a time and a fault, or a destroy with a second one and no fault
OneOwner == /\ \A o \in Owners \ {Single} : Absent(o)
            /\ Upkeep' <= 1 \/ (Upkeep' = 2 /\ destroy'[Single].pc # "none" /\ faults' = 0)
\* In the second instance none is destroyed, browsed or swept
Competing == /\ \A o \in Owners : destroy'[o].pc = "none" /\ browse'[o] = "none"
             /\ gc'.pc = "none" /\ Upkeep' <= 1

MCInit == Init /\ scene \in {"single", "limit"}
MCNext == /\ Next /\ UNCHANGED scene
          /\ IF scene = "single" THEN OneOwner ELSE Competing
MCSpec == MCInit /\ [][MCNext]_<<vars, scene>> /\ Fairness

Symmetry == Permutations(Containers)
=============================================================================
