------------------------------- MODULE MCTurn -------------------------------
(* Turn on small sets: the questions are interchangeable.                  *)
EXTENDS Turn, TLC

Symmetry == Permutations(Items)
=============================================================================
