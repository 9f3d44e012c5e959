------------------------------- MODULE MCViews -------------------------------
(* Constants of Views for TLC: a chat that talks beside one that only shows,   *)
(* two files of which git ignores one, two sites with two pages each.          *)
EXTENDS Views
=============================================================================
