------------------------------ MODULE MCServer ------------------------------
(* Constants of Server for TLC. *)
EXTENDS Server

MCTexts == {<<>>, <<"ws">>, <<"ws", "prose", "call">>, <<"code", "prose">>}

\* A provider at home and one elsewhere, a model each.
Home == [addr |-> "lan", on |-> TRUE, local |-> TRUE, said |-> "lan", keyless |-> TRUE]
Away == [addr |-> "net", on |-> TRUE, local |-> FALSE, said |-> "none", keyless |-> TRUE]
Discovered(from) == [src |-> "discovered", on |-> TRUE, rep |-> "none", from |-> from, ov |-> "none"]
MCSetup == {[provider |-> [p \in {"h", "a"} |-> IF p = "h" THEN Home ELSE Away],
             catalog |-> [m \in {"h", "a"} \X {"m"} |-> Discovered(IF m[1] = "h" THEN "lan" ELSE "net")]]}
MCFree == {<<"h", "m">>}
=============================================================================
