------------------------------- MODULE MCGate -------------------------------
(* Constants of Gate for TLC. *)
EXTENDS Gate

\* Two chats of different projects, one tool, two sub-commands of which one is read-only.
MCProjectOf == [c \in Chats |-> IF c = "c1" THEN "p1" ELSE "p2"]
MCPolicyOf == [p \in {"p1", "p2"} |-> [mode |-> "none", allow |-> {}, deny |-> {}]]
MCCalls == {{[label |-> "fetch", edge |-> FALSE]}, {[label |-> "build", edge |-> TRUE]},
            {[label |-> "list", edge |-> FALSE], [label |-> "build", edge |-> FALSE]}}
MCPolicies == {[mode |-> "none", allow |-> {}, deny |-> {}], [mode |-> "allowlist", allow |-> {}, deny |-> {"build"}]}
=============================================================================
