--------------------------- MODULE NodeExecutionMC ---------------------------
(* Instances of NodeExecution for TLC: rules that lead to each action. *)
EXTENDS NodeExecution

Rule(retries, fallback, human) == [retries |-> retries, fallback |-> fallback, human |-> human]

MCPolicies == {Rule(0, "none", TRUE), Rule(1, "none", TRUE), Rule(0, "none", FALSE),
               Rule(2, "partial_result", FALSE), Rule(0, "skip_file", FALSE)}

AskingPolicies == {Rule(0, "none", TRUE), Rule(1, "none", TRUE)}
=============================================================================
