------------------------------ MODULE MCAgent ------------------------------
(* Small instances of Agent for TLC. *)
EXTENDS Agent

CONSTANTS m1, m2, m3, m4

OneByOne  == {<<m1>>, <<m2>>}
WithPair  == {<<m1>>, <<m2, m3>>, <<m4>>}
Roles     == [m \in {m1, m2, m3, m4} |-> IF m = m2 THEN "custom" ELSE "user"]
KeyFaults == {"message_end", "tool_execution_start", "tool_execution_end", "agent_end"}
Quiet     == EventTypes \ {"agent_end", "tool_execution_end"}
Faults    == Quiet \cup {"provider", "hook"}

\* m1 and m4 are batches of one user message each.
SingleBatches == Permutations({m1, m4})
=============================================================================
