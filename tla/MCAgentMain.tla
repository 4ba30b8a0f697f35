---------------------------- MODULE MCAgentMain ----------------------------
(***************************************************************************)
(* Values for the constants of AgentMain: one value, at its target until   *)
(* it is taught otherwise, and one goal still to be taken over.            *)
(***************************************************************************)
EXTENDS AgentMain

CONSTANTS safety, g1, g2, l1, l2, u, c1, x1

CurDef == [values |-> [k \in Key |-> 9445], goals |-> {}, constraints |-> {},
           obsessions |-> [s \in Subject |-> 0]]
TgtDef == [values |-> [k \in Key |-> 9445], goals |-> {g1}, constraints |-> {g1}]

\* In place of 3, 5, 7, 10 and 20: every stage is due in every cycle.
EveryDef == [s \in Stage |-> 1]

\* One thread makes every call, another starts the loop as well.
OpsDef == [c \in {u, c1} |-> IF c = u THEN AllOps ELSE {"start"}]
=============================================================================
