---------------------------- MODULE MCAgentPool ----------------------------
(***************************************************************************)
(* Values for the constants of AgentPool: two tasks, the first more urgent *)
(* by created_at and of an unregistered type when Handled leaves it out.   *)
(***************************************************************************)
EXTENDS AgentPool, TLC

CONSTANTS w1, w2, w3, t1, t2, ta, tb

TypeOfDef   == (t1 :> ta) @@ (t2 :> tb)
PriorityDef == (t1 :> 2) @@ (t2 :> 2)
MixedPriorityDef == (t1 :> 1) @@ (t2 :> 4)
BornDef     == (t1 :> 1) @@ (t2 :> 2)

WorkerSymmetry == Permutations(Worker)
=============================================================================
