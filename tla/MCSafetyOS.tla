----------------------------- MODULE MCSafetyOS -----------------------------
(* Three requests, one for each score RiskEvaluator can answer. *)
EXTENDS SafetyOS, TLC

CONSTANTS a1, a2, a3

ScoreDef == (a1 :> 1) @@ (a2 :> 6) @@ (a3 :> 8)
=============================================================================
