---------------------------- MODULE GoldenChain ----------------------------
(***************************************************************************)
(* AgentApplication.execute_with_golden_chain (main.py) and the            *)
(* RewardExplainer it ends with: one request is approved, executed if it   *)
(* is allowed, recorded, its reward explained, and the whole filed as one  *)
(* golden chain.  The coroutine suspends at every external call; each may  *)
(* raise.                                                                  *)
(*                                                                         *)
(* What approve() and record_outcome() do is in SafetyOS; here they answer *)
(* anything.  Rewards are in hundredths, fusion scores in tenths; factor   *)
(* names and texts are left out.                                           *)
(***************************************************************************)
EXTENDS Integers

CONSTANTS
    Request,    \* requests made to execute_with_golden_chain
    Fusion      \* fusion scores of the teachers, in tenths

ASSUME GoldenChainAssumption == Fusion \subseteq 0..10

VARIABLES
    step,       \* [request -> where it is]
    decision,   \* [request -> final_decision]
    review,     \* [request -> recommendation and fusion of the teachers]
    outcome,    \* [request -> "none", "success" or "failure"]
    explained,  \* [request -> reward and alignment]
    filed       \* requests with a golden chain

goldVars == <<step, decision, review, outcome, explained, filed>>

Decisions == {"allow", "ask_human", "block", "emergency_stop"}

\* Without a review the explainer assumes an allow with no fusion.
NoReview == [recommendation |-> "allow", fusion |-> 0]
Reviews == [recommendation : Decisions, fusion : Fusion]

GoldTypeOK ==
    /\ step \in [Request -> {"new", "approved", "executed", "recorded", "explained", "done", "raised"}]
    /\ decision \in [Request -> Decisions]
    /\ review \in [Request -> Reviews \union {NoReview}]
    /\ outcome \in [Request -> {"none", "success", "failure"}]
    /\ explained \in [Request -> [reward : -100..100,
                        alignment : {"fully_aligned", "aligned_but_failed", "deviated_from_teacher"}]]
    /\ filed \subseteq Request

Steps(r, from, to) == step[r] = from /\ step' = [step EXCEPT ![r] = to]

\* Mutant of OutcomeFactor: what was not executed counts neither way.
OutcomeFactorLenient(o) == CASE o = "success" -> 100 [] o = "failure" -> -80 [] OTHER -> 0

\* success is read from the outcome, and nothing executed counts as failed;
\* main.py never reports a user intervention.
OutcomeFactor(o) == IF o = "success" THEN 100 ELSE -80

TeacherFactor(d, v) == IF v.recommendation = d THEN 7 * v.fusion ELSE -50

Clamp(x) == IF x > 100 THEN 100 ELSE IF x < -100 THEN -100 ELSE x

Alignment(d, v, o) ==
    IF v.recommendation # d THEN "deviated_from_teacher"
    ELSE IF o = "success" THEN "fully_aligned" ELSE "aligned_but_failed"

\* Mutant of Explain: the sum is not clamped.
ExplainUnclamped(d, v, o) ==
    [reward |-> OutcomeFactor(o) + TeacherFactor(d, v), alignment |-> Alignment(d, v, o)]

Explain(d, v, o) ==
    [reward |-> Clamp(OutcomeFactor(o) + TeacherFactor(d, v)), alignment |-> Alignment(d, v, o)]

GoldInit ==
    /\ step = [r \in Request |-> "new"]
    /\ decision = [r \in Request |-> "block"]
    /\ review = [r \in Request |-> NoReview]
    /\ outcome = [r \in Request |-> "none"]
    /\ explained = [r \in Request |-> [reward |-> 0, alignment |-> "deviated_from_teacher"]]
    /\ filed = {}

\* create_all may have left no manager (see Application): None is returned and
\* nothing was asked.  Each request may find it missing.
NoManager(r) ==
    /\ Steps(r, "new", "done")
    /\ UNCHANGED <<decision, review, outcome, explained, filed>>

Approve(r) ==
    /\ Steps(r, "new", "approved")
    /\ \E d \in Decisions, v \in Reviews \union {NoReview} :
         /\ decision' = [decision EXCEPT ![r] = d]
         /\ review' = [review EXCEPT ![r] = v]
    /\ UNCHANGED <<outcome, explained, filed>>

\* Executed only if allowed; an exception of the action is a failure.
ExecuteAllowed(r) ==
    /\ decision[r] = "allow"
    /\ Steps(r, "approved", "executed")
    /\ \E o \in {"success", "failure"} : outcome' = [outcome EXCEPT ![r] = o]
    /\ UNCHANGED <<decision, review, explained, filed>>

\* Not allowed, or nothing to execute: no outcome, and nothing recorded.
SkipExecution(r) ==
    /\ Steps(r, "approved", "recorded")
    /\ UNCHANGED <<decision, review, outcome, explained, filed>>

RecordOutcome(r) ==
    /\ Steps(r, "executed", "recorded")
    /\ UNCHANGED <<decision, review, outcome, explained, filed>>

ExplainReward(r) ==
    /\ Steps(r, "recorded", "explained")
    /\ explained' = [explained EXCEPT ![r] = Explain(decision[r], review[r], outcome[r])]
    /\ UNCHANGED <<decision, review, outcome, filed>>

CreateChain(r) ==
    /\ Steps(r, "explained", "done")
    /\ filed' = filed \union {r}
    /\ UNCHANGED <<decision, review, outcome, explained>>

\* approve(), record_outcome() or create_chain() raises: the caller gets the
\* exception, and no chain is filed although the action may have been executed.
RequestRaises(r) ==
    /\ step[r] \in {"new", "executed", "explained"}
    /\ step' = [step EXCEPT ![r] = "raised"]
    /\ UNCHANGED <<decision, review, outcome, explained, filed>>

GoldNext ==
    \E r \in Request :
        \/ NoManager(r) \/ Approve(r) \/ ExecuteAllowed(r) \/ SkipExecution(r) \/ RecordOutcome(r)
        \/ ExplainReward(r) \/ CreateChain(r) \/ RequestRaises(r)

GoldSpec == GoldInit /\ [][GoldNext]_goldVars

(***************************************************************************)
(* A chain teaches a positive reward only for an action that was allowed,  *)
(* executed and succeeded: whatever the teachers' fusion score adds, it    *)
(* never outweighs a failure or an action that was not executed.           *)
(***************************************************************************)
PraiseIsEarned ==
    \A r \in filed : explained[r].reward > 0 =>
        outcome[r] = "success" /\ decision[r] = "allow"
=============================================================================
