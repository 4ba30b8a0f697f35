----------------------------- MODULE ValueGate -----------------------------
(***************************************************************************)
(* GeneSandbox.evaluate_mutation and the ValueRuntime it asks: the gate a  *)
(* gene mutation passes before it is committed.  The seven checks read the *)
(* runtime context one after the other while the rest of the program may   *)
(* change identity and values underneath.  A layer the context does not    *)
(* have passes its check.                                                  *)
(*                                                                         *)
(* Scores are in hundredths.  What the external layers answer is the state *)
(* of the world: the value vectors' two scores and the hard constraints'   *)
(* verdict, the other checks' outcome.  Of the violations only whether     *)
(* there are any is kept.                                                  *)
(***************************************************************************)
EXTENDS Integers

CONSTANTS
    Scores,          \* scores the world may take, in hundredths
    MaxEvaluations   \* bound: evaluations of the sandbox

\* The scores evaluations start with are among them.
ASSUME ValueGateAssumption ==
    {0, 100} \subseteq Scores /\ Scores \subseteq 0..100 /\ MaxEvaluations \in Nat

VARIABLES
    world,       \* what the layers would answer now
    present,     \* layers the runtime context has
    check,       \* the next check of the evaluation under way, or "idle"
    violations,  \* has it found any?
    rejected,    \* history: its value evaluation said rejected
    verdict,     \* of the last evaluation: "none", "approved" or "rejected"
    tally,       \* the sandbox's counters
    stats        \* the value runtime's counters

gateVars == <<world, present, check, violations, rejected, verdict, tally, stats>>

Checks == <<"distance", "drift", "value", "constraint", "strength",
            "constitution", "governance">>
GateLayers == {"identity_distance", "trajectory_drift", "value_runtime", "constitution_runtime"}

\* What each layer may answer; "unnamed" is a refusal without a named constraint.
Answers == [positive |-> Scores, negative |-> Scores, other |-> {"pass", "fail"},
            constraint |-> {"allowed", "named", "unnamed"}]

GateTypeOK ==
    /\ \A f \in DOMAIN Answers : world[f] \in Answers[f]
    /\ present \subseteq GateLayers
    /\ check \in 0..8
    /\ violations \in BOOLEAN
    /\ rejected \in BOOLEAN
    /\ verdict \in {"none", "approved", "rejected"}
    /\ tally \in [evaluations : 0..MaxEvaluations, approved : 0..MaxEvaluations,
                  rejected : 0..MaxEvaluations, raised : 0..MaxEvaluations]
    /\ stats \in [evaluations : 0..MaxEvaluations, rejections : 0..MaxEvaluations,
                  hard : 0..MaxEvaluations]

GateInit ==
    /\ world = [positive |-> 100, negative |-> 0, other |-> "pass", constraint |-> "allowed"]
    /\ present = GateLayers
    /\ check = 0
    /\ violations = FALSE
    /\ rejected = FALSE
    /\ verdict = "none"
    /\ tally = [evaluations |-> 0, approved |-> 0, rejected |-> 0, raised |-> 0]
    /\ stats = [evaluations |-> 0, rejections |-> 0, hard |-> 0]

\* Another thread moves identity, values or drift, one at a time.
WorldMoves ==
    /\ \E f \in DOMAIN Answers : \E answer \in Answers[f] :
         world' = [world EXCEPT ![f] = answer]
    /\ UNCHANGED <<present, check, violations, rejected, verdict, tally, stats>>

\* Layers a context was left without (see RuntimeContext); between evaluations.
ContextChanges ==
    /\ check = 0
    /\ present' \in SUBSET GateLayers
    /\ UNCHANGED <<world, check, violations, rejected, verdict, tally, stats>>

Begin ==
    /\ check = 0
    /\ tally.evaluations < MaxEvaluations
    /\ tally' = [tally EXCEPT !.evaluations = @ + 1]
    /\ check' = 1
    /\ violations' = FALSE
    /\ rejected' = FALSE
    /\ verdict' = "none"
    /\ UNCHANGED <<world, present, stats>>

\* Mutant of FinalScore: a hard constraint only sets the flag.
FinalScoreFlagOnly(w) ==
    LET s == 50 + w.positive - w.negative IN
    IF s < 0 THEN 0 ELSE IF s > 100 THEN 100 ELSE s

\* ValueRuntime.evaluate, with the sandbox's reward of 0.5: nothing where a hard
\* constraint forbids, otherwise reward + positive - negative within 0 and 1.
FinalScore(w) ==
    LET s == 50 + w.positive - w.negative IN
    IF w.constraint # "allowed" \/ s < 0 THEN 0 ELSE IF s > 100 THEN 100 ELSE s

HardRejects(w) == w.constraint # "allowed"
Rejects(w) == HardRejects(w) \/ w.negative > 80

\* A check of the sandbox, and how it comes out.
Checked(c, passed) ==
    /\ check \in 1..7 /\ Checks[check] = c
    /\ violations' = (violations \/ ~passed)
    /\ check' = check + 1

\* 3. The score of the value runtime; its own verdict `rejected` is not looked at.
CheckValue ==
    /\ Checked("value", "value_runtime" \in present => FinalScore(world) >= 70)
    /\ IF "value_runtime" \in present
         THEN /\ rejected' = Rejects(world)
              /\ stats' = [evaluations |-> stats.evaluations + 1,
                           rejections  |-> stats.rejections + (IF Rejects(world) THEN 1 ELSE 0),
                           hard        |-> stats.hard + (IF HardRejects(world) THEN 1 ELSE 0)]
         ELSE UNCHANGED <<rejected, stats>>
    /\ UNCHANGED <<world, present, verdict, tally>>

\* 4. The hard constraints are asked again; a refusal that names no constraint
\* adds no violation.
CheckConstraint ==
    /\ Checked("constraint", "value_runtime" \in present => world.constraint # "named")
    /\ UNCHANGED <<world, present, rejected, verdict, tally, stats>>

\* 1., 2., 6. identity distance, drift, constitution.
CheckLayer ==
    /\ \/ Checked("distance", "identity_distance" \in present => world.other = "pass")
       \/ Checked("drift", "trajectory_drift" \in present => world.other = "pass")
       \/ Checked("constitution", "constitution_runtime" \in present => world.other = "pass")
    /\ UNCHANGED <<world, present, rejected, verdict, tally, stats>>

\* 5., 7. what depends on the genes and on an attribute nothing here sets.
CheckCandidate ==
    /\ \E c \in {"strength", "governance"}, passed \in BOOLEAN : Checked(c, passed)
    /\ UNCHANGED <<world, present, rejected, verdict, tally, stats>>

Decide ==
    /\ check = 8
    /\ verdict' = IF violations THEN "rejected" ELSE "approved"
    /\ tally' = IF violations THEN [tally EXCEPT !.rejected = @ + 1]
                            ELSE [tally EXCEPT !.approved = @ + 1]
    /\ check' = 0
    /\ UNCHANGED <<world, present, violations, rejected, stats>>

\* A layer raises: the evaluation is counted and comes to no verdict.
Raises ==
    /\ check \in 1..7
    /\ tally' = [tally EXCEPT !.raised = @ + 1]
    /\ check' = 0
    /\ UNCHANGED <<world, present, violations, rejected, verdict, stats>>

\* reset_stats
ResetStats ==
    /\ stats' = [evaluations |-> 0, rejections |-> 0, hard |-> 0]
    /\ UNCHANGED <<world, present, check, violations, rejected, verdict, tally>>

GateNext ==
    \/ WorldMoves \/ ContextChanges \/ ResetStats
    \/ Begin \/ CheckValue \/ CheckConstraint \/ CheckLayer \/ CheckCandidate
    \/ Decide \/ Raises

GateSpec == GateInit /\ [][GateNext]_gateVars

(***************************************************************************)
(* The sandbox never approves what the value runtime rejected while it was *)
(* asked, although it reads only the score and not the verdict, and even   *)
(* when the hard constraints answer differently the second time or name no *)
(* constraint: 0.5 + positive - negative stays below 0.70 once negative    *)
(* exceeds 0.8.  And every evaluation is accounted for.                    *)
(***************************************************************************)
ApprovedNeverRejected ==
    /\ verdict = "approved" => ~rejected
    /\ tally.evaluations = tally.approved + tally.rejected + tally.raised
                            + (IF check = 0 THEN 0 ELSE 1)
=============================================================================
