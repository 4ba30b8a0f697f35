---------------------------- MODULE ValueProofs ----------------------------
(***************************************************************************)
(* Theorems about what is rewarded, kept, approved and learned:            *)
(* GoldenChain, for any requests and any fusion scores, ChainStore, for    *)
(* any chains, ValueGate, for any scores, and Observation, for any         *)
(* emitting threads, episodes and policies.                                *)
(***************************************************************************)
EXTENDS GoldenChain, ChainStore, ValueGate, Observation, TLAPS

-----------------------------------------------------------------------------
(* GoldenChain *)

\* A fusion score is between 0 and 1.
LEMMA FusionInRange ==
  ASSUME NEW v \in Reviews \union {NoReview} PROVE v.fusion \in 0..10
<1>1. CASE v \in Reviews
  BY <1>1, GoldenChainAssumption DEF GoldenChainAssumption, Reviews
<1>2. CASE v = NoReview
  BY <1>2 DEF NoReview
<1> QED BY <1>1, <1>2

\* The teachers' fusion score never outweighs the missing success.
LEMMA FailureOutweighs ==
  ASSUME NEW d \in Decisions, NEW v \in Reviews \union {NoReview}, NEW o, o # "success"
  PROVE  ~(Explain(d, v, o).reward > 0)
<1>1. v.fusion \in 0..10
  BY FusionInRange
<1>2. TeacherFactor(d, v) \in -50..70
  BY <1>1 DEF TeacherFactor
<1>3. OutcomeFactor(o) = -80
  BY DEF OutcomeFactor
<1>4. ~(Clamp(OutcomeFactor(o) + TeacherFactor(d, v)) > 0)
  BY <1>2, <1>3 DEF Clamp
<1> QED BY <1>4 DEF Explain

\* Only what was allowed has an outcome, and nothing is filed before it is
\* explained, after which neither decision nor outcome changes.
GoldInv ==
  /\ decision \in [Request -> Decisions]
  /\ review \in [Request -> Reviews \union {NoReview}]
  /\ \A r \in Request :
       /\ step[r] \in {"new", "approved"} => outcome[r] = "none"
       /\ outcome[r] = "success" => decision[r] = "allow"
       /\ step[r] \notin {"done", "raised"} => r \notin filed
       /\ step[r] = "explained" \/ r \in filed =>
            (explained[r].reward > 0 => outcome[r] = "success")
  /\ DOMAIN step = Request /\ DOMAIN outcome = Request /\ DOMAIN explained = Request
  /\ filed \subseteq Request

LEMMA GoldInitInv == GoldInit => GoldInv
BY DEF GoldInit, GoldInv, Decisions, NoReview

LEMMA GoldStepInv == GoldInv /\ [GoldNext]_goldVars => GoldInv'
<1> SUFFICES ASSUME GoldInv, [GoldNext]_goldVars PROVE GoldInv'
  OBVIOUS
<1> USE DEF GoldInv, Steps
<1>1. ASSUME NEW r \in Request, NoManager(r) PROVE GoldInv'
  BY <1>1 DEF NoManager
<1>2. ASSUME NEW r \in Request, Approve(r) PROVE GoldInv'
  BY <1>2 DEF Approve
<1>3. ASSUME NEW r \in Request, ExecuteAllowed(r) PROVE GoldInv'
  BY <1>3 DEF ExecuteAllowed
<1>4. ASSUME NEW r \in Request, SkipExecution(r) PROVE GoldInv'
  BY <1>4 DEF SkipExecution
<1>5. ASSUME NEW r \in Request, RecordOutcome(r) PROVE GoldInv'
  BY <1>5 DEF RecordOutcome
<1>6. ASSUME NEW r \in Request, ExplainReward(r) PROVE GoldInv'
  <2>1. explained'[r].reward > 0 => outcome[r] = "success"
    BY <1>6, FailureOutweighs DEF ExplainReward
  <2> QED BY <2>1, <1>6 DEF ExplainReward
<1>7. ASSUME NEW r \in Request, CreateChain(r) PROVE GoldInv'
  BY <1>7 DEF CreateChain
<1>8. ASSUME NEW r \in Request, RequestRaises(r) PROVE GoldInv'
  BY <1>8 DEF RequestRaises
<1>9. CASE UNCHANGED goldVars
  BY <1>9 DEF goldVars
<1> QED BY <1>1, <1>2, <1>3, <1>4, <1>5, <1>6, <1>7, <1>8, <1>9 DEF GoldNext

\* A chain with a positive reward stands for an action that was allowed and
\* succeeded, whatever the teachers' fusion scores are.
THEOREM PraiseEarned == GoldSpec => []PraiseIsEarned
<1>1. GoldInv => PraiseIsEarned
  BY DEF GoldInv, PraiseIsEarned
<1> QED BY <1>1, GoldInitInv, GoldStepInv, PTL DEF GoldSpec

\* Whatever is explained, the reward is clamped and the alignment one of three.
LEMMA ExplainInRange ==
  ASSUME NEW d \in Decisions, NEW v \in Reviews \union {NoReview}, NEW o
  PROVE  Explain(d, v, o) \in
           [reward : -100..100,
            alignment : {"fully_aligned", "aligned_but_failed", "deviated_from_teacher"}]
<1>1. TeacherFactor(d, v) \in -50..70
  BY FusionInRange DEF TeacherFactor
<1>2. OutcomeFactor(o) \in {100, -80}
  BY DEF OutcomeFactor
<1>3. Clamp(OutcomeFactor(o) + TeacherFactor(d, v)) \in -100..100
  BY <1>1, <1>2 DEF Clamp
<1>4. Alignment(d, v, o) \in {"fully_aligned", "aligned_but_failed", "deviated_from_teacher"}
  BY DEF Alignment
<1> QED BY <1>3, <1>4 DEF Explain

\* The golden chain keeps its types; the reward of a chain stays within -1 and 1.
THEOREM GoldenTypes == GoldSpec => []GoldTypeOK
<1>1. GoldInit => GoldTypeOK
  BY DEF GoldInit, GoldTypeOK, Decisions, NoReview
<1>2. GoldTypeOK /\ [GoldNext]_goldVars => GoldTypeOK'
  <2> SUFFICES ASSUME GoldTypeOK, [GoldNext]_goldVars PROVE GoldTypeOK'
    OBVIOUS
  <2> USE DEF GoldTypeOK, Steps
  <2>1. ASSUME NEW r \in Request, NoManager(r) PROVE GoldTypeOK'
    BY <2>1 DEF NoManager
  <2>2. ASSUME NEW r \in Request, Approve(r) PROVE GoldTypeOK'
    BY <2>2 DEF Approve
  <2>3. ASSUME NEW r \in Request, ExecuteAllowed(r) PROVE GoldTypeOK'
    BY <2>3 DEF ExecuteAllowed
  <2>4. ASSUME NEW r \in Request, SkipExecution(r) PROVE GoldTypeOK'
    BY <2>4 DEF SkipExecution
  <2>5. ASSUME NEW r \in Request, RecordOutcome(r) PROVE GoldTypeOK'
    BY <2>5 DEF RecordOutcome
  <2>6. ASSUME NEW r \in Request, ExplainReward(r) PROVE GoldTypeOK'
    <3>1. Explain(decision[r], review[r], outcome[r])
            \in [reward : -100..100,
                 alignment : {"fully_aligned", "aligned_but_failed", "deviated_from_teacher"}]
      BY ExplainInRange
    <3> QED BY <2>6, <3>1 DEF ExplainReward
  <2>7. ASSUME NEW r \in Request, CreateChain(r) PROVE GoldTypeOK'
    BY <2>7 DEF CreateChain
  <2>8. ASSUME NEW r \in Request, RequestRaises(r) PROVE GoldTypeOK'
    BY <2>8 DEF RequestRaises
  <2>9. CASE UNCHANGED goldVars
    BY <2>9 DEF goldVars
  <2> QED BY <2>1, <2>2, <2>3, <2>4, <2>5, <2>6, <2>7, <2>8, <2>9 DEF GoldNext
<1> QED BY <1>1, <1>2, PTL DEF GoldSpec

-----------------------------------------------------------------------------
(* ChainStore *)

\* While the index is written the files rest, so the records collected for it
\* are still all the readable chains; one file at most is open, and it is not readable.
ChainInv ==
  /\ ChainTypeOK
  /\ stage = "listing" => seen = Readable
  /\ stage = "writing" => \E c \in Chain : saving = {c} /\ files[c] = "torn"

LEMMA ChainInitInv == ChainInit => ChainInv
BY DEF ChainInit, ChainInv, ChainTypeOK, FileState, ChainStage

LEMMA ChainStepInv == ChainInv /\ [ChainNext]_chainVars => ChainInv'
<1> SUFFICES ASSUME ChainInv, [ChainNext]_chainVars PROVE ChainInv'
  OBVIOUS
<1> USE DEF ChainInv, ChainTypeOK, FileState, ChainStage, Readable
<1>1. ASSUME NEW c \in Chain, SaveChain(c) PROVE ChainInv'
  BY <1>1 DEF SaveChain
<1>2. ASSUME NEW c \in Chain, DeleteChain(c) PROVE ChainInv'
  BY <1>2 DEF DeleteChain
<1>3. CASE ChainWritten
  BY <1>3 DEF ChainWritten
<1>4. CASE RebuildIndex
  BY <1>4 DEF RebuildIndex
<1>5. CASE OpenIndex
  BY <1>5 DEF OpenIndex
<1>6. CASE IndexWritten
  BY <1>6 DEF IndexWritten
<1>7. CASE Interrupt
  BY <1>7 DEF Interrupt
<1>8. CASE UNCHANGED chainVars
  BY <1>8 DEF chainVars
<1> QED BY <1>1, <1>2, <1>3, <1>4, <1>5, <1>6, <1>7, <1>8 DEF ChainNext

\* The files, the index and what is noted of them keep their types, and the
\* records collected for the index are those of the readable chains.
THEOREM ChainsInductive == ChainSpec => []ChainInv
<1> QED BY ChainInitInv, ChainStepInv, PTL DEF ChainSpec

LEMMA CatalogStarts == ChainInit => Catalog!CatalogInit
BY DEF ChainInit, Catalog!CatalogInit, Readable

\* Every step of the store is one of the catalog's, or the catalog does not see it.
LEMMA CatalogSteps ==
  ChainInv /\ [ChainNext]_chainVars =>
    [Catalog!CatalogNext]_<<Readable, index, stage # "idle" \/ interrupted>>
<1> SUFFICES ASSUME ChainInv, [ChainNext]_chainVars
             PROVE  [Catalog!CatalogNext]_<<Readable, index, stage # "idle" \/ interrupted>>
  OBVIOUS
<1> USE DEF ChainInv, ChainTypeOK, FileState, ChainStage, Catalog!CatalogNext
<1>1. ASSUME NEW c \in Chain, SaveChain(c) PROVE Catalog!Change
  <2>1. Readable' = Readable \ {c}
    BY <1>1 DEF SaveChain, Readable
  <2> QED BY <1>1, <2>1 DEF SaveChain, Catalog!Change
<1>2. ASSUME NEW c \in Chain, DeleteChain(c) PROVE Catalog!Change
  <2>1. Readable' = Readable \ {c}
    BY <1>2 DEF DeleteChain, Readable
  <2> QED BY <1>2, <2>1 DEF DeleteChain, Catalog!Change
<1>3. CASE ChainWritten
  <2>1. PICK c \in Chain : saving = {c}
    BY <1>3 DEF ChainWritten
  <2>2. Readable' = Readable \cup {c}
    BY <1>3, <2>1 DEF ChainWritten, Readable
  <2> QED BY <1>3, <2>2 DEF ChainWritten, Catalog!Change
<1>4. CASE RebuildIndex
  BY <1>4 DEF RebuildIndex, Catalog!Change, Readable
<1>5. CASE OpenIndex
  BY <1>5 DEF OpenIndex, Catalog!Shorten, Readable
<1>6. CASE IndexWritten
  BY <1>6 DEF IndexWritten, Catalog!Refresh, Readable
<1>7. CASE Interrupt /\ stage = "listing"
  BY <1>7 DEF Interrupt, Catalog!Shorten, Readable
<1>8. CASE Interrupt /\ stage # "listing"
  <2>1. stage = "writing" => \A c \in saving : files[c] # "whole"
    OBVIOUS
  <2>2. Readable' = Readable
    BY <1>8, <2>1 DEF Interrupt, Readable
  <2>3. (stage # "idle" \/ interrupted) /\ (stage' # "idle" \/ interrupted') /\ index' = index
    BY <1>8 DEF Interrupt
  <2> QED BY <2>2, <2>3
<1>9. CASE UNCHANGED chainVars
  BY <1>9 DEF chainVars, Readable
<1> QED BY <1>1, <1>2, <1>3, <1>4, <1>5, <1>6, <1>7, <1>8, <1>9 DEF ChainNext

\* The chain store implements the catalog: whatever write is cut short, the next
\* operation that completes leaves the index listing the readable chains.
THEOREM ImplementsCatalog == ChainSpec => KeepsCatalog
<1> QED
  BY ChainInitInv, ChainStepInv, CatalogStarts, CatalogSteps, PTL
  DEF ChainSpec, KeepsCatalog, Catalog!CatalogSpec, Catalog!catalogVars

\* The chain store keeps its types.
THEOREM ChainTypes == ChainSpec => []ChainTypeOK
<1>1. ChainInv => ChainTypeOK
  BY DEF ChainInv
<1> QED BY <1>1, ChainInitInv, ChainStepInv, PTL DEF ChainSpec

-----------------------------------------------------------------------------
(* ValueGate *)

\* The threshold the verdict of the value runtime rejects at leaves a score the
\* sandbox does not accept.
LEMMA RejectedScoresLow ==
  ASSUME NEW w, w.positive \in 0..100, w.negative \in 0..100, Rejects(w)
  PROVE  ~(FinalScore(w) >= 70)
<1>1. CASE HardRejects(w)
  BY <1>1 DEF HardRejects, FinalScore
<1>2. CASE w.negative > 80
  <2> DEFINE sum == 50 + w.positive - w.negative
  <2>1. sum \in Int /\ sum < 70
    BY <1>2
  <2>2. FinalScore(w) = IF w.constraint # "allowed" \/ sum < 0 THEN 0
                        ELSE IF sum > 100 THEN 100 ELSE sum
    BY DEF FinalScore
  <2> HIDE DEF sum
  <2> QED BY <2>1, <2>2
<1> QED BY <1>1, <1>2 DEF Rejects

\* The two scores stay scores.
WorldInv == /\ DOMAIN world = DOMAIN Answers
            /\ world.positive \in 0..100 /\ world.negative \in 0..100

\* A rejection by the value runtime is a violation of the evaluation it
\* happened in, and an evaluation under way has no verdict yet.
VerdictInv == /\ check \in 0..8
              /\ violations \in BOOLEAN /\ rejected \in BOOLEAN
              /\ rejected => violations
              /\ check # 0 => verdict = "none"
              /\ verdict = "approved" => ~rejected

TallyInv ==
  /\ tally \in [evaluations : Nat, approved : Nat, rejected : Nat, raised : Nat]
  /\ tally.evaluations = tally.approved + tally.rejected + tally.raised
                           + (IF check = 0 THEN 0 ELSE 1)

GateInv == WorldInv /\ VerdictInv /\ TallyInv

LEMMA GateInitInv == GateInit => GateInv
<1> SUFFICES ASSUME GateInit PROVE GateInv
  OBVIOUS
<1>1. WorldInv
  BY DEF GateInit, WorldInv, Answers
<1>2. VerdictInv
  <2>1. check \in 0..8 /\ check = 0
    BY DEF GateInit
  <2>2. violations = FALSE /\ rejected = FALSE
    BY DEF GateInit
  <2> QED BY <2>1, <2>2 DEF VerdictInv
<1>3. TallyInv
  BY DEF GateInit, TallyInv
<1> QED BY <1>1, <1>2, <1>3 DEF GateInv

LEMMA WorldStep == WorldInv /\ [GateNext]_gateVars => WorldInv'
<1> SUFFICES ASSUME WorldInv, [GateNext]_gateVars PROVE WorldInv'
  OBVIOUS
<1>1. CASE WorldMoves
  <2>1. PICK f \in DOMAIN Answers : \E answer \in Answers[f] : world' = [world EXCEPT ![f] = answer]
    BY <1>1 DEF WorldMoves
  <2>2. PICK answer \in Answers[f] : world' = [world EXCEPT ![f] = answer]
    BY <2>1
  <2>3. f \in {"positive", "negative"} => answer \in 0..100
    <3>1. CASE f = "positive"
      BY <2>2, <3>1, ValueGateAssumption DEF ValueGateAssumption, Answers
    <3>2. CASE f = "negative"
      BY <2>2, <3>2, ValueGateAssumption DEF ValueGateAssumption, Answers
    <3> QED BY <3>1, <3>2
  <2>4. {"positive", "negative"} \subseteq DOMAIN world
    BY DEF WorldInv, Answers
  <2>5. /\ DOMAIN world' = DOMAIN world
        /\ world'.positive = IF f = "positive" THEN answer ELSE world.positive
        /\ world'.negative = IF f = "negative" THEN answer ELSE world.negative
    BY <2>2, <2>4
  <2> QED BY <2>3, <2>5 DEF WorldInv
<1>2. CASE world' = world
  BY <1>2 DEF WorldInv
<1> QED
  BY <1>1, <1>2
  DEF GateNext, gateVars, ContextChanges, ResetStats, Begin, CheckValue, CheckConstraint,
      CheckLayer, CheckCandidate, Decide, Raises

\* A further check keeps what was found and moves on.
LEMMA CheckedKeeps ==
  ASSUME VerdictInv, NEW c, NEW passed, Checked(c, passed)
  PROVE  /\ check' \in 0..8 /\ check # 0 /\ check' # 0
         /\ violations' \in BOOLEAN
         /\ violations \/ ~passed <=> violations'
<1>1. check \in 1..7 /\ check' = check + 1
  BY DEF Checked
<1>2. violations' = (violations \/ ~passed)
  BY DEF Checked
<1>3. check' \in 0..8 /\ check # 0 /\ check' # 0
  BY <1>1
<1>4. violations' \in BOOLEAN /\ (violations \/ ~passed <=> violations')
  BY <1>2
<1> QED BY <1>3, <1>4

LEMMA VerdictStep == WorldInv /\ VerdictInv /\ [GateNext]_gateVars => VerdictInv'
<1> SUFFICES ASSUME WorldInv, VerdictInv, [GateNext]_gateVars PROVE VerdictInv'
  OBVIOUS
<1>1. CASE CheckValue
  <2>1. PICK passed \in BOOLEAN : /\ Checked("value", passed)
                                 /\ passed = ("value_runtime" \in present => FinalScore(world) >= 70)
    BY <1>1 DEF CheckValue
  <2>2. check' \in 0..8 /\ check # 0 /\ check' # 0 /\ violations' \in BOOLEAN
    BY <2>1, CheckedKeeps
  <2>3. violations \/ ~passed <=> violations'
    BY <2>1, CheckedKeeps
  <2>4. verdict' = "none"
    BY <1>1, <2>2 DEF CheckValue, VerdictInv
  <2>5. CASE "value_runtime" \in present
    <3>1. rejected' = Rejects(world) /\ rejected' \in BOOLEAN
      BY <1>1, <2>5 DEF CheckValue, Rejects, HardRejects
    <3>2. Rejects(world) => ~passed
      BY <2>1, <2>5, RejectedScoresLow DEF WorldInv
    <3> QED BY <2>2, <2>3, <2>4, <3>1, <3>2 DEF VerdictInv
  <2>6. CASE "value_runtime" \notin present
    <3>1. rejected' = rejected
      BY <1>1, <2>6 DEF CheckValue
    <3> QED BY <2>2, <2>3, <2>4, <3>1 DEF VerdictInv
  <2> QED BY <2>5, <2>6
<1>2. CASE CheckConstraint \/ CheckLayer \/ CheckCandidate
  <2>1. PICK c, passed : Checked(c, passed)
    BY <1>2 DEF CheckConstraint, CheckLayer, CheckCandidate
  <2>2. check' \in 0..8 /\ check # 0 /\ check' # 0 /\ violations' \in BOOLEAN
    BY <2>1, CheckedKeeps
  <2>3. violations => violations'
    BY <2>1, CheckedKeeps
  <2>4. verdict' = verdict /\ rejected' = rejected
    BY <1>2 DEF CheckConstraint, CheckLayer, CheckCandidate
  <2> QED BY <2>2, <2>3, <2>4 DEF VerdictInv
<1>3. CASE Begin
  <2>1. check' \in 0..8
    BY <1>3 DEF Begin
  <2>2. violations' = FALSE /\ rejected' = FALSE /\ verdict' = "none"
    BY <1>3 DEF Begin
  <2> QED BY <2>1, <2>2 DEF VerdictInv
<1>4. CASE Decide
  BY <1>4 DEF Decide, VerdictInv
<1>5. CASE Raises
  BY <1>5 DEF Raises, VerdictInv
<1>6. CASE WorldMoves \/ ContextChanges \/ ResetStats \/ UNCHANGED gateVars
  BY <1>6 DEF WorldMoves, ContextChanges, ResetStats, gateVars, VerdictInv
<1> QED BY <1>1, <1>2, <1>3, <1>4, <1>5, <1>6 DEF GateNext

LEMMA TallyStep == VerdictInv /\ TallyInv /\ [GateNext]_gateVars => TallyInv'
<1> SUFFICES ASSUME VerdictInv, TallyInv, [GateNext]_gateVars PROVE TallyInv'
  OBVIOUS
<1>1. CASE CheckValue \/ CheckConstraint \/ CheckLayer \/ CheckCandidate
  <2>1. PICK c, passed : Checked(c, passed)
    BY <1>1 DEF CheckValue, CheckConstraint, CheckLayer, CheckCandidate
  <2>2. check # 0 /\ check' # 0
    BY <2>1, CheckedKeeps
  <2>3. tally' = tally
    BY <1>1 DEF CheckValue, CheckConstraint, CheckLayer, CheckCandidate
  <2> QED BY <2>2, <2>3 DEF TallyInv
<1>2. CASE Begin
  BY <1>2 DEF Begin, TallyInv
<1>3. CASE Decide
  BY <1>3 DEF Decide, TallyInv
<1>4. CASE Raises
  BY <1>4 DEF Raises, TallyInv
<1>5. CASE WorldMoves \/ ContextChanges \/ ResetStats \/ UNCHANGED gateVars
  BY <1>5 DEF WorldMoves, ContextChanges, ResetStats, gateVars, TallyInv
<1> QED BY <1>1, <1>2, <1>3, <1>4, <1>5 DEF GateNext

\* The sandbox never approves what the value runtime rejected, whatever scores
\* the world takes, and every evaluation is accounted for.
THEOREM RejectedNotApproved == GateSpec => []ApprovedNeverRejected
<1>1. GateInv => ApprovedNeverRejected
  BY DEF GateInv, VerdictInv, TallyInv, ApprovedNeverRejected
<1>2. GateInv /\ [GateNext]_gateVars => GateInv'
  BY WorldStep, VerdictStep, TallyStep DEF GateInv
<1> QED BY <1>1, <1>2, GateInitInv, PTL DEF GateSpec

\* The layers answer what they may; the verdict is one of three; no evaluation beyond the bound.
GateShape ==
  /\ \A f \in DOMAIN Answers : world[f] \in Answers[f]
  /\ present \subseteq GateLayers
  /\ verdict \in {"none", "approved", "rejected"}
  /\ tally.evaluations <= MaxEvaluations

\* The value runtime is asked once in an evaluation, at its third check.
StatsInv ==
  /\ stats \in [evaluations : Nat, rejections : Nat, hard : Nat]
  /\ stats.evaluations + (IF check \in 1..3 THEN 1 ELSE 0) <= tally.evaluations
  /\ stats.rejections <= stats.evaluations /\ stats.hard <= stats.rejections

LEMMA GateShapeStep ==
  WorldInv /\ TallyInv /\ GateShape /\ [GateNext]_gateVars => GateShape'
<1> SUFFICES ASSUME WorldInv, TallyInv, GateShape, [GateNext]_gateVars PROVE GateShape'
  OBVIOUS
<1>1. CASE WorldMoves
  <2>1. PICK f \in DOMAIN Answers : \E answer \in Answers[f] : world' = [world EXCEPT ![f] = answer]
    BY <1>1 DEF WorldMoves
  <2>2. PICK answer \in Answers[f] : world' = [world EXCEPT ![f] = answer]
    BY <2>1
  <2>3. \A g \in DOMAIN Answers : world'[g] \in Answers[g]
    <3>1. \A g \in DOMAIN Answers : world'[g] = IF g = f THEN answer ELSE world[g]
      BY <2>2 DEF WorldInv
    <3> QED BY <2>2, <3>1 DEF GateShape
  <2> QED BY <1>1, <2>3 DEF WorldMoves, GateShape
<1>2. CASE ContextChanges
  BY <1>2 DEF ContextChanges, GateShape
<1>3. CASE Begin
  <2>1. tally'.evaluations = tally.evaluations + 1 /\ tally.evaluations < MaxEvaluations
    BY <1>3 DEF Begin, TallyInv
  <2>2. tally.evaluations \in Nat /\ MaxEvaluations \in Nat
    BY ValueGateAssumption DEF ValueGateAssumption, TallyInv
  <2>3. tally'.evaluations <= MaxEvaluations
    BY <2>1, <2>2
  <2> QED BY <1>3, <2>3 DEF Begin, GateShape
<1>4. CASE Decide \/ Raises
  <2>1. tally'.evaluations = tally.evaluations
    BY <1>4 DEF Decide, Raises, TallyInv
  <2>2. verdict' \in {"none", "approved", "rejected"} /\ UNCHANGED <<world, present>>
    BY <1>4 DEF Decide, Raises, GateShape
  <2> QED BY <2>1, <2>2 DEF GateShape
<1>5. CASE ResetStats \/ CheckValue \/ CheckConstraint \/ CheckLayer \/ CheckCandidate
           \/ UNCHANGED gateVars
  <2>1. UNCHANGED <<world, present, verdict, tally>>
    BY <1>5 DEF ResetStats, CheckValue, CheckConstraint, CheckLayer, CheckCandidate, gateVars
  <2> QED BY <2>1 DEF GateShape
<1> QED BY <1>1, <1>2, <1>3, <1>4, <1>5 DEF GateNext

LEMMA StatsStep == VerdictInv /\ TallyInv /\ StatsInv /\ [GateNext]_gateVars => StatsInv'
<1> SUFFICES ASSUME VerdictInv, TallyInv, StatsInv, [GateNext]_gateVars PROVE StatsInv'
  OBVIOUS
<1>0. /\ tally.evaluations \in Nat /\ check \in 0..8
      /\ stats.evaluations \in Nat /\ stats.rejections \in Nat /\ stats.hard \in Nat
  BY DEF VerdictInv, TallyInv, StatsInv
<1>1. CASE CheckValue
  <2>1. check = 3 /\ check' = 4 /\ tally' = tally
    <3>1. check \in 1..7 /\ Checks[check] = "value" /\ check' = check + 1
      BY <1>1 DEF CheckValue, Checked
    <3>2. check = 3
      BY <3>1 DEF Checks
    <3> QED BY <1>1, <3>1, <3>2 DEF CheckValue
  <2>2. stats.evaluations + 1 <= tally.evaluations
    BY <2>1 DEF StatsInv
  <2>3. CASE UNCHANGED stats
    BY <1>0, <2>1, <2>2, <2>3 DEF StatsInv
  <2>4. CASE stats' = [evaluations |-> stats.evaluations + 1,
                       rejections  |-> stats.rejections + (IF Rejects(world) THEN 1 ELSE 0),
                       hard        |-> stats.hard + (IF HardRejects(world) THEN 1 ELSE 0)]
    <3>1. /\ stats'.evaluations = stats.evaluations + 1
          /\ stats'.rejections \in {stats.rejections, stats.rejections + 1}
          /\ stats'.hard \in {stats.hard, stats.hard + 1}
          /\ stats'.hard = stats.hard + 1 => stats'.rejections = stats.rejections + 1
      BY <1>0, <2>4 DEF Rejects
    <3>2. stats' \in [evaluations : Nat, rejections : Nat, hard : Nat]
      BY <1>0, <2>4
    <3>3. stats.rejections <= stats.evaluations /\ stats.hard <= stats.rejections
      BY DEF StatsInv
    <3>4. /\ stats'.rejections <= stats'.evaluations /\ stats'.hard <= stats'.rejections
          /\ stats'.evaluations <= tally.evaluations
      BY <1>0, <2>2, <3>1, <3>3
    <3>5. stats'.evaluations + (IF check' \in 1..3 THEN 1 ELSE 0) <= tally'.evaluations
      BY <2>1, <3>2, <3>4
    <3> QED BY <3>2, <3>4, <3>5 DEF StatsInv
  <2> QED BY <1>1, <2>3, <2>4 DEF CheckValue
<1>2. CASE Begin
  <2>1. /\ check = 0 /\ check' = 1 /\ stats' = stats
        /\ tally'.evaluations = tally.evaluations + 1
    BY <1>2 DEF Begin, TallyInv
  <2>2. stats.evaluations <= tally.evaluations
    BY <1>0, <2>1 DEF StatsInv
  <2>3. stats'.evaluations + (IF check' \in 1..3 THEN 1 ELSE 0) <= tally'.evaluations
    BY <1>0, <2>1, <2>2
  <2> QED BY <2>1, <2>3 DEF StatsInv
<1>3. CASE CheckConstraint \/ CheckLayer \/ CheckCandidate
  <2>1. PICK c, passed : Checked(c, passed)
    BY <1>3 DEF CheckConstraint, CheckLayer, CheckCandidate
  <2>2. UNCHANGED <<stats, tally>>
    BY <1>3 DEF CheckConstraint, CheckLayer, CheckCandidate
  <2>3. check' \in 1..3 => check \in 1..3
    BY <1>0, <2>1 DEF Checked
  <2>4. stats.evaluations + (IF check' \in 1..3 THEN 1 ELSE 0) <= tally.evaluations
    BY <1>0, <2>3 DEF StatsInv
  <2> QED BY <2>2, <2>4 DEF StatsInv
<1>4. CASE Decide \/ Raises
  <2>1. check' = 0 /\ stats' = stats /\ tally'.evaluations = tally.evaluations
    BY <1>4 DEF Decide, Raises, TallyInv
  <2>2. stats'.evaluations + (IF check' \in 1..3 THEN 1 ELSE 0) <= tally'.evaluations
    BY <1>0, <2>1 DEF StatsInv
  <2> QED BY <2>1, <2>2 DEF StatsInv
<1>5. CASE ResetStats
  <2>1. /\ UNCHANGED <<check, tally>>
        /\ stats' = [evaluations |-> 0, rejections |-> 0, hard |-> 0]
    BY <1>5 DEF ResetStats
  <2>2. (IF check \in 1..3 THEN 1 ELSE 0) <= tally.evaluations
    BY <1>0 DEF StatsInv
  <2> QED BY <2>1, <2>2 DEF StatsInv
<1>6. CASE WorldMoves \/ ContextChanges \/ UNCHANGED gateVars
  <2>1. UNCHANGED <<check, tally, stats>>
    BY <1>6 DEF WorldMoves, ContextChanges, gateVars
  <2> QED BY <2>1 DEF StatsInv
<1> QED BY <1>1, <1>2, <1>3, <1>4, <1>5, <1>6 DEF GateNext

\* Sandbox and value runtime keep their types, and neither counts more than there was.
THEOREM GateTypes == GateSpec => []GateTypeOK
<1>1. GateInit => GateInv /\ GateShape /\ StatsInv
  <2> SUFFICES ASSUME GateInit PROVE GateShape /\ StatsInv
    BY GateInitInv
  <2>0. MaxEvaluations \in Nat
    BY ValueGateAssumption DEF ValueGateAssumption
  <2>1. StatsInv
    BY DEF GateInit, StatsInv
  <2>2. \A f \in DOMAIN Answers : world[f] \in Answers[f]
    BY ValueGateAssumption DEF ValueGateAssumption, GateInit, Answers
  <2> QED BY <2>0, <2>1, <2>2 DEF GateInit, GateShape
<1>2. GateInv /\ GateShape /\ StatsInv /\ [GateNext]_gateVars => (GateInv /\ GateShape /\ StatsInv)'
  BY WorldStep, VerdictStep, TallyStep, GateShapeStep, StatsStep DEF GateInv
<1>3. GateInv /\ GateShape /\ StatsInv => GateTypeOK
  <2> SUFFICES ASSUME GateInv, GateShape, StatsInv PROVE GateTypeOK
    OBVIOUS
  <2> DEFINE N == MaxEvaluations
  <2>0. N \in Nat
    BY ValueGateAssumption DEF ValueGateAssumption
  <2>1. /\ tally \in [evaluations : Nat, approved : Nat, rejected : Nat, raised : Nat]
        /\ tally.approved <= tally.evaluations /\ tally.rejected <= tally.evaluations
        /\ tally.raised <= tally.evaluations
    BY DEF GateInv, TallyInv
  <2>2. tally.evaluations <= N
    BY DEF GateShape
  <2>3. /\ stats \in [evaluations : Nat, rejections : Nat, hard : Nat]
        /\ stats.evaluations <= tally.evaluations
        /\ stats.rejections <= stats.evaluations /\ stats.hard <= stats.rejections
    BY <2>1 DEF StatsInv
  <2> HIDE DEF N
  <2>4. tally \in [evaluations : 0..N, approved : 0..N, rejected : 0..N, raised : 0..N]
    BY <2>0, <2>1, <2>2
  <2>5. stats \in [evaluations : 0..N, rejections : 0..N, hard : 0..N]
    BY <2>0, <2>1, <2>2, <2>3
  <2> QED BY <2>4, <2>5 DEF N, GateInv, VerdictInv, GateShape, GateTypeOK
<1> QED BY <1>1, <1>2, <1>3, PTL DEF GateSpec

-----------------------------------------------------------------------------
(* Observation *)

\* The sinks of a policy, in the order it is injected.
Injecting == {"weights", "planner", "goals"}

\* Policy w is the latest of p.
Latest(p, w) ==
  \E i \in DOMAIN p : p[i] = w /\ \A j \in i + 1..Len(p) : p[j] = 0

\* One emission at a time, at a place that fits the episode it replays.
OneEmission ==
  /\ \A e, f \in Emitter : emission[e] # "idle" /\ emission[f] # "idle" => e = f
  /\ \A e \in Emitter : emission[e] \notin {"idle", "hub"} => replayed[e] = Len(episodes)
  /\ \A e \in Emitter : emission[e] = "load" => graphs[Len(graphs)] = replayed[e]

\* Every graph is of an episode of its own, in order; only once the hub runs of the newest.
GraphsInOrder ==
  /\ \A i, j \in DOMAIN graphs : i < j => graphs[i] < graphs[j]
  /\ \A i \in DOMAIN graphs : graphs[i] <= Len(episodes)
  /\ \A e \in Emitter : emission[e] = "hub" => \A i \in DOMAIN graphs : graphs[i] < Len(episodes)
  /\ \A i \in DOMAIN loaded : loaded[i] = graphs[i]

\* A sink that was there all the time since the weights took their policy has the same one.
GoalsInOrder == "goals" \notin newSinks => goals.weight = CuriosityWeight(weights)
PlannerInOrder == "planner" \notin newSinks => planner = SearchDepth(weights)

\* How far the injection has come.
PolicyInOrder ==
  /\ \A e \in Emitter : emission[e] \in Injecting => held[e] # 0 /\ Latest(policies, held[e])
  /\ \A e \in Emitter : emission[e] \in {"planner", "goals"} =>
       /\ weights = held[e]
       /\ planner = 0 => "planner" \in newSinks
       /\ goals = NoGoals => "goals" \in newSinks
  /\ \A e \in Emitter : emission[e] = "goals" => PlannerInOrder
  /\ (\A e \in Emitter : emission[e] \notin Injecting) /\ weights # 0 =>
       GoalsInOrder /\ PlannerInOrder /\ Latest(policies, weights)

ObsShape ==
  /\ ObsTypeOK
  /\ Len(episodes) <= emitted
  /\ \A e \in Emitter : emission[e] = "load" => graphs # <<>>

ObsInv ==
  /\ ObsShape
  /\ clean => OneEmission /\ GraphsInOrder /\ PolicyInOrder

\* What InjectPlanner, InjectGoals and their clipping may produce.
LEMMA InjectedInRange ==
  ASSUME NEW a \in Amp
  PROVE  /\ a # 0 /\ a \in Int
         /\ SearchDepth(a) \in 3..10 /\ CuriosityWeight(a) \in 100..150
<1>1. a \in 10..20
  BY ObservationAssumption DEF ObservationAssumption
<1>2. CuriosityWeight(a) \in 100..150
  BY <1>1 DEF CuriosityWeight
<1>3. SearchDepth(a) \in 3..10
  BY <1>1 DEF SearchDepth, Clip
<1> QED BY <1>1, <1>2, <1>3

\* The persistence of the goals, for the suppression ratios there are.
LEMMA PersistenceInRange ==
  ASSUME NEW ratio \in {0, 6, 10} PROVE GoalPersistence(ratio) \in 30..100
<1>1. CASE ratio = 0
  BY <1>1 DEF GoalPersistence
<1>2. CASE ratio = 6
  BY <1>2 DEF GoalPersistence, Clip
<1>3. CASE ratio = 10
  BY <1>3 DEF GoalPersistence, Clip
<1> QED BY <1>1, <1>2, <1>3

LEMMA ObsInitInv == ObsInit => ObsInv
<1> SUFFICES ASSUME ObsInit PROVE ObsInv
  OBVIOUS
<1>1. MaxEpisodes \in Nat
  BY ObservationAssumption DEF ObservationAssumption
<1> USE DEF ObsInit
<1>2. ObsShape
  BY <1>1 DEF ObsShape, ObsTypeOK, NoGoals, Goals
<1>3. OneEmission /\ GraphsInOrder /\ PolicyInOrder
  BY DEF OneEmission, GraphsInOrder, PolicyInOrder, Injecting
<1> QED BY <1>2, <1>3 DEF ObsInv

\* Every step keeps the types.
LEMMA ShapeStep == ObsShape /\ [ObsNext]_obsVars => ObsShape'
<1> SUFFICES ASSUME ObsShape, [ObsNext]_obsVars PROVE ObsShape'
  OBVIOUS
<1>0. MaxEpisodes \in Nat
  BY ObservationAssumption DEF ObservationAssumption
<1>a. Len(episodes) \in Nat /\ emitted \in Nat
  BY <1>0 DEF ObsShape, ObsTypeOK
<1> USE DEF ObsShape, ObsTypeOK, EmissionTo, hubVars, sinkVars
<1>1. CASE RegisterPlanner \/ CreateGoals \/ ReplaceContext
  <2>1. UNCHANGED <<hubVars, weights, emission, replayed, held, emitted, clean>>
    BY <1>1 DEF RegisterPlanner, CreateGoals, ReplaceContext
  <2>2. planner' \in {0} \union 3..10
    <3>1. planner \in {0} \union 3..10 /\ 5 \in {0} \union 3..10
      OBVIOUS
    <3>2. planner' \in {planner, 5, 0}
      BY <1>1 DEF RegisterPlanner, CreateGoals, ReplaceContext
    <3> HIDE DEF ObsShape, ObsTypeOK
    <3> QED BY <3>1, <3>2
  <2>4. newSinks' \subseteq {"planner", "goals"}
    BY <1>1 DEF RegisterPlanner, CreateGoals, ReplaceContext
  <2>3. goals'.weight \in {0} \union 100..150 /\ goals'.persistence \in {0} \union 30..100
    BY <1>1 DEF RegisterPlanner, CreateGoals, ReplaceContext, FreshGoals, NoGoals, Goals
  <2> QED BY <2>1, <2>2, <2>3, <2>4
<1>2. ASSUME NEW e \in Emitter, EpisodeEnds(e) PROVE ObsShape'
  <2>1. /\ UNCHANGED <<graphs, loaded, queued, policies, sinkVars, replayed, held>>
        /\ emission' = [emission EXCEPT ![e] = "hub"]
        /\ emitted' = emitted + 1 /\ emitted < MaxEpisodes
        /\ clean' \in BOOLEAN
    BY <1>2 DEF EpisodeEnds
  <2>2. emitted' \in 0..MaxEpisodes
    BY <1>0, <2>1
  <2>3. /\ episodes' \in Seq(BOOLEAN)
        /\ Len(episodes') <= Len(episodes) + 1 /\ Len(episodes') \in Nat
    <3>1. CASE \E steps \in BOOLEAN : episodes' = Append(episodes, steps)
      BY <1>a, <3>1
    <3>2. CASE UNCHANGED episodes
      <4>1. Len(episodes) <= Len(episodes) + 1
        BY <1>a
      <4> QED BY <1>a, <3>2, <4>1
    <3> QED BY <1>2, <3>1, <3>2 DEF EpisodeEnds
  <2>4. Len(episodes') <= emitted' /\ Len(episodes') <= MaxEpisodes
    BY <1>0, <1>a, <2>1, <2>3
  <2> QED BY <2>1, <2>2, <2>3, <2>4
<1>3. ASSUME NEW e \in Emitter, BuildGraph(e) PROVE ObsShape'
  <2>1. UNCHANGED <<episodes, loaded, queued, policies, sinkVars, held, emitted, clean>>
    BY <1>3 DEF BuildGraph
  <2>2. CASE /\ Replay > 0
             /\ graphs' = Append(graphs, Replay)
             /\ replayed' = [replayed EXCEPT ![e] = Replay]
             /\ emission' = [emission EXCEPT ![e] = "load"]
    <3>1. Replay \in 1..MaxEpisodes /\ Replay \in 0..MaxEpisodes
      BY <1>0, <1>a, <2>2 DEF Replay
    <3> HIDE DEF ObsShape, ObsTypeOK
    <3>2. /\ graphs \in Seq(1..MaxEpisodes) /\ replayed \in [Emitter -> 0..MaxEpisodes]
          /\ emission \in [Emitter -> {"idle", "hub", "load", "v2", "v3", "weights", "planner", "goals"}]
          /\ DOMAIN loaded \subseteq DOMAIN graphs
      BY DEF ObsShape, ObsTypeOK
    <3>3. /\ graphs' \in Seq(1..MaxEpisodes) /\ graphs' # <<>>
          /\ DOMAIN loaded \subseteq DOMAIN graphs'
      BY <2>2, <3>1, <3>2
    <3>4. /\ replayed' \in [Emitter -> 0..MaxEpisodes]
          /\ emission' \in [Emitter -> {"idle", "hub", "load", "v2", "v3", "weights", "planner", "goals"}]
      BY <2>2, <3>1, <3>2
    <3> QED BY <2>1, <3>3, <3>4 DEF ObsShape, ObsTypeOK
  <2>3. CASE emission' = [emission EXCEPT ![e] = "idle"] /\ UNCHANGED <<graphs, replayed>>
    BY <2>1, <2>3
  <2> QED BY <1>3, <2>2, <2>3 DEF BuildGraph
<1>4. ASSUME NEW e \in Emitter, LoadGraph(e) PROVE ObsShape'
  <2>1. UNCHANGED <<episodes, graphs, queued, policies, sinkVars, replayed, held, emitted, clean>>
    BY <1>4 DEF LoadGraph
  <2>2. emission' \in [Emitter -> {"idle", "hub", "load", "v2", "v3", "weights", "planner", "goals"}]
        /\ \A f \in Emitter : emission'[f] = "load" => emission[f] = "load"
    BY <1>4 DEF LoadGraph
  <2>3. Len(graphs) \in DOMAIN graphs
    BY <1>4 DEF LoadGraph
  <2>4. DOMAIN loaded' \subseteq DOMAIN graphs
    BY <1>4, <2>3 DEF LoadGraph
  <2> QED BY <2>1, <2>2, <2>4
<1>5. ASSUME NEW e \in Emitter, GovernV2(e) PROVE ObsShape'
  BY <1>5 DEF GovernV2
<1>6. ASSUME NEW e \in Emitter, GovernV3(e) PROVE ObsShape'
  <2>1. UNCHANGED <<episodes, graphs, loaded, queued, sinkVars, replayed, emitted, clean>>
    BY <1>6 DEF GovernV3
  <2>2. CASE \E amp \in Amp \union {0} :
               /\ policies' = Append(policies, amp)
               /\ held' = [held EXCEPT ![e] = amp]
               /\ emission' = [emission EXCEPT ![e] = IF amp = 0 THEN "idle" ELSE "weights"]
    BY <2>1, <2>2
  <2>3. CASE emission' = [emission EXCEPT ![e] = "idle"] /\ UNCHANGED <<policies, held>>
    BY <2>1, <2>3
  <2> QED BY <1>6, <2>2, <2>3 DEF GovernV3
<1>7. ASSUME NEW e \in Emitter, InjectWeights(e) PROVE ObsShape'
  BY <1>7 DEF InjectWeights
<1>8. ASSUME NEW e \in Emitter, InjectPlanner(e) PROVE ObsShape'
  <2>1. held[e] # 0 => SearchDepth(held[e]) \in 3..10
    BY InjectedInRange
  <2>2. held[e] = 0 => SearchDepth(held[e]) \in 3..10
    BY DEF SearchDepth, Clip
  <2> QED BY <1>8, <2>1, <2>2 DEF InjectPlanner
<1>9. ASSUME NEW e \in Emitter, InjectGoals(e) PROVE ObsShape'
  <2>1. held[e] # 0 => CuriosityWeight(held[e]) \in 100..150
    BY InjectedInRange
  <2>2. held[e] = 0 => CuriosityWeight(held[e]) \in 100..150
    BY DEF CuriosityWeight
  <2>3. /\ UNCHANGED <<hubVars, weights, planner, newSinks, replayed, held, emitted>>
        /\ emission' = [emission EXCEPT ![e] = "idle"] /\ clean' \in BOOLEAN
    BY <1>9 DEF InjectGoals
  <2>4. goals'.weight \in {0} \union 100..150 /\ goals'.persistence \in {0} \union 30..100
    <3>1. CASE UNCHANGED goals
      BY <3>1
    <3>2. ASSUME NEW ratio \in {0, 6, 10},
                 goals' = Goals(CuriosityWeight(held[e]), GoalPersistence(ratio))
          PROVE  goals'.weight \in 100..150 /\ goals'.persistence \in 30..100
      <4>1. CuriosityWeight(held[e]) \in 100..150
        BY <2>1, <2>2
      <4>2. GoalPersistence(ratio) \in 30..100
        BY PersistenceInRange
      <4> QED BY <3>2, <4>1, <4>2 DEF Goals
    <3> QED BY <1>9, <3>1, <3>2 DEF InjectGoals
  <2> QED BY <2>3, <2>4
<1>10. CASE UNCHANGED obsVars
  BY <1>10 DEF obsVars
<1> QED BY <1>1, <1>2, <1>3, <1>4, <1>5, <1>6, <1>7, <1>8, <1>9, <1>10 DEF ObsNext

\* What has gone wrong stays so.
LEMMA CleanBefore == ObsShape /\ [ObsNext]_obsVars /\ clean' => clean
<1> USE DEF ObsShape, ObsTypeOK
<1> QED
  BY DEF ObsNext, obsVars, RegisterPlanner, CreateGoals, ReplaceContext, EpisodeEnds, BuildGraph, LoadGraph, GovernV2, GovernV3,
         InjectWeights, InjectPlanner, InjectGoals

\* An emission starts when there is no other, and goes on by itself.
LEMMA EmissionStep ==
  ObsShape /\ clean /\ clean' /\ OneEmission /\ [ObsNext]_obsVars => OneEmission'
<1> SUFFICES ASSUME ObsShape, clean, clean', OneEmission, [ObsNext]_obsVars PROVE OneEmission'
  OBVIOUS
<1> USE DEF OneEmission, ObsShape, ObsTypeOK, EmissionTo, hubVars, sinkVars
<1>1. CASE RegisterPlanner \/ CreateGoals \/ ReplaceContext
  BY <1>1 DEF RegisterPlanner, CreateGoals, ReplaceContext
<1>2. ASSUME NEW e \in Emitter, EpisodeEnds(e) PROVE OneEmission'
  BY <1>2 DEF EpisodeEnds, Quiet
<1>3. ASSUME NEW e \in Emitter, BuildGraph(e) PROVE OneEmission'
  <2>1. \A f \in Emitter : f # e => emission[f] = "idle"
    BY <1>3 DEF BuildGraph
  <2>2. CASE /\ graphs' = Append(graphs, Replay)
             /\ replayed' = [replayed EXCEPT ![e] = Replay]
             /\ emission' = [emission EXCEPT ![e] = "load"]
    <3>1. graphs'[Len(graphs')] = Replay
      BY <2>2
    <3>2. episodes' = episodes /\ Replay = Len(episodes)
      BY <1>3 DEF BuildGraph, Replay
    <3>3. replayed'[e] = Len(episodes')
      BY <2>2, <3>2
    <3> QED BY <2>1, <2>2, <3>1, <3>2, <3>3
  <2>3. CASE emission' = [emission EXCEPT ![e] = "idle"]
    BY <2>1, <2>3
  <2> QED BY <1>3, <2>2, <2>3 DEF BuildGraph
<1>4. ASSUME NEW e \in Emitter, LoadGraph(e) PROVE OneEmission'
  BY <1>4 DEF LoadGraph
<1>5. ASSUME NEW e \in Emitter, GovernV2(e) PROVE OneEmission'
  BY <1>5 DEF GovernV2
<1>6. ASSUME NEW e \in Emitter, GovernV3(e) PROVE OneEmission'
  BY <1>6 DEF GovernV3
<1>7. ASSUME NEW e \in Emitter, InjectWeights(e) PROVE OneEmission'
  BY <1>7 DEF InjectWeights
<1>8. ASSUME NEW e \in Emitter, InjectPlanner(e) PROVE OneEmission'
  BY <1>8 DEF InjectPlanner
<1>9. ASSUME NEW e \in Emitter, InjectGoals(e) PROVE OneEmission'
  BY <1>9 DEF InjectGoals
<1>10. CASE UNCHANGED obsVars
  BY <1>10 DEF obsVars
<1> QED BY <1>1, <1>2, <1>3, <1>4, <1>5, <1>6, <1>7, <1>8, <1>9, <1>10 DEF ObsNext

\* The new graph is of an episode that ended after all that have one.
LEMMA GraphStep ==
  ObsShape /\ clean /\ clean' /\ OneEmission /\ GraphsInOrder /\ [ObsNext]_obsVars => GraphsInOrder'
<1> SUFFICES ASSUME ObsShape, clean, clean', OneEmission, GraphsInOrder, [ObsNext]_obsVars
             PROVE  GraphsInOrder'
  OBVIOUS
<1>a. /\ Len(episodes) \in Nat /\ Len(graphs) \in Nat /\ DOMAIN graphs = 1..Len(graphs)
      /\ \A i \in DOMAIN graphs : graphs[i] \in Int
      /\ DOMAIN loaded \subseteq DOMAIN graphs
      /\ DOMAIN emission = Emitter
  <2>1. Len(episodes) \in Nat /\ DOMAIN loaded \subseteq DOMAIN graphs /\ DOMAIN emission = Emitter
    BY DEF ObsShape, ObsTypeOK
  <2>2. graphs \in Seq(1..MaxEpisodes)
    BY DEF ObsShape, ObsTypeOK
  <2>3. Len(graphs) \in Nat /\ DOMAIN graphs = 1..Len(graphs)
    BY <2>2
  <2>4. \A i \in DOMAIN graphs : graphs[i] \in Int
    <3>1. \A i \in 1..Len(graphs) : graphs[i] \in 1..MaxEpisodes
      <4> DEFINE S == 1..MaxEpisodes
      <4> HIDE DEF S
      <4>1. graphs \in Seq(S)
        BY <2>2 DEF S
      <4>2. \A i \in 1..Len(graphs) : graphs[i] \in S
        BY <4>1
      <4> QED BY <4>2 DEF S
    <3>2. 1..MaxEpisodes \subseteq Int
      BY ObservationAssumption DEF ObservationAssumption
    <3> QED BY <2>3, <3>1, <3>2
  <2> QED BY <2>1, <2>3, <2>4
<1>1. ASSUME NEW e \in Emitter, EpisodeEnds(e) PROVE GraphsInOrder'
  <2>1. Len(episodes') = Len(episodes) + 1 /\ UNCHANGED <<graphs, loaded>>
    BY <1>1 DEF EpisodeEnds, ObsShape, ObsTypeOK
  <2>2. \A i \in DOMAIN graphs : graphs[i] < Len(episodes') /\ graphs[i] <= Len(episodes')
    BY <1>a, <2>1 DEF GraphsInOrder
  <2> QED BY <2>1, <2>2 DEF GraphsInOrder
<1>2. ASSUME NEW e \in Emitter, BuildGraph(e) PROVE GraphsInOrder'
  <2>1. /\ UNCHANGED <<episodes, loaded>>
        /\ emission[e] = "hub"
        /\ \A f \in Emitter : emission'[f] # "hub"
    BY <1>2 DEF BuildGraph, EmissionTo, OneEmission, ObsShape, ObsTypeOK
  <2>2. CASE graphs' = Append(graphs, Len(episodes))
    <3>1. /\ DOMAIN graphs' = 1..(Len(graphs) + 1)
          /\ \A i \in DOMAIN graphs : graphs'[i] = graphs[i]
          /\ graphs'[Len(graphs) + 1] = Len(episodes)
      BY <1>a, <2>2 DEF ObsShape, ObsTypeOK
    <3>2. \A i \in DOMAIN graphs : graphs[i] < Len(episodes)
      BY <2>1 DEF GraphsInOrder
    <3>3. \A i \in DOMAIN graphs' : i \in DOMAIN graphs \/ i = Len(graphs) + 1
      BY <1>a, <3>1
    <3>4. \A i, j \in DOMAIN graphs' : i < j => graphs'[i] < graphs'[j]
      <4> SUFFICES ASSUME NEW i \in DOMAIN graphs', NEW j \in DOMAIN graphs', i < j
                   PROVE  graphs'[i] < graphs'[j]
        OBVIOUS
      <4>1. i \in DOMAIN graphs
        BY <1>a, <3>1
      <4>2. CASE j \in DOMAIN graphs
        BY <3>1, <4>1, <4>2 DEF GraphsInOrder
      <4>3. CASE j = Len(graphs) + 1
        BY <3>1, <3>2, <4>1, <4>3
      <4> QED BY <3>3, <4>2, <4>3
    <3>5. \A i \in DOMAIN graphs' : graphs'[i] <= Len(episodes)
      BY <1>a, <3>1, <3>2, <3>3
    <3>6. \A i \in DOMAIN loaded : loaded[i] = graphs'[i]
      BY <1>a, <3>1 DEF GraphsInOrder
    <3> QED BY <2>1, <3>4, <3>5, <3>6 DEF GraphsInOrder
  <2>3. CASE UNCHANGED graphs
    BY <2>1, <2>3 DEF GraphsInOrder
  <2> QED BY <1>2, <2>2, <2>3 DEF BuildGraph, Replay
<1>3. ASSUME NEW e \in Emitter, LoadGraph(e) PROVE GraphsInOrder'
  <2>1. /\ UNCHANGED <<episodes, graphs>>
        /\ \A f \in Emitter : emission'[f] # "hub"
    BY <1>3 DEF LoadGraph, EmissionTo, OneEmission, ObsShape, ObsTypeOK
  <2>2. graphs[Len(graphs)] = replayed[e]
    BY <1>3 DEF LoadGraph, OneEmission
  <2>3. \A i \in DOMAIN loaded' : loaded'[i] = graphs[i]
    BY <1>3, <2>2 DEF LoadGraph, GraphsInOrder
  <2> QED BY <2>1, <2>3 DEF GraphsInOrder
<1>4. CASE /\ UNCHANGED <<episodes, graphs, loaded>>
           /\ \A f \in Emitter : emission'[f] = "hub" => emission[f] = "hub"
  BY <1>4 DEF GraphsInOrder
<1>5. CASE \E e \in Emitter :
             \/ GovernV2(e) \/ GovernV3(e)
             \/ InjectWeights(e) \/ InjectPlanner(e) \/ InjectGoals(e)
  <2>1. UNCHANGED <<episodes, graphs, loaded>>
    BY <1>5 DEF GovernV2, GovernV3, InjectWeights, InjectPlanner, InjectGoals, hubVars
  <2>2. \A f \in Emitter : emission'[f] = "hub" => emission[f] = "hub"
    BY <1>5, <1>a DEF GovernV2, GovernV3, InjectWeights, InjectPlanner, InjectGoals, EmissionTo
  <2> QED BY <1>4, <2>1, <2>2
<1>6. CASE RegisterPlanner \/ CreateGoals \/ ReplaceContext \/ UNCHANGED obsVars
  BY <1>4, <1>6 DEF RegisterPlanner, CreateGoals, ReplaceContext, obsVars, hubVars
<1> QED BY <1>1, <1>2, <1>3, <1>5, <1>6 DEF ObsNext

\* The newest state's policy is the latest; a state without one leaves the latest so.
LEMMA LatestOfAppend ==
  ASSUME NEW p \in Seq(Amp \union {0}), NEW a \in Amp \union {0}
  PROVE  /\ Latest(Append(p, a), a)
         /\ a = 0 => \A w : Latest(p, w) => Latest(Append(p, a), w)
<1> DEFINE q == Append(p, a)
<1>1. /\ Len(p) \in Nat /\ Len(q) = Len(p) + 1 /\ DOMAIN p = 1..Len(p) /\ DOMAIN q = 1..Len(q)
      /\ q[Len(q)] = a /\ \A i \in DOMAIN p : q[i] = p[i]
  OBVIOUS
<1> HIDE DEF q
<1>2. Len(q) \in DOMAIN q /\ \A j \in Len(q) + 1..Len(q) : q[j] = 0
  BY <1>1
<1>3. Latest(q, a)
  BY <1>1, <1>2 DEF Latest
<1>4. ASSUME a = 0, NEW w, Latest(p, w) PROVE Latest(q, w)
  <2>1. PICK i \in DOMAIN p : p[i] = w /\ \A j \in i + 1..Len(p) : p[j] = 0
    BY <1>4 DEF Latest
  <2>2. i \in DOMAIN q /\ q[i] = w
    BY <1>1, <2>1
  <2>3. ASSUME NEW j \in i + 1..Len(q) PROVE q[j] = 0
    <3>1. j = Len(q) \/ (j \in i + 1..Len(p) /\ j \in DOMAIN p)
      BY <1>1
    <3> QED BY <1>1, <1>4, <2>1, <3>1
  <2> QED BY <2>2, <2>3 DEF Latest
<1> QED BY <1>3, <1>4 DEF q

\* An injection that does not fail brings all three sinks to the policy it holds.
LEMMA PolicyStep ==
  ObsShape /\ clean /\ clean' /\ OneEmission /\ PolicyInOrder /\ [ObsNext]_obsVars => PolicyInOrder'
<1> SUFFICES ASSUME ObsShape, clean, clean', OneEmission, PolicyInOrder, [ObsNext]_obsVars
             PROVE  PolicyInOrder'
  OBVIOUS
<1>a. /\ DOMAIN emission = Emitter /\ DOMAIN held = Emitter
      /\ policies \in Seq(Amp \union {0})
      /\ \A e \in Emitter : held[e] \in Amp \union {0}
  BY DEF ObsShape, ObsTypeOK
<1>b. \A e, f \in Emitter : emission[e] # "idle" /\ emission[f] # "idle" => e = f
  BY DEF OneEmission
<1>1. CASE RegisterPlanner \/ CreateGoals \/ ReplaceContext
  <2>1. /\ UNCHANGED <<policies, weights, held, emission>>
        /\ \/ /\ goals' = goals /\ planner' = 5
              /\ newSinks' = newSinks \union {"planner"}
           \/ /\ planner' = planner /\ goals' # NoGoals
              /\ newSinks' = newSinks \union {"goals"}
           \/ newSinks' = {"planner", "goals"}
    BY <1>1 DEF RegisterPlanner, CreateGoals, ReplaceContext, hubVars, FreshGoals, NoGoals, Goals
  <2>2. (PlannerInOrder => PlannerInOrder') /\ (GoalsInOrder => GoalsInOrder')
    BY <2>1 DEF PlannerInOrder, GoalsInOrder
  <2>3. /\ (planner = 0 => "planner" \in newSinks) => (planner' = 0 => "planner" \in newSinks')
        /\ (goals = NoGoals => "goals" \in newSinks) => (goals' = NoGoals => "goals" \in newSinks')
    BY <2>1
  <2> QED BY <2>1, <2>2, <2>3 DEF PolicyInOrder
<1>2. CASE /\ UNCHANGED <<policies, sinkVars, held>>
           /\ \A f \in Emitter :
                  emission'[f] # emission[f] => {emission'[f], emission[f]} \cap Injecting = {}
  BY <1>2 DEF PolicyInOrder, Injecting, sinkVars, GoalsInOrder, PlannerInOrder
<1>3. CASE \E e \in Emitter : EpisodeEnds(e) \/ BuildGraph(e) \/ LoadGraph(e) \/ GovernV2(e)
  <2>1. UNCHANGED <<policies, sinkVars, held>>
    BY <1>3 DEF EpisodeEnds, BuildGraph, LoadGraph, GovernV2
  <2>2. \A f \in Emitter :
            emission'[f] # emission[f] => {emission'[f], emission[f]} \cap Injecting = {}
    <3>1. PICK e \in Emitter : EpisodeEnds(e) \/ BuildGraph(e) \/ LoadGraph(e) \/ GovernV2(e)
      BY <1>3
    <3>2. /\ emission[e] \in {"idle", "hub", "load", "v2"}
          /\ \E where \in {"idle", "hub", "load", "v2", "v3"} :
               emission' = [emission EXCEPT ![e] = where]
      BY <3>1 DEF EpisodeEnds, BuildGraph, LoadGraph, GovernV2, EmissionTo
    <3> QED BY <1>a, <3>2 DEF Injecting
  <2> QED BY <1>2, <2>1, <2>2
<1>4. ASSUME NEW e \in Emitter, GovernV3(e) PROVE PolicyInOrder'
  <2>1. UNCHANGED sinkVars /\ emission[e] = "v3"
    BY <1>4 DEF GovernV3
  <2>2. \A f \in Emitter : f # e => emission[f] = "idle"
    BY <1>b, <2>1
  <2>3. weights # 0 => GoalsInOrder /\ PlannerInOrder /\ Latest(policies, weights)
    BY <2>1, <2>2 DEF PolicyInOrder, Injecting
  <2>4. CASE UNCHANGED <<policies, held>> /\ emission' = [emission EXCEPT ![e] = "idle"]
    <3>1. emission'[e] = "idle" /\ \A f \in Emitter : f # e => emission'[f] = emission[f]
      BY <1>a, <2>4
    <3>2. \A f \in Emitter :
              emission'[f] # emission[f] => {emission'[f], emission[f]} \cap Injecting = {}
      BY <2>1, <3>1 DEF Injecting
    <3> QED BY <1>2, <2>1, <2>4, <3>2
  <2>5. ASSUME NEW amp \in Amp \union {0},
               policies' = Append(policies, amp), held' = [held EXCEPT ![e] = amp],
               emission' = [emission EXCEPT ![e] = IF amp = 0 THEN "idle" ELSE "weights"]
        PROVE  PolicyInOrder'
    <3>1. /\ Latest(policies', amp)
          /\ amp = 0 => \A w : Latest(policies, w) => Latest(policies', w)
      BY <1>a, <2>5, LatestOfAppend
    <3>2. CASE amp = 0
      <4>1. \A f \in Emitter : emission'[f] = "idle"
        BY <1>a, <2>2, <2>5, <3>2
      <4>2. weights # 0 => Latest(policies', weights)
        BY <2>3, <3>1, <3>2
      <4> QED BY <2>1, <2>3, <4>1, <4>2
              DEF PolicyInOrder, Injecting, sinkVars, GoalsInOrder, PlannerInOrder
    <3>3. CASE amp # 0
      <4>1. /\ emission'[e] = "weights" /\ held'[e] = amp
            /\ \A f \in Emitter : f # e => emission'[f] = "idle"
        BY <1>a, <2>2, <2>5, <3>3
      <4> QED BY <3>1, <3>3, <4>1 DEF PolicyInOrder, Injecting
    <3> QED BY <3>2, <3>3
  <2> QED BY <1>4, <2>4, <2>5 DEF GovernV3, EmissionTo
<1>5. ASSUME NEW e \in Emitter, InjectWeights(e) PROVE PolicyInOrder'
  <2>1. /\ UNCHANGED <<policies, held>> /\ weights' = held[e]
        /\ emission' = [emission EXCEPT ![e] = "planner"] /\ emission[e] = "weights"
    BY <1>5 DEF InjectWeights, EmissionTo, hubVars
  <2>2. /\ emission'[e] = "planner"
        /\ \A f \in Emitter : f # e => emission'[f] = "idle"
    BY <1>a, <1>b, <2>1
  <2>3. held[e] # 0 /\ Latest(policies, held[e])
    BY <2>1 DEF PolicyInOrder, Injecting
  <2>4. /\ planner' = 0 => "planner" \in newSinks'
        /\ goals' = NoGoals => "goals" \in newSinks'
    BY <1>5, <2>2 DEF InjectWeights, EmissionTo
  <2> QED BY <2>1, <2>2, <2>3, <2>4 DEF PolicyInOrder, Injecting
<1>6. ASSUME NEW e \in Emitter, InjectPlanner(e) PROVE PolicyInOrder'
  <2>1. /\ UNCHANGED <<policies, held, weights, goals, newSinks>> /\ emission[e] = "planner"
        /\ planner' = (IF planner = 0 THEN 0 ELSE SearchDepth(held[e]))
        /\ emission' = [emission EXCEPT ![e] = "goals"]
    BY <1>6 DEF InjectPlanner, EmissionTo, hubVars
  <2>2. /\ emission'[e] = "goals"
        /\ \A f \in Emitter : f # e => emission'[f] = "idle"
    BY <1>a, <1>b, <2>1
  <2>3. /\ held[e] # 0 /\ Latest(policies, held[e]) /\ weights = held[e]
        /\ planner = 0 => "planner" \in newSinks
        /\ goals = NoGoals => "goals" \in newSinks
    BY <2>1 DEF PolicyInOrder, Injecting
  <2>4. PlannerInOrder' /\ (planner' = 0 => "planner" \in newSinks)
    <3>1. SearchDepth(held[e]) # 0
      BY <1>a, <2>3, InjectedInRange
    <3> QED BY <2>1, <2>3, <3>1 DEF PlannerInOrder
  <2> QED BY <2>1, <2>2, <2>3, <2>4 DEF PolicyInOrder, Injecting
<1>7. ASSUME NEW e \in Emitter, InjectGoals(e) PROVE PolicyInOrder'
  <2>1. /\ UNCHANGED <<policies, held, weights, planner, newSinks>> /\ emission[e] = "goals"
        /\ goals = NoGoals \/ goals'.weight = CuriosityWeight(held[e])
        /\ emission' = [emission EXCEPT ![e] = "idle"]
    BY <1>7 DEF InjectGoals, EmissionTo, hubVars, Goals
  <2>2. \A f \in Emitter : emission'[f] = "idle"
    BY <1>a, <1>b, <2>1
  <2>3. /\ Latest(policies, held[e]) /\ weights = held[e] /\ PlannerInOrder
        /\ goals = NoGoals => "goals" \in newSinks
    BY <2>1 DEF PolicyInOrder, Injecting
  <2>4. PlannerInOrder' /\ GoalsInOrder'
    BY <2>1, <2>3 DEF PlannerInOrder, GoalsInOrder
  <2> QED BY <2>1, <2>2, <2>3, <2>4 DEF PolicyInOrder, Injecting
<1>8. CASE UNCHANGED obsVars
  <2>1. UNCHANGED <<policies, weights, planner, goals, newSinks, held, emission>>
    BY <1>8 DEF obsVars, hubVars, sinkVars
  <2> QED BY <2>1 DEF PolicyInOrder, GoalsInOrder, PlannerInOrder
<1> QED BY <1>1, <1>3, <1>4, <1>5, <1>6, <1>7, <1>8 DEF ObsNext

LEMMA ObsStepInv == ObsInv /\ [ObsNext]_obsVars => ObsInv'
BY ShapeStep, CleanBefore, EmissionStep, GraphStep, PolicyStep DEF ObsInv

\* For any threads that emit, episodes and policies: as long as emissions do not overlap and
\* nothing fails to record or inject, every episode has its own graph and one policy is in force
\* in every sink that was there when it came.
THEOREM EpisodesInOrder == ObsSpec => []EpisodesAligned
<1>1. ObsInv => EpisodesAligned
  BY DEF ObsInv, OneEmission, GraphsInOrder, PolicyInOrder, GoalsInOrder, PlannerInOrder, Latest,
         Injecting, Quiet, EpisodesAligned
<1> QED BY <1>1, ObsInitInv, ObsStepInv, PTL DEF ObsSpec

\* The observation side keeps its types.
THEOREM ObservationTypes == ObsSpec => []ObsTypeOK
<1>1. ObsInv => ObsTypeOK
  BY DEF ObsInv, ObsShape
<1> QED BY <1>1, ObsInitInv, ObsStepInv, PTL DEF ObsSpec
=============================================================================
