------------------------------ MODULE SafetyOS ------------------------------
(***************************************************************************)
(* The safety gate (core/safety/safety_os.py): approve(), the caller that  *)
(* executes what is allowed (main.py, approve_and_save and                 *)
(* execute_with_golden_chain), record_outcome(), and the commands          *)
(* emergency_on/off, stop, stop_all_risky, stop_all, which other           *)
(* coroutines issue at any time.                                           *)
(*                                                                         *)
(* A request suspends in three places: in the teachers' review, in the     *)
(* action itself, and in the learner.  Between them a step is atomic.      *)
(* Everything a decision is written to is one function, `recorded`, except *)
(* the timeline and the register of risky tasks, whose order matters.      *)
(*                                                                         *)
(* Scores are in tenths: RiskEvaluator only answers 0.1, 0.6 and 0.8.      *)
(* Sanitising, summaries and the legacy check()/_on_action path (never     *)
(* subscribed: the factory passes no bus) are left out.                    *)
(***************************************************************************)
EXTENDS Naturals, Sequences

CONSTANTS
  Action,       \* requests; each has a decision id of its own
  Score,        \* [Action -> {1, 6, 8}]   RiskResult.risk_score in tenths
  TimelineMax,  \* TimelineManager.max_size
  Failing       \* which external parts may raise

Parts == {"teacher", "causal", "audit_file", "learner", "store"}

ASSUME SafetyOSAssumption ==
  /\ Score \in [Action -> {1, 6, 8}]
  /\ TimelineMax \in Nat \ {0}
  /\ Failing \subseteq Parts

\* What comes back from the teachers: no review, or a recommendation; "doubt" is an
\* "allow" whose fusion score is below 0.4.
Opinion == {"none", "allow", "doubt", "ask_human", "block", "emergency_stop"}
Final   == {"allow", "ask_human", "block", "emergency_stop"}
Place   == {"causal", "audit", "drift", "file", "chain", "learned", "full_chain"}

VARIABLES
  emergency,  \* emergency_mode
  pc,         \* where each request is
  review,     \* SafetyDecision.triple_teacher_review
  decision,   \* SafetyDecision.final_decision
  recorded,   \* where the decision and its outcome have been written
  timeline,   \* TimelineManager.events
  risky       \* keys of current_risky_tasks, in insertion order

vars == <<emergency, pc, review, decision, recorded, timeline, risky>>

Init ==
  /\ emergency = FALSE
  /\ pc = [a \in Action |-> "new"]
  /\ review = [a \in Action |-> "none"]
  /\ decision = [a \in Action |-> "none"]
  /\ recorded = [a \in Action |-> {}]
  /\ timeline = <<>>
  /\ risky = <<>>

-----------------------------------------------------------------------------
(* Helpers *)

\* Mutant of Trim: one event too many is kept.
TrimOneLate(s) == IF Len(s) > TimelineMax
                  THEN SubSeq(s, Len(s) - TimelineMax, Len(s)) ELSE s

\* The last max_size events, as record() leaves them.
Trim(s) == IF Len(s) > TimelineMax
           THEN SubSeq(s, Len(s) - TimelineMax + 1, Len(s)) ELSE s

DecisionEvent(a) == [type |-> "decision", id |-> a]
StopEvent(a)     == [type |-> "manual_stop", id |-> a]

\* Mutant of FinalDecision: the thresholds are exclusive.
FinalDecisionExclusive(s, o) ==
  IF o \in {"ask_human", "block", "emergency_stop"} THEN o
  ELSE IF s > 8 THEN "block"
  ELSE IF s > 6 \/ o = "doubt" THEN "ask_human"
  ELSE "allow"

\* _make_final_decision: the teachers' objection first, then the thresholds 0.8 and 0.6.
FinalDecision(s, o) ==
  IF o \in {"ask_human", "block", "emergency_stop"} THEN o
  ELSE IF s >= 8 THEN "block"
  ELSE IF s >= 6 \/ o = "doubt" THEN "ask_human"
  ELSE "allow"

\* _record_timeline_and_causal: the causal engine may refuse or raise, which is swallowed.
NoteDecision(a) == timeline' = Trim(Append(timeline, DecisionEvent(a)))
CausalNote == {{"causal"}} \cup (IF "causal" \in Failing THEN {{}} ELSE {})

\* get_training_data_chain asks the review for its opinions: without a review it raises,
\* the caller swallows that, and no capsule is saved.  So may the store itself.
Capsule(r, kind) == IF r = "none" THEN {{}}
                    ELSE {{kind}} \cup (IF "store" \in Failing THEN {{}} ELSE {})

-----------------------------------------------------------------------------
(* approve() and its caller *)

\* Mutant of EmergencyBlock: the block is returned without an entry in _audit_log.
EmergencyBlockUnaudited(a) ==
  /\ pc[a] = "new" /\ emergency /\ Score[a] > 3
  /\ pc' = [pc EXCEPT ![a] = "done"]
  /\ decision' = [decision EXCEPT ![a] = "emergency_stop"]
  /\ recorded' \in {[recorded EXCEPT ![a] = c] : c \in CausalNote}
  /\ NoteDecision(a)
  /\ UNCHANGED <<emergency, review, risky>>

\* In emergency mode a score above 0.3 is blocked at once; the block goes to the in-memory
\* audit log and the timeline, and not to the drift detector or the audit file.
EmergencyBlock(a) ==
  /\ pc[a] = "new" /\ emergency /\ Score[a] > 3
  /\ pc' = [pc EXCEPT ![a] = "done"]
  /\ decision' = [decision EXCEPT ![a] = "emergency_stop"]
  /\ recorded' \in {[recorded EXCEPT ![a] = {"audit"} \cup c] : c \in CausalNote}
  /\ NoteDecision(a)
  /\ UNCHANGED <<emergency, review, risky>>

AskTeachers(a) ==
  /\ pc[a] = "new" /\ ~(emergency /\ Score[a] > 3)
  /\ pc' = [pc EXCEPT ![a] = "review"]
  /\ UNCHANGED <<emergency, review, decision, recorded, timeline, risky>>

\* The review is back: decide and write it down, in the order of approve().
Conclude(a, o) ==
  /\ pc[a] = "review"
  /\ o = "none" => "teacher" \in Failing
  /\ review' = [review EXCEPT ![a] = o]
  /\ decision' = [decision EXCEPT ![a] = FinalDecision(Score[a], o)]
  /\ NoteDecision(a)
  /\ risky' = IF Score[a] > 6 \/ decision'[a] # "allow" THEN Append(risky, a) ELSE risky
  /\ UNCHANGED emergency

\* Mutant of Decide: an action is allowed to run although its decision could not be written.
DecideUnlogged(a, o) ==
  /\ Conclude(a, o)
  /\ \E c \in CausalNote, k \in Capsule(o, "chain"), f \in SUBSET {"file"} :
       /\ f = {} => "audit_file" \in Failing
       /\ recorded' = [recorded EXCEPT ![a] = {"audit", "drift"} \cup f \cup c \cup k]
  /\ pc' = [pc EXCEPT ![a] = IF decision'[a] = "allow" THEN "executing" ELSE "done"]

\* The caller runs execute_fn, if it has one, in the step that returns "allow".
Decide(a, o) ==
  /\ Conclude(a, o)
  /\ \E c \in CausalNote, k \in Capsule(o, "chain") :
       recorded' = [recorded EXCEPT ![a] = {"audit", "drift", "file"} \cup c \cup k]
  /\ \/ decision'[a] = "allow" /\ pc' = [pc EXCEPT ![a] = "executing"]
     \/ pc' = [pc EXCEPT ![a] = "done"]

\* audit_logger.log raises: nothing catches it, approve() and its caller fail half-way.
DecideFails(a, o) ==
  /\ "audit_file" \in Failing
  /\ Conclude(a, o)
  /\ \E c \in CausalNote :
       recorded' = [recorded EXCEPT ![a] = {"audit", "drift"} \cup c]
  /\ pc' = [pc EXCEPT ![a] = "raised"]

\* execute_fn returns or raises; either way record_outcome hands it to the learner.
ActionEnds(a) ==
  /\ pc[a] = "executing"
  /\ pc' = [pc EXCEPT ![a] = "feedback"]
  /\ UNCHANGED <<emergency, review, decision, recorded, timeline, risky>>

\* The learner has answered; the chain with the outcome is saved as far as Capsule allows.
Learned(a) ==
  /\ pc[a] = "feedback"
  /\ pc' = [pc EXCEPT ![a] = "done"]
  /\ \E k \in Capsule(review[a], "full_chain") :
       recorded' = [recorded EXCEPT ![a] = @ \cup {"learned"} \cup k]
  /\ UNCHANGED <<emergency, review, decision, timeline, risky>>

\* The learner raises, outside the try block of record_outcome: no capsule, the caller fails.
LearnerFails(a) ==
  /\ "learner" \in Failing
  /\ pc[a] = "feedback"
  /\ pc' = [pc EXCEPT ![a] = "raised"]
  /\ UNCHANGED <<emergency, review, decision, recorded, timeline, risky>>

-----------------------------------------------------------------------------
(* Commands *)

EmergencyOn  == emergency' = TRUE /\ UNCHANGED <<pc, review, decision, recorded, timeline, risky>>
EmergencyOff == emergency' = FALSE /\ UNCHANGED <<pc, review, decision, recorded, timeline, risky>>

\* Mutant of Forget: stop() looks the decision up and leaves it in the register.
ForgetNothing(i) == UNCHANGED risky

\* pop: the i-th entry leaves the register, the others keep their order.
Forget(i) == risky' = SubSeq(risky, 1, i - 1) \o SubSeq(risky, i + 1, Len(risky))

\* stop(): take the decision out of the register and note the stop.  Its rollback restores a
\* task id that approve() never sets.
Stop(a) ==
  /\ \E i \in DOMAIN risky : risky[i] = a /\ Forget(i)
  /\ timeline' = Trim(Append(timeline, StopEvent(a)))
  /\ UNCHANGED <<emergency, pc, review, decision, recorded>>

\* stop_all_risky, and stop_all, which turns emergency mode on first: stop() for every
\* entry, which empties the register.  The timeline drops events one at a time, which
\* leaves what dropping them together leaves.
StopAll(on) ==
  /\ emergency' = (emergency \/ on)
  /\ risky' = <<>>
  /\ timeline' = Trim(timeline \o [i \in DOMAIN risky |-> StopEvent(risky[i])])
  /\ UNCHANGED <<pc, review, decision, recorded>>

-----------------------------------------------------------------------------
Request(a) ==
  \/ EmergencyBlock(a) \/ AskTeachers(a)
  \/ \E o \in Opinion : Decide(a, o) \/ DecideFails(a, o)
  \/ ActionEnds(a) \/ Learned(a) \/ LearnerFails(a)

Command ==
  \/ EmergencyOn \/ EmergencyOff
  \/ \E a \in Action : Stop(a)
  \/ \E on \in BOOLEAN : StopAll(on)

Next == Command \/ \E a \in Action : Request(a)

Spec == Init /\ [][Next]_vars
-----------------------------------------------------------------------------
(* Properties *)

TypeOK ==
  /\ emergency \in BOOLEAN
  /\ pc \in [Action -> {"new", "review", "executing", "feedback", "done", "raised"}]
  /\ review \in [Action -> Opinion]
  /\ decision \in [Action -> Final \cup {"none"}]
  /\ recorded \in [Action -> SUBSET Place]
  /\ timeline \in Seq([type : {"decision", "manual_stop"}, id : Action])
  /\ Len(timeline) <= TimelineMax
  /\ risky \in Seq(Action)

\* Emergency mode holds even for a request that passed the check before the mode was turned
\* on and came back from the teachers after: nothing above risk 0.3 starts to run meanwhile
\* (approve tests emergency_mode only before the await, so the thresholds must do it).
EmergencyHolds ==
  [][\A a \in Action : emergency /\ pc[a] # "executing" /\ pc'[a] = "executing"
                         => Score[a] <= 3]_vars

\* What runs, or has run, was written to the in-memory audit log and to the audit file
\* first, whichever of the writes of approve() fails.
AuditedBeforeActing ==
  \A a \in Action :
    pc[a] \in {"executing", "feedback"} \/ "learned" \in recorded[a]
      => {"audit", "file"} \subseteq recorded[a] /\ decision[a] = "allow"

\* Every request that left approve(), by returning or by raising, can be looked up with
\* audit.show, the emergency blocks included.
EveryDecisionAudited ==
  \A a \in Action :
    pc[a] \notin {"new", "review"} => decision[a] # "none" /\ "audit" \in recorded[a]

\* stop, stop_all_risky and stop_all may name a decision together: it is stopped once, after
\* it was decided, and is then out of the register, which never holds what may run.
StoppedOnce ==
  /\ \A i, j \in DOMAIN risky : risky[i] = risky[j] => i = j
  /\ \A i \in DOMAIN risky : decision[risky[i]] \in Final \ {"allow"}
  /\ \A i \in DOMAIN timeline : timeline[i].type = "manual_stop" =>
       /\ \A k \in DOMAIN risky : risky[k] # timeline[i].id
       /\ \A j \in DOMAIN timeline : j > i => timeline[j].id # timeline[i].id

\* record_outcome, as its docstring says, saves the complete chain of what was executed.
OutcomeHasCapsule ==
  \A a \in Action : pc[a] = "done" /\ "learned" \in recorded[a]
                       => "full_chain" \in recorded[a]
=============================================================================
