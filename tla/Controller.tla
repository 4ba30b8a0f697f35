----------------------------- MODULE Controller -----------------------------
(***************************************************************************)
(* Controller (core/control/controller.py): decide_with_policy chooses     *)
(* what is done with a task, feedback reports what became of it and        *)
(* teaches memory and evolution about "the last decision".  Decisions and  *)
(* feedback come in any order and any number: nothing in the code ties a   *)
(* feedback to the decision its task got.                                  *)
(*                                                                         *)
(* The coordinators it is built from (memory, strategy, intent, evolution, *)
(* perception) are not in the repository; they are external and answer     *)
(* anything the code tells apart, or raise.  A decision is the task it was *)
(* made for, and the advice drawn from earlier experience.  A call is one  *)
(* step: nothing in the repository calls feedback, or decides from more    *)
(* than one place.                                                         *)
(***************************************************************************)
EXTENDS Naturals

CONSTANTS
  CTask,       \* tasks
  NoDecision   \* _last_decision before the first one

VARIABLES
  lastDecision, \* _last_decision, by the task it was made for
  decidedAs,    \* [CTask -> what decide_with_policy did with it last]
  advice,       \* [CTask -> time_aware_strategy in the state it was decided from]
  learned       \* history: <<task, decision>> pairs recorded by feedback

ctrlVars == <<lastDecision, decidedAs, advice, learned>>

CtrlInit ==
  /\ lastDecision = NoDecision
  /\ decidedAs = [t \in CTask |-> "none"]
  /\ advice = [t \in CTask |-> "none"]
  /\ learned = {}

\* _time_aware_decision: the first of these that applies.  failing and
\* succeeding: the last three results agree; valid: experience of the task that
\* is still valid, "" when there is none, else how good the best of it was.
TimeAware(failing, succeeding, stale, valid) ==
  IF failing THEN "explore_new"
  ELSE IF succeeding THEN "reinforce"
  ELSE IF stale \/ valid \in {"", "poor"} THEN "explore"
  ELSE IF valid = "good" THEN "reuse" ELSE "none"

\* With a kernel the task is routed there; force_execute is answered at once.
\* Neither stores a decision.
DecideBypassing(t) ==
  /\ decidedAs' = [decidedAs EXCEPT ![t] = "bypassing"]
  /\ UNCHANGED <<lastDecision, advice, learned>>

\* An unclear intent is answered by a question.
DecideUnclear(t) ==
  /\ decidedAs' = [decidedAs EXCEPT ![t] = "question"]
  /\ lastDecision' = t
  /\ UNCHANGED <<advice, learned>>

\* The decision is stored before it is dispatched, which may raise.
DecideByPolicy(t) ==
  /\ lastDecision' = t
  /\ \E a \in {"decided", "raised"} : decidedAs' = [decidedAs EXCEPT ![t] = a]
  /\ \E failing, succeeding, stale \in BOOLEAN, valid \in {"", "poor", "good", "bare"} :
       /\ ~(failing /\ succeeding)
       /\ advice' = [advice EXCEPT ![t] = TimeAware(failing, succeeding, stale, valid)]
  /\ UNCHANGED learned

\* A part that raises before that leaves the previous decision stored.
DecideRaises(t) ==
  /\ decidedAs' = [decidedAs EXCEPT ![t] = "raised"]
  /\ UNCHANGED <<lastDecision, advice, learned>>

\* feedback, of any task at any time, stores experience and learning under the last
\* decision, if any, whosever it is.
Feedback(t) ==
  /\ learned' = IF lastDecision = NoDecision THEN learned
                ELSE learned \cup {<<t, lastDecision>>}
  /\ UNCHANGED <<lastDecision, decidedAs, advice>>

CtrlNext ==
  \E t \in CTask :
    DecideBypassing(t) \/ DecideUnclear(t) \/ DecideByPolicy(t) \/ DecideRaises(t) \/ Feedback(t)

CtrlSpec == CtrlInit /\ [][CtrlNext]_ctrlVars

CtrlTypeOK ==
  /\ lastDecision \in CTask \cup {NoDecision}
  /\ decidedAs \in [CTask -> {"none", "bypassing", "question", "decided", "raised"}]
  /\ advice \in [CTask -> {"none", "explore_new", "reinforce", "explore", "reuse"}]
  /\ learned \subseteq CTask \X CTask
=============================================================================
