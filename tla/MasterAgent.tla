---------------------------- MODULE MasterAgent ----------------------------
(***************************************************************************)
(* The scheduling part of core/agent/master_agent.py: the dictionary of    *)
(* pending tasks, everybody who writes it, and the loop run() that takes   *)
(* the oldest entry, invokes its handler and retries or settles it.        *)
(*                                                                         *)
(* run() and the methods it calls use two small record classes,            *)
(* TaskRetryContext and TaskExecutionContext, that belong to the package   *)
(* core.agent.task_contexts, which is not in the repository and from which *)
(* this file forgets to import them.  They are external here: the loop is  *)
(* modelled as it runs once the two names are bound.                       *)
(*                                                                         *)
(* The loop, submit_task, submit_subtasks, wait_for_task and stop are      *)
(* coroutines of one event loop; create_task, cancel_task and              *)
(* emergency_stop are called from the UI's thread and may fall between any *)
(* two steps, also between the loop's test that the dictionary is not      *)
(* empty and its reading the first entry.                                  *)
(*                                                                         *)
(* Abstractions: a dictionary in insertion order is the set `pending` with *)
(* the number `arrival` of each entry; all of the loop's sleeps, the idle  *)
(* behaviour and the error capsule are the state "nap", since nothing but  *)
(* the next test of the loop follows them; of AgentManager (AgentPool has  *)
(* all of it) there are the copies of a task that were handed to it, and   *)
(* the result it keeps under the task's id: a task may be handed over any  *)
(* number of times, and each copy ends with a result of its own.  Left out *)
(* are the callbacks of on_task_complete, which the loop never calls.      *)
(***************************************************************************)
EXTENDS Naturals, FiniteSets, Functions

CONSTANTS
  Task,        \* Task objects, by id
  NoTask,      \* no Task
  MaxRetries,  \* constants.retry.max_retries
  MaxErrors,   \* agent.max_consecutive_errors
  MaxHandOver  \* bound: calls of AgentManager.submit_task

ASSUME MasterAssumption ==
  /\ NoTask \notin Task
  /\ MaxRetries \in Nat
  /\ MaxErrors \in Nat \ {0}
  /\ MaxHandOver \in Nat

VARIABLES
  running,      \* _running
  stopped,      \* safety_manager.is_stopped
  pending,      \* keys of _pending_tasks
  arrival,      \* [Task -> Nat]: position in insertion order, 0 = never entered
  created,      \* _stats.total_tasks_created + _stats.total_subtasks
  completed,    \* _stats.total_tasks_completed
  failed,       \* _stats.total_tasks_failed
  copies,       \* [Task -> Nat]: copies in AgentManager, queued or executed
  results,      \* [Task -> ...]: AgentManager._results, one entry for an id
  retryCounts,  \* [Task -> Nat]: retry_ctx.retry_counts, 0 = no entry
  errors,       \* consecutive_errors
  pc,           \* where the loop is
  cur,          \* the task it executes
  attempt,      \* the retry_count it read before it called the handler
  starts,       \* history: handler invocations of each task by the loop
  settled,      \* history: tasks whose fate the loop counted
  handed,       \* history: [Task -> Nat], calls of AgentManager.submit_task
  reported,     \* history: [Task -> Nat], results that a waiter counted
  withdrawn,    \* history: tasks cancelled or cleared while pending
  announced,    \* history: tasks whose end was sent to the state callbacks
  late          \* history: handlers started since a stop took effect

loopVars == <<retryCounts, errors, pc, cur, attempt, starts, settled, late>>
dictVars == <<pending, arrival, created, withdrawn>>
poolVars == <<copies, results, handed, reported>>
vars == <<running, stopped, pending, arrival, created, completed, failed,
          copies, results, handed, reported, retryCounts, errors, pc, cur, attempt,
          starts, settled, withdrawn, announced, late>>

Place == {"off", "test", "take", "handler", "nap", "done"}
Result == {"none", "ok", "failed"}

Init ==
  /\ running = FALSE /\ stopped = FALSE
  /\ pending = {} /\ withdrawn = {} /\ settled = {} /\ announced = {}
  /\ arrival = [t \in Task |-> 0]
  /\ copies = [t \in Task |-> 0]
  /\ results = [t \in Task |-> "none"]
  /\ handed = [t \in Task |-> 0]
  /\ reported = [t \in Task |-> 0]
  /\ retryCounts = [t \in Task |-> 0]
  /\ starts = [t \in Task |-> 0]
  /\ created = 0 /\ completed = 0 /\ failed = 0 /\ errors = 0 /\ late = 0
  /\ pc = "off" /\ cur = NoTask /\ attempt = 0

-----------------------------------------------------------------------------
(* The callers *)

\* Coroutines run only while the loop is suspended.
LoopSuspended == pc # "take"

\* A Task that was just created: nobody has handed it to the pool yet.
Enter(t) ==
  /\ arrival[t] = 0 /\ handed[t] = 0
  /\ pending' = pending \cup {t}
  /\ arrival' = [arrival EXCEPT ![t] = created + 1]
  /\ created' = created + 1

HandOvers == FoldFunction(+, 0, handed)

\* AgentManager.submit_task.
HandOver(t) ==
  /\ HandOvers < MaxHandOver
  /\ handed' = [handed EXCEPT ![t] = @ + 1]
  /\ copies' = [copies EXCEPT ![t] = @ + 1]

SubmitTask(t) ==
  /\ LoopSuspended
  /\ ~stopped
  /\ Enter(t)
  /\ UNCHANGED <<running, stopped, completed, failed, poolVars, loopVars, withdrawn, announced>>

\* create_task never consults the safety manager: when it goes through
\* submit_task, the refusal is a RuntimeError, which it answers by entering
\* the task itself.
CreateTask(t) ==
  /\ Enter(t)
  /\ UNCHANGED <<running, stopped, completed, failed, poolVars, loopVars, withdrawn, announced>>

\* A subtask is pending here and queued in the pool: both will execute it.
SubmitSubtask(t) ==
  /\ LoopSuspended
  /\ Enter(t) /\ HandOver(t)
  /\ UNCHANGED <<running, stopped, completed, failed, results, reported, loopVars,
                 withdrawn, announced>>

\* execute_with_retry: whenever an attempt's result was a failure or did not come in time,
\* the same Task is handed over again.  Any caller may do so, at any time, for any Task.
Resubmit(t) ==
  /\ LoopSuspended
  /\ HandOver(t)
  /\ UNCHANGED <<running, stopped, completed, failed, results, reported, loopVars,
                 dictVars, announced>>

\* _execute_and_collect: the result of a copy replaces one that nobody has taken.
PoolFinishes(t) ==
  /\ LoopSuspended
  /\ copies[t] > 0
  /\ copies' = [copies EXCEPT ![t] = @ - 1]
  /\ \E r \in Result \ {"none"} : results' = [results EXCEPT ![t] = r]
  /\ UNCHANGED <<running, stopped, completed, failed, handed, reported, loopVars,
                 dictVars, announced>>

\* Mutant of WaitForTask: the result stays for the next waiter.
WaitForTaskKeepsResult(t) ==
  /\ LoopSuspended
  /\ results[t] # "none"
  /\ IF results[t] = "ok"
       THEN completed' = completed + 1 /\ UNCHANGED failed
       ELSE failed' = failed + 1 /\ UNCHANGED completed
  /\ pending' = pending \ {t}
  /\ reported' = [reported EXCEPT ![t] = @ + 1]
  /\ announced' = announced \cup {t}
  /\ UNCHANGED <<running, stopped, arrival, created, withdrawn, copies, results, handed,
                 loopVars>>

\* get_result pops the entry; each result that a waiter gets counts in the totals, also
\* when an earlier one of the same task has counted.
WaitForTask(t) ==
  /\ LoopSuspended
  /\ results[t] # "none"
  /\ IF results[t] = "ok"
       THEN completed' = completed + 1 /\ UNCHANGED failed
       ELSE failed' = failed + 1 /\ UNCHANGED completed
  /\ results' = [results EXCEPT ![t] = "none"]
  /\ pending' = pending \ {t}
  /\ reported' = [reported EXCEPT ![t] = @ + 1]
  /\ announced' = announced \cup {t}
  /\ UNCHANGED <<running, stopped, arrival, created, withdrawn, copies, handed, loopVars>>

CancelTask(t) ==
  /\ t \in pending
  /\ pending' = pending \ {t}
  /\ withdrawn' = withdrawn \cup {t}
  /\ UNCHANGED <<running, stopped, completed, failed, poolVars, loopVars, arrival, created,
                 announced>>

\* start() and the creation of run() follow each other in main.py.
Start ==
  /\ pc = "off"
  /\ running' = TRUE
  /\ pc' = "test"
  /\ UNCHANGED <<stopped, completed, failed, poolVars, dictVars, announced, retryCounts,
                 errors, cur, attempt, starts, settled, late>>

Stop ==
  /\ LoopSuspended
  /\ running' = FALSE
  /\ UNCHANGED <<stopped, completed, failed, poolVars, loopVars, dictVars, announced>>

EmergencyStop ==
  /\ running' = FALSE
  /\ stopped' = TRUE
  /\ pending' = {}
  /\ withdrawn' = withdrawn \cup pending
  /\ UNCHANGED <<arrival, created, completed, failed, poolVars, loopVars, announced>>

\* External: SafetyManager.
SafetyStop ==
  /\ ~stopped
  /\ stopped' = TRUE
  /\ UNCHANGED <<running, completed, failed, poolVars, loopVars, dictVars, announced>>

SafetyResume ==
  /\ stopped
  /\ stopped' = FALSE
  /\ late' = 0
  /\ UNCHANGED <<running, completed, failed, poolVars, dictVars, announced, retryCounts,
                 errors, pc, cur, attempt, starts, settled>>

-----------------------------------------------------------------------------
(* The loop *)

\* After a turn with a task: the fifth line of the loop's body compares the
\* count, a long sleep follows, and it starts again from 0.
Cooled(n) == IF n >= MaxErrors THEN 0 ELSE n

\* Mutant of Test: the loop does not ask the safety manager.
TestUnasked ==
  /\ pc = "test"
  /\ pc' = IF ~running THEN "done" ELSE IF pending = {} THEN "nap" ELSE "take"
  /\ UNCHANGED <<running, stopped, completed, failed, poolVars, dictVars, announced,
                 retryCounts, errors, cur, attempt, starts, settled, late>>

\* `while self._running`, and the tests of _fetch_next_task.  While the system
\* is stopped the loop sleeps and then behaves as when idle.
Test ==
  /\ pc = "test"
  /\ pc' = IF ~running THEN "done"
           ELSE IF pending = {} \/ stopped THEN "nap" ELSE "take"
  /\ UNCHANGED <<running, stopped, completed, failed, poolVars, dictVars, announced,
                 retryCounts, errors, cur, attempt, starts, settled, late>>

Wake ==
  /\ pc = "nap"
  /\ pc' = "test"
  /\ UNCHANGED <<running, stopped, completed, failed, poolVars, dictVars, announced,
                 retryCounts, errors, cur, attempt, starts, settled, late>>

Oldest(t) == t \in pending /\ \A u \in pending : arrival[t] <= arrival[u]

\* list(...)[0], and _execute_single_task up to the call of the handler.
Take ==
  /\ pc = "take"
  /\ \E t \in Task :
       /\ Oldest(t)
       /\ pc' = "handler"
       /\ cur' = t
       /\ attempt' = retryCounts[t]
       /\ starts' = [starts EXCEPT ![t] = @ + 1]
       /\ late' = IF running /\ ~stopped THEN late ELSE late + 1
  /\ UNCHANGED <<running, stopped, completed, failed, poolVars, dictVars, announced,
                 retryCounts, errors, settled>>

\* Mutant of TakeFails: the exception ends the loop.
TakeFailsForGood ==
  /\ pc = "take"
  /\ pending = {}
  /\ errors' = errors + 1
  /\ pc' = "done"
  /\ UNCHANGED <<running, stopped, completed, failed, poolVars, dictVars, announced,
                 retryCounts, cur, attempt, starts, settled, late>>

\* Another thread emptied the dictionary after the test: IndexError, which
\* run() counts and does not compare with its limit.
TakeFails ==
  /\ pc = "take"
  /\ pending = {}
  /\ errors' = errors + 1
  /\ pc' = "nap"
  /\ UNCHANGED <<running, stopped, completed, failed, poolVars, dictVars, announced,
                 retryCounts, cur, attempt, starts, settled, late>>

Leave ==
  /\ pc = "handler"
  /\ pc' = "nap"
  /\ cur' = NoTask
  /\ attempt' = 0
  /\ UNCHANGED <<running, stopped, arrival, created, withdrawn, poolVars, starts, late>>

\* Mutant of Retry: the count is written back as it was read.
RetryUncounted ==
  /\ Leave
  /\ attempt < MaxRetries
  /\ retryCounts' = [retryCounts EXCEPT ![cur] = attempt]
  /\ errors' = Cooled(errors)
  /\ UNCHANGED <<pending, completed, failed, announced, settled>>

\* Mutant of Retry: off by one at the limit.
RetryOneMore ==
  /\ Leave
  /\ attempt <= MaxRetries
  /\ retryCounts' = [retryCounts EXCEPT ![cur] = attempt + 1]
  /\ errors' = Cooled(errors)
  /\ UNCHANGED <<pending, completed, failed, announced, settled>>

\* The entry is made whether or not the task is still pending.
Retry ==
  /\ Leave
  /\ attempt < MaxRetries
  /\ retryCounts' = [retryCounts EXCEPT ![cur] = attempt + 1]
  /\ errors' = Cooled(errors)
  /\ UNCHANGED <<pending, completed, failed, announced, settled>>

\* Mutant of Finish: the retry entry stays.
FinishKeepsEntry ==
  /\ Leave
  /\ pending' = pending \ {cur}
  /\ settled' = settled \cup {cur}
  /\ UNCHANGED retryCounts

Finish ==
  /\ Leave
  /\ retryCounts' = [retryCounts EXCEPT ![cur] = 0]
  /\ pending' = pending \ {cur}
  /\ settled' = settled \cup {cur}

\* _handle_task_result.
Complete ==
  /\ Finish
  /\ completed' = completed + 1
  /\ announced' = announced \cup {cur}
  /\ errors' = Cooled(errors)
  /\ UNCHANGED failed

\* Mutant of FinalFailure: the final failure is not announced.
FinalFailureSilent ==
  /\ Finish
  /\ attempt >= MaxRetries
  /\ failed' = failed + 1
  /\ errors' = Cooled(errors)
  /\ UNCHANGED <<completed, announced>>

FinalFailure ==
  /\ Finish
  /\ attempt >= MaxRetries
  /\ failed' = failed + 1
  /\ announced' = announced \cup {cur}
  /\ errors' = Cooled(errors)
  /\ UNCHANGED completed

\* _handle_task_error_impl, when the handler (the generic one is not guarded)
\* or the reading of its result raised.  `del _pending_tasks[id]` needs the
\* entry: if somebody removed it meanwhile, the KeyError leaves the task
\* without a notice and reaches the loop's own handler.
FinalError ==
  /\ Finish
  /\ attempt >= MaxRetries
  /\ failed' = failed + 1
  /\ IF cur \in pending
       THEN /\ announced' = announced \cup {cur}
            /\ errors' = Cooled(errors + 1)
       ELSE /\ errors' = errors + 1
            /\ UNCHANGED announced
  /\ UNCHANGED completed

HandlerEnds == Retry \/ Complete \/ FinalFailure \/ FinalError

LoopStep == Test \/ Wake \/ Take \/ TakeFails \/ HandlerEnds

Next ==
  \/ LoopStep
  \/ \E t \in Task : \/ SubmitTask(t) \/ CreateTask(t) \/ SubmitSubtask(t)
                     \/ Resubmit(t) \/ PoolFinishes(t) \/ WaitForTask(t)
                     \/ CancelTask(t)
  \/ Start \/ Stop \/ EmergencyStop \/ SafetyStop \/ SafetyResume

Spec == Init /\ [][Next]_vars

\* asyncio resumes the loop, its sleeps end, and handlers return.  The code
\* bounds no handler's time, so the last is an assumption about the handlers.
FairSpec == Spec /\ WF_vars(LoopStep)

-----------------------------------------------------------------------------
(* Properties *)

\* Every variable has its type.
TypeOK ==
  /\ running \in BOOLEAN /\ stopped \in BOOLEAN
  /\ pending \subseteq Task
  /\ settled \subseteq Task
  /\ withdrawn \subseteq Task /\ announced \subseteq Task
  /\ arrival \in [Task -> Nat]
  /\ copies \in [Task -> Nat] /\ handed \in [Task -> Nat] /\ reported \in [Task -> Nat]
  /\ results \in [Task -> Result]
  /\ retryCounts \in [Task -> 0..MaxRetries]
  /\ starts \in [Task -> Nat]
  /\ created \in Nat /\ completed \in Nat /\ failed \in Nat /\ errors \in Nat /\ late \in Nat
  /\ pc \in Place
  /\ cur \in Task \cup {NoTask} /\ (pc = "handler" => cur \in Task)
  /\ attempt \in 0..MaxRetries

Ledger == INSTANCE TaskLedger WITH
  accepted <- {t \in Task : arrival[t] > 0},
  open     <- pending,
  tally    <- completed + failed

\* The tasks of which a waiter got a result.
Reported == {t \in Task : reported[t] > 0}

\* Whatever the callers do between any two steps of the loop, the agent keeps
\* the ledger: the loop settles a task at most once, no settled task is found
\* pending again, a task is reported at most once for each time it was handed
\* to the pool, and MasterStats counts exactly the settlements and reports, so
\* that a task may count several times but never more than it was worked on.
KeepsLedger == Ledger!LedgerSpec

\* The retry count is read before the handler and written after it, while
\* others remove entries; still no task is started more often than once and
\* max_retries times again.
RetryBudget == \A t \in Task : starts[t] <= MaxRetries + 1

\* Between a stop (or emergency stop) and a resumption the loop starts at most
\* one handler more, the one it had already decided on.
OneLateStart == late <= 1

\* The end of a task is announced to the UI, unless somebody else took the task
\* away while the loop was executing it: the KeyError of FinalError costs no
\* notice of a task that was still wanted.
EndsAnnounced == settled \subseteq announced \cup withdrawn \cup Reported

\* A retry entry belongs to a task that is still wanted; only a task taken away
\* during its execution leaves one behind for the life of the loop.
RetryEntriesOwned ==
  \A t \in Task : retryCounts[t] > 0 => t \in pending \cup withdrawn \cup Reported

\* A pending task leaves the dictionary, or the system is stopped: neither
\* retries of the first entry nor exceptions nor cool-downs starve the others.
TasksServed ==
  \A t \in Task : t \in pending ~> (t \notin pending \/ stopped \/ ~running)
=============================================================================
