------------------------------ MODULE AgentPool ------------------------------
(***************************************************************************)
(* The task-dispatch core: AgentManager (core/agent/agent_manager.py), its *)
(* WorkerPool (worker_pool.py), the WorkerAgent objects (worker_agent.py), *)
(* the Task object (task_model.py) and the client that submits tasks and   *)
(* waits for them (MasterAgent.execute_with_retry).                        *)
(*                                                                         *)
(* All coroutines share one event loop: an action is what one coroutine    *)
(* does between two points where it really suspends.  The sync_* methods   *)
(* run on other threads under a different lock, so they interleave with    *)
(* the coroutines.  The pool's asyncio lock is held across a suspension in *)
(* one place only, the two cleanup methods; every other critical section   *)
(* is one action that needs the lock to be free.                           *)
(*                                                                         *)
(* Abstractions: _idle_workers and _busy_workers are sets (the code never  *)
(* adds an id twice), so any idle worker may be the first one inspected;   *)
(* the clocks compared with thresholds are the set `aged`; resources,      *)
(* memory figures, logs and statistics are left out.                       *)
(***************************************************************************)
EXTENDS Naturals, FiniteSets

CONSTANTS
  Worker,      \* the ids create_worker can draw; an id is used once
  Task,        \* Task objects
  NoTask,      \* no Task
  Type,        \* task types
  TypeOf,      \* [Task -> Type]            Task.task_type
  Priority,    \* [Task -> Nat]             Task.priority.value
  Born,        \* [Task -> Nat]             Task.created_at
  Handled,     \* types with a handler registered in the pool
  MaxWorkers,  \* WorkerPool.max_workers
  MaxAttempts, \* max_retries of execute_with_retry
  MaxStarts,   \* bound: how often AgentManager.start() is called
  Ops          \* which optional operations the environment uses

AllOps == {"destroy", "terminate", "create_agent", "stop", "clean", "wait_timeout"}

ASSUME AgentPoolAssumption ==
  /\ NoTask \notin Task
  /\ TypeOf \in [Task -> Type]
  /\ Priority \in [Task -> Nat]
  /\ Born \in [Task -> Nat]
  /\ Handled \subseteq Type
  /\ MaxWorkers \in Nat
  /\ MaxAttempts \in Nat \ {0}
  /\ MaxStarts \in Nat
  /\ Ops \subseteq AllOps

VARIABLES
  running,   \* AgentManager._running
  starts,    \* calls of start(); the n-th creates dispatch loop n and cleaner n
  queue,     \* [Task -> Nat]: entries of _task_queue, a multiset under (priority, created_at)
  status,    \* Task.status
  results,   \* AgentManager._results
  client,    \* progress of execute_with_retry for each task
  attempts,  \* its attempt, counted from 1
  workers,   \* keys of WorkerPool._workers
  idle,      \* _idle_workers
  busy,      \* _busy_workers
  wstate,    \* WorkerAgent.state, "none" before the worker exists
  caps,      \* types a worker accepts (capabilities and copied handlers)
  bare,      \* workers created without a copy of the pool's handlers
  finished,  \* workers whose stats.last_task_at is set
  aged,      \* workers whose heartbeat or last_task_at is past the cleaner's threshold
  execs,     \* the _execute_and_collect coroutines
  loop,      \* dispatch loop n
  hand,      \* the task dispatch loop n took and holds while it waits for the lock
  cleaner,   \* _periodic_cleanup task n
  lock,      \* cleaner that holds WorkerPool._lock, 0 when the lock is free
  stopping,  \* stop() is between cancelling the cleaner and destroying the workers
  snapshot,  \* the ids stop() is going to destroy
  maker      \* sync_create_worker: "out" or past its size check

poolVars   == <<workers, idle, busy, wstate, caps, bare, finished, aged>>
clientVars == <<client, attempts>>
loopVars   == <<loop, hand>>
lockVars   == <<cleaner, lock>>
runVars    == <<running, starts, stopping, snapshot>>
vars == <<running, starts, queue, status, results, client, attempts, workers, idle,
          busy, wstate, caps, bare, finished, aged, execs, loop, hand, cleaner, lock,
          stopping, snapshot, maker>>

Loop      == 1..MaxStarts
Status    == {"pending", "running", "completed", "failed", "timeout"}
Outcome   == {"ok", "error", "timeout", "cancelled"}
Phase     == {"spawned", "running"} \cup Outcome
ExecType  == [worker : Worker, task : Task, phase : Phase]

Init ==
  /\ running = FALSE
  /\ starts = 0
  /\ queue = [t \in Task |-> 0]
  /\ status = [t \in Task |-> "pending"]
  /\ results = [t \in Task |-> "none"]
  /\ client = [t \in Task |-> "new"]
  /\ attempts = [t \in Task |-> 1]
  /\ workers = {} /\ idle = {} /\ busy = {}
  /\ wstate = [w \in Worker |-> "none"]
  /\ caps = [w \in Worker |-> {}]
  /\ bare = {} /\ finished = {} /\ aged = {}
  /\ execs = {}
  /\ loop = [n \in Loop |-> "off"]
  /\ hand = [n \in Loop |-> NoTask]
  /\ cleaner = [n \in Loop |-> "off"]
  /\ lock = 0
  /\ stopping = FALSE
  /\ snapshot = {}
  /\ maker = "out"

-----------------------------------------------------------------------------
(* The pool's own operations *)

\* can_handle: a bare worker has the "generic" capability and accepts everything.
CanHandle(w, t) == w \in bare \/ TypeOf[t] \in caps[w]

\* Mutant of Create: dispatch forgets mark_busy after create_worker.
CreateLeavesIdle(w, t) ==
  /\ wstate[w] = "none"
  /\ wstate' = [wstate EXCEPT ![w] = "idle"]
  /\ caps' = [caps EXCEPT ![w] = Handled \cup {TypeOf[t]}]
  /\ workers' = workers \cup {w}
  /\ idle' = idle \cup {w}
  /\ UNCHANGED <<busy, bare, finished, aged>>

\* A worker that create_worker registers for a task of t's type, already marked busy.
Create(w, t) ==
  /\ wstate[w] = "none"
  /\ wstate' = [wstate EXCEPT ![w] = "idle"]
  /\ caps' = [caps EXCEPT ![w] = Handled \cup {TypeOf[t]}]
  /\ workers' = workers \cup {w}
  /\ busy' = busy \cup {w}
  /\ UNCHANGED <<idle, bare, finished, aged>>

\* Mutant of MarkBusy: the worker is added to one list and not taken from the other.
MarkBusyKeepsIdle(w) == busy' = busy \cup {w} /\ UNCHANGED idle

MarkBusy(w) ==
  /\ idle' = idle \ {w}
  /\ busy' = busy \cup {w}

\* Mutant of MarkIdle: the worker leaves the busy list and enters none.
MarkIdleLosesWorker(w) == busy' = busy \ {w} /\ UNCHANGED idle

\* mark_idle does not ask whether the worker is still registered.
MarkIdle(w) ==
  /\ busy' = busy \ {w}
  /\ idle' = idle \cup {w}

\* Mutant of Cancelled: force_stop leaves the inner task alone.
NotCancelled(e, S) == e

\* force_stop cancels the inner task of a busy worker unless it is already done.
Cancelled(e, S) ==
  IF e.worker \in S /\ wstate[e.worker] = "busy" /\ e.phase = "running"
  THEN [e EXCEPT !.phase = "cancelled"] ELSE e

\* Mutant of Remove: _cleanup_worker_refs forgets the busy list.
RemoveKeepsBusy(S) ==
  /\ wstate' = [w \in Worker |-> IF w \in S THEN "stopped" ELSE wstate[w]]
  /\ workers' = workers \ S
  /\ idle' = idle \ S
  /\ execs' = {Cancelled(e, S) : e \in execs}
  /\ UNCHANGED <<busy, caps, bare, finished, aged>>

\* _destroy_worker_impl(force=True) for every worker of S.
Remove(S) ==
  /\ wstate' = [w \in Worker |-> IF w \in S THEN "stopped" ELSE wstate[w]]
  /\ workers' = workers \ S
  /\ idle' = idle \ S
  /\ busy' = busy \ S
  /\ execs' = {Cancelled(e, S) : e \in execs}
  /\ UNCHANGED <<caps, bare, finished, aged>>

\* Mutant of HasRoom: off by one.
HasRoomForOneMore == Cardinality(workers) <= MaxWorkers

HasRoom == Cardinality(workers) < MaxWorkers

-----------------------------------------------------------------------------
(* The client: submit_subtasks hands the task over, execute_with_retry waits *)

Enqueue(t) == queue' = [queue EXCEPT ![t] = @ + 1]

Submit(t) ==
  /\ starts > 0
  /\ client[t] = "new"
  /\ client' = [client EXCEPT ![t] = "waiting"]
  /\ Enqueue(t)
  /\ UNCHANGED <<status, results, attempts, execs, maker, poolVars, loopVars, lockVars, runVars>>

\* Mutant of Retry: the last attempt is retried too.
RetryOnceMore(t) ==
  /\ attempts' = [attempts EXCEPT ![t] = @ + 1]
  /\ status' = [status EXCEPT ![t] = "pending"]
  /\ Enqueue(t)
  /\ UNCHANGED client

\* Mutant of Retry: the next attempt waits without submitting the task again.
RetryWithoutSubmit(t) ==
  \/ /\ attempts[t] < MaxAttempts
     /\ attempts' = [attempts EXCEPT ![t] = @ + 1]
     /\ status' = [status EXCEPT ![t] = "pending"]
     /\ UNCHANGED <<client, queue>>
  \/ /\ attempts[t] = MaxAttempts
     /\ client' = [client EXCEPT ![t] = "failed"]
     /\ UNCHANGED <<attempts, status, queue>>

\* The attempt failed or timed out: resubmit the same Task object, or give up.
Retry(t) ==
  \/ /\ attempts[t] < MaxAttempts
     /\ attempts' = [attempts EXCEPT ![t] = @ + 1]
     /\ status' = [status EXCEPT ![t] = "pending"]
     /\ Enqueue(t)
     /\ UNCHANGED client
  \/ /\ attempts[t] = MaxAttempts
     /\ client' = [client EXCEPT ![t] = "failed"]
     /\ UNCHANGED <<attempts, status, queue>>

\* get_result pops whatever result the id has, whichever attempt it came from.
TakeResult(t) ==
  /\ client[t] = "waiting"
  /\ results[t] # "none"
  /\ results' = [results EXCEPT ![t] = "none"]
  /\ \/ /\ results[t] = "ok"
        /\ client' = [client EXCEPT ![t] = "done"]
        /\ UNCHANGED <<attempts, status, queue>>
     \/ results[t] = "fail" /\ Retry(t)
  /\ UNCHANGED <<execs, maker, poolVars, loopVars, lockVars, runVars>>

WaitTimeout(t) ==
  /\ "wait_timeout" \in Ops
  /\ client[t] = "waiting"
  /\ results[t] = "none"
  /\ Retry(t)
  /\ UNCHANGED <<results, execs, maker, poolVars, loopVars, lockVars, runVars>>

-----------------------------------------------------------------------------
(* The dispatch loops *)

Before(u, t) == \/ Priority[u] < Priority[t]
                \/ Priority[u] = Priority[t] /\ Born[u] < Born[t]

\* The entry PriorityQueue.get returns: the smallest (priority, created_at).
Head(t) == /\ queue[t] > 0
           /\ \A u \in Task : queue[u] > 0 => ~Before(u, t)

\* Mutant of Dequeue: the entry is looked at and left in the queue.
Peek(t) == queue[t] > 0 /\ UNCHANGED queue

Dequeue(t) == queue' = [queue EXCEPT ![t] = @ - 1]

Spawn(w, t) ==
  execs' = execs \cup {[worker |-> w, task |-> t, phase |-> "spawned"]}

\* No idle worker is fit for t, and looking them all up raises nothing.
NoneFits(t) == \A w \in idle : w \in workers /\ ~CanHandle(w, t)

Turn(n) == running /\ loop[n] = "ready"

DispatchIdle(n, t, w) ==
  /\ Turn(n) /\ Head(t)
  /\ w \in idle \cap workers
  /\ CanHandle(w, t)
  /\ Dequeue(t) /\ MarkBusy(w) /\ Spawn(w, t)
  /\ UNCHANGED <<status, results, clientVars, workers, wstate, caps, bare, finished, aged,
                 loopVars, lockVars, runVars, maker>>

\* find_available_worker meets an idle id that is no key of _workers: KeyError, caught by
\* dispatch, which has already taken the task off the queue.
DispatchKeyError(n, t) ==
  /\ Turn(n) /\ Head(t)
  /\ idle \ workers # {}
  /\ Dequeue(t)
  /\ UNCHANGED <<status, results, clientVars, execs, poolVars, loopVars, lockVars, runVars, maker>>

DispatchCreate(n, t, w) ==
  /\ Turn(n) /\ Head(t)
  /\ NoneFits(t) /\ HasRoom /\ lock = 0
  /\ Dequeue(t) /\ Create(w, t) /\ Spawn(w, t)
  /\ UNCHANGED <<status, results, clientVars, loopVars, lockVars, runVars, maker>>

\* create_worker suspends on the lock with the task in hand.
DispatchBlock(n, t) ==
  /\ Turn(n) /\ Head(t)
  /\ NoneFits(t) /\ HasRoom /\ lock # 0
  /\ Dequeue(t)
  /\ loop' = [loop EXCEPT ![n] = "blocked"]
  /\ hand' = [hand EXCEPT ![n] = t]
  /\ UNCHANGED <<status, results, clientVars, execs, poolVars, lockVars, runVars, maker>>

\* With the lock at last: create, or find the pool full and put the task back.  (When the
\* pool is full at once, dispatch puts the task back under the same key: no change here.)
DispatchResume(n) ==
  /\ loop[n] = "blocked"
  /\ lock = 0
  /\ loop' = [loop EXCEPT ![n] = "ready"]
  /\ hand' = [hand EXCEPT ![n] = NoTask]
  /\ \/ /\ HasRoom
        /\ \E w \in Worker : Create(w, hand[n]) /\ Spawn(w, hand[n])
        /\ UNCHANGED queue
     \/ /\ ~HasRoom
        /\ Enqueue(hand[n])
        /\ UNCHANGED <<execs, poolVars>>
  /\ UNCHANGED <<status, results, clientVars, lockVars, runVars, maker>>

DispatchExit(n) ==
  /\ ~running /\ loop[n] = "ready"
  /\ loop' = [loop EXCEPT ![n] = "off"]
  /\ UNCHANGED <<queue, status, results, clientVars, execs, poolVars, hand, lockVars, runVars, maker>>

-----------------------------------------------------------------------------
(* The _execute_and_collect coroutines *)

\* A worker stopped before its coroutine ran rejects the task; the Task stays as it was.
ExecReject(e) ==
  /\ e.phase = "spawned"
  /\ wstate[e.worker] = "stopped"
  /\ execs' = execs \ {e}
  /\ results' = [results EXCEPT ![e.task] = "fail"]
  /\ MarkIdle(e.worker)
  /\ UNCHANGED <<queue, status, clientVars, workers, wstate, caps, bare, finished, aged,
                 loopVars, lockVars, runVars, maker>>

ExecStart(e) ==
  /\ e.phase = "spawned"
  /\ wstate[e.worker] # "stopped"
  /\ execs' = (execs \ {e}) \cup {[e EXCEPT !.phase = "running"]}
  /\ wstate' = [wstate EXCEPT ![e.worker] = "busy"]
  /\ status' = [status EXCEPT ![e.task] = "running"]
  /\ aged' = aged \ {e.worker}
  /\ UNCHANGED <<queue, results, clientVars, workers, idle, busy, caps, bare, finished,
                 loopVars, lockVars, runVars, maker>>

\* The handler returns, raises, or runs into wait_for's timeout.
HandlerEnds(e, o) ==
  /\ e.phase = "running"
  /\ o \in Outcome \ {"cancelled"}
  /\ execs' = (execs \ {e}) \cup {[e EXCEPT !.phase = o]}
  /\ UNCHANGED <<queue, status, results, clientVars, poolVars, loopVars, lockVars, runVars, maker>>

\* What _execute_task leaves in Task.status; a cancelled task keeps the status it has.
StatusAfter(t, o) == CASE o = "ok" -> "completed"
                       [] o = "error" -> "failed"
                       [] o = "timeout" -> "timeout"
                       [] o = "cancelled" -> status[t]

\* The coroutine resumes: task status, worker back to IDLE whatever destroyed it meanwhile,
\* result stored under the task id, mark_idle.
ExecFinish(e) ==
  /\ e.phase \in Outcome
  /\ execs' = execs \ {e}
  /\ status' = [status EXCEPT ![e.task] = StatusAfter(e.task, e.phase)]
  /\ results' = [results EXCEPT ![e.task] = IF e.phase = "ok" THEN "ok" ELSE "fail"]
  /\ wstate' = [wstate EXCEPT ![e.worker] = "idle"]
  /\ finished' = IF e.phase = "ok" THEN finished \cup {e.worker} ELSE finished
  /\ aged' = aged \ {e.worker}
  /\ MarkIdle(e.worker)
  /\ UNCHANGED <<queue, clientVars, workers, caps, bare, loopVars, lockVars, runVars, maker>>

-----------------------------------------------------------------------------
(* Destroying and creating workers from outside *)

\* destroy_worker refuses a busy worker unless forced; "busy" is the worker's own state.
Destroy(w, force) ==
  /\ "destroy" \in Ops
  /\ lock = 0
  /\ w \in workers
  /\ wstate[w] = "busy" => force
  /\ Remove({w})
  /\ UNCHANGED <<queue, status, results, clientVars, loopVars, lockVars, runVars, maker>>

\* terminate_agent: sync_destroy_worker(force=True) under the thread lock.
Terminate(w) ==
  /\ "terminate" \in Ops
  /\ maker = "out"
  /\ w \in workers
  /\ Remove({w})
  /\ UNCHANGED <<queue, status, results, clientVars, loopVars, lockVars, runVars, maker>>

\* create_agent: sync_create_worker checks the size, builds an LLM client, then inserts.
MakeCheck ==
  /\ "create_agent" \in Ops
  /\ maker = "out" /\ HasRoom
  /\ maker' = "checked"
  /\ UNCHANGED <<queue, status, results, clientVars, execs, poolVars, loopVars, lockVars, runVars>>

MakeInsert(w) ==
  /\ maker = "checked"
  /\ wstate[w] = "none"
  /\ maker' = "out"
  /\ wstate' = [wstate EXCEPT ![w] = "idle"]
  /\ bare' = bare \cup {w}
  /\ workers' = workers \cup {w}
  /\ idle' = idle \cup {w}
  /\ UNCHANGED <<queue, status, results, clientVars, execs, busy, caps, finished, aged,
                 loopVars, lockVars, runVars>>

-----------------------------------------------------------------------------
(* Periodic cleanup, start and stop *)

\* Time passes: a heartbeat, or the time since the last completed task, grows old.
Age(w) ==
  /\ "clean" \in Ops
  /\ w \in workers \ aged
  /\ aged' = aged \cup {w}
  /\ UNCHANGED <<queue, status, results, clientVars, execs, workers, idle, busy, wstate, caps,
                 bare, finished, loopVars, lockVars, runVars, maker>>

Zombies == {w \in busy \cap workers : wstate[w] = "busy" /\ w \in aged}
Expired == {w \in idle \cap workers : w \in finished /\ w \in aged}

\* cleanup_zombie_workers then cleanup_idle_workers: with nothing to remove both return.
\* Otherwise the method, inside `async with self._lock`, awaits destroy_worker, whose first
\* step is to wait for that lock to be free: the asyncio lock is not reentrant, so the
\* coroutine stays "stuck" in the lock until stop() cancels it.
Cleanup(n) ==
  /\ "clean" \in Ops
  /\ cleaner[n] = "asleep"
  /\ lock = 0
  /\ Zombies \cup Expired # {}
  /\ lock' = n
  /\ cleaner' = [cleaner EXCEPT ![n] = "stuck"]
  /\ UNCHANGED <<queue, status, results, clientVars, execs, poolVars, loopVars, runVars, maker>>

CleanerExit(n) ==
  /\ ~running /\ cleaner[n] = "asleep"
  /\ cleaner' = [cleaner EXCEPT ![n] = "off"]
  /\ UNCHANGED <<queue, status, results, clientVars, execs, poolVars, loopVars, lock, runVars, maker>>

\* start(): a new, empty queue replaces the old one; two more coroutines.
Start ==
  /\ starts < MaxStarts
  /\ starts' = starts + 1
  /\ running' = TRUE
  /\ queue' = [t \in Task |-> 0]
  /\ loop' = [loop EXCEPT ![starts + 1] = "ready"]
  /\ cleaner' = [cleaner EXCEPT ![starts + 1] = "asleep"]
  /\ UNCHANGED <<status, results, clientVars, execs, poolVars, hand, lock, stopping, snapshot, maker>>

\* stop(): cancel the newest cleaner, which gives up the lock if it holds it.
StopBegin ==
  /\ "stop" \in Ops
  /\ running
  /\ ~stopping
  /\ running' = FALSE
  /\ stopping' = TRUE
  /\ snapshot' = workers
  /\ cleaner' = [cleaner EXCEPT ![starts] = "off"]
  /\ lock' = IF lock = starts THEN 0 ELSE lock
  /\ UNCHANGED <<starts, queue, status, results, clientVars, execs, poolVars, loopVars, maker>>

StopDestroy ==
  /\ stopping
  /\ lock = 0
  /\ Remove(snapshot \cap workers)
  /\ stopping' = FALSE
  /\ snapshot' = {}
  /\ UNCHANGED <<running, starts, queue, status, results, clientVars, loopVars, lockVars, maker>>

-----------------------------------------------------------------------------
ClientStep == \E t \in Task : Submit(t) \/ TakeResult(t) \/ WaitTimeout(t)

DispatchStep(n) ==
  \/ \E t \in Task, w \in Worker : DispatchIdle(n, t, w) \/ DispatchCreate(n, t, w)
  \/ \E t \in Task : DispatchKeyError(n, t) \/ DispatchBlock(n, t)
  \/ DispatchResume(n)
  \/ DispatchExit(n)

ExecStep(w) ==
  \E e \in execs : e.worker = w /\ (ExecReject(e) \/ ExecStart(e) \/ ExecFinish(e))

HandlerStep(w) == \E e \in execs, o \in Outcome : e.worker = w /\ HandlerEnds(e, o)

CleanerStep(n) == Cleanup(n) \/ CleanerExit(n)

OutsideStep ==
  \/ \E w \in Worker, force \in BOOLEAN : Destroy(w, force)
  \/ \E w \in Worker : Terminate(w) \/ MakeInsert(w) \/ Age(w)
  \/ MakeCheck
  \/ Start
  \/ StopBegin

Next ==
  \/ ClientStep
  \/ \E n \in Loop : DispatchStep(n) \/ CleanerStep(n)
  \/ \E w \in Worker : ExecStep(w) \/ HandlerStep(w)
  \/ OutsideStep
  \/ StopDestroy

Spec == Init /\ [][Next]_vars

\* The loop runs every ready coroutine, a handler ends within Task.timeout (wait_for), a
\* client keeps polling; nothing obliges anyone to destroy, stop or start.
FairSpec ==
  /\ Spec
  /\ \A w \in Worker : WF_vars(ExecStep(w)) /\ WF_vars(HandlerStep(w))
  /\ \A n \in Loop : WF_vars(DispatchStep(n)) /\ WF_vars(CleanerStep(n))
  /\ \A t \in Task : WF_vars(TakeResult(t))
-----------------------------------------------------------------------------
(* Properties *)

TypeOK ==
  /\ running \in BOOLEAN /\ stopping \in BOOLEAN
  /\ starts \in 0..MaxStarts
  /\ queue \in [Task -> Nat]
  /\ status \in [Task -> Status]
  /\ results \in [Task -> {"none", "ok", "fail"}]
  /\ client \in [Task -> {"new", "waiting", "done", "failed"}]
  /\ attempts \in [Task -> 1..MaxAttempts]
  /\ workers \subseteq Worker /\ idle \subseteq Worker /\ busy \subseteq Worker
  /\ wstate \in [Worker -> {"none", "idle", "busy", "stopped"}]
  /\ caps \in [Worker -> SUBSET Type]
  /\ bare \subseteq Worker /\ finished \subseteq Worker /\ aged \subseteq Worker
  /\ snapshot \subseteq Worker
  /\ execs \subseteq ExecType
  /\ loop \in [Loop -> {"off", "ready", "blocked"}]
  /\ hand \in [Loop -> Task \cup {NoTask}]
  /\ cleaner \in [Loop -> {"off", "asleep", "stuck"}]
  /\ lock \in Loop \cup {0}
  /\ maker \in {"out", "checked"}

\* Two coroutines never run on one worker, whatever is destroyed, created or restarted
\* meanwhile (dispatch picks a worker and marks it busy without suspending in between).
OneTaskPerWorker == \A e, f \in execs : e.worker = f.worker => e = f

\* The registries agree: a registered worker is in exactly one of the two lists, it is in
\* the busy list exactly while a coroutine uses it, and the busy list has no one else.
\* A registered worker in neither list would count against max_workers for ever.
RegistriesAgree ==
  /\ workers \subseteq idle \cup busy
  /\ idle \cap busy = {}
  /\ busy = {w \in workers : \E e \in execs : e.worker = w}

\* A worker that dispatch could pick is really free: state IDLE and no coroutine on it,
\* so the pool's lists and the worker's own state never contradict each other.
IdleMeansFree ==
  \A w \in idle \cap workers : wstate[w] = "idle" /\ \A e \in execs : e.worker # w

\* A destroyed worker waits for no handler: its coroutine is about to be rejected, was
\* cancelled, or has its outcome already, whichever of its steps the destruction hit.
\* (A handler in an executor thread runs on by itself; nobody takes its result.)
DestroyedWaitForNothing == \A e \in execs : e.phase = "running" => e.worker \in workers

\* The pool never grows beyond max_workers as long as one kind of lock is used (worker_pool.py: create_worker's size check).
PoolBounded == Cardinality(workers) <= MaxWorkers

\* The sync and async methods check the size under different locks, so the pool may exceed
\* max_workers, but only by the one worker that sync_create_worker was about to insert.
OvershootByOne ==
  Cardinality(workers) + (IF maker = "checked" THEN 1 ELSE 0) <= MaxWorkers + 1

InFlight(t) == \/ queue[t] > 0
               \/ \E n \in Loop : hand[n] = t
               \/ \E e \in execs : e.task = t

\* A client that waits is waiting for something: its task is queued, in a dispatcher's
\* hand or running, or its result is there.  Otherwise get_result polls for ever.
NoTaskLost == \A t \in Task : client[t] = "waiting" => InFlight(t) \/ results[t] # "none"

Copies(t) == queue[t] + Cardinality({n \in Loop : hand[n] = t})
                      + Cardinality({e \in execs : e.task = t})

\* No work is invented: the queue entries, coroutines and results of a task never outnumber
\* the times its client submitted it, through requeues, retries and late results.
NoExtraWork ==
  \A t \in Task :
    Copies(t) + (IF results[t] = "none" THEN 0 ELSE 1)
      <= IF client[t] = "new" THEN 0 ELSE attempts[t]

\* A coroutine that dispatch starts is for the most urgent task in the queue, in the order
\* of TaskPriority (task_model.py: LOW = 1 ... CRITICAL = 4).
MostUrgentFirst ==
  [][\A e \in execs' : (e.phase = "spawned" /\ e \notin execs) =>
       \A u \in Task : queue[u] > 0 => Priority[u] <= Priority[e.task]]_vars

\* The head of the queue fits no worker and the pool is full: dispatch takes the entry and
\* puts it back in front of the tasks that an idle worker could serve (agent_manager.py:189).
HeadStuck ==
  /\ ~HasRoom
  /\ \E u \in Task : Head(u) /\ \A w \in workers : ~CanHandle(w, u)

\* A client waits for ever behind a stuck head only: otherwise every task handed to
\* submit_task is answered, with a result or with its last attempt used up, also when types
\* without a registered handler are served by the few workers created for them.
AnsweredUnlessStuck ==
  \A t \in Task : client[t] = "waiting" ~> (client[t] # "waiting" \/ []HeadStuck)

\* An idle worker past its idle timeout is reclaimed, or used again.
ExpiredReclaimed == \A w \in Worker : w \in Expired ~> w \notin idle \cap workers
=============================================================================
