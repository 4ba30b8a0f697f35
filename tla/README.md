# A verification project for agent5-core

TLA+ models of agent5-core (Python, `src/`), checked with TLC on small instances and,
where the prover reaches, proved with TLAPS for every instance. Every definition is
translated from the source; `PROJECT.json` (`map`) names the lines each one stands for.

## 1. Inventory

| Component | State | Operations | Hard behaviour | What makes it correct |
|---|---|---|---|---|
| **Task pool**: AgentManager, WorkerPool, WorkerAgent, Task (`core/agent/`) | priority queue, results by task id, worker registry with idle and busy lists, worker state, two locks | submit, dispatch, execute, collect, create, destroy, cleanup, start, stop, thread-side `sync_*` | coroutines of one loop, threads under another lock, cancellation, timeouts, resubmission | one coroutine per worker; registries agree; bounded pool; no waiting client is forgotten |
| **MasterAgent** (`master_agent.py`) | pending tasks, callbacks, statistics, retry counts | submit, create, wait, cancel, clear, run loop, stop, emergency stop | the UI thread changes the pending tasks between any two steps of the loop; the retry of a task that was withdrawn | each task is settled once, within its retry budget, and its end is announced; a client is always answered |
| **Safety gate**: SafetyOS, RiskEvaluator, TimelineManager (`core/safety/`, `core/timeline/`) and the callers in `main.py` | emergency mode, audit log, register of risky tasks, timeline, capsules | approve, record_outcome, emergency_on/off, stop, stop_all_risky, stop_all | the review is awaited, commands arrive meanwhile, every write may fail | nothing risky and nothing unaudited runs |
| **AgentMain**, ConstraintSystem, **IdentityCore** (`agent_main.py`, `cognition/identity_core.py`) | autonomous-loop thread, blacklist, action log, identity values, identity file | teach, explore, evolve, self tasks, start/stop of the loop, save/load | threads, join with timeout, a file rewritten in place | no loop beside another without a cause; blacklist respected; identity converges and survives a restart |
| **Golden data chain store** (`cognition/data_chain_v1.py`) | one JSON file per chain, one index | save, delete, rebuild | two writes per operation, crash, two writers | the index lists exactly the chains |
| **Runtime**: EventBus, GlobalRegistry, UnifiedCoordinator, ExecutionEngine, Wiring (`core/runtime/`, `core/bootstrap/`) | subscribers, history, modules, lazy factories, routes | on/off/emit/once, register/get, handle | emission races with unsubscription; factories run under a lock their own thread may enter again | no later emission calls a spent `once` handler; one instance per name, unless a factory makes a second itself |
| **SharedRuntimeContext** | singleton of engines | initialize, get, reset | unlocked check-then-create, published before it is filled | layers after what they are built from; a half-built context only for a reason |
| **Observation**: EventBus, ObservationHub, RewardExplainer | event counts, causal graphs, governance states, queued proposals | emit, episode end, replay, governance, policy injection, explain | swallowed failures part-way through a pipeline, two emitters | the episode that ended is the one analysed; all consumers follow one policy; praise is earned |
| **CognitiveController** (`control/controller.py`) | last decision, last results | decide, feedback | decisions and feedback come in any order and any number | results, advice and lessons stay well-formed; nothing promises that feedback meets its own decision |
| **Memory**: MemoryKernel, MemoryRouter | four layers, routes, counters | write, read, promote, decay | layers that are missing, lack an operation or raise; items in several layers | moving an item to another layer never loses it |
| **CuriosityGoalGenerator, PlannerV2, ValueRuntime, ValueVector, Constitution, Motivation, GeneSandbox, RiskEvaluator** | scores, weights, histories | pure or nearly pure computations | bounds, ties, empty inputs | results in range, choice is a maximum |
| **SubAgent, SubAgentPool** | load, shared contexts, events | act and execute by DAG or capsule, add, remove, choose | a DAG or capsule raises or is cancelled | a context lives exactly as long as its task |
| **LLM access** | current mode | switch, ask | fallback | a configured model answers |
| **Application shell** (`main.py`, `agent_components.py`) | components, loop thread, shutdown | assemble, start, run the UI, signal, stop | two threads and an event loop that may end, hang or cancel the shutdown | the program that begins to stop ends |
| **Configuration, UI, scripts** | environment variable, handles | - | - | not modelled |

Interactions: `main.py` starts the AgentManager and then the MasterAgent (which starts the
AgentManager again) on an event loop in a daemon thread; the UI thread calls the `sync_*`
methods and the safety commands. MasterAgent hands Task objects to the pool and polls its
results. `approve_and_save` and `execute_with_golden_chain` ask SafetyOS, run the action and
report the outcome back. Many imports (`core.safety.audit`, the teachers, the learner, the
capsule managers, `core.causal`) are not in this repository; they are external here and
modelled, when at all, by the ways in which the code uses them.

## 2. Plan

1. `AgentPool`, with its proofs. **Done.**
2. `SafetyOS`, with its proofs. **Done.**
3. `IdentityCore` (identity, evolution, file, restart) and `AgentMain` (loop threads, calls,
   blacklist, capsules), which extends it; the agent implements the identity. **Done.**
4. `MasterAgent`, which implements `TaskLedger`, with its proofs. **Done.**
5. `ChainStore`, which implements `ChainCatalog`, with its proofs. **Done.**
6. The runtime package: `EventBus`, `Coordinator`, `RuntimeContext`, with their proofs. **Done.**
7. What an agent works with: `Controller`, `MemoryKernel`, `SubAgent`, with their proofs. **Done.**
8. Values and rewards: `ValueGate`, `GoldenChain`, with their proofs. **Done.**
9. `Application` and `Observation`, with their proofs, and all services together. **Done.**
10. An abstract pool (a set of tasks, each waiting, running or answered) that `AgentPool`
    implements while no worker is destroyed. Open.

Theorems: every invariant and every action property that a run checks is proved (`NoTaskLost` and
`PoolBounded` under the conditions under which they hold), and so are the three refinements. Worth
proving next: the abstract pool's refinement, once item 10 is written.

## 3. Modules

| Module | Models |
|---|---|
| `AgentPool` | the task pool and its client |
| `MCAgentPool` | two tasks of two types, worker symmetry, for TLC |
| `AgentPoolProofs` | theorems about `AgentPool` |
| `SafetyOS` | the safety gate and its callers |
| `MCSafetyOS` | three requests, one per risk score |
| `SafetyOSProofs` | theorems about `SafetyOS` |
| `IdentityCore` | the identity, its evolution and its file, under any threads |
| `AgentMain` | extends it with the autonomous loop, its callers, the blacklist and the capsules |
| `MCAgentMain` | one value at the thresholds, one goal, two loop threads, a user and a second caller |
| `AgentMainProofs` | theorems about both |
| `MasterAgent` | the agent's pending tasks, its run loop and everybody who interferes |
| `TaskLedger` | what it promises: abstract specification |
| `MasterAgentProofs` | theorems about `MasterAgent`, the refinement among them |
| `ChainStore`, `ChainCatalog` | golden chain files and index; the catalog they implement |
| `EventBus`, `Coordinator`, `RuntimeContext` | the runtime package |
| `Controller`, `MemoryKernel`, `SubAgent` | decisions and feedback, memory layers, workers |
| `ValueGate`, `GoldenChain` | the gene sandbox's gate, one request from approval to reward |
| `Application`, `Observation` | the program's threads, the episode pipeline |
| `MCServices` | the eleven modules of the last five rows, for TLC |
| `RuntimeProofs`, `AgentProofs`, `ValueProofs` | theorems about them: the third row and the runtime package; the fourth; `ChainStore`, the fifth and `Observation` |
| `ServicesProofs` | theorems about `Application`, and about all eleven together |

### AgentPool

All coroutines share one event loop, so an action is what one coroutine does between two
points where it really suspends. Taking an uncontended `asyncio.Lock` does not suspend, so
every critical section but the cleanup methods' is one action that needs the lock free.

| State | Code |
|---|---|
| `queue`, `results`, `running`, `starts` | `AgentManager._task_queue`, `_results`, `_running`, number of `start()` calls |
| `workers`, `idle`, `busy`, `lock` | `WorkerPool._workers`, `_idle_workers`, `_busy_workers`, `_lock` |
| `wstate`, `caps`, `bare`, `finished`, `aged` | `WorkerAgent.state`, `can_handle`, `stats.last_task_at`, the clock comparisons |
| `execs` | one record per `_execute_and_collect` coroutine and where it is |
| `loop`, `hand` | the `dispatch` coroutines and the task each holds |
| `client`, `attempts` | `MasterAgent.execute_with_retry` for each task |
| `stopping`, `snapshot`, `maker`, `cleaner` | `stop()`, `sync_create_worker` and `_periodic_cleanup` part-way through |

Actions follow the code by name: `Submit`, `TakeResult`, `WaitTimeout` for the client;
`Dispatch*` for one turn of `dispatch` (an idle worker, a new one, the KeyError of a stale
idle id, waiting for the lock, no room); `ExecReject`, `ExecStart`, `HandlerEnds`,
`ExecFinish` for `_execute_and_collect` and `WorkerAgent.execute`; `Destroy`, `Terminate`,
`MakeCheck`/`MakeInsert`, `Age`, `Cleanup`, `Start`, `StopBegin`/`StopDestroy` for the rest.

Abstractions. The two worker lists are sets: the code never adds an id twice, and any idle
worker may come first. Ages compared with thresholds are the set `aged`. The queue is a
multiset ordered by `(priority, created_at)`. When no worker fits and the pool is full,
dispatch puts the task back under the same key, which is no change of state. The `sync_*`
methods run on other threads: they interleave between steps of the coroutines, and
`sync_create_worker` is split at the construction of the LLM client; preemption inside a
coroutine's step is not modelled. A handler in an executor thread runs on after its task is
cancelled; nobody takes its result. A worker id is used once (the code draws uuids).

The client lives in `master_agent.py` (`execute_with_retry`); the agent's own loop is in
`MasterAgent`.

### SafetyOS

A request suspends in the teachers' review, in the action and in the learner; between them a
step is atomic, although the code awaits helpers that never suspend. `pc` is where a request
is, `recorded` is everywhere its decision has been written (`_audit_log`, drift detector,
audit file, capsules, learner, causal engine), `timeline` and `risky` keep their order. Risk
scores are tenths and only 1, 6 and 8, the answers of `RiskEvaluator`. `Failing` names the
external parts that may raise. The teachers' recommendation "deny" becomes "block" and is
counted under it; "doubt" stands for any other recommendation with a fusion score below 0.4.

| Action | Code |
|---|---|
| `EmergencyBlock`, `AskTeachers` | `approve` up to the review |
| `Decide`, `DecideFails` | `approve` from the review on, and the caller's start of the action |
| `ActionEnds`, `Learned`, `LearnerFails` | the caller and `record_outcome` |
| `EmergencyOn/Off`, `Stop`, `StopAll` | the commands |

### IdentityCore

Every operation holds the instance's lock up to the end of `_save`, so it is one step, which
leaves the file open for writing and empty (`torn`); `SaveEnds` or `SaveFails` closes it and
frees the lock. `Crash` ends the process anywhere and starts it again: nothing happens between
the two, so this is one step.

| State | Code |
|---|---|
| `cur`, `tgt`, `version`, `log` | `current_state`, `target_state`, `_version`, the versions in `evolution_path` |
| `file`, `disk` | `identity_state.json` and what it holds |
| `writer`, `unsaved` | who is inside `_save` and so holds `_lock`; a save that only printed its error |
| `events` | a bound: what has befallen the program |

Actions: `UpdateValues`, `UpdateGoals`, `UpdateConstraints`, `UpdateTarget`, `AddObsession`,
`Evolve` for the methods of these names, `Load` for `_load` and `__init__`. Values are numbers of
1/10000. A binary fraction may fall on either side of a boundary it equals, so a gap of exactly
0.05 counts or not, and a tie of `round(gap, 3)` goes either way. A key that a dictionary lacks
is 0. The traits never change and are left out.

### AgentMain

`Proc` is the user and the threads that may run `_autonomous_loop`, `Caller` whoever starts and
stops it; `at` says before which stage of its cycle a thread is, or inside which call. The period of
a stage is `Every`, the cycle counter is kept modulo a common multiple. `LoopEvolve`, `Ask`,
`LoopExplore`, `LoopRecord` and `Sync*` are the stages; `Raise` is an exception, which ends the
cycle. The user may teach, evolve, explore a topic and add to the blacklist. `seen` is what
`_sync_capsule_from_identity` read before it writes `capsule`, values first. Teacher, curiosity
engine, evolution loop, guard and capsule store are not in the repository: a call returns anything
its user can tell apart. One `teach` is one update of the identity. The action log, the counters
and the capsules of obsessions are left out.

Neither `start_autonomous_loop` nor `stop_autonomous_loop` holds a lock, so each access to
`_running` or `_loop_thread` is a step of its own, with anything in between:

| Code | Steps |
|---|---|
| `start_autonomous_loop` | `StartLoop` (the test), `SetRunning`, `MakeThread`, `LaunchThread` |
| `stop_autonomous_loop` | `StopLoop` (the assignment), `TestAlive`, `EnterJoin`, `Join` |

`joined` is the thread a caller waits for, `timeouts` counts the waits that gave up and `crossed`
the calls that began inside another caller's. `LaunchThread` starts whatever `_loop_thread` names by
then, as `EnterJoin` joins it; both raise when that is not a thread to start or to join.
`Thread.start()` itself is one step. A new thread takes a name nobody uses (`Unused`).

### MasterAgent

`master_agent.py` uses two names it never imports (`TaskExecutionContext`, `TaskRetryContext`):
before Python 3.14 the annotations at lines 728 and 768 stop the import, from 3.14 on the module
loads and `run()` fails at line 842. Both are small records of a package that is not in the
repository; they are external here, and the loop is modelled as it runs once they are bound.

`pending` with `arrival` is the dictionary in insertion order, `pc` where `run()` is: before its
test, between the test and reading the first entry (`take`), in a handler, or asleep. The loop
is a coroutine, but `CreateTask`, `CancelTask` and `EmergencyStop` come from the UI's thread and
so may fall between the test and the read. `Retry`, `Complete`, `FinalFailure` and `FinalError`
are the ways a handler ends; the last is the KeyError of a task withdrawn meanwhile. `TakeFails`
is the IndexError of an emptied dictionary, which the loop takes for an error of its own.

`TaskLedger` says what this amounts to: a task is accepted once, settled at most once and never
open again after that; it is handed to the pool any number of times (`execute_with_retry` does so
for every attempt but the first), each copy ends with a result, a later result replaces one that
nobody took, and a waiter reports at most one result per hand-over; the totals count exactly these
settlements and reports, so that one task may count several times. `KeepsLedger` is `MasterAgent`
implementing it, with the accepted tasks those that ever had an `arrival`.

### The services

| Module | State and steps |
|---|---|
| `ChainStore` | `files`, `index`: a save opens the file (empty), fills it, reads all files, rewrites the index; `Interrupt` leaves a torn file, one that cannot even be decoded, or a short index. `ChainCatalog`: the index lists exactly the readable chains unless an operation is under way or was cut short |
| `EventBus` | an emission copies the handlers in one step and calls them outside the lock; the wrapper of `once()` unsubscribes and calls in two steps |
| `Coordinator` | `modules`, `factories`: a factory runs inside the registry's lock, which is an RLock: `making` is the stack of factories a thread is in, and meanwhile that thread may get, register and unregister, the same name too (`reentered`). `handle()` looks up the kernel and then, also when the kernel cannot route, the controller; the wirings look up a name each |
| `RuntimeContext` | `Look`, `Create`, `Initialize`, `FillLayer` for the 26 statements of `initialize()`, `Return`, `Reset`: each reads the global again |
| `Controller` | `_last_decision`, the advice a decision starts from, what was learned under which decision. A decision may raise before or after it is stored; feedback of any task may come at any time and any number of times |
| `MemoryKernel` | which layers hold which item, as it may be written again elsewhere; a layer is real (takes, gives, forgets, raises, and removes or not) or the fallback (takes only); `onItself` is a promotion to the layer the item is in |
| `SubAgent` | `load`, the DAG a thread executes and the capsules it awaits, the contexts of the shared manager |
| `ValueGate` | the seven checks in order, over a world that moves between them |
| `GoldenChain` | the steps of `execute_with_golden_chain` and the arithmetic of `RewardExplainer` |
| `Application` | `create_all`, `start`, UI, signals and `stop()` on the main thread; `_async_main`, `_shutdown_async` and the end of the event loop on the other |
| `Observation` | `ON_EPISODE_END`: recorder, hub, graph, governance V2 and V3, injection into weights, planner and goals; the last two come later than the hub, or are replaced, and `newSinks` says which missed the policy |

`Application` follows the source in that `create_all` never sets the bundle's `module_switch`, so
that `_async_main` ends at its first statement (section 6); `InstallSwitch` is code that embeds
the application and sets it, without which nothing would ever be started.

## 4. Runs

| Run | Question | Result |
|---|---|---|
| `agent_pool` | through destruction, stuck cleaners, `stop()` and a second `start()` between any two steps, do the registries agree and the pool keep its bound? | holds: `RegistriesAgree`, `DestroyedWaitForNothing`, `PoolBounded` |
| `agent_pool_clients` | no worker destroyed, one type with no registered handler: is every client answered unless the head of the queue stays unservable, and no work invented? | holds: `NoTaskLost`, `NoExtraWork`, `AnsweredUnlessStuck` |
| `agent_pool_threads` | with threads creating and destroying workers and failed tasks resubmitted, has every coroutine its own worker, and how far may the pool outgrow its bound? | holds: `OneTaskPerWorker`, `IdleMeansFree`; by one worker (`OvershootByOne`) |
| `agent_pool_lost` | and if a worker is destroyed? | **violated**: a ghost idle id makes dispatch drop a task |
| `agent_pool_reclaim` | are expired workers reclaimed? | **violated**: the cleaner waits for the lock it holds |
| `agent_pool_priority` | is the most urgent task first? | **violated**: LOW is served before CRITICAL |
| `safety_os` | does the gate hold while commands and failures interleave? | holds: `AuditedBeforeActing`, `EveryDecisionAudited`, `StoppedOnce`, `EmergencyHolds` |
| `safety_os_capsule` | is every outcome saved with its chain? | **violated** after a failed review |
| `master_agent` | with tasks created, cancelled, cleared, handed over again, reported and the agent stopped between any two steps of its loop, is each settled once, within its retries, with notice, and served? | holds: `KeepsLedger`, `RetryBudget`, `OneLateStart`, `EndsAnnounced`, `RetryEntriesOwned`, `TasksServed` |
| `services` | do the eleven services keep their promises, one per behaviour? | holds: `KeepsCatalog`, `OnceIsOver`, `OneModulePerName`, `ContextsSound`, `PromotionIsSafe`, `AgentAccounts`, `ApprovedNeverRejected`, `PraiseIsEarned`, `EpisodesAligned`, `StopReturns` |
| `agent_main` | with loops that outlive `stop()`, two callers that start and stop at once, failed writes, exceptions and crashes anywhere, do identity, file and capsules stay consistent and come to rest? | holds: `LogNeverAhead`, `FileHoldsMemory`, `OverlapIsOwed`, `EvolveApproaches`, `LoopKeepsUp` |
| `agent_main_blacklist` | does the loop respect the blacklist? | **violated**: it checks the word "auto" and explores what the curiosity engine picks |

Bounds. Two tasks of two types, one with a registered handler and one without, are enough
for a task to find no fitting worker, and for one task to be dropped or overtaken because of
the other. Three workers and a pool of one leave two fresh ids for workers created after a
destruction. Two `start()` calls (`agent_pool`) give two loops and two cleaners. Two attempts
(`agent_pool_threads`, and with timeouts `agent_pool_clients`) are needed for a stale result to
meet a retry and for a worker to be used again. A pool of one is full while a worker is used,
and has two coroutines at once when a worker was destroyed under one; two live workers side by
side are in `agent_pool_clients`. All operations at once make a graph too large for a run, so
each run names its operations in `Ops`; the theorems hold for all of them together.
Worker ids are symmetric; no run with a liveness property uses
symmetry. Three requests, one per score, meet every branch of the gate, and a timeline of
three events overflows. Each run's `Ops` or `Failing` names what its environment does, so that
a holding run says under which circumstances it holds.

In `agent_main` everything that befalls the program (a call that teaches or evolves, a failed
write, an exception, a join that times out, a crash, an addition to the blacklist, a call of start or
stop inside another caller's) counts as an event, and two events allow every pair of them, in every
order and at every point. One value suffices, as values do not influence each other; it starts at
its target of 0.9445 and is taught 1.2, which meets the clamp at 1 and leaves a gap of 0.0555, just
above the threshold. Two threads are a loop and its leftover. One caller makes every call, the other
starts the loop too: enough for two starts that cross, and for a start in the middle of a stop. That
every call may come from any number of callers is left to the theorem. All periods are 1, so that
every stage is due in every cycle, which is where stages can disturb each other most; the theorems
leave the periods open. The path is cut from 4 entries to 2 and saved with 1, in place of 501, 300
and 100.

In `master_agent` two tasks allow one to be first and starve the other; one retry and two
consecutive errors meet every branch of the retry and of the cool-down; two calls of
`AgentManager.submit_task` hand one task over twice, so that a result meets a second copy.

`MCServices` puts modules that share no state into one run: `part` says at the start which one
moves, the others rest in their initial states, and a property of one is a property of the whole.
Its state space is the sum of theirs, not the product. Two of everything is what the interleavings
need: two writes of two chains, two overlapping emissions (of a plain, a `once` and a wildcard
`once` subscription), two threads that ask for two modules, two emitters of two episodes, two
callers of two contexts, a context being replaced while it is filled, a factory that runs inside
another, two tasks whose decisions and feedback cross. One item is enough, as items do not
influence each other. One evaluation of the gate is enough, as the next starts afresh; the scores
0, 0.81 and 1 lie on both sides of the rejection at 0.8, where the gate's own threshold of 0.7
must also refuse. Fusion scores 0 and 1 are the extremes. One signal interrupts any one point.
The theorems lift these bounds for the invariants and for `PromotionIsSafe` and `KeepsCatalog`;
for `StopReturns`, the liveness of `Application`, they remain.

The pool may come to rest (nobody is obliged to call `start()` or to submit), and so may the
gate: these runs do not report deadlock; the agent rests when its loop does not run.

Fairness (`FairSpec`). asyncio runs every ready coroutine, so the steps of each dispatch loop,
execution and cleaner are weakly fair; a handler ends because `wait_for` bounds it by
`Task.timeout`; a client polls its result every 0.1 s, and a result stays until it is taken.
In the agent the operating system runs every thread
and external calls return, so what a thread does inside a cycle or a call is weakly fair; that
an exception strikes again and again is excluded by the bound on events, and without it
`LoopKeepsUp` would not hold (section 6). Nothing obliges anyone to teach, submit, destroy, stop, start or time out.
The master agent's loop is weakly fair (asyncio resumes it and its sleeps end); that handlers
return is an assumption about them, since the code bounds none. `StopReturns` assumes only that the
main thread goes on once it stops: its waits for the shutdown and for the loop thread have
timeouts, so neither needs the loop thread to cooperate, and nothing is assumed of that.

Each property also has a mutant: a plausible slip in one mapped definition under which TLC
must find the property violated.

## 5. Proofs

`AgentPoolProofs`, from `AgentPoolAssumption` alone and for any sets of workers and tasks:

* `TypeCorrect`: `Spec => []TypeOK`.
* `Inductive`: the invariant `IInv`. The four registry properties are not inductive. What is
  missing: a dispatcher holds a task exactly while it waits for the lock (`HandHolds`); an id
  not yet drawn is in no list and no coroutine (`FreshUnused`), or creation could reuse a
  worker that is running; a worker in use is not idle (`ExecNotIdle`), which also covers the
  ghost ids that are no longer registered; and a worker's own state agrees with the phase of
  its coroutine (`StateFollowsPhase`), without which `force_stop` could miss one.
* `NoSharedWorker`, `RegistriesConsistent`, `IdleWorkersFree`, `DestroyedDoNotWait`: the
  properties, each a part of `IInv`.
* `OvershootBounded` and `PoolStaysBounded`: the size bound, with `sync_create_worker` one
  worker more than without. The invariant adds that the worker sets are finite.
* `QuietLosesNothing`: `NoTaskLost` whenever nobody destroys a worker, calls `stop()` or calls
  `start()` twice (`Quiet`): the run `agent_pool_lost` shows that the first condition is needed.
* `WorkIsAsked`: `NoExtraWork`, with no condition at all. The invariant (`WorkInv`) counts: queue
  entries, tasks in a dispatcher's hand, coroutines and the result of a task together are never
  more than the attempts of its client, and the coroutines are finitely many. One lemma per way in
  which a count changes (`AddRun`, `MoveRun`, `CancelRuns`, ...) keeps cardinalities out of the steps.

`SafetyOSProofs`, from `SafetyOSAssumption`:

* `GateInvariant`: what runs was audited, every decision is, and (the strengthening) an
  undecided request has been written nowhere.
* `NothingRunsUnaudited`, `DecisionsCanBeShown`: the two invariants.
* `EmergencyIsSafe`: the action property `EmergencyHolds`. The check of emergency mode is stale
  after the review; the theorem rests on `AllowedIsLow`: the thresholds alone let no score
  above 0.3 through.
* `RegisterInvariant`, `TypeCorrect`, `StopsOnce`: the types, with the bound of the timeline, and
  `StoppedOnce`. The invariant (`RegisterInv`) says that the register names a request at most once
  (`Distinct`) and only after its refusal (`Refused`), that nothing enters the timeline for a request
  not yet decided (`Traced`), and that what was stopped has left the register (`StopCloses`). The
  timeline is trimmed at every addition; `TrimKeepsTheEnd` says that what remains keeps its order.

`AgentMainProofs`, from `IdentityAssumption` and `AgentMainAssumption`:

* `IdentityInvariant`: `IdInv`. Besides the properties it says that the saved path is no longer
  than a restart keeps (or what is loaded would not be what was saved), and that a whole file is
  never ahead of the memory (or a restart could look like an evolution).
* `IdentityTypes`, `PathNeverAhead`, `FileIsCurrent`: its parts.
* `EvolutionApproaches`: the action property `EvolveApproaches`, from the lemma `MovesFacts` about
  one value, for any thresholds, rates and rounding.
* `AgentImplementsIdentity`: `Spec => IdSpec`. Whatever the threads of the agent do is a step of
  the identity or none, so the invariants carry over (`AgentFileIsCurrent`).
* `OverlapNeedsCause`: `OverlapIsOwed`, for any number of callers and threads. The invariant
  (`OverlapInv`) counts live threads together with the starts still to come (`Weight`): they are at
  most one more than timeouts and crossings allow (`Allowed`). There is room for that one as soon as
  `_running` is off and nobody minds (`Minds`), that is, is about to turn it on or to wait for the
  thread `_loop_thread` names; without this a start after a completed stop could exceed the bound.
* `AgentTypes`: all types, with the fact that timeouts and crossings are among the events.

`MasterAgentProofs`, from `MasterAssumption`:

* `Inductive`: `IInv`. The properties lack what ties the task in hand to its counts: the attempt
  read before the handler is still the retry count, and the task has been started once more than
  that (`InHand`); a pending task nobody holds has been started once per retry granted (`Waiting`).
  Without the second, a task withdrawn and found again could be started too often.
* `TypeCorrect`, `RetriesBounded`, `StopTakesEffect`, `EndsAreAnnounced`, `NoStrayRetryEntries`.
* `ImplementsLedger`: `Spec => KeepsLedger`, each step a step of `TaskLedger` or none. Reports stay
  within the hand-overs since a task's copies, its stored result and its reports together never
  outnumber them (`PoolEntries`).

`RuntimeProofs`, from the assumptions of the three modules:

* `OnceOnly`: a `once` subscription that has been called is no longer subscribed, so that an
  emission which begins later copies nothing that is spent.
* `OneModule`: one thread at a time is inside factories (`LockInv`). A name that is being made, by a
  factory that leaves the name alone, is not there yet and is being made once (`FrameInv`), so only
  the present module has been handed out (`GivenInv`). Names whose own factory got or registered them
  (`reentered`) are exempt, and only its own thread can bring that about.
* `EventBusTypes`, `CoordinatorTypes`, `ContextTypes`.
* `ContextSound`: what an `initialize()` has passed stands in the context it fills (`FillInv`), what a
  layer needs comes earlier in `Order` (`NeedsEarlier`), and every incomplete context, handed out or
  not, has a reason (`ReasonInv`).

`AgentProofs` (with `ControllerTypes`, `MemoryTypes`, `SubAgentTypes`):

* `NeverLostByMoving`: the action property `PromotionIsSafe`, for items in any number of layers. A
  promotion to another layer stores before it removes; every route leads to a layer (`MemInv`).
* `AgentsAccounted`: a task is at one agent, in one role (`PlaceInv`); otherwise the end of one
  execution would clear the context of another.

`ValueProofs`:

* `PraiseEarned`, from `FailureOutweighs`: no fusion score makes up for the -0.8 of a failure.
* `RejectedNotApproved`, from `RejectedScoresLow`: negative values above 0.8 leave a score below 0.7.
* `ImplementsCatalog`: `ChainStore` implements `ChainCatalog`. The invariant (`ChainsInductive`) adds
  that the records collected for the index are still all the readable chains when it is written.
* `EpisodesInOrder`: `EpisodesAligned`. The invariant (`ObsInv`) follows an emission through its
  subscribers: one emitter at a time is inside the pipeline, with the newest episode (`OneEmission`);
  no episode has two graphs, and graphs follow the episodes' order (`GraphsInOrder`); whatever sinks
  the injection has reached follow the latest policy, unless they were not there when the weights took
  it or were replaced since (`PolicyInOrder`).
* `GoldenTypes`, `ChainTypes`, `GateTypes`, `ObservationTypes`. The third needs the counters' invariant
  (`StatsInv`), and that the scores a world starts with are among `Scores` (`ValueGateAssumption`).

`ServicesProofs`, from the assumptions of all eleven modules:

* `ApplicationTypes`: the types of `Application`. The invariant adds that components are created
  only while there are some left.
* `PartsAsSpecified`: whatever the services do together is, for each of them, a behaviour of its own
  module. That carries the other theorems over to what the run `services` checks:
* `ServicesTypes`, `ServicesSafe`: `ServicesTypeOK`, the seven other invariants, `KeepsCatalog` and
  `PromotionIsSafe` under `ServicesSpec`.

Only model-checked: the liveness properties `AnsweredUnlessStuck`, `TasksServed`, `LoopKeepsUp` and
`StopReturns`. Liveness under fairness and ENABLED are out of the prover's reach, as is what a
recursive definition computes for every input. That the runs which expect a violation find it
needs no theorem: a counterexample is one behaviour.

## 6. Seen while modelling, not checked by a run

* A task that is rejected or cancelled keeps status PENDING or RUNNING; only its result tells.
* `stop()` cancels the newest cleaner only; if one of an earlier `start()` holds the lock in
  the self-deadlock of `agent_pool_reclaim`, `stop()` waits for ever.
* A task nobody can serve goes back to the head of the queue and starves tasks behind it for
  as long as the pool is full of workers that cannot handle it.
* Emergency blocks reach neither the audit file nor the drift detector.
* The register behind `stop_all` only ever holds decisions that were not allowed to run.
* `decision.timeline_event_id` names no event of the timeline.
* The learner's failure in `record_outcome` fails the caller after the action has run.
* `create_all` gives its ModuleSwitch to the Controller only; nothing sets `bundle.module_switch`,
  and `_async_main` calls it at once (`main.py:238`): the AttributeError ends the loop thread before
  any component is started. `Application` has this step; the UI runs on without them.
* A subtask is run twice, by the pool and by the loop, as `submit_subtasks` enters it in both.
* `consecutive_errors` is never reset by a success; the callbacks of `on_task_complete` are never
  called by the run loop; `create_task` drops the refusal of a stopped system; the training of an
  idle loop goes on while the safety manager is stopped; `cancel_task` tests and deletes in two
  steps.
* `start_autonomous_loop` tests and sets `_running` without a lock. Two starts that cross, or a start
  between another caller's stop and the end of its join, leave two loops without any timeout; the
  second `start()` of one thread raises a RuntimeError, and so does a join of a thread not started yet.
* `stop()` before the loop thread is ready finds no loop, and the components it then starts are
  never stopped; `_async_main` sets `autonomous_loop.running` after `stop()` may have cleared it;
  its end may cancel the shutdown half-way; the memory manager is closed before the components
  that use it, and twice.
* `off(type, handler)` cannot remove what `once()` entered, and a removed handler may still be
  called by an emission under way.
* UnifiedCoordinator has no `handle_task`, which MasterAgent and the default handler call; the
  controller MasterAgent was given stays after another is registered.
* A factory that gets or registers its own name leaves two modules of that name with their users, and
  the `del` of the factory then raises a KeyError out of `get()`.
* `feedback` learns under whatever decision is stored, be it another task's or one that raised. A
  status it does not know is filed as an experience of 0.0 and then handled as a success.
* A policy injected before the goal generator exists reaches the weights only; the generator keeps its
  defaults until the next one.
* A golden chain file cut inside a multibyte character raises UnicodeDecodeError in every rebuild of
  the index, until that chain is saved again or deleted.
* `get_runtime_context` initialises whatever context is the global by then, and returns whatever is
  the global after that: a second creator's, or None after a reset.
* Promoting an item to the layer it is in stores it and removes it; `_target_layer` is not updated by a
  promotion. Nothing in `src/` calls `promote`, the chain store or the registry's factories.
* The gene sandbox passes every check whose layer is missing, looks at the score of the value
  runtime but not at its verdict, and ignores a hard constraint that names none.
* PlannerV2's comments give search depth 3 to 8 and branching 1.2 to 0.6; the depth goes to 10, and
  is 6 for a factor of 1.4, by `int()` of a double. V2's `gene_stability_change` is always 0.
* `RewardExplainer` counts a request that was not executed as a failure of -0.8.
* A sub-agent's load is not taken back when its DAG raises, and does not count capsules at all.
* A task generator that always raises ends every cycle that explores or synchronises, since 10
  and 20 are multiples of 5: both are starved.
* A torn identity file loads as the defaults, and the next save makes the loss of what was
  taught, constraints included, permanent. The blacklist is never saved.
* `_autonomous_loop` calls `identity.evolve()` directly, although `AgentMain`'s docstring sends all
  modifications through `modify_guard`; `explore` calls the guard and ignores its answer.
* `evolve` and `self_question` write no entry to the action log that rule 5 promises.

## 7. Not modelled

`PROJECT.json` lists every component with what is left out of it. What is left out altogether:

* constitution and motivation (facades over engines that are not in the repository), LLM access
  (a three-valued field and I/O), SafetyManager and the teachers (a flag, and stubs around
  external models), the causal engine (a re-export), configuration, UI and test scripts, which
  keep no state that matters here;
* choices that are one maximum over external scores (goal generation, Planner, PlannerV2);
* MasterAgent's kernel path, its skills, the LLM fallback and the training of a free loop;
* the packages the code imports and the repository does not contain: external, and modelled by
  what the code in `src/` can tell apart of their answers.
