---------------------------- MODULE Application ----------------------------
(***************************************************************************)
(* AgentApplication (main.py) and the bundle of components it is built on  *)
(* (agent_components.py): two threads.  The main thread assembles the      *)
(* components, starts the loop thread, runs the UI and stops; the loop     *)
(* thread runs _async_main on an event loop of its own and, when that has  *)
(* ended, cancels what is pending and closes the loop.  stop() talks to    *)
(* the loop through run_coroutine_threadsafe.                              *)
(*                                                                         *)
(* Of the components only those that _async_main starts or stop() stops    *)
(* are told apart.  What the UI shows, the callbacks it is given and the   *)
(* data chain printing are left out; what components do while they run is  *)
(* in their own modules.                                                   *)
(***************************************************************************)
EXTENDS Naturals, Sequences

CONSTANT MaxSignals  \* bound: SIGINT or SIGTERM delivered

ASSUME ApplicationAssumption == MaxSignals \in Nat

VARIABLES
    layer,       \* position of create_all in Assembly
    bundle,      \* the components _async_main or stop() would find not None
    switch,      \* bundle.module_switch is not None
    ui,          \* "tkinter", "manager", or "none" before it is created
    main,        \* where the main thread is
    resume,      \* what follows the stop() under way: "exited" or "cleanup"
    running,     \* _running
    thread,      \* where the loop thread is
    boot,        \* position of _async_main in Boot
    started,     \* components that were started and not stopped
    tasks,       \* run loops that are tasks of the event loop
    shutdown,    \* what became of _shutdown_async
    halt,        \* its position in Halt
    memory,      \* the memory manager is "open" or "closed"
    signals      \* signals delivered so far

mainVars == <<layer, bundle, switch, ui, main, resume, running, signals>>
loopVars == <<thread, boot, started, tasks, shutdown, halt>>
appVars == <<mainVars, loopVars, memory>>

\* create_all, layer by layer; the UI is created before the observation hub.
Assembly == <<"runtime_context", "memory_manager", "perception_manager", "safety_manager",
              "agent_manager", "module_hub", "master_agent", "curiosity_system",
              "controller", "llm_client", "safety_os", "golden_chain_manager", "ui",
              "observation_hub">>

Managed == {"master_agent", "perception_manager", "agent_manager", "curiosity_system"}
Boot == <<"perception_manager", "agent_manager", "master_agent", "curiosity_system">>
Halt == <<"master_agent", "perception_manager", "agent_manager", "curiosity_system">>
RunLoops == {"master_agent.run", "autonomous_loop.run"}

AppTypeOK ==
    /\ layer \in 1..Len(Assembly) + 1
    /\ bundle \subseteq Managed
    /\ switch \in BOOLEAN
    /\ ui \in {"none", "tkinter", "manager"}
    /\ main \in {"assembling", "start", "mainloop", "cleanup", "stop", "submit",
                 "waiting", "join", "exited"}
    /\ resume \in {"exited", "cleanup"}
    /\ running \in BOOLEAN
    /\ thread \in {"none", "new", "ready", "main", "ended", "gather", "closed"}
    /\ boot \in 1..Len(Boot) + 2
    /\ started \subseteq bundle
    /\ tasks \subseteq RunLoops
    /\ shutdown \in {"none", "queued", "running", "done", "cancelled", "lost"}
    /\ halt \in 1..Len(Halt) + 1
    /\ memory \in {"open", "closed"}
    /\ signals \in 0..MaxSignals

AppInit ==
    /\ layer = 1
    /\ bundle = {}
    /\ switch = FALSE
    /\ ui = "none"
    /\ main = "assembling"
    /\ resume = "exited"
    /\ running = FALSE
    /\ thread = "none"
    /\ boot = 1
    /\ started = {}
    /\ tasks = {}
    /\ shutdown = "none"
    /\ halt = 1
    /\ memory = "open"
    /\ signals = 0

------------------------------------------------------------------------------
(* The main thread: assembling.                                             *)

\* cognitive_only leaves these two out; each layer asks for itself, and
\* reload_run_mode() may come in between.
MayBeSkipped == {"master_agent", "curiosity_system"}

\* Creating these is tried; a failure is logged and leaves None.
MayBeMissing == {"module_hub", "golden_chain_manager"}

CreateLayer ==
    /\ main = "assembling"
    /\ LET c == Assembly[layer] IN
         /\ bundle' \in {bundle \union ({c} \intersect Managed)} \union
                        (IF c \in MayBeSkipped THEN {bundle} ELSE {})
         /\ IF c = "ui" THEN ui' \in {"tkinter", "manager"} ELSE ui' = ui
    /\ layer' = layer + 1
    /\ main' = IF layer = Len(Assembly) THEN "start" ELSE main
    /\ UNCHANGED <<switch, resume, running, signals, loopVars, memory>>

\* Any other layer that raises ends the program before it has started.
CreateRaises ==
    /\ main = "assembling"
    /\ Assembly[layer] \notin MayBeMissing
    /\ main' = "exited"
    /\ UNCHANGED <<layer, bundle, switch, ui, resume, running, signals, loopVars, memory>>

------------------------------------------------------------------------------
(* The main thread: start(), the UI, and stop().                            *)

\* create_all makes a ModuleSwitch and gives it to the Controller only: the
\* bundle's stays None, nothing in the repository sets it, and _async_main ends
\* at its first statement.  Code that embeds the application may set it.
InstallSwitch ==
    /\ main = "start"
    /\ switch' = TRUE
    /\ UNCHANGED <<layer, bundle, ui, main, resume, running, signals, loopVars, memory>>

\* The windows are there and the loop thread is started.
Start ==
    /\ main = "start"
    /\ running' = TRUE
    /\ thread' = "new"
    /\ main' = "mainloop"
    /\ UNCHANGED <<layer, bundle, switch, ui, resume, signals>>
    /\ UNCHANGED <<boot, started, tasks, shutdown, halt, memory>>

\* A dependency of the panel is missing (return 1), or creating the windows
\* raised and the finally clause cleans up and stops; what the other UI raises
\* leaves start() without a stop().
StartFails ==
    /\ main = "start"
    /\ running' = TRUE
    /\ main' \in IF ui = "tkinter" THEN {"exited", "cleanup"} ELSE {"exited"}
    /\ UNCHANGED <<layer, bundle, switch, ui, resume, signals, loopVars, memory>>

\* The user closes the UI, or it raises.
MainloopEnds ==
    /\ main = "mainloop"
    /\ main' \in IF ui = "tkinter" THEN {"cleanup"} ELSE {"stop", "exited"}
    /\ UNCHANGED <<layer, bundle, switch, ui, resume, running, signals, loopVars, memory>>

\* The handler runs stop() wherever the main thread is, and its sys.exit leaves
\* the interrupted call: out of the mainloop into the finally clause, which
\* cleans up and stops once more; out of a stop() that was waiting, for good.
Signal ==
    /\ main \in {"mainloop", "waiting", "join"}
    /\ signals < MaxSignals
    /\ signals' = signals + 1
    /\ resume' = IF main = "mainloop" /\ ui = "tkinter" THEN "cleanup" ELSE resume
    /\ main' = "stop"
    /\ UNCHANGED <<layer, bundle, switch, ui, running, loopVars, memory>>

\* _cleanup_ui closes the memory manager before anything has been stopped.
CleanupUi ==
    /\ main = "cleanup"
    /\ memory' = "closed"
    /\ resume' = "exited"
    /\ main' = "stop"
    /\ UNCHANGED <<layer, bundle, switch, ui, running, signals, loopVars>>

Stop ==
    /\ main = "stop"
    /\ running' = FALSE
    /\ main' = "submit"
    /\ UNCHANGED <<layer, bundle, switch, ui, resume, signals, loopVars, memory>>

LoopIsRunning == thread \in {"main", "gather"}

\* A second stop() submits a second _shutdown_async; the one that is still
\* under way stops what is left, so the two are not told apart.
Submit ==
    /\ main = "submit"
    /\ main' = IF LoopIsRunning THEN "waiting" ELSE "join"
    /\ shutdown' = IF LoopIsRunning /\ shutdown # "running" THEN "queued" ELSE shutdown
    /\ halt' = IF LoopIsRunning /\ shutdown # "running" THEN 1 ELSE halt
    /\ UNCHANGED <<layer, bundle, switch, ui, resume, running, signals>>
    /\ UNCHANGED <<thread, boot, started, tasks, memory>>

\* Mutant of Waited: future.result() without a timeout.
WaitedUntimed ==
    /\ main = "waiting"
    /\ shutdown \in {"done", "cancelled"}
    /\ main' = "join"
    /\ UNCHANGED <<layer, bundle, switch, ui, resume, running, signals, loopVars, memory>>

\* future.result(timeout=10.0): the shutdown is done or was cancelled, or ten
\* seconds have passed; only a warning tells the difference.
Waited ==
    /\ main = "waiting"
    /\ main' = "join"
    /\ UNCHANGED <<layer, bundle, switch, ui, resume, running, signals, loopVars, memory>>

\* join(timeout=5.0), whether or not the thread has ended.
Joined ==
    /\ main = "join"
    /\ main' = resume
    /\ UNCHANGED <<layer, bundle, switch, ui, resume, running, signals, loopVars, memory>>

------------------------------------------------------------------------------
(* The loop thread.                                                         *)

\* new_event_loop, and then run_until_complete.
LoopThreadStarts ==
    /\ thread \in {"new", "ready"}
    /\ thread' = IF thread = "new" THEN "ready" ELSE "main"
    /\ UNCHANGED <<mainVars, boot, started, tasks, shutdown, halt, memory>>

\* module_switch.enable(...), then await component.start() for those there are.
BootStep ==
    /\ thread = "main"
    /\ switch
    /\ boot <= Len(Boot)
    /\ started' = started \union ({Boot[boot]} \intersect bundle)
    /\ boot' = boot + 1
    /\ UNCHANGED <<mainVars, thread, tasks, shutdown, halt, memory>>

\* create_task, for the master agent's loop and, if enabled, the autonomous one.
BootTasks ==
    /\ thread = "main"
    /\ boot = Len(Boot) + 1
    /\ tasks' \in {t \in SUBSET RunLoops : "master_agent.run" \in t <=> "master_agent" \in bundle}
    /\ boot' = boot + 1
    /\ UNCHANGED <<mainVars, thread, started, shutdown, halt, memory>>

\* A run loop returns or raises by itself.
TaskEnds ==
    /\ thread \in {"main", "gather"}
    /\ \E t \in tasks : tasks' = tasks \ {t}
    /\ UNCHANGED <<mainVars, thread, boot, started, shutdown, halt, memory>>

\* The callback of run_coroutine_threadsafe creates the shutdown task.
ShutdownBegins ==
    /\ LoopIsRunning
    /\ shutdown = "queued"
    /\ shutdown' = "running"
    /\ UNCHANGED <<mainVars, thread, boot, started, tasks, halt, memory>>

\* One component's stop(), which may raise: the next one is stopped all the same.
ShutdownStep ==
    /\ LoopIsRunning
    /\ shutdown = "running"
    /\ halt <= Len(Halt)
    /\ started' \in {started, started \ {Halt[halt]}}
    /\ halt' = halt + 1
    /\ UNCHANGED <<mainVars, thread, boot, tasks, shutdown, memory>>

ShutdownEnds ==
    /\ LoopIsRunning
    /\ shutdown = "running"
    /\ halt = Len(Halt) + 1
    /\ memory' = "closed"
    /\ shutdown' = "done"
    /\ UNCHANGED <<mainVars, thread, boot, started, tasks, halt>>

\* _async_main returns when the loop sees _running false, at most a second
\* after stop() (or never, while the safety manager has it wait), or raises, at
\* once when there is no module switch.
AsyncMainEnds ==
    /\ thread = "main"
    /\ boot = Len(Boot) + 2 => ~running
    /\ thread' = "ended"
    /\ UNCHANGED <<mainVars, boot, started, tasks, shutdown, halt, memory>>

\* Everything that is a task is cancelled and, if there is something, run to
\* its end; a shutdown that is still only a callback is no task yet.
CancelPending ==
    /\ thread = "ended"
    /\ thread' = IF tasks = {} /\ shutdown # "running" THEN "closed" ELSE "gather"
    /\ tasks' = {}
    /\ shutdown' = CASE shutdown = "running" -> "cancelled"
                     [] shutdown = "queued" /\ tasks = {} -> "lost"
                     [] OTHER -> shutdown
    /\ UNCHANGED <<mainVars, boot, started, halt, memory>>

\* A shutdown that began, or was submitted, too late ends with the loop.
LoopCloses ==
    /\ thread = "gather"
    /\ thread' = "closed"
    /\ shutdown' = IF shutdown \in {"queued", "running"} THEN "lost" ELSE shutdown
    /\ UNCHANGED <<mainVars, boot, started, tasks, halt, memory>>

AppMain ==
    \/ CreateLayer \/ CreateRaises \/ InstallSwitch \/ Start \/ StartFails
    \/ MainloopEnds \/ Signal \/ CleanupUi \/ Stop \/ Submit \/ Waited \/ Joined

AppLoop ==
    \/ LoopThreadStarts \/ BootStep \/ BootTasks \/ TaskEnds
    \/ ShutdownBegins \/ ShutdownStep \/ ShutdownEnds
    \/ AsyncMainEnds \/ CancelPending \/ LoopCloses

AppNext == AppMain \/ AppLoop

\* The main thread goes on once it stops: its waits have timeouts.  Nothing is
\* assumed of the loop thread.
AppStopping == CleanupUi \/ Stop \/ Submit \/ Waited \/ Joined

AppSpec == AppInit /\ [][AppNext]_appVars /\ WF_appVars(AppStopping)

(***************************************************************************)
(* Whatever the loop thread is doing (starting, hanging in a component's   *)
(* stop(), cancelling the shutdown it was just given, or closed with the   *)
(* shutdown still queued) and whenever a signal arrives, the program that  *)
(* has begun to stop ends.                                                 *)
(***************************************************************************)
StopReturns == (main \in {"cleanup", "stop"}) ~> (main = "exited")
=============================================================================
