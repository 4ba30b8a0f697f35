------------------------------ MODULE SubAgent ------------------------------
(***************************************************************************)
(* SubAgent and SubAgentPool: workers that run a task either through the   *)
(* DAG executor, on the calling thread, or as a capsule they await.  Each  *)
(* agent is driven by one thread: while it executes a DAG it does nothing  *)
(* else, while it awaits a capsule it can take further tasks.              *)
(*                                                                         *)
(* The task context manager and the raw event store are shared by the      *)
(* agents and keyed by task; a task is given to one agent at a time.  A    *)
(* call the guard blocks raises before anything has changed, so it is no   *)
(* step; params and results are not told apart, so neither is sanitising.  *)
(***************************************************************************)
EXTENDS Naturals, FiniteSets

CONSTANTS
    Agent,      \* the sub-agents
    SubTask,    \* the tasks handed to them
    NoTask,     \* "executes no DAG"
    MaxLeaks    \* bound: DAGs that fail per agent

ASSUME SubAgentAssumption == NoTask \notin SubTask /\ MaxLeaks \in Nat

VARIABLES
    members,    \* SubAgentPool.agents, as a set
    load,       \* SubAgent.load
    dag,        \* the task whose DAG the agent's thread is executing, or NoTask
    capsules,   \* the tasks whose capsule the agent awaits
    contexts,   \* the tasks the context manager holds a context for
    recorded,   \* the tasks with an event in raw_event_store
    leaks       \* history: executions of the DAG executor that raised

subVars == <<members, load, dag, capsules, contexts, recorded, leaks>>

SubTypeOK ==
    /\ members \subseteq Agent
    /\ load \in [Agent -> Nat]
    /\ dag \in [Agent -> SubTask \union {NoTask}]
    /\ capsules \in [Agent -> SUBSET SubTask]
    /\ contexts \subseteq SubTask
    /\ recorded \subseteq SubTask
    /\ leaks \in [Agent -> 0..MaxLeaks]

SubInit ==
    /\ members = {}
    /\ load = [a \in Agent |-> 0]
    /\ dag = [a \in Agent |-> NoTask]
    /\ capsules = [a \in Agent |-> {}]
    /\ contexts = {}
    /\ recorded = {}
    /\ leaks = [a \in Agent |-> 0]

InProgress == (UNION {capsules[a] : a \in Agent}) \union ({dag[a] : a \in Agent} \ {NoTask})

\* get_available: `available` is set once and never cleared, so it is every
\* member; get_least_loaded takes a smallest of them.
LeastLoaded(a) == a \in members /\ \A b \in members : load[a] <= load[b]

\* The pool's own operations: a member may leave while it is still at work.
AddAgent(a) ==
    /\ members' = members \union {a}
    /\ UNCHANGED <<load, dag, capsules, contexts, recorded, leaks>>

RemoveAgent(a) ==
    /\ members' = members \ {a}
    /\ UNCHANGED <<load, dag, capsules, contexts, recorded, leaks>>

\* A task is taken by the least loaded agent whose thread is free; the guard
\* has let it pass.  Its context exists from here on.
Takes(a, t) ==
    /\ LeastLoaded(a)
    /\ dag[a] = NoTask
    /\ t \notin InProgress
    /\ contexts' = contexts \union {t}

StartDag(a, t) ==
    /\ Takes(a, t)
    /\ leaks[a] < MaxLeaks
    /\ load' = [load EXCEPT ![a] = @ + 1]
    /\ dag' = [dag EXCEPT ![a] = t]
    /\ UNCHANGED <<members, capsules, recorded, leaks>>

StartCapsule(a, t) ==
    /\ Takes(a, t)
    /\ capsules' = [capsules EXCEPT ![a] = @ \union {t}]
    /\ UNCHANGED <<members, load, dag, recorded, leaks>>

\* Mutant of ClearContext: the context is cleared after the call, not in a finally: not when it raised.
ClearContextLater(t) == contexts' \in {contexts, contexts \ {t}}

\* The finally clause of act() and execute().
ClearContext(t) == contexts' = contexts \ {t}

\* The executor returned: the load is taken back and the event recorded.
DagReturns(a) ==
    /\ dag[a] # NoTask
    /\ load' = [load EXCEPT ![a] = IF @ > 0 THEN @ - 1 ELSE 0]
    /\ recorded' = recorded \union {dag[a]}
    /\ ClearContext(dag[a])
    /\ dag' = [dag EXCEPT ![a] = NoTask]
    /\ UNCHANGED <<members, capsules, leaks>>

\* The executor raised: nothing takes the load back.
DagRaises(a) ==
    /\ dag[a] # NoTask
    /\ leaks' = [leaks EXCEPT ![a] = @ + 1]
    /\ ClearContext(dag[a])
    /\ dag' = [dag EXCEPT ![a] = NoTask]
    /\ UNCHANGED <<members, load, capsules, recorded>>

\* The capsule came back (or there was no capsule manager), and is recorded;
\* or it raised, or the coroutine was cancelled, and is not.
CapsuleEnds(a, t) ==
    /\ dag[a] = NoTask
    /\ t \in capsules[a]
    /\ recorded' \in {recorded, recorded \union {t}}
    /\ ClearContext(t)
    /\ capsules' = [capsules EXCEPT ![a] = @ \ {t}]
    /\ UNCHANGED <<members, load, dag, leaks>>

SubNext ==
    \E a \in Agent :
        \/ AddAgent(a)
        \/ RemoveAgent(a)
        \/ DagReturns(a)
        \/ DagRaises(a)
        \/ \E t \in SubTask : StartDag(a, t) \/ StartCapsule(a, t) \/ CapsuleEnds(a, t)

SubSpec == SubInit /\ [][SubNext]_subVars

(***************************************************************************)
(* Whatever raises, a context exists exactly while its task is in progress;*)
(* and load counts, besides the DAG being executed, every DAG that ever    *)
(* failed: an agent that met failures looks busy to get_least_loaded for   *)
(* good, because only a normal return takes the load back.                 *)
(***************************************************************************)
AgentAccounts ==
    /\ contexts = InProgress
    /\ \A a \in Agent :
         load[a] = leaks[a] + (IF dag[a] = NoTask THEN 0 ELSE 1)
=============================================================================
