--------------------------- MODULE RuntimeContext ---------------------------
(***************************************************************************)
(* SharedRuntimeContext: the one place that creates the core instances and *)
(* hands them out.  get_runtime_context() checks the global, creates a     *)
(* context, publishes it, and only then fills it layer by layer, all       *)
(* without a lock; reset_runtime_context() takes the global away again.    *)
(*                                                                         *)
(* A layer is what one statement or one numbered group of initialize()     *)
(* creates; most of their classes are external.  Creating a layer may      *)
(* raise, which ends that initialize() and leaves the published context as *)
(* it is.                                                                  *)
(***************************************************************************)
EXTENDS Naturals, Sequences, FiniteSets

CONSTANTS
    Caller,      \* threads that call get_runtime_context
    MaxContexts  \* bound: contexts ever created

ASSUME RuntimeContextAssumption == MaxContexts \in Nat

VARIABLES
    global,      \* _global_context: 0 for None, otherwise a context
    created,     \* how many contexts there are
    layers,      \* [context -> the layers that are not None]
    place,       \* [caller -> where in get_runtime_context it is]
    next,        \* [caller -> position of its initialize() in Order]
    ctxOf,       \* [caller -> the context it fills or was given; 0 for none]
    failed,      \* history: contexts in which an initialize() raised
    dropped      \* history: contexts that stopped being the global half-built

ctxVars == <<global, created, layers, place, next, ctxOf, failed, dropped>>

Context == 1..MaxContexts

\* initialize(), statement by statement; the reward engine is created again
\* once there is a constitution for it.
Order == <<"gene_library", "mutation_budget", "snapshot_manager", "gene_commit_layer",
           "weights_and_drift", "governance_hubs", "goal_generator", "bridge_memory",
           "pattern_registry", "pattern_reward", "pattern_evolution",
           "constitution_runtime", "pattern_reward", "motivation_runtime",
           "personality_kernel", "personality_hook", "identity_core",
           "value_runtime", "identity_distance", "identity_recovery",
           "trajectory_drift", "gene_sandbox", "reward_trace", "unified_reward",
           "memory_runtime", "governor_hook">>

Layers == {Order[i] : i \in DOMAIN Order}

\* What the constructor of a layer is given of the other layers.
Needs(l) ==
    CASE l = "gene_commit_layer" -> {"gene_library", "mutation_budget", "snapshot_manager"}
      [] l = "pattern_evolution" -> {"pattern_registry"}
      [] l = "pattern_reward"    -> {"pattern_registry"}
      [] l = "personality_hook"  -> {"personality_kernel"}
      [] l = "identity_core"     -> {"personality_kernel"}  \* set_identity_vector
      [] l = "value_runtime"     -> {"identity_core"}
      [] l = "identity_recovery" -> {"identity_core", "personality_kernel", "identity_distance"}
      [] l = "unified_reward"    -> {"reward_trace"}
      [] l = "memory_runtime"    -> {"bridge_memory"}
      [] l = "governor_hook"     -> {"identity_core"}
      [] OTHER                   -> {}

CtxTypeOK ==
    /\ global \in 0..created
    /\ created \in 0..MaxContexts
    /\ layers \in [Context -> SUBSET Layers]
    /\ place \in [Caller -> {"idle", "create", "initialize", "filling", "return", "has", "raised"}]
    /\ next \in [Caller -> 1..Len(Order) + 1]
    /\ ctxOf \in [Caller -> 0..MaxContexts]
    /\ failed \subseteq Context
    /\ dropped \subseteq Context

CtxInit ==
    /\ global = 0
    /\ created = 0
    /\ layers = [c \in Context |-> {}]
    /\ place = [p \in Caller |-> "idle"]
    /\ next = [p \in Caller |-> 1]
    /\ ctxOf = [p \in Caller |-> 0]
    /\ failed = {}
    /\ dropped = {}

StageTo(p, where) == place' = [place EXCEPT ![p] = where]

Drop(c) == dropped \union (IF c = 0 \/ layers[c] = Layers THEN {} ELSE {c})

\* if _global_context is None
Look(p) ==
    /\ place[p] = "idle"
    /\ StageTo(p, IF global = 0 THEN "create" ELSE "return")
    /\ UNCHANGED <<global, created, layers, next, ctxOf, failed, dropped>>

\* _global_context = SharedRuntimeContext(): whatever another thread has put
\* there since the check is replaced.
Create(p) ==
    /\ place[p] = "create"
    /\ created < MaxContexts
    /\ created' = created + 1
    /\ global' = created + 1
    /\ dropped' = Drop(global)
    /\ StageTo(p, "initialize")
    /\ UNCHANGED <<layers, next, ctxOf, failed>>

\* _global_context.initialize() reads the global again: it fills the context
\* that is there now, which need not be the one this thread created; after a
\* reset there is none and the call raises.
Initialize(p) ==
    /\ place[p] = "initialize"
    /\ StageTo(p, IF global = 0 THEN "raised" ELSE "filling")
    /\ ctxOf' = [ctxOf EXCEPT ![p] = global]
    /\ next' = [next EXCEPT ![p] = 1]
    /\ UNCHANGED <<global, created, layers, failed, dropped>>

\* Mutant of LayerAt: the layers in the order of their numbers, 14 before 15.
LayerAtByNumber(i) ==
    CASE Order[i] = "identity_distance" -> "identity_recovery"
      [] Order[i] = "identity_recovery" -> "identity_distance"
      [] OTHER -> Order[i]

LayerAt(i) == Order[i]

FillLayer(p) ==
    /\ place[p] = "filling"
    /\ next[p] <= Len(Order)
    /\ layers' = [layers EXCEPT ![ctxOf[p]] = @ \union {LayerAt(next[p])}]
    /\ next' = [next EXCEPT ![p] = @ + 1]
    /\ UNCHANGED <<global, created, place, ctxOf, failed, dropped>>

\* A layer that cannot be imported or created: the exception leaves
\* get_runtime_context, and the context stays published.
LayerRaises(p) ==
    /\ place[p] = "filling"
    /\ next[p] <= Len(Order)
    /\ failed' = failed \union {ctxOf[p]}
    /\ StageTo(p, "raised")
    /\ next' = [next EXCEPT ![p] = 1]
    /\ UNCHANGED <<global, created, layers, ctxOf, dropped>>

\* return _global_context: the global is read once more, and after a reset it
\* is None that is returned.
Return(p) ==
    /\ place[p] = "return" \/ (place[p] = "filling" /\ next[p] > Len(Order))
    /\ StageTo(p, "has")
    /\ ctxOf' = [ctxOf EXCEPT ![p] = global]
    /\ next' = [next EXCEPT ![p] = 1]
    /\ UNCHANGED <<global, created, layers, failed, dropped>>

\* The caller gives up the context, or handles the exception, and may ask again.
AskAgain(p) ==
    /\ place[p] \in {"has", "raised"}
    /\ StageTo(p, "idle")
    /\ ctxOf' = [ctxOf EXCEPT ![p] = 0]
    /\ UNCHANGED <<global, created, layers, next, failed, dropped>>

Reset ==
    /\ global # 0
    /\ global' = 0
    /\ dropped' = Drop(global)
    /\ UNCHANGED <<created, layers, place, next, ctxOf, failed>>

CtxNext ==
    \/ Reset
    \/ \E p \in Caller :
           \/ Look(p)
           \/ Create(p)
           \/ Initialize(p)
           \/ FillLayer(p)
           \/ LayerRaises(p)
           \/ Return(p)
           \/ AskAgain(p)

CtxSpec == CtxInit /\ [][CtxNext]_ctxVars

(***************************************************************************)
(* Whatever threads fill a context together, fail in it or reset it, no    *)
(* layer stands in it before the layers it was built from.                 *)
(***************************************************************************)
DependenciesFirst ==
    \A c \in Context : \A l \in layers[c] : Needs(l) \subseteq layers[c]

(***************************************************************************)
(* A caller that was handed a half-built context, which nothing tells it   *)
(* (is_initialized() is true from the first layer on), has one of three to *)
(* blame: a thread still filling it, an initialize() that raised, or a     *)
(* second creator or a reset that took the global away in between.         *)
(***************************************************************************)
HalfBuiltHasReason ==
    \A p \in Caller :
      LET c == ctxOf[p] IN
      place[p] = "has" /\ c # 0 /\ layers[c] # Layers =>
         \/ c \in failed \union dropped
         \/ \E q \in Caller : place[q] = "filling" /\ ctxOf[q] = c
         \/ \E q \in Caller : place[q] = "initialize" /\ global = c

\* Both: layers in order, and no half-built context handed out without a reason.
ContextsSound == DependenciesFirst /\ HalfBuiltHasReason
=============================================================================
