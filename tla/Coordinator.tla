---------------------------- MODULE Coordinator ----------------------------
(***************************************************************************)
(* GlobalRegistry (core/runtime/global_registry.py), Wiring                *)
(* (core/bootstrap/wiring.py) and UnifiedCoordinator with its engine and   *)
(* router (core/runtime/unified_coordinator.py, execution_engine.py,       *)
(* action_router.py).                                                      *)
(*                                                                         *)
(* Threads handle tasks and wire components while others register, replace *)
(* and remove modules.  Every registry operation is one step under the     *)
(* registry's lock; the exception is get() of a module that only has a     *)
(* factory, which runs the factory with the lock held.  The lock is an     *)
(* RLock: while a factory runs, its own thread may use the registry, for   *)
(* the same name too, and so start other factories inside the first.       *)
(* handle() looks up the kernel and then the controller, two operations    *)
(* with anything in between.                                               *)
(*                                                                         *)
(* Abstractions: modules are numbered in the order of their creation; what *)
(* a kernel, controller or coordinator answers is external and is either a *)
(* decision to execute something or another answer; metadata, the events   *)
(* emitted after handling, the timing and what handle() gives back to its  *)
(* caller are left out.  So is reset(), which drops the singleton: nothing *)
(* calls it, and whoever holds the old instance keeps it.                  *)
(***************************************************************************)
EXTENDS Naturals, Sequences, FiniteSets

CONSTANTS
  Thread,       \* threads that handle tasks
  OtherName,    \* names of modules besides the kernel and the controller
  MaxModules,   \* bound: how many modules are ever created
  MaxNested     \* bound: factories that run inside one another

ASSUME CoordinatorAssumption ==
  /\ OtherName \subseteq STRING
  /\ MaxModules \in Nat
  /\ MaxNested \in Nat

Name == {"kernel_boot", "controller"} \cup OtherName

VARIABLES
  modules,   \* [Name -> Nat]: _modules, 0 = not there
  factories, \* names in _factories
  createdM,  \* number of modules created so far
  making,    \* [Thread -> Seq(Name)]: the factories it is in, the innermost last
  at,        \* [Thread -> where the thread is]
  want,      \* [Thread -> the name it is getting, "" outside get]
  wired,     \* the controller wire_agent gave to the MasterAgent, 0 = none
  given,     \* history: [Name -> modules handed out since it was last registered or removed]
  reentered  \* history: names that their own running factory got or registered

regVars == <<modules, factories, createdM, given, reentered>>
handleVars == <<at, want, wired>>
coordVars == <<modules, factories, createdM, making, at, want, wired, given,
               reentered>>

TaskKind == {"decision", "controller", "plain"}

CoordInit ==
  /\ modules = [n \in Name |-> 0]
  /\ factories = {}
  /\ createdM = 0 /\ wired = 0
  /\ making = [p \in Thread |-> <<>>]
  /\ at = [p \in Thread |-> "idle"]
  /\ want = [p \in Thread |-> ""]
  /\ given = [n \in Name |-> {}]
  /\ reentered = {}

\* The lock is free or p's own: no other thread is inside a factory.
MayEnter(p) == \A q \in Thread \ {p} : making[q] = <<>>

Frames(p) == {making[p][i] : i \in 1..Len(making[p])}
BeingMade == UNION {Frames(p) : p \in Thread}

-----------------------------------------------------------------------------
(* GlobalRegistry: changes by anybody, or by the factory that runs *)

\* register, also by wire_controller: a module made elsewhere replaces any other.
Register(n) ==
  /\ createdM < MaxModules
  /\ createdM' = createdM + 1
  /\ modules' = [modules EXCEPT ![n] = createdM + 1]
  /\ given' = [given EXCEPT ![n] = {}]
  /\ reentered' = IF n \in BeingMade THEN reentered \cup {n} ELSE reentered \ {n}
  /\ UNCHANGED <<factories, making, handleVars>>

RegisterFactory(n) ==
  /\ factories' = factories \cup {n}
  /\ UNCHANGED <<modules, createdM, given, reentered, making, handleVars>>

Unregister(n) ==
  /\ modules' = [modules EXCEPT ![n] = 0]
  /\ factories' = factories \ {n}
  /\ given' = [given EXCEPT ![n] = {}]
  /\ reentered' = reentered \ ({n} \ BeingMade)
  /\ UNCHANGED <<createdM, making, handleVars>>

-----------------------------------------------------------------------------
(* GlobalRegistry.get *)

\* A running factory may ask for anything, a thread outside for what it looks up.
Asks(p, n) ==
  /\ n \in Name
  /\ making[p] = <<>> => at[p] \in {"getting", "wiring"} /\ want[p] = n

\* What a thread does with the module it got.  handle() asks it, or goes on from a kernel
\* that cannot route to the controller.  wire_agent passes the controller on, so that
\* replacing it later changes nothing there.
Proceed(p, m) ==
  \/ /\ at[p] = "getting"
     /\ at' = [at EXCEPT ![p] = "asking"]
     /\ UNCHANGED <<want, wired>>
  \/ /\ at[p] = "getting" /\ want[p] = "kernel_boot"
     /\ want' = [want EXCEPT ![p] = "controller"]
     /\ UNCHANGED <<at, wired>>
  \/ /\ at[p] = "wiring"
     /\ at' = [at EXCEPT ![p] = "idle"]
     /\ want' = [want EXCEPT ![p] = ""]
     /\ wired' = IF want[p] = "controller" THEN m ELSE wired

\* An exception leaves handle(); a wiring catches it.
GetRaises(p) ==
  /\ at' = [at EXCEPT ![p] = "idle"]
  /\ want' = [want EXCEPT ![p] = ""]
  /\ UNCHANGED wired

GetFound(p, n) ==
  /\ MayEnter(p) /\ Asks(p, n)
  /\ modules[n] # 0
  /\ given' = [given EXCEPT ![n] = @ \cup {modules[n]}]
  /\ IF making[p] = <<>> THEN Proceed(p, modules[n]) ELSE UNCHANGED handleVars
  /\ UNCHANGED <<modules, factories, createdM, making, reentered>>

\* Mutant of GetMake: the factory is looked up and called without the lock.
GetMakeUnlocked(p, n) ==
  /\ Asks(p, n)
  /\ modules[n] = 0 /\ n \in factories
  /\ Len(making[p]) < MaxNested
  /\ making' = [making EXCEPT ![p] = Append(@, n)]
  /\ reentered' = reentered \cup ({n} \cap Frames(p))
  /\ UNCHANGED <<modules, factories, createdM, given, handleVars>>

GetMake(p, n) ==
  /\ MayEnter(p) /\ Asks(p, n)
  /\ modules[n] = 0 /\ n \in factories
  /\ Len(making[p]) < MaxNested
  /\ making' = [making EXCEPT ![p] = Append(@, n)]
  /\ reentered' = reentered \cup ({n} \cap Frames(p))
  /\ UNCHANGED <<modules, factories, createdM, given, handleVars>>

Innermost(p) == making[p][Len(making[p])]

Pop(p) == making' = [making EXCEPT ![p] = SubSeq(@, 1, Len(@) - 1)]

\* The module is entered whatever happened meanwhile, and then the factory is deleted: if
\* it is gone, by a factory inside this one or by an unregister(), the KeyError leaves get().
FactoryReturns(p) ==
  /\ making[p] # <<>>
  /\ createdM < MaxModules
  /\ Pop(p)
  /\ createdM' = createdM + 1
  /\ LET n == Innermost(p)
     IN  /\ modules' = [modules EXCEPT ![n] = createdM + 1]
         /\ factories' = factories \ {n}
         /\ given' = IF n \in factories THEN [given EXCEPT ![n] = @ \cup {createdM + 1}]
                                        ELSE given
         /\ IF Len(making[p]) > 1 THEN UNCHANGED handleVars
            ELSE IF n \in factories THEN Proceed(p, createdM + 1) ELSE GetRaises(p)
  /\ UNCHANGED reentered

\* The factory stays registered.  A factory around this one may catch the exception.
FactoryRaises(p) ==
  /\ making[p] # <<>>
  /\ Pop(p)
  /\ IF Len(making[p]) > 1 THEN UNCHANGED handleVars ELSE GetRaises(p)
  /\ UNCHANGED regVars

\* Nothing there: after the kernel the controller is tried; without one a task
\* for it is answered by {} and a plain task by the fallback.
GetNothing(p) ==
  /\ making[p] = <<>> /\ MayEnter(p)
  /\ at[p] \in {"getting", "wiring"}
  /\ modules[want[p]] = 0 /\ want[p] \notin factories
  /\ IF at[p] = "getting" /\ want[p] = "kernel_boot"
       THEN /\ want' = [want EXCEPT ![p] = "controller"]
            /\ UNCHANGED at
       ELSE /\ want' = [want EXCEPT ![p] = ""]
            /\ at' = [at EXCEPT ![p] = "idle"]
  /\ UNCHANGED <<regVars, making, wired>>

-----------------------------------------------------------------------------
(* Wiring, and UnifiedCoordinator.handle *)

\* wire_agent looks up the controller, the other wirings other names.
Wire(p, n) ==
  /\ at[p] = "idle"
  /\ at' = [at EXCEPT ![p] = "wiring"]
  /\ want' = [want EXCEPT ![p] = n]
  /\ UNCHANGED <<regVars, making, wired>>

\* A decision is executed at once; a task for the controller starts with the
\* kernel; any other goes to its registered coordinator or to the fallback,
\* which looks up the controller.
Handle(p, k) ==
  /\ at[p] = "idle"
  /\ \/ /\ k = "decision"
        /\ at' = [at EXCEPT ![p] = "executing"]
        /\ UNCHANGED want
     \/ /\ k = "controller"
        /\ at' = [at EXCEPT ![p] = "getting"]
        /\ want' = [want EXCEPT ![p] = "kernel_boot"]
     \/ /\ k = "plain"
        /\ at' = [at EXCEPT ![p] = "asking"]
        /\ UNCHANGED want
     \/ /\ k = "plain"
        /\ at' = [at EXCEPT ![p] = "getting"]
        /\ want' = [want EXCEPT ![p] = "controller"]
  /\ UNCHANGED <<regVars, making, wired>>

\* Whoever was asked answers with a decision to execute, with anything else, or raises.
Answer(p) ==
  /\ at[p] = "asking"
  /\ want' = [want EXCEPT ![p] = ""]
  /\ \E place \in {"executing", "idle"} : at' = [at EXCEPT ![p] = place]
  /\ UNCHANGED <<regVars, making, wired>>

\* ExecutionEngine and ActionRouter act on the task inside the decision, by its
\* target and action, and always return a status.
Execute(p) ==
  /\ at[p] = "executing"
  /\ at' = [at EXCEPT ![p] = "idle"]
  /\ UNCHANGED <<regVars, making, want, wired>>

CoordNext ==
  \/ \E n \in Name : Register(n) \/ RegisterFactory(n) \/ Unregister(n)
  \/ \E p \in Thread :
       \/ FactoryReturns(p) \/ FactoryRaises(p) \/ GetNothing(p) \/ Answer(p) \/ Execute(p)
       \/ \E n \in Name : GetFound(p, n) \/ GetMake(p, n)
       \/ \E n \in Name \ {"kernel_boot"} : Wire(p, n)
       \/ \E k \in TaskKind : Handle(p, k)

CoordSpec == CoordInit /\ [][CoordNext]_coordVars

CoordTypeOK ==
  /\ modules \in [Name -> 0..MaxModules] /\ createdM \in 0..MaxModules
  /\ factories \subseteq Name /\ reentered \subseteq Name
  /\ making \in [Thread -> Seq(Name)]
  /\ at \in [Thread -> {"idle", "getting", "wiring", "asking", "executing"}]
  /\ want \in [Thread -> Name \cup {""}]
  /\ wired \in 0..MaxModules
  /\ given \in [Name -> SUBSET (1..MaxModules)]

\* Between two registrations of a name everybody who asks for it gets the same module,
\* however many threads find the factory first and whatever factories do inside one another.
\* The one way to two modules is a factory that, while it runs, gets or registers the very
\* name it is making; no other thread can bring it about.
OneModulePerName ==
  \A n \in Name : Cardinality(given[n]) > 1 => n \in reentered
=============================================================================
