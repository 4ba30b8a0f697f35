------------------------------ MODULE EventBus ------------------------------
(***************************************************************************)
(* core/runtime/event_bus.py.  Subscribing, unsubscribing and the first    *)
(* half of emit (append to the history, copy the handlers) hold the lock   *)
(* and are one step each; the copied handlers are called outside the lock, *)
(* from any number of threads, and a handler may emit again.  An emission  *)
(* is therefore a process of its own: it takes its copy in one step and    *)
(* calls one handler after the other.                                      *)
(*                                                                         *)
(* A subscription is what one call of on() or once() entered; once() wraps *)
(* its handler, and the wrapper unsubscribes itself before it calls the    *)
(* handler, two steps with others in between.  Exceptions of handlers are  *)
(* logged and change nothing.  The order of the handlers is left out.      *)
(***************************************************************************)
EXTENDS Naturals, FiniteSets

CONSTANTS
  Sub,         \* subscriptions, each made once
  OnceSub,     \* those made by once()
  Wildcard,    \* those made for "*"
  Emission,    \* calls of emit
  MaxHistory   \* _max_history

ASSUME EventBusAssumption ==
  /\ OnceSub \subseteq Sub /\ Wildcard \subseteq Sub
  /\ MaxHistory \in Nat \ {0}

VARIABLES
  subs,        \* _subscribers
  made,        \* subscriptions that were ever entered
  history,     \* len(_history)
  phase,       \* [Emission -> "new", "calling" or "done"]
  todo,        \* [Emission -> handlers copied and not yet called]
  inside,      \* [Emission -> wrapper that has unsubscribed and not yet called on]
  begun,       \* history: once-subscriptions whose handler was called
  spent,       \* history: [Emission -> begun when the copy was taken]
  called       \* history: [Emission -> handlers it called]

busVars == <<subs, made, history, phase, todo, inside, begun, spent, called>>

BusInit ==
  /\ subs = {} /\ made = {} /\ begun = {}
  /\ history = 0
  /\ phase = [m \in Emission |-> "new"]
  /\ todo = [m \in Emission |-> {}]
  /\ inside = [m \in Emission |-> {}]
  /\ spent = [m \in Emission |-> {}]
  /\ called = [m \in Emission |-> {}]

On(s) ==
  /\ s \notin made
  /\ made' = made \cup {s}
  /\ subs' = subs \cup {s}
  /\ UNCHANGED <<history, phase, todo, inside, begun, spent, called>>

\* off(type, handler): a wrapper is not equal to the handler it wraps, so
\* what once() entered cannot be taken back this way.
Off(s) ==
  /\ s \in subs \ OnceSub
  /\ subs' = subs \ {s}
  /\ UNCHANGED <<made, history, phase, todo, inside, begun, spent, called>>

\* off(type) without a handler.
OffAll(star) ==
  /\ subs' = IF star THEN subs \ Wildcard ELSE subs \cap Wildcard
  /\ UNCHANGED <<made, history, phase, todo, inside, begun, spent, called>>

Clear ==
  /\ subs' = {}
  /\ history' = 0
  /\ UNCHANGED <<made, phase, todo, inside, begun, spent, called>>

Emit(m) ==
  /\ phase[m] = "new"
  /\ phase' = [phase EXCEPT ![m] = "calling"]
  /\ todo' = [todo EXCEPT ![m] = subs]
  /\ history' = IF history + 1 > MaxHistory THEN MaxHistory ELSE history + 1
  /\ spent' = [spent EXCEPT ![m] = begun]
  /\ UNCHANGED <<subs, made, inside, begun, called>>

CallHandler(m) ==
  /\ inside[m] = {}
  /\ \E s \in todo[m] \ OnceSub :
       /\ todo' = [todo EXCEPT ![m] = @ \ {s}]
       /\ called' = [called EXCEPT ![m] = @ \cup {s}]
  /\ UNCHANGED <<subs, made, history, phase, inside, begun, spent>>

\* Mutant of Unwrap: the wrapper does not unsubscribe itself.
UnwrapKeeps(m) ==
  /\ inside[m] = {}
  /\ \E s \in todo[m] \cap OnceSub :
       /\ todo' = [todo EXCEPT ![m] = @ \ {s}]
       /\ inside' = [inside EXCEPT ![m] = {s}]
  /\ UNCHANGED <<subs, made, history, phase, begun, spent, called>>

\* wrapper: self.off(event_type, wrapper) ...
Unwrap(m) ==
  /\ inside[m] = {}
  /\ \E s \in todo[m] \cap OnceSub :
       /\ todo' = [todo EXCEPT ![m] = @ \ {s}]
       /\ inside' = [inside EXCEPT ![m] = {s}]
       /\ subs' = subs \ {s}
  /\ UNCHANGED <<made, history, phase, begun, spent, called>>

\* ... handler(event).
CallOnce(m) ==
  /\ inside[m] # {}
  /\ inside' = [inside EXCEPT ![m] = {}]
  /\ called' = [called EXCEPT ![m] = @ \cup inside[m]]
  /\ begun' = begun \cup inside[m]
  /\ UNCHANGED <<subs, made, history, phase, todo, spent>>

EmitEnds(m) ==
  /\ phase[m] = "calling" /\ todo[m] = {} /\ inside[m] = {}
  /\ phase' = [phase EXCEPT ![m] = "done"]
  /\ UNCHANGED <<subs, made, history, todo, inside, begun, spent, called>>

BusNext ==
  \/ Clear
  \/ \E s \in Sub : On(s) \/ Off(s)
  \/ \E star \in BOOLEAN : OffAll(star)
  \/ \E m \in Emission : Emit(m) \/ CallHandler(m) \/ Unwrap(m) \/ CallOnce(m) \/ EmitEnds(m)

BusSpec == BusInit /\ [][BusNext]_busVars

BusTypeOK ==
  /\ subs \subseteq made /\ made \subseteq Sub /\ begun \subseteq OnceSub
  /\ history \in 0..MaxHistory
  /\ phase \in [Emission -> {"new", "calling", "done"}]
  /\ \A f \in {todo, inside, spent, called} : f \in [Emission -> SUBSET Sub]

\* A handler of once() may be called by several emissions that were under way
\* together, but never by one that began after a call of it had begun: not by
\* another thread's later event, nor by one the handler itself emits.
OnceIsOver == \A m \in Emission : called[m] \cap spent[m] = {}
=============================================================================
