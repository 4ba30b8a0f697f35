---------------------------- MODULE MemoryKernel ----------------------------
(***************************************************************************)
(* MemoryKernel (core/memory/memory_kernel.py) and MemoryRouter            *)
(* (memory_router.py): four layers, the routing of a new item to one of    *)
(* them, its promotion to a higher one, and decay.  One thread.            *)
(*                                                                         *)
(* The real layers (core.memory.layers) are not in the repository: they    *)
(* are external, take and give back items by id, forget only when they     *)
(* decay, and may raise; remove is optional.  A layer that cannot be       *)
(* imported is replaced by _FallbackLayer, which has neither get nor       *)
(* remove, never raises and never forgets.                                 *)
(*                                                                         *)
(* Abstractions: an item is its id; importance is in percent; statistics,  *)
(* timestamps and the marks that writing, reading and promoting leave in   *)
(* an item are left out: nothing reads them.                               *)
(***************************************************************************)
EXTENDS Naturals, FiniteSets

CONSTANTS
  Item,        \* memory items
  EventType,   \* values of an item's "type" that are enumerated
  Importance   \* values of its "importance", in percent

Layer == {"working", "episodic", "semantic", "self"}

VARIABLES
  booted,   \* the layers have been chosen
  real,     \* layers that could be imported
  custom,   \* custom_routes, a set of <<type, layer>> that is a function
  holds,    \* [Layer -> items in the layer]
  decayed,  \* history: items that decay removed from a layer in the last step
  onItself  \* history: items promoted in the last step to the layer they were in

memVars == <<booted, real, custom, holds, decayed, onItself>>

MemInit ==
  /\ booted = FALSE
  /\ real = {} /\ custom = {} /\ decayed = {} /\ onItself = {}
  /\ holds = [l \in Layer |-> {}]

\* Each layer is imported or replaced on its own.
InitLayers ==
  /\ ~booted
  /\ booted' = TRUE
  /\ real' \in SUBSET Layer
  /\ decayed' = {} /\ onItself' = {}
  /\ UNCHANGED <<custom, holds>>

RouteMap ==
  [raw_trace |-> "working", short_term |-> "episodic", pattern |-> "semantic",
   identity |-> "self", working |-> "working", episodic |-> "episodic",
   semantic |-> "semantic", self |-> "self"]

RouteByImportance(n) ==
  IF n >= 85 THEN "self" ELSE IF n >= 60 THEN "semantic" ELSE "episodic"

Route(type, n) ==
  IF \E r \in custom : r[1] = type
    THEN (CHOOSE r \in custom : r[1] = type)[2]
    ELSE IF type \in DOMAIN RouteMap THEN RouteMap[type] ELSE RouteByImportance(n)

\* A layer the router does not know is refused.  The router may be older than the kernel.
RegisterRoute(type, layer) ==
  /\ layer \in Layer
  /\ custom' = {r \in custom : r[1] # type} \cup {<<type, layer>>}
  /\ decayed' = {} /\ onItself' = {}
  /\ UNCHANGED <<booted, real, holds>>

\* write, of a new item or one that some layer already has: the layer stores it, or raises.
MemWrite(i, type, n) ==
  LET l == Route(type, n) IN
  /\ booted
  /\ \/ holds' = [holds EXCEPT ![l] = @ \cup {i}]
     \/ l \in real /\ UNCHANGED holds
  /\ decayed' = {} /\ onItself' = {}
  /\ UNCHANGED <<booted, real, custom>>

\* Mutant of Promote: the item is taken out of its layer before the other one stores it.
PromoteMoves(i, from, to) ==
  /\ from \in real
  /\ i \in holds[from]
  /\ \/ holds' = [holds EXCEPT ![from] = @ \ {i}]
     \/ holds' = [[holds EXCEPT ![from] = @ \ {i}] EXCEPT ![to] = @ \cup {i}]
  /\ decayed' = {} /\ onItself' = (IF from = to THEN {i} ELSE {})
  /\ UNCHANGED <<booted, real, custom>>

\* promote.  A source without get gives no item and nothing happens.  Otherwise the item is
\* stored in the other layer, or that raises and nothing happens; and then it is removed from
\* its own, or that raises or cannot be done and it stays.  Nothing asks whether the two
\* layers are one: then the item is stored again and removed.
Promote(i, from, to) ==
  /\ from \in real
  /\ i \in holds[from]
  /\ LET stored == [holds EXCEPT ![to] = @ \cup {i}]
     IN  \/ holds' = [stored EXCEPT ![from] = @ \ {i}]
         \/ holds' = stored
         \/ to \in real /\ UNCHANGED holds
  /\ decayed' = {} /\ onItself' = (IF from = to THEN {i} ELSE {})
  /\ UNCHANGED <<booted, real, custom>>

\* decay_all: what a real layer forgets is its own affair.
DecayAll ==
  /\ booted
  /\ \E gone \in [Layer -> SUBSET Item] :
       /\ \A l \in Layer : gone[l] \subseteq IF l \in real THEN holds[l] ELSE {}
       /\ holds' = [l \in Layer |-> holds[l] \ gone[l]]
       /\ decayed' = UNION {gone[l] : l \in Layer}
  /\ onItself' = {}
  /\ UNCHANGED <<booted, real, custom>>

MemNext ==
  \/ InitLayers \/ DecayAll
  \/ \E type \in EventType, layer \in Layer : RegisterRoute(type, layer)
  \/ \E i \in Item, type \in EventType, n \in Importance : MemWrite(i, type, n)
  \/ \E i \in Item, from \in Layer, to \in Layer : Promote(i, from, to)

MemSpec == MemInit /\ [][MemNext]_memVars

MemTypeOK ==
  /\ booted \in BOOLEAN
  /\ real \subseteq Layer
  /\ custom \subseteq EventType \X Layer
  /\ holds \in [Layer -> SUBSET Item]
  /\ decayed \subseteq Item /\ onItself \subseteq Item

\* An item that some layer has is in some layer after any step, whatever is written, promoted
\* or raises in between and however many layers have it: only decay loses an item, or a
\* promotion that names the layer the item is in as the one it goes to.
PromotionIsSafe ==
  [][ \A i \in Item :
        (\E l \in Layer : i \in holds[l]) =>
          (\E l \in Layer : i \in holds'[l]) \/ i \in decayed' \cup onItself' ]_memVars
=============================================================================
