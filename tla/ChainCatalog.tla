---------------------------- MODULE ChainCatalog ----------------------------
(***************************************************************************)
(* What core/cognition/data_chain_v1.py promises about the golden chains   *)
(* and their catalog: an operation that was not interrupted leaves the     *)
(* catalog listing exactly the readable chains, and an interruption is     *)
(* repaired by the next operation that completes.  Meanwhile the catalog   *)
(* is out of date or too short; it never invents a chain.                  *)
(***************************************************************************)
CONSTANT Chain     \* capsule ids

VARIABLES
  stored,  \* chains whose file can be read
  listed,  \* chains the catalog lists
  dirty    \* an operation is under way or was interrupted

catalogVars == <<stored, listed, dirty>>

CatalogInit == stored = {} /\ listed = {} /\ dirty = FALSE

Change ==
  /\ \/ UNCHANGED stored
     \/ \E c \in Chain : stored' \in {stored \cup {c}, stored \ {c}}
  /\ dirty' = TRUE
  /\ UNCHANGED listed

Shorten ==
  /\ dirty
  /\ listed' \in SUBSET stored
  /\ UNCHANGED <<stored, dirty>>

Refresh ==
  /\ dirty
  /\ listed' = stored
  /\ dirty' = FALSE
  /\ UNCHANGED stored

CatalogNext == Change \/ Shorten \/ Refresh

CatalogSpec == CatalogInit /\ [][CatalogNext]_catalogVars
=============================================================================
