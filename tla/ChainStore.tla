----------------------------- MODULE ChainStore -----------------------------
(***************************************************************************)
(* core/cognition/data_chain_v1.py: one JSON file per golden chain and a   *)
(* JSONL index that every operation rewrites from the files it finds.      *)
(* Path.write_text opens the file empty and then fills it; both files are  *)
(* rewritten in place, so a write that is cut short (the process ends, the *)
(* disk is full) leaves a file that does not parse, or, cut inside a       *)
(* multibyte character, cannot even be decoded, or an index that lacks its *)
(* last lines.  There is one writer.                                       *)
(*                                                                         *)
(* Abstractions: a chain is its capsule id; the sections of a chain, its   *)
(* hash and the fields of an index line are left out; the order of the     *)
(* index is left out, so the lines an interrupted write keeps are any of   *)
(* them.                                                                   *)
(***************************************************************************)
CONSTANT Chain     \* capsule ids

VARIABLES
  files,        \* [Chain -> FileState]: golden_<id>.json
  index,        \* chains the index lists
  seen,         \* the records rebuild_safety_audit_index collected
  stage,        \* where the operation is
  saving,       \* the chain whose file is open, as a set of at most one
  interrupted   \* history: the last operation did not end

chainVars == <<files, index, seen, stage, saving, interrupted>>

FileState == {"none", "torn", "undecodable", "whole"}
ChainStage == {"idle", "writing", "unlisted", "listing"}

ChainInit ==
  /\ files = [c \in Chain |-> "none"]
  /\ index = {} /\ seen = {} /\ saving = {}
  /\ stage = "idle"
  /\ interrupted = FALSE

Readable == {c \in Chain : files[c] = "whole"}

\* Mutant of SaveChain: the index is rebuilt first, with the new chain's record.
SaveChainLate(c) ==
  /\ stage = "idle"
  /\ files' = [files EXCEPT ![c] = "torn"]
  /\ saving' = {c}
  /\ seen' = Readable \cup {c}
  /\ stage' = "listing"
  /\ index' = {}
  /\ UNCHANGED interrupted

\* A chain may be saved again, over its old file.
SaveChain(c) ==
  /\ stage = "idle"
  /\ files' = [files EXCEPT ![c] = "torn"]
  /\ saving' = {c}
  /\ stage' = "writing"
  /\ UNCHANGED <<index, seen, interrupted>>

ChainWritten ==
  /\ stage = "writing"
  /\ files' = [c \in Chain |-> IF c \in saving THEN "whole" ELSE files[c]]
  /\ saving' = {}
  /\ stage' = "unlisted"
  /\ UNCHANGED <<index, seen, interrupted>>

\* A chain that does not exist: the index is rebuilt all the same.
DeleteChain(c) ==
  /\ stage = "idle"
  /\ files' = [files EXCEPT ![c] = "none"]
  /\ stage' = "unlisted"
  /\ UNCHANGED <<index, seen, saving, interrupted>>

RebuildIndex ==
  /\ stage = "idle"
  /\ stage' = "unlisted"
  /\ UNCHANGED <<files, index, seen, saving, interrupted>>

\* Every file is read, those that do not parse are passed over, and the index
\* file is opened.  UnicodeDecodeError is not among the exceptions passed over: with an
\* undecodable file the rebuild raises, which is an Interrupt, until that chain is saved
\* again or deleted.
OpenIndex ==
  /\ stage = "unlisted"
  /\ \A c \in Chain : files[c] # "undecodable"
  /\ seen' = Readable
  /\ index' = {}
  /\ stage' = "listing"
  /\ UNCHANGED <<files, saving, interrupted>>

IndexWritten ==
  /\ stage = "listing"
  /\ index' = seen
  /\ seen' = {}
  /\ stage' = "idle"
  /\ interrupted' = FALSE
  /\ UNCHANGED <<files, saving>>

\* The process ends, or a write or a read raises; nothing is repaired on the way.
Interrupt ==
  /\ stage # "idle"
  /\ index' \in IF stage = "listing" THEN SUBSET seen ELSE {index}
  /\ seen' = {} /\ saving' = {}
  /\ stage' = "idle"
  /\ interrupted' = TRUE
  /\ \/ UNCHANGED files
     \/ /\ stage = "writing"
        /\ files' = [c \in Chain |-> IF c \in saving THEN "undecodable" ELSE files[c]]

ChainNext ==
  \/ \E c \in Chain : SaveChain(c) \/ DeleteChain(c)
  \/ ChainWritten \/ RebuildIndex \/ OpenIndex \/ IndexWritten \/ Interrupt

ChainSpec == ChainInit /\ [][ChainNext]_chainVars

ChainTypeOK ==
  /\ files \in [Chain -> FileState]
  /\ index \subseteq Chain /\ seen \subseteq Chain /\ saving \subseteq Chain
  /\ stage \in ChainStage
  /\ interrupted \in BOOLEAN

Catalog == INSTANCE ChainCatalog WITH
  stored <- Readable,
  listed <- index,
  dirty  <- stage # "idle" \/ interrupted

\* Whatever write is cut short, the next operation that completes leaves the
\* index listing exactly the chains that can be read.
KeepsCatalog == Catalog!CatalogSpec
=============================================================================
