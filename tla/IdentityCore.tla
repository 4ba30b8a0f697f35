---------------------------- MODULE IdentityCore ----------------------------
(***************************************************************************)
(* The identity (core/cognition/identity_core.py): what the agent is, what *)
(* it was taught to become, the evolution from the one towards the other,  *)
(* and the file that carries both over a restart.                          *)
(*                                                                         *)
(* Every operation holds the instance's lock from its first change to the  *)
(* end of _save, so it is one step for other threads; the file is not: it  *)
(* is rewritten in place, between a step that truncates it and one that    *)
(* completes it, and the process may crash, or the write fail, between the *)
(* two.  Values are numbers of 1/One; a key a dictionary lacks counts 0,   *)
(* which is how get_identity_gap reads a missing current value and which   *)
(* makes a missing target no gap at all.  Traits never change and are left *)
(* out; of evolution_path the version of each entry is kept.               *)
(***************************************************************************)
EXTENDS Integers, Sequences, FiniteSets

CONSTANTS
  Proc, None,     \* the threads that use the identity; no thread
  Key,            \* names of values
  Goal,           \* goals, and constraints
  Subject,        \* topics of obsessions
  One,            \* the value 1.0
  Threshold,      \* the gap below which a value is left alone (0.05)
  MaxStep,        \* the largest step of one evolution (0.05)
  Grain,          \* round(gap, 3)
  Rate,           \* a step is 1/Rate of the gap
  DefaultCur, DefaultTgt, \* IdentityState() and the target of __init__
  Taught,         \* values a teacher may give, some out of range
  MaxLog, KeepLog, DiskLog, \* evolution_path: 500 entries, cut to 300, 100 of them saved
  MaxEvents       \* bound: how much befalls the program (teaching, failed writes, crashes ...)

Value == 0..One

CurType == [values : [Key -> Value], goals : SUBSET Goal, constraints : SUBSET Goal,
            obsessions : [Subject -> 0..10]]
TgtType == [values : [Key -> Value], goals : SUBSET Goal, constraints : SUBSET Goal]

ASSUME IdentityAssumption ==
  /\ None \notin Proc
  /\ One \in Nat \ {0} /\ Threshold \in Nat /\ MaxStep \in Nat
  /\ Grain \in Nat \ {0} /\ Rate \in Nat \ {0}
  /\ DefaultCur \in CurType /\ DefaultTgt \in TgtType
  /\ Taught \subseteq Int
  /\ MaxLog \in Nat /\ KeepLog \in 1..MaxLog /\ DiskLog \in 1..KeepLog
  /\ MaxEvents \in Nat

VARIABLES
  cur,      \* current_state
  tgt,      \* target_state
  version,  \* _version
  log,      \* evolution_path, the version of each entry
  file,     \* identity_state.json is "absent", "torn" or "whole"
  disk,     \* what it holds when it is whole
  writer,   \* the thread that is inside _save, holding the lock
  unsaved,  \* the last _save failed; it only prints
  events    \* how much has befallen it

mem    == <<cur, tgt, version, log>>
idVars == <<cur, tgt, version, log, file, disk, writer, unsaved, events>>

-----------------------------------------------------------------------------
(* Helpers *)

Least(a, b) == IF a <= b THEN a ELSE b

\* Mutant of Clamp: only one side is bounded.
ClampBelow(v) == IF v < 0 THEN 0 ELSE v

Clamp(v) == IF v < 0 THEN 0 ELSE Least(One, v)

Newest(s, n) == IF Len(s) > n THEN SubSeq(s, Len(s) - n + 1, Len(s)) ELSE s

\* _log_evolution: one more entry, and the oldest go when there are too many.
Logged(s, v) == LET t == Append(s, v) IN IF Len(t) > MaxLog THEN Newest(t, KeepLog) ELSE t

\* Mutant of Image: the version is left out of the file and read as the default.
ImageWithoutVersion == [cur |-> cur, tgt |-> tgt, version |-> 1, log |-> Newest(log, DiskLog)]

\* What _save puts in the file.
Image == [cur |-> cur, tgt |-> tgt, version |-> version, log |-> Newest(log, DiskLog)]

\* What __init__ starts from: also stands for the content of a file that is not whole.
Fresh == [cur |-> DefaultCur, tgt |-> DefaultTgt, version |-> 1, log |-> <<>>]

Unlocked == writer = None

Event == events < MaxEvents /\ events' = events + 1

IdInit ==
  /\ cur = DefaultCur /\ tgt = DefaultTgt
  /\ version = 1 /\ log = <<>>
  /\ file = "absent" /\ disk = Fresh
  /\ writer = None /\ unsaved = FALSE
  /\ events = 0

-----------------------------------------------------------------------------
(* Saving.  An operation of thread p ends in _save, which opens the file for *)
(* writing (and so empties it) or fails to.                                  *)

\* The end of an operation that itself takes `cost` of the bound.
Save(p, cost) ==
  /\ \/ /\ file' = "torn" /\ disk' = Fresh /\ writer' = p
        /\ events' = events + cost
        /\ UNCHANGED unsaved
     \/ /\ unsaved' = TRUE
        /\ events' = events + cost + 1
        /\ UNCHANGED <<file, disk, writer>>
  /\ events' <= MaxEvents

SaveEnds(p) ==
  /\ writer = p
  /\ file' = "whole" /\ disk' = Image /\ writer' = None /\ unsaved' = FALSE
  /\ UNCHANGED <<mem, events>>

\* The disk is full: the exception is printed and the file stays as it is.
SaveFails(p) ==
  /\ writer = p
  /\ Event
  /\ writer' = None /\ unsaved' = TRUE
  /\ UNCHANGED <<mem, file, disk>>

-----------------------------------------------------------------------------
(* Teaching *)

\* Mutant of Edit: teaching changes the memory and does not save it.
EditUnsaved(p) ==
  /\ Unlocked
  /\ Event
  /\ UNCHANGED <<file, disk, writer, unsaved>>

Edit(p) == /\ Unlocked
           /\ Save(p, 1)

\* A change of more than Threshold, measured before clamping, is logged; a binary fraction
\* may fall on either side of a difference that equals it.
UpdateValues(p, k, v) ==
  /\ Edit(p)
  /\ cur' = [cur EXCEPT !.values[k] = Clamp(v)]
  /\ LET d == v - cur.values[k] IN
       \/ (d >= Threshold \/ d <= -Threshold) /\ log' = Logged(log, version)
       \/ d \in -Threshold..Threshold /\ UNCHANGED log
  /\ UNCHANGED <<tgt, version>>

UpdateGoals(p, G) ==
  /\ Edit(p)
  /\ \E new \in {G, cur.goals \cup G} : \* mode "replace" or "append"
       /\ cur' = [cur EXCEPT !.goals = new]
       /\ log' = IF new = cur.goals THEN log ELSE Logged(log, version)
  /\ UNCHANGED <<tgt, version>>

UpdateConstraints(p, C) ==
  /\ Edit(p)
  /\ cur' = [cur EXCEPT !.constraints = @ \cup C]
  /\ log' = IF C \subseteq cur.constraints THEN log ELSE Logged(log, version)
  /\ UNCHANGED <<tgt, version>>

UpdateTarget(p, k, v, G, C) ==
  /\ Edit(p)
  /\ tgt' = [tgt EXCEPT !.values[k] = Clamp(v), !.goals = @ \cup G, !.constraints = @ \cup C]
  /\ log' = Logged(log, version)
  /\ UNCHANGED <<cur, version>>

\* A new obsession has strength 0.8; visited again it grows by 0.1.
AddObsession(p, s) ==
  /\ Edit(p)
  /\ cur' = [cur EXCEPT !.obsessions[s] = IF @ = 0 THEN 8 ELSE Least(10, @ + 1)]
  /\ UNCHANGED <<tgt, version, log>>

-----------------------------------------------------------------------------
(* Evolution *)

Gap(k) == tgt.values[k] - cur.values[k]

\* get_identity_gap: a gap equal to Threshold counts or not, as its binary fraction falls.
GapChoices == {K \in SUBSET {k \in Key : Gap(k) >= Threshold} :
                 \A k \in Key : Gap(k) > Threshold => k \in K}

MissingGoals == tgt.goals \ cur.goals

\* round(gap, 3): to the nearest multiple of Grain, a tie going either way.
Rounded(g) == {r \in {(g \div Grain) * Grain, (g \div Grain + 1) * Grain} :
                 2 * (r - g) \in -Grain..Grain}

\* Mutant of Moves: a fixed step, and no bound by the target.
MovesPastTarget(k) == {cur.values[k] + 2 * MaxStep}

\* The values one evolution may give k.
Moves(k) == {Least(cur.values[k] + Least(r \div Rate, MaxStep), tgt.values[k]) : r \in Rounded(Gap(k))}

Evolved(K, f) ==
  [cur EXCEPT !.values = [k \in Key |-> IF k \in K THEN f[k] ELSE @[k]],
              !.goals = @ \cup MissingGoals]

\* evolve() when it finds a gap.
Evolve(p, cost) ==
  /\ Unlocked
  /\ \E K \in GapChoices :
       /\ K # {} \/ MissingGoals # {}
       /\ \E f \in [K -> UNION {Moves(k) : k \in K}] :
            /\ \A k \in K : f[k] \in Moves(k)
            /\ cur' = Evolved(K, f)
  /\ version' = version + 1
  /\ log' = Logged(log, version + 1)
  /\ Save(p, cost)
  /\ UNCHANGED tgt

\* evolve() when it finds none: nothing changes, nothing is saved.
NothingToEvolve == Unlocked /\ {} \in GapChoices /\ MissingGoals = {}

-----------------------------------------------------------------------------
(* Crash and restart *)

\* __init__ and _load: a file that cannot be read is the same as none.
Load(image) ==
  cur' = image.cur /\ tgt' = image.tgt /\ version' = image.version /\ log' = image.log

\* The process ends wherever it is, and starts again; nothing happens in between.
Crash ==
  /\ Event
  /\ Load(IF file = "whole" THEN disk ELSE Fresh)
  /\ writer' = None /\ unsaved' = FALSE
  /\ UNCHANGED <<file, disk>>

-----------------------------------------------------------------------------
Teach(p) ==
  \/ \E k \in Key, v \in Taught : UpdateValues(p, k, v)
  \/ \E G \in SUBSET Goal : UpdateGoals(p, G) \/ UpdateConstraints(p, G)
  \/ \E k \in Key, v \in Taught, G, C \in SUBSET Goal : UpdateTarget(p, k, v, G, C)
  \/ \E s \in Subject : AddObsession(p, s)

SaveStep(p) == SaveEnds(p) \/ SaveFails(p)

\* Something happens outside the identity.
Elsewhere == Event /\ UNCHANGED <<mem, file, disk, writer, unsaved>>

IdNext == \/ \E p \in Proc : Teach(p) \/ SaveStep(p)
          \/ \E p \in Proc, cost \in 0..1 : Evolve(p, cost)
          \/ Crash
          \/ Elsewhere

IdSpec == IdInit /\ [][IdNext]_idVars
-----------------------------------------------------------------------------
(* Properties *)

ImageType == [cur : CurType, tgt : TgtType, version : Nat \ {0}, log : Seq(Nat)]

IdTypeOK ==
  /\ cur \in CurType /\ tgt \in TgtType
  /\ version \in Nat \ {0} /\ log \in Seq(Nat)
  /\ file \in {"absent", "torn", "whole"} /\ disk \in ImageType
  /\ writer \in Proc \cup {None}
  /\ unsaved \in BOOLEAN
  /\ events \in 0..MaxEvents

\* No entry of the evolution path, in memory or in the file, is from a version the identity
\* has not reached, across evolutions, lost files and restarts (the version and the path are
\* saved and restored together, though the path is cut on the way).
LogNeverAhead ==
  /\ \A i \in 1..Len(log) : log[i] <= version
  /\ file = "whole" => \A i \in 1..Len(disk.log) : disk.log[i] <= disk.version

\* Unless its last save failed, what a running identity knows is in the file as soon as the
\* lock is free, so that a crash between two operations loses nothing: every operation that
\* changes the state saves it, and what a restart loads is what the file still holds.
FileHoldsMemory ==
  (Unlocked /\ file = "whole" /\ ~unsaved) => disk = Image

\* An evolution never moves a value away from its target or beyond it, and drops no goal.
EvolveApproaches ==
  [][version' = version + 1 =>
       /\ \A k \in Key : \/ cur'.values[k] = cur.values[k]
                         \/ cur.values[k] < cur'.values[k] /\ cur'.values[k] <= tgt.values[k]
       /\ cur.goals \subseteq cur'.goals]_idVars

\* Nothing is left to evolve.
Settled == MissingGoals = {} /\ \A k \in Key : Gap(k) <= Threshold
=============================================================================
