--------------------------- MODULE AgentMainProofs ---------------------------
(***************************************************************************)
(* Theorems about the identity, for any sets of values, goals and threads, *)
(* any thresholds and any bound on the events, and about the agent around  *)
(* it, whose steps are steps of the identity or leave it alone.            *)
(***************************************************************************)
EXTENDS AgentMain, FiniteSetTheorems, TLAPS

USE DEF Value

-----------------------------------------------------------------------------
(* Sequences of versions *)

AtMost(s, v) == \A i \in 1..Len(s) : s[i] <= v

LEMMA NewestFacts ==
  ASSUME NEW s \in Seq(Nat), NEW n \in Nat, NEW v \in Nat, AtMost(s, v)
  PROVE  /\ Newest(s, n) \in Seq(Nat)
         /\ AtMost(Newest(s, n), v)
         /\ Len(Newest(s, n)) <= n
         /\ Len(s) <= n => Newest(s, n) = s
<1>1. CASE Len(s) <= n
  BY <1>1 DEF Newest
<1>2. CASE Len(s) > n
  <2>1. /\ Len(s) - n + 1 \in 1..(Len(s) + 1)
        /\ Newest(s, n) = SubSeq(s, Len(s) - n + 1, Len(s))
    BY <1>2 DEF Newest
  <2>2. /\ Newest(s, n) \in Seq(Nat)
        /\ Len(Newest(s, n)) = n
        /\ \A i \in 1..n : Newest(s, n)[i] = s[Len(s) - n + i]
    <3> DEFINE m == Len(s) - n + 1
    <3>1. m \in Nat /\ m \in 1..(Len(s) + 1) /\ Len(s) \in Nat
      BY <2>1
    <3>2. \A i \in m..Len(s) : s[i] \in Nat
      BY <3>1
    <3>3. SubSeq(s, m, Len(s)) \in Seq(Nat)
      BY <3>1, <3>2
    <3>4. Len(SubSeq(s, m, Len(s))) = Len(s) - m + 1
      BY <3>1
    <3>5. \A i \in 1..(Len(s) - m + 1) : SubSeq(s, m, Len(s))[i] = s[m + i - 1]
      BY <3>1
    <3>6. QED
      <4>1. Len(s) - m + 1 = n /\ \A i \in Int : m + i - 1 = Len(s) - n + i
        BY <3>1
      <4>2. Newest(s, n) = SubSeq(s, m, Len(s))
        BY <2>1
      <4>3. Newest(s, n) \in Seq(Nat) /\ Len(Newest(s, n)) = n
        BY <3>3, <3>4, <4>1, <4>2
      <4>4. ASSUME NEW i \in 1..n PROVE Newest(s, n)[i] = s[Len(s) - n + i]
        <5>1. i \in 1..(Len(s) - m + 1)
          BY <4>1
        <5>2. SubSeq(s, m, Len(s))[i] = s[m + i - 1]
          BY <3>5, <5>1
        <5>3. m + i - 1 = Len(s) - n + i
          BY <4>1
        <5>4. QED
          BY <4>2, <5>2, <5>3
      <4>5. QED
        BY <4>3, <4>4
  <2>3. \A i \in 1..n : Len(s) - n + i \in 1..Len(s)
    BY <1>2
  <2>4. AtMost(Newest(s, n), v)
    <3>1. SUFFICES ASSUME NEW i \in 1..n
                   PROVE  Newest(s, n)[i] <= v
      BY <2>2 DEF AtMost
    <3>2. s[Len(s) - n + i] <= v
      BY <2>3 DEF AtMost
    <3>3. QED
      BY <2>2, <3>2
  <2>5. QED
    BY <1>2, <2>2, <2>4
<1>3. QED
  BY <1>1, <1>2

LEMMA LoggedFacts ==
  ASSUME NEW s \in Seq(Nat), NEW v \in Nat, AtMost(s, v)
  PROVE  Logged(s, v) \in Seq(Nat) /\ AtMost(Logged(s, v), v)
<1> DEFINE t == Append(s, v)
<1>1. t \in Seq(Nat) /\ AtMost(t, v)
  BY DEF AtMost
<1>2. KeepLog \in Nat
  BY IdentityAssumption
<1>3. Newest(t, KeepLog) \in Seq(Nat) /\ AtMost(Newest(t, KeepLog), v)
  BY <1>1, <1>2, NewestFacts
<1>4. QED
  BY <1>1, <1>3 DEF Logged

LEMMA AtMostLater ==
  ASSUME NEW s \in Seq(Nat), NEW v \in Nat, NEW w \in Nat, v <= w, AtMost(s, v)
  PROVE  AtMost(s, w)
BY DEF AtMost

-----------------------------------------------------------------------------
(* The identity: the inductive invariant.  Besides the properties it says that the file  *)
(* holds a path no longer than a restart keeps, so that what is loaded is what was saved, *)
(* even when the file is not whole.                                                       *)

MemOK ==
  /\ cur \in CurType /\ tgt \in TgtType
  /\ version \in Nat \ {0} /\ log \in Seq(Nat)
  /\ AtMost(log, version)

DiskOK ==
  /\ disk \in ImageType
  /\ AtMost(disk.log, disk.version) /\ Len(disk.log) <= DiskLog

SavingOK ==
  /\ file \in {"absent", "torn", "whole"}
  /\ writer \in Proc \cup {None}
  /\ unsaved \in BOOLEAN
  /\ events \in 0..MaxEvents

DiskNotAhead == file = "whole" => disk.version <= version

IdInv == MemOK /\ DiskOK /\ SavingOK /\ DiskNotAhead /\ FileHoldsMemory

LEMMA FreshFacts ==
  /\ Fresh \in ImageType
  /\ AtMost(Fresh.log, Fresh.version) /\ Len(Fresh.log) <= DiskLog
BY IdentityAssumption DEF Fresh, ImageType, AtMost

LEMMA ImageFacts ==
  ASSUME MemOK
  PROVE  /\ Image \in ImageType
         /\ AtMost(Image.log, Image.version) /\ Len(Image.log) <= DiskLog
<1>1. DiskLog \in Nat
  BY IdentityAssumption
<1>2. /\ Newest(log, DiskLog) \in Seq(Nat)
      /\ AtMost(Newest(log, DiskLog), version)
      /\ Len(Newest(log, DiskLog)) <= DiskLog
  BY <1>1, NewestFacts DEF MemOK
<1>3. QED
  BY <1>2 DEF MemOK, Image, ImageType

LEMMA IdInitInv == IdInit => IdInv
<1> SUFFICES ASSUME IdInit PROVE IdInv
  OBVIOUS
<1>1. MemOK
  BY IdentityAssumption DEF IdInit, MemOK, AtMost
<1>2. DiskOK
  BY FreshFacts DEF IdInit, DiskOK
<1>3. 0 \in 0..MaxEvents
  BY IdentityAssumption
<1>4. SavingOK
  BY <1>3 DEF IdInit, SavingOK
<1>5. DiskNotAhead /\ FileHoldsMemory
  BY DEF IdInit, DiskNotAhead, FileHoldsMemory
<1>6. QED
  BY <1>1, <1>2, <1>4, <1>5 DEF IdInv

\* An operation that ends in _save keeps the invariant when it keeps the memory well formed.
LEMMA SaveInv ==
  ASSUME IdInv, NEW p \in Proc, NEW cost \in 0..1, Save(p, cost), MemOK',
         version <= version'
  PROVE  IdInv'
<1>1. events \in Int /\ 0 <= events /\ MaxEvents \in Nat
  BY IdentityAssumption DEF IdInv, SavingOK
<1>2. events' \in 0..MaxEvents
  BY <1>1 DEF Save
<1>3. CASE file' = "torn" /\ disk' = Fresh /\ writer' = p /\ UNCHANGED unsaved
  <2>1. DiskOK'
    BY <1>3, FreshFacts DEF DiskOK
  <2>2. SavingOK' /\ DiskNotAhead' /\ FileHoldsMemory'
    BY <1>2, <1>3 DEF IdInv, SavingOK, DiskNotAhead, FileHoldsMemory
  <2>3. QED
    BY <2>1, <2>2 DEF IdInv
<1>4. CASE unsaved' = TRUE /\ UNCHANGED <<file, disk, writer>>
  <2>1. DiskOK'
    BY <1>4 DEF DiskOK, IdInv
  <2>2. SavingOK' /\ FileHoldsMemory'
    BY <1>2, <1>4 DEF IdInv, SavingOK, FileHoldsMemory
  <2>3. DiskNotAhead'
    BY <1>4 DEF IdInv, MemOK, DiskOK, ImageType, DiskNotAhead
  <2>4. QED
    BY <2>1, <2>2, <2>3 DEF IdInv
<1>5. QED
  BY <1>3, <1>4 DEF Save

\* What an operation writes into the memory is well formed.
LEMMA ClampFacts == ASSUME NEW v \in Int PROVE Clamp(v) \in Value
BY IdentityAssumption DEF Clamp, Least

LEMMA LoggedMem ==
  ASSUME MemOK, NEW v \in Nat \ {0}, version <= v
  PROVE  Logged(log, v) \in Seq(Nat) /\ AtMost(Logged(log, v), v)
<1>1. AtMost(log, v)
  BY AtMostLater DEF MemOK
<1>2. QED
  BY <1>1, LoggedFacts DEF MemOK

LEMMA DivNat == ASSUME NEW a \in Nat, NEW b \in Nat \ {0} PROVE a \div b \in Nat
OBVIOUS

\* An evolution moves a value towards its target and not beyond it.
LEMMA MovesFacts ==
  ASSUME MemOK, NEW k \in Key, Gap(k) >= Threshold, NEW m \in Moves(k)
  PROVE  m \in Value /\ cur.values[k] <= m /\ m <= tgt.values[k]
<1> DEFINE g == Gap(k)
<1>1. cur.values[k] \in Value /\ tgt.values[k] \in Value
  BY DEF MemOK, CurType, TgtType
<1>2. g \in Nat /\ g = tgt.values[k] - cur.values[k]
  BY <1>1, IdentityAssumption DEF Gap
<1>3. PICK r \in Rounded(g) : m = Least(cur.values[k] + Least(r \div Rate, MaxStep), tgt.values[k])
  BY DEF Moves
<1>4. g \div Grain \in Nat /\ Grain \in Nat
  BY <1>2, DivNat, IdentityAssumption
<1>5. r \in Nat
  BY <1>3, <1>4 DEF Rounded
<1>6. r \div Rate \in Nat /\ MaxStep \in Nat
  BY <1>5, DivNat, IdentityAssumption
<1>7. Least(r \div Rate, MaxStep) \in Nat
  BY <1>6 DEF Least
<1>8. QED
  BY <1>1, <1>2, <1>3, <1>7, IdentityAssumption DEF Least

LEMMA EvolveFacts ==
  ASSUME MemOK, NEW p \in Proc, NEW cost \in 0..1, Evolve(p, cost)
  PROVE  /\ MemOK'
         /\ \A k \in Key : cur.values[k] <= cur'.values[k]
                          /\ (cur'.values[k] = cur.values[k] \/ cur'.values[k] <= tgt.values[k])
         /\ cur.goals \subseteq cur'.goals
<1>1. PICK K \in GapChoices : \E f \in [K -> UNION {Moves(k) : k \in K}] :
                               (\A k \in K : f[k] \in Moves(k)) /\ cur' = Evolved(K, f)
  BY DEF Evolve
<1>2. PICK f \in [K -> UNION {Moves(k) : k \in K}] :
             (\A k \in K : f[k] \in Moves(k)) /\ cur' = Evolved(K, f)
  BY <1>1
<1>3. \A k \in K : k \in Key /\ Gap(k) >= Threshold
  BY DEF GapChoices
<1>4. \A k \in K : f[k] \in Value /\ cur.values[k] <= f[k] /\ f[k] <= tgt.values[k]
  BY <1>2, <1>3, MovesFacts
<1>5. /\ cur'.values = [k \in Key |-> IF k \in K THEN f[k] ELSE cur.values[k]]
      /\ cur'.goals = cur.goals \cup MissingGoals
      /\ cur'.constraints = cur.constraints
      /\ cur'.obsessions = cur.obsessions
      /\ cur' = [values |-> cur'.values, goals |-> cur'.goals,
                 constraints |-> cur.constraints, obsessions |-> cur.obsessions]
  BY <1>2 DEF Evolved, MemOK, CurType
<1>6. \A k \in Key : cur.values[k] \in Value
  BY DEF MemOK, CurType
<1>7. cur'.values \in [Key -> Value]
  BY <1>4, <1>5, <1>6
<1>8. MissingGoals \subseteq Goal
  BY DEF MissingGoals, MemOK, TgtType
<1>9. cur' \in CurType
  BY <1>5, <1>7, <1>8 DEF MemOK, CurType
<1>10. version + 1 \in Nat \ {0} /\ version <= version + 1
  BY DEF MemOK
<1>11. /\ Logged(log, version + 1) \in Seq(Nat) /\ AtMost(Logged(log, version + 1), version + 1)
  BY <1>10, LoggedMem
<1>12. MemOK'
  BY <1>9, <1>10, <1>11 DEF Evolve, MemOK
<1>13. \A k \in Key : cur'.values[k] = IF k \in K THEN f[k] ELSE cur.values[k]
  BY <1>5
<1>14. QED
  BY <1>4, <1>5, <1>6, <1>12, <1>13

\* Teaching keeps the memory well formed.
LEMMA TeachFacts ==
  ASSUME MemOK, NEW p \in Proc, Teach(p)
  PROVE  MemOK' /\ version' = version /\ Save(p, 1)
<1>1. Logged(log, version) \in Seq(Nat) /\ AtMost(Logged(log, version), version)
  BY LoggedMem DEF MemOK
<1>2. ASSUME NEW k \in Key, NEW v \in Taught, UpdateValues(p, k, v)
      PROVE  MemOK' /\ version' = version /\ Save(p, 1)
  <2>1. Clamp(v) \in Value
    BY ClampFacts, IdentityAssumption
  <2>2. cur' = [cur EXCEPT !.values[k] = Clamp(v)]
    BY <1>2 DEF UpdateValues
  <2>3. cur' \in CurType
    BY <2>1, <2>2 DEF MemOK, CurType
  <2>4. log' = log \/ log' = Logged(log, version)
    BY <1>2 DEF UpdateValues
  <2>5. QED
    BY <1>1, <1>2, <2>3, <2>4 DEF UpdateValues, Edit, MemOK
<1>3. ASSUME NEW G \in SUBSET Goal, UpdateGoals(p, G)
      PROVE  MemOK' /\ version' = version /\ Save(p, 1)
  <2>1. cur' \in CurType
    BY <1>3 DEF UpdateGoals, MemOK, CurType
  <2>2. log' = log \/ log' = Logged(log, version)
    BY <1>3 DEF UpdateGoals
  <2>3. QED
    BY <1>1, <1>3, <2>1, <2>2 DEF UpdateGoals, Edit, MemOK
<1>4. ASSUME NEW C \in SUBSET Goal, UpdateConstraints(p, C)
      PROVE  MemOK' /\ version' = version /\ Save(p, 1)
  <2>1. cur' \in CurType
    BY <1>4 DEF UpdateConstraints, MemOK, CurType
  <2>2. log' = log \/ log' = Logged(log, version)
    BY <1>4 DEF UpdateConstraints
  <2>3. QED
    BY <1>1, <1>4, <2>1, <2>2 DEF UpdateConstraints, Edit, MemOK
<1>5. ASSUME NEW k \in Key, NEW v \in Taught, NEW G \in SUBSET Goal, NEW C \in SUBSET Goal,
             UpdateTarget(p, k, v, G, C)
      PROVE  MemOK' /\ version' = version /\ Save(p, 1)
  <2>1. Clamp(v) \in Value
    BY ClampFacts, IdentityAssumption
  <2>2. tgt' \in TgtType
    BY <1>5, <2>1 DEF UpdateTarget, MemOK, TgtType
  <2>3. QED
    BY <1>1, <1>5, <2>2 DEF UpdateTarget, Edit, MemOK
<1>6. ASSUME NEW s \in Subject, AddObsession(p, s)
      PROVE  MemOK' /\ version' = version /\ Save(p, 1)
  <2>1. cur.obsessions[s] \in 0..10
    BY DEF MemOK, CurType
  <2>2. (IF cur.obsessions[s] = 0 THEN 8 ELSE Least(10, cur.obsessions[s] + 1)) \in 0..10
    BY <2>1 DEF Least
  <2>3. cur' \in CurType
    BY <1>6, <2>2 DEF AddObsession, MemOK, CurType
  <2>4. QED
    BY <1>6, <2>3 DEF AddObsession, Edit, MemOK
<1>7. QED
  BY <1>2, <1>3, <1>4, <1>5, <1>6 DEF Teach

\* A restart loads what was saved, or starts afresh.
LEMMA CrashInv == ASSUME IdInv, Crash PROVE IdInv'
<1> DEFINE image == IF file = "whole" THEN disk ELSE Fresh
<1>1. /\ image \in ImageType
      /\ AtMost(image.log, image.version) /\ Len(image.log) <= DiskLog
  BY FreshFacts DEF IdInv, DiskOK
<1>2. /\ cur' = image.cur /\ tgt' = image.tgt
      /\ version' = image.version /\ log' = image.log
  BY DEF Crash, Load
<1>3. MemOK'
  BY <1>1, <1>2 DEF MemOK, ImageType
<1>4. DiskOK'
  BY DEF Crash, IdInv, DiskOK
<1>5. events' \in 0..MaxEvents
  BY IdentityAssumption DEF Crash, Event, IdInv, SavingOK
<1>6. SavingOK'
  BY <1>5 DEF Crash, IdInv, SavingOK
<1>7. ASSUME file = "whole"
      PROVE  disk' = Image'
  <2>1. log' = disk.log /\ log' \in Seq(Nat) /\ Len(log') <= DiskLog
    BY <1>1, <1>2, <1>7 DEF ImageType
  <2>2. disk' = [cur |-> cur', tgt |-> tgt', version |-> version', log |-> log']
    BY <1>1, <1>2, <1>7 DEF Crash, ImageType
  <2>3. Newest(log', DiskLog) = log'
    BY <2>1, IdentityAssumption DEF Newest
  <2>4. QED
    BY <2>2, <2>3 DEF Image
<1>8. FileHoldsMemory'
  BY <1>7 DEF Crash, FileHoldsMemory
<1>9. DiskNotAhead'
  BY <1>1, <1>2 DEF Crash, DiskNotAhead, ImageType
<1>10. QED
  BY <1>3, <1>4, <1>6, <1>8, <1>9 DEF IdInv

LEMMA SaveStepInv == ASSUME IdInv, NEW p \in Proc, SaveStep(p) PROVE IdInv'
<1>1. MemOK'
  BY DEF SaveStep, SaveEnds, SaveFails, mem, IdInv, MemOK
<1>2. CASE SaveEnds(p)
  <2>1. disk' = Image /\ Image' = Image
    BY <1>2 DEF SaveEnds, mem, Image
  <2>2. DiskOK'
    BY <2>1, ImageFacts DEF IdInv, DiskOK
  <2>3. SavingOK' /\ FileHoldsMemory'
    BY <1>2, <2>1 DEF SaveEnds, IdInv, SavingOK, FileHoldsMemory
  <2>4. DiskNotAhead'
    BY <1>2, <2>1 DEF SaveEnds, mem, Image, DiskNotAhead, IdInv, MemOK
  <2>5. QED
    BY <1>1, <2>2, <2>3, <2>4 DEF IdInv
<1>3. CASE SaveFails(p)
  <2>1. events' \in 0..MaxEvents
    BY <1>3, IdentityAssumption DEF SaveFails, Event, IdInv, SavingOK
  <2>2. DiskOK' /\ SavingOK' /\ DiskNotAhead' /\ FileHoldsMemory'
    BY <1>3, <2>1
       DEF SaveFails, mem, IdInv, DiskOK, SavingOK, DiskNotAhead, FileHoldsMemory
  <2>3. QED
    BY <1>1, <2>2 DEF IdInv
<1>4. QED
  BY <1>2, <1>3 DEF SaveStep

LEMMA QuietInv ==
  ASSUME IdInv, UNCHANGED <<mem, file, disk, writer, unsaved>>, events' \in 0..MaxEvents
  PROVE  IdInv'
<1>1. Image' = Image /\ MemOK' /\ DiskOK'
  BY DEF mem, Image, IdInv, MemOK, DiskOK
<1>2. SavingOK' /\ DiskNotAhead' /\ FileHoldsMemory'
  BY <1>1 DEF mem, IdInv, SavingOK, DiskNotAhead, FileHoldsMemory, Unlocked
<1>3. QED
  BY <1>1, <1>2 DEF IdInv

LEMMA IdNextInv == IdInv /\ [IdNext]_idVars => IdInv'
<1> SUFFICES ASSUME IdInv, [IdNext]_idVars PROVE IdInv'
  OBVIOUS
<1> USE DEF IdInv
<1>1. ASSUME NEW p \in Proc, Teach(p)
      PROVE  IdInv'
  BY <1>1, TeachFacts, SaveInv DEF MemOK
<1>2. ASSUME NEW p \in Proc, SaveStep(p)
      PROVE  IdInv'
  BY <1>2, SaveStepInv
<1>3. ASSUME NEW p \in Proc, NEW cost \in 0..1, Evolve(p, cost)
      PROVE  IdInv'
  <2>1. MemOK' /\ version <= version' /\ Save(p, cost)
    BY <1>3, EvolveFacts DEF Evolve, MemOK
  <2>2. QED
    BY <2>1, SaveInv
<1>4. CASE Crash
  BY <1>4, CrashInv
<1>5. CASE Elsewhere
  <2>1. events' \in 0..MaxEvents
    BY <1>5, IdentityAssumption DEF Elsewhere, Event, SavingOK
  <2>2. QED
    BY <1>5, <2>1, QuietInv DEF Elsewhere
<1>6. CASE UNCHANGED idVars
  <2>1. events' \in 0..MaxEvents
    BY <1>6 DEF idVars, SavingOK
  <2>2. QED
    BY <1>6, <2>1, QuietInv DEF idVars, mem
<1>7. QED
  BY <1>1, <1>2, <1>3, <1>4, <1>5, <1>6 DEF IdNext

\* The inductive invariant holds of every behaviour of the identity.
THEOREM IdentityInvariant == IdSpec => []IdInv
BY IdInitInv, IdNextInv, PTL DEF IdSpec

LEMMA IdInvImplies == IdInv => IdTypeOK /\ LogNeverAhead /\ FileHoldsMemory
<1>1. IdInv => IdTypeOK
  BY DEF IdInv, MemOK, DiskOK, SavingOK, IdTypeOK
<1>2. IdInv => LogNeverAhead
  BY DEF IdInv, MemOK, DiskOK, AtMost, LogNeverAhead
<1>3. QED
  BY <1>1, <1>2 DEF IdInv

\* The types of the identity's state are kept by every step.
THEOREM IdentityTypes == IdSpec => []IdTypeOK
BY IdentityInvariant, IdInvImplies, PTL

\* No entry of the evolution path, in memory or on disk, is from a version not yet reached.
THEOREM PathNeverAhead == IdSpec => []LogNeverAhead
BY IdentityInvariant, IdInvImplies, PTL

\* What a running identity knows is in its file when the lock is free, unless a save failed.
THEOREM FileIsCurrent == IdSpec => []FileHoldsMemory
BY IdentityInvariant, IdInvImplies, PTL

-----------------------------------------------------------------------------
(* Evolution: every step that raises the version by one is an evolution, since a restart  *)
(* never loads a version ahead of the memory's.                                           *)

Approaches ==
  /\ \A k \in Key : \/ cur'.values[k] = cur.values[k]
                    \/ cur.values[k] < cur'.values[k] /\ cur'.values[k] <= tgt.values[k]
  /\ cur.goals \subseteq cur'.goals

LEMMA EvolveStep ==
  ASSUME IdInv, [IdNext]_idVars, version' = version + 1
  PROVE  Approaches
<1> version \in Nat \ {0}
  BY DEF IdInv, MemOK
<1>1. ASSUME NEW p \in Proc, Teach(p) PROVE FALSE
  BY <1>1, TeachFacts DEF IdInv
<1>2. ASSUME NEW p \in Proc, SaveStep(p) PROVE FALSE
  BY <1>2 DEF SaveStep, SaveEnds, SaveFails, mem
<1>3. ASSUME NEW p \in Proc, NEW cost \in 0..1, Evolve(p, cost) PROVE Approaches
  <2>1. /\ \A k \in Key : cur.values[k] <= cur'.values[k]
                        /\ (cur'.values[k] = cur.values[k] \/ cur'.values[k] <= tgt.values[k])
        /\ cur.goals \subseteq cur'.goals
        /\ MemOK'
    BY <1>3, EvolveFacts DEF IdInv
  <2>2. \A k \in Key : cur.values[k] \in Value /\ cur'.values[k] \in Value
    BY <2>1 DEF IdInv, MemOK, CurType
  <2>3. One \in Nat
    BY IdentityAssumption
  <2>4. QED
    BY <2>1, <2>2, <2>3 DEF Approaches
<1>4. CASE Crash
  <2>1. version' = IF file = "whole" THEN disk.version ELSE 1
    BY <1>4 DEF Crash, Load, Fresh
  <2>2. file = "whole" => disk.version \in Nat /\ disk.version <= version
    BY DEF IdInv, DiskNotAhead, DiskOK, ImageType
  <2>3. QED
    BY <2>1, <2>2
<1>5. CASE Elsewhere
  BY <1>5 DEF Elsewhere, mem
<1>6. CASE UNCHANGED idVars
  BY <1>6 DEF idVars
<1>7. QED
  BY <1>1, <1>2, <1>3, <1>4, <1>5, <1>6 DEF IdNext

\* An evolution never moves a value away from its target or beyond it, and drops no goal.
THEOREM EvolutionApproaches == IdSpec => EvolveApproaches
<1>1. IdInv /\ [IdNext]_idVars => [version' = version + 1 => Approaches]_idVars
  BY EvolveStep
<1>2. IdSpec => [][version' = version + 1 => Approaches]_idVars
  BY <1>1, IdentityInvariant, PTL DEF IdSpec
<1>3. QED
  BY <1>2 DEF EvolveApproaches, Approaches

-----------------------------------------------------------------------------
(* The agent implements the identity: whatever its threads do, the identity takes one of *)
(* its own steps or none.                                                                *)

LEMMA IdentityStep == [Next]_vars => [IdNext]_idVars
<1> SUFFICES ASSUME [Next]_vars PROVE [IdNext]_idVars
  OBVIOUS
<1> USE IdentityAssumption, AgentMainAssumption
<1>1. ASSUME NEW p \in Proc, Top(p) \/ SyncRead(p) \/ SyncValues(p) \/ SyncGoals(p)
      PROVE  UNCHANGED idVars
  BY <1>1 DEF Top, SyncRead, SyncValues, SyncGoals
<1>2. ASSUME NEW p \in Proc, LoopEvolve(p)
      PROVE  [IdNext]_idVars
  <2>1. 0 \in 0..1
    OBVIOUS
  <2>2. QED
    BY <1>2, <2>1 DEF LoopEvolve, IdNext
<1>3. ASSUME NEW p \in Proc, Saving(p)
      PROVE  IdNext
  BY <1>3 DEF Saving, IdNext
<1>4. ASSUME NEW p \in Proc, Ask(p) \/ LoopExplore(p) \/ LoopRecord(p)
      PROVE  Elsewhere \/ UNCHANGED idVars
  BY <1>4 DEF Ask, LoopExplore, LoopRecord, Raise, calmVars, idVars, mem, Elsewhere
<1>5. ASSUME NEW p \in Proc, SyncFails(p)
      PROVE  Elsewhere
  BY <1>5 DEF SyncFails, calmVars, mem, Elsewhere
<1>6. ASSUME NEW c \in Caller, StartLoop(c) \/ StopLoop(c) \/ CallStep(c)
      PROVE  Elsewhere \/ UNCHANGED idVars
  <2>1. CASE StartLoop(c) \/ StopLoop(c)
    BY <2>1 DEF StartLoop, StopLoop, Begin, calmVars, idVars, mem, Elsewhere
  <2>2. CASE SetRunning(c) \/ MakeThread(c) \/ LaunchThread(c)
    BY <2>2 DEF SetRunning, MakeThread, LaunchThread
  <2>3. CASE TestAlive(c) \/ EnterJoin(c)
    BY <2>3 DEF TestAlive, EnterJoin
  <2>4. CASE Join(c)
    BY <2>4 DEF Join, calmVars, idVars, mem, Elsewhere
  <2>5. QED
    BY <1>6, <2>1, <2>2, <2>3, <2>4 DEF CallStep
<1>7. CASE UserEvolve
  <2>1. 1 \in 0..1
    OBVIOUS
  <2>2. QED
    BY <1>7, <2>1 DEF UserEvolve, calmVars, mem, Elsewhere, IdNext
<1>8. CASE UserTeach
  BY <1>8 DEF UserTeach, IdNext
<1>9. CASE \E x \in Topic : UserExplore(x)
  BY <1>9 DEF UserExplore
<1>10. ASSUME NEW x \in Topic, AddToBlacklist(x)
       PROVE  Elsewhere
  BY <1>10 DEF AddToBlacklist, calmVars, mem, Elsewhere
<1>11. CASE CrashAll
  BY <1>11 DEF CrashAll, IdNext
<1>12. CASE UNCHANGED vars
  BY <1>12 DEF vars
<1>13. QED
  BY <1>1, <1>2, <1>3, <1>4, <1>5, <1>6, <1>7, <1>8, <1>9, <1>10, <1>11, <1>12
     DEF Next, Step, UserCall, IdNext

\* Every behaviour of the agent is one of the identity, so that what holds of the identity
\* with any users holds of it under the loop, its leftovers and the user together.
THEOREM AgentImplementsIdentity == Spec => IdSpec
<1>1. Init => IdInit
  BY DEF Init
<1>2. QED
  BY <1>1, IdentityStep, PTL DEF Spec, IdSpec

\* In the agent, too, a crash between two operations loses nothing that a save recorded.
THEOREM AgentFileIsCurrent == Spec => [](LogNeverAhead /\ FileHoldsMemory)
BY AgentImplementsIdentity, PathNeverAhead, FileIsCurrent, PTL

-----------------------------------------------------------------------------
(* Threads of the loop.  The loop threads and the starts still to come are never more than *)
(* one and what timeouts and crossings allow.  They are fewer once _running is off and     *)
(* nobody is about to turn it on or to wait for the thread that loopThread names.          *)

Live == {t \in Thread : Alive(t)}

\* Callers that have found the loop stopped and have not started their thread.
Starters == {c \in Caller : at[c] \in {"set", "make", "launch"}}

Weight == Cardinality(Live) + Cardinality(Starters)
Allowed == timeouts + crossed

\* A caller who will turn _running on, or wait for the thread that loopThread names.
Minds(c) ==
  \/ at[c] \in {"set", "test", "enter"}
  \/ at[c] = "join" /\ joined[c] = loopThread

ThreadsOK ==
  /\ running \in BOOLEAN
  /\ loopThread \in Thread \cup {None}
  /\ at \in [Actor -> Place]
  /\ joined \in [Caller -> Thread \cup {None}]
  /\ timeouts \in Nat /\ crossed \in Nat

OverlapInv ==
  /\ ThreadsOK
  /\ IsFiniteSet(Live) /\ IsFiniteSet(Starters)
  /\ Weight <= 1 + Allowed
  /\ Weight <= Allowed \/ Starters # {} \/ loopThread \in Live
  /\ (~running /\ \E c \in Caller : at[c] \in {"make", "launch"}) => Weight <= Allowed
  /\ ~running => Weight <= Allowed \/ \E c \in Caller : Minds(c)

LEMMA FirstFacts ==
  ASSUME NEW I \in SUBSET (1..Len(Stages))
  PROVE  First(I) \in {"top"} \cup Stage
<1>1. Len(Stages) = 5
  BY DEF Stages
<1>2. CASE I = {}
  BY <1>2 DEF First
<1>3. CASE I # {}
  <2>1. \E i \in I : \A j \in I : i <= j
    <3>1. \A i \in I : i \in 1..5
      BY <1>1
    <3>2. CASE 1 \in I
      BY <3>1, <3>2
    <3>3. CASE 1 \notin I /\ 2 \in I
      BY <3>1, <3>3
    <3>4. CASE 1 \notin I /\ 2 \notin I /\ 3 \in I
      BY <3>1, <3>4
    <3>5. CASE 1 \notin I /\ 2 \notin I /\ 3 \notin I /\ 4 \in I
      BY <3>1, <3>5
    <3>6. CASE 1 \notin I /\ 2 \notin I /\ 3 \notin I /\ 4 \notin I
      <4>1. PICK e \in I : TRUE
        BY <1>3
      <4>2. \A j \in I : j = 5
        BY <3>1, <3>6
      <4>3. e = 5 /\ \A j \in I : e <= j
        BY <4>1, <4>2
      <4>4. QED
        BY <4>3
    <3>7. QED
      BY <3>2, <3>3, <3>4, <3>5, <3>6
  <2>2. (CHOOSE i \in I : \A j \in I : i <= j) \in I
    BY <2>1
  <2>3. QED
    BY <1>3, <2>2 DEF First, Stage
<1>4. QED
  BY <1>2, <1>3

StagePlaces == {"evolve", "task", "question", "explore", "sync"}

LEMMA StageFacts == Stage = StagePlaces
<1>1. Len(Stages) = 5
  BY DEF Stages
<1>2. /\ Stages[1] = "evolve" /\ Stages[2] = "task" /\ Stages[3] = "question"
      /\ Stages[4] = "explore" /\ Stages[5] = "sync"
  BY DEF Stages
<1>3. QED
  BY <1>1, <1>2 DEF Stage, StagePlaces

\* Places of a thread that is neither in a call of start or stop nor waits for its own start.
CyclePlace == Place \ (CallPlace \cup {"new"})

\* Within its cycle a loop thread stays alive; the user's calls lead back to the caller.
LEMMA AfterFacts ==
  ASSUME NEW p \in Proc, NEW s
  PROVE  /\ After(p, s) \in CyclePlace
         /\ p # User => After(p, s) # "off"
<1> USE DEF CyclePlace, CallPlace
<1>1. CASE p = User
  BY <1>1, StageFacts DEF After, Place, StagePlaces
<1>2. CASE p # User
  <2>1. After(p, s) \in {"top"} \cup Stage
    BY <1>2, FirstFacts DEF After, Due
  <2>2. QED
    BY <1>2, <2>1, StageFacts DEF Place, StagePlaces
<1>3. QED
  BY <1>1, <1>2

LEMMA DueFacts ==
  ASSUME NEW n
  PROVE  First(Due(n)) \in CyclePlace \ {"off"}
<1> USE DEF CyclePlace, CallPlace
<1>1. First(Due(n)) \in {"top"} \cup Stage
  BY FirstFacts DEF Due
<1>2. QED
  BY <1>1, StageFacts DEF Place, StagePlaces

\* Callers are not loop threads, and None is neither.
LEMMA ActorFacts ==
  /\ Thread \subseteq Actor /\ Caller \subseteq Actor /\ User \in Actor /\ User \notin Thread
  /\ \A c \in Caller : c \notin Thread
  /\ None \notin Thread
BY AgentMainAssumption DEF Actor, Thread

LEMMA Counts ==
  ASSUME OverlapInv
  PROVE  /\ Cardinality(Live) \in Nat /\ Cardinality(Starters) \in Nat
         /\ Weight \in Nat /\ Allowed \in Nat
<1>1. Cardinality(Live) \in Nat /\ Cardinality(Starters) \in Nat
  BY FS_CardinalityType DEF OverlapInv
<1>2. QED
  BY <1>1 DEF OverlapInv, ThreadsOK, Weight, Allowed

\* What changes neither the loop threads nor a call disturbs nothing.
LEMMA CalmInv ==
  ASSUME OverlapInv, ThreadsOK', UNCHANGED runVars, Live' = Live,
         \A c \in Caller : at'[c] = at[c] \/ {at[c], at'[c]} \cap CallPlace = {}
  PROVE  OverlapInv'
<1>1. Starters' = Starters
  BY DEF Starters, CallPlace
<1>2. Weight' = Weight /\ Allowed' = Allowed
  BY <1>1 DEF Weight, Allowed, runVars
<1>3. \A c \in Caller : Minds(c) => Minds(c)'
  BY DEF Minds, CallPlace, runVars
<1>4. (\E c \in Caller : at'[c] \in {"make", "launch"})
        => \E c \in Caller : at[c] \in {"make", "launch"}
  BY DEF CallPlace
<1>5. loopThread' = loopThread /\ running' = running
  BY DEF runVars
<1>6. QED
  BY <1>1, <1>2, <1>3, <1>4, <1>5 DEF OverlapInv

\* Room for one more: the rest of the invariant is there for when this fails.
LEMMA RoomInv ==
  ASSUME ThreadsOK', IsFiniteSet(Live'), IsFiniteSet(Starters'), Weight' \in Nat,
         Weight' <= Allowed'
  PROVE  OverlapInv'
<1>1. timeouts' \in Nat /\ crossed' \in Nat
  BY DEF ThreadsOK
<1>2. Allowed' \in Nat
  <2>1. \A t, x \in Nat : t + x \in Nat
    OBVIOUS
  <2>2. timeouts' + crossed' \in Nat
    BY <1>1, <2>1, Zenon
  <2>3. QED
    BY <2>2 DEF Allowed
<1>3. Weight' <= 1 + Allowed'
  <2>1. \A w, a \in Nat : w <= a => w <= 1 + a
    OBVIOUS
  <2>2. QED
    BY <1>2, <2>1
<1>4. QED
  BY <1>3 DEF OverlapInv

\* A step of p that neither starts nor ends a loop thread nor touches a call.
Walks(p) ==
  /\ \E x \in CyclePlace : at' = [at EXCEPT ![p] = x] /\ (p # User => x # "off")
  /\ at[p] \in CyclePlace /\ (p # User => at[p] # "off")
  /\ UNCHANGED runVars

LEMMA WalkInv ==
  ASSUME OverlapInv, NEW p \in Proc, Walks(p)
  PROVE  OverlapInv'
<1>1. PICK x \in CyclePlace : at' = [at EXCEPT ![p] = x] /\ (p # User => x # "off")
  BY DEF Walks
<1>2. ThreadsOK'
  BY <1>1 DEF Walks, runVars, OverlapInv, ThreadsOK, CyclePlace
<1>3. at \in [Actor -> Place] /\ p \in Actor
  BY DEF OverlapInv, ThreadsOK, Actor
<1>4. \A t \in Thread : Alive(t) <=> Alive(t)'
  <2>1. SUFFICES ASSUME NEW t \in Thread PROVE Alive(t) <=> Alive(t)'
    OBVIOUS
  <2>2. CASE t # p
    BY <1>1, <1>3, <2>2, ActorFacts DEF Alive
  <2>3. CASE t = p
    <3>1. p # User
      BY <2>3, ActorFacts
    <3>2. at'[t] = x /\ x \notin {"off", "new"} /\ at[t] \notin {"off", "new"}
      BY <1>1, <1>3, <2>3, <3>1, ActorFacts DEF Walks, CyclePlace
    <3>3. QED
      BY <3>2 DEF Alive
  <2>4. QED
    BY <2>2, <2>3
<1>5. Live' = Live
  BY <1>4 DEF Live
<1>6. \A c \in Caller : at'[c] = at[c] \/ {at[c], at'[c]} \cap CallPlace = {}
  BY <1>1, <1>3, ActorFacts DEF Walks, CyclePlace
<1>7. QED
  BY <1>2, <1>5, <1>6, CalmInv DEF Walks

LEMMA OverlapInit == Init => OverlapInv
<1> SUFFICES ASSUME Init PROVE OverlapInv
  OBVIOUS
<1>1. at \in [Actor -> Place] /\ \A p \in Actor : at[p] = "off"
  BY DEF Init, Place
<1>2. Live = {} /\ Starters = {}
  BY <1>1, ActorFacts DEF Live, Alive, Starters
<1>3. IsFiniteSet(Live) /\ IsFiniteSet(Starters) /\ Cardinality({}) = 0
  BY <1>2, FS_EmptySet
<1>4. ThreadsOK /\ timeouts = 0 /\ crossed = 0
  BY <1>1 DEF Init, ThreadsOK
<1>5. Weight = 0 /\ Allowed = 0
  BY <1>2, <1>3, <1>4 DEF Weight, Allowed
<1>6. QED
  BY <1>3, <1>4, <1>5 DEF OverlapInv

-----------------------------------------------------------------------------
(* Steps of a caller c.  They leave the loop threads alone, but for the launch. *)

\* The place of c changes, those of the threads do not.
LEMMA MoveFacts ==
  ASSUME OverlapInv, NEW c \in Caller, NEW x \in Place, at' = [at EXCEPT ![c] = x]
  PROVE  /\ at' \in [Actor -> Place] /\ at'[c] = x
         /\ \A d \in Actor : d # c => at'[d] = at[d]
         /\ Live' = Live
<1>1. at \in [Actor -> Place] /\ c \in Actor /\ c \notin Thread
  BY ActorFacts DEF OverlapInv, ThreadsOK
<1>2. /\ at' \in [Actor -> Place] /\ at'[c] = x
      /\ \A d \in Actor : d # c => at'[d] = at[d]
  BY <1>1
<1>3. \A t \in Thread : at'[t] = at[t]
  BY <1>1, <1>2, ActorFacts
<1>4. Live' = Live
  BY <1>3 DEF Live, Alive
<1>5. QED
  BY <1>2, <1>4

\* A call begins alone, or is counted.
LEMMA BeginFacts ==
  ASSUME OverlapInv, NEW c \in Caller, NEW x, Begin(c, x)
  PROVE  /\ crossed' \in Nat
         /\ \/ crossed' = crossed + 1
            \/ crossed' = crossed /\ \A d \in Caller : at[d] \notin CallPlace
BY DEF Begin, OverlapInv, ThreadsOK

\* With nobody in a call and _running off there is room for one thread.
LEMMA RoomWhenIdle ==
  ASSUME OverlapInv, ~running, \A d \in Caller : at[d] \notin CallPlace
  PROVE  Weight <= Allowed
<1>1. \A d \in Caller : ~Minds(d)
  BY DEF Minds, CallPlace
<1>2. QED
  BY <1>1 DEF OverlapInv

\* start, the test: one more start to come, either alone and with room, or counted.
LEMMA StartInv ==
  ASSUME OverlapInv, NEW c \in Caller, StartLoop(c)
  PROVE  OverlapInv'
<1>1. at' = [at EXCEPT ![c] = "set"] /\ at[c] = "off" /\ "set" \in Place
  BY DEF StartLoop, Begin, Place, CallPlace
<1>2. /\ at' \in [Actor -> Place] /\ at'[c] = "set" /\ Live' = Live
      /\ \A d \in Actor : d # c => at'[d] = at[d]
  BY <1>1, MoveFacts
<1>3. /\ crossed' \in Nat
      /\ \/ crossed' = crossed + 1
         \/ crossed' = crossed /\ \A d \in Caller : at[d] \notin CallPlace
  BY BeginFacts DEF StartLoop
<1>4. Starters' = Starters \cup {c} /\ c \notin Starters
  BY <1>1, <1>2, ActorFacts DEF Starters
<1>5. /\ IsFiniteSet(Starters')
      /\ Cardinality(Starters') = Cardinality(Starters) + 1
  BY <1>4, FS_AddElement DEF OverlapInv
<1>6. /\ Cardinality(Live) \in Nat /\ Cardinality(Starters) \in Nat
      /\ Weight \in Nat /\ Allowed \in Nat
  BY Counts
<1>7. /\ running = FALSE /\ running' = FALSE /\ timeouts' = timeouts
      /\ loopThread' = loopThread /\ joined' = joined
  BY DEF StartLoop, OverlapInv, ThreadsOK
<1>8. Weight' = Weight + 1
  BY <1>2, <1>5, <1>6 DEF Weight
<1>9. Weight' <= 1 + Allowed'
  <2>1. timeouts \in Nat /\ crossed \in Nat
    BY DEF OverlapInv, ThreadsOK
  <2>2. CASE crossed' = crossed + 1
    <3>1. Allowed' = Allowed + 1
      BY <1>7, <2>1, <2>2 DEF Allowed
    <3>2. Weight <= 1 + Allowed
      BY DEF OverlapInv
    <3>3. QED
      BY <1>6, <1>8, <3>1, <3>2
  <2>3. CASE crossed' = crossed /\ \A d \in Caller : at[d] \notin CallPlace
    <3>1. Weight <= Allowed
      BY <1>7, <2>3, RoomWhenIdle
    <3>2. Allowed' = Allowed
      BY <1>7, <2>3 DEF Allowed
    <3>3. QED
      BY <1>6, <1>8, <3>1, <3>2
  <2>4. QED
    BY <1>3, <2>2, <2>3
<1>10. (\E d \in Caller : at'[d] \in {"make", "launch"}) => Weight' <= Allowed'
  <2>1. SUFFICES ASSUME NEW d \in Caller, at'[d] \in {"make", "launch"}
                 PROVE  Weight' <= Allowed'
    OBVIOUS
  <2>2. at[d] \in {"make", "launch"}
    BY <1>2, <2>1, ActorFacts
  <2>3. Weight <= Allowed
    BY <1>7, <2>2 DEF OverlapInv
  <2>4. crossed' = crossed + 1
    BY <1>3, <2>2 DEF CallPlace
  <2>5. Allowed' = Allowed + 1
    BY <1>7, <2>4 DEF Allowed, OverlapInv, ThreadsOK
  <2>6. QED
    BY <1>6, <1>8, <2>3, <2>5
<1>11. Minds(c)'
  BY <1>2 DEF Minds
<1>12. ThreadsOK'
  BY <1>2, <1>3, <1>7 DEF OverlapInv, ThreadsOK
<1>13. IsFiniteSet(Live') /\ c \in Starters'
  BY <1>2, <1>4 DEF OverlapInv
<1>14. QED
  BY <1>5, <1>9, <1>10, <1>11, <1>12, <1>13 DEF OverlapInv

\* stop turns _running off: a crossing makes room, and if there is none c minds.
LEMMA StopInv ==
  ASSUME OverlapInv, NEW c \in Caller, StopLoop(c)
  PROVE  OverlapInv'
<1>1. at' = [at EXCEPT ![c] = "test"] /\ at[c] = "off" /\ "test" \in Place
  BY DEF StopLoop, Begin, Place, CallPlace
<1>2. /\ at' \in [Actor -> Place] /\ at'[c] = "test" /\ Live' = Live
      /\ \A d \in Actor : d # c => at'[d] = at[d]
  BY <1>1, MoveFacts
<1>3. /\ crossed' \in Nat
      /\ \/ crossed' = crossed + 1
         \/ crossed' = crossed /\ \A d \in Caller : at[d] \notin CallPlace
  BY BeginFacts DEF StopLoop
<1>4. Starters' = Starters
  BY <1>1, <1>2, ActorFacts DEF Starters
<1>5. /\ running' = FALSE /\ timeouts' = timeouts
      /\ loopThread' = loopThread /\ joined' = joined
  BY DEF StopLoop
<1>6. Weight' = Weight
  BY <1>2, <1>4 DEF Weight
<1>7. ThreadsOK'
  BY <1>2, <1>3, <1>5 DEF OverlapInv, ThreadsOK
<1>8. IsFiniteSet(Live') /\ IsFiniteSet(Starters') /\ Weight \in Nat /\ Allowed \in Nat
  BY <1>2, <1>4, Counts DEF OverlapInv
<1>9. Weight <= 1 + Allowed
  BY DEF OverlapInv
<1>10. CASE crossed' = crossed + 1
  <2>1. Allowed' = Allowed + 1
    BY <1>5, <1>10 DEF Allowed, OverlapInv, ThreadsOK
  <2>2. Weight' <= Allowed' /\ Weight' \in Nat
    BY <1>6, <1>8, <1>9, <2>1
  <2>3. QED
    BY <1>7, <1>8, <2>2, RoomInv
<1>11. CASE crossed' = crossed /\ \A d \in Caller : at[d] \notin CallPlace
  <2>1. Allowed' = Allowed
    BY <1>5, <1>11 DEF Allowed
  <2>2. Minds(c)'
    BY <1>2 DEF Minds
  <2>3. \A d \in Caller : at'[d] \notin {"make", "launch"}
    BY <1>2, <1>11, ActorFacts DEF CallPlace
  <2>4. Weight' <= Allowed' \/ Starters' # {} \/ loopThread' \in Live'
    BY <1>2, <1>4, <1>5, <1>6, <2>1 DEF OverlapInv
  <2>5. QED
    BY <1>6, <1>7, <1>8, <1>9, <2>1, <2>2, <2>3, <2>4 DEF OverlapInv
<1>12. QED
  BY <1>3, <1>10, <1>11

\* start, the assignment: _running is on.
LEMMA SetInv ==
  ASSUME OverlapInv, NEW c \in Caller, SetRunning(c)
  PROVE  OverlapInv'
<1>1. at' = [at EXCEPT ![c] = "make"] /\ at[c] = "set" /\ "make" \in Place
  BY DEF SetRunning, Place, CallPlace
<1>2. /\ at' \in [Actor -> Place] /\ at'[c] = "make" /\ Live' = Live
      /\ \A d \in Actor : d # c => at'[d] = at[d]
  BY <1>1, MoveFacts
<1>3. Starters' = Starters
  BY <1>1, <1>2, ActorFacts DEF Starters
<1>4. /\ running' = TRUE /\ UNCHANGED <<loopThread, joined, timeouts, crossed>>
  BY DEF SetRunning
<1>5. Weight' = Weight /\ Allowed' = Allowed
  BY <1>2, <1>3, <1>4 DEF Weight, Allowed
<1>6. ThreadsOK'
  BY <1>2, <1>4 DEF OverlapInv, ThreadsOK
<1>7. QED
  BY <1>2, <1>3, <1>4, <1>5, <1>6 DEF OverlapInv

\* start, the new thread: loopThread names it, and c is still to start one.
LEMMA MakeInv ==
  ASSUME OverlapInv, NEW c \in Caller, MakeThread(c)
  PROVE  OverlapInv'
<1>1. PICK t \in Thread :
        /\ at[t] \in {"off", "new"}
        /\ loopThread' = t
        /\ at' = [p \in Actor |-> IF p = c THEN "launch"
                                  ELSE IF p = t THEN "new"
                                  ELSE IF at[p] = "new" THEN "off" ELSE at[p]]
  <2>1. (CHOOSE x \in Unused : TRUE) \in Unused
    BY DEF MakeThread
  <2>2. QED
    BY <2>1 DEF MakeThread, Unused
<1>2. at \in [Actor -> Place] /\ c \in Actor /\ c \notin Thread /\ at[c] = "make"
  BY ActorFacts DEF OverlapInv, ThreadsOK, MakeThread
<1>3. at' \in [Actor -> Place]
  BY <1>1, <1>2 DEF Place, CallPlace
<1>4. \A x \in Thread : Alive(x) <=> Alive(x)'
  BY <1>1, <1>2, ActorFacts DEF Alive
<1>5. Live' = Live
  BY <1>4 DEF Live
<1>6. \A d \in Caller : at'[d] \in {"set", "make", "launch"} <=> at[d] \in {"set", "make", "launch"}
  BY <1>1, <1>2, ActorFacts
<1>7. Starters' = Starters /\ c \in Starters
  BY <1>2, <1>6 DEF Starters
<1>8. UNCHANGED <<running, joined, timeouts, crossed>>
  BY DEF MakeThread
<1>9. Weight' = Weight /\ Allowed' = Allowed
  BY <1>5, <1>7, <1>8 DEF Weight, Allowed
<1>10. ThreadsOK'
  BY <1>1, <1>3, <1>8 DEF OverlapInv, ThreadsOK
<1>11. ~running => Weight <= Allowed
  BY <1>2 DEF OverlapInv
<1>12. QED
  BY <1>5, <1>7, <1>8, <1>9, <1>10, <1>11 DEF OverlapInv

\* start, the launch: what was still to come has come, or has raised.
LEMMA LaunchInv ==
  ASSUME OverlapInv, NEW c \in Caller, LaunchThread(c)
  PROVE  OverlapInv'
<1>1. at \in [Actor -> Place] /\ c \in Actor /\ c \notin Thread /\ at[c] = "launch"
  BY ActorFacts DEF OverlapInv, ThreadsOK, LaunchThread
<1>2. UNCHANGED <<running, loopThread, joined, timeouts, crossed>>
  BY DEF LaunchThread, runVars
<1>3. c \in Starters
  BY <1>1 DEF Starters
<1>4. ASSUME Starters' = Starters \ {c}
      PROVE  IsFiniteSet(Starters') /\ Cardinality(Starters') = Cardinality(Starters) - 1
  BY <1>3, <1>4, FS_RemoveElement DEF OverlapInv
<1>5. /\ Cardinality(Live) \in Nat /\ Cardinality(Starters) \in Nat
      /\ Weight \in Nat /\ Allowed \in Nat /\ Weight <= 1 + Allowed
  BY Counts DEF OverlapInv
<1>6. Allowed' = Allowed
  BY <1>2 DEF Allowed
<1>7. CASE loopThread \in Thread /\ at[loopThread] = "new"
  <2>1. at' = [at EXCEPT ![c] = "off", ![loopThread] = "top"] /\ loopThread # c
    BY <1>1, <1>7 DEF LaunchThread
  <2>2. /\ at' \in [Actor -> Place] /\ at'[c] = "off" /\ at'[loopThread] = "top"
        /\ \A d \in Actor \ {c, loopThread} : at'[d] = at[d]
    BY <1>1, <1>7, <2>1, ActorFacts DEF Place
  <2>3. Live' = Live \cup {loopThread} /\ loopThread \notin Live
    BY <1>1, <1>7, <2>2, ActorFacts DEF Live, Alive
  <2>4. \A d \in Caller \ {c} : at'[d] = at[d]
    BY <1>7, <2>2, ActorFacts
  <2>5. Starters' = Starters \ {c}
    BY <2>2, <2>4 DEF Starters
  <2>6. IsFiniteSet(Live') /\ Cardinality(Live') = Cardinality(Live) + 1
    BY <2>3, FS_AddElement DEF OverlapInv
  <2>7. Weight' = Weight
    BY <1>4, <1>5, <2>5, <2>6 DEF Weight
  <2>8. ~running => Weight <= Allowed
    BY <1>1 DEF OverlapInv
  <2>9. ThreadsOK'
    BY <1>2, <2>2 DEF OverlapInv, ThreadsOK
  <2>10. QED
    BY <1>2, <1>4, <1>5, <1>6, <2>3, <2>5, <2>6, <2>7, <2>8, <2>9 DEF OverlapInv
<1>8. CASE ~(loopThread \in Thread /\ at[loopThread] = "new")
  <2>1. at' = [at EXCEPT ![c] = "off"]
    <3>1. CASE loopThread \in Thread
      BY <1>1, <1>8, <3>1, ActorFacts DEF LaunchThread
    <3>2. CASE loopThread = None
      BY <1>1, <3>2, AgentMainAssumption DEF LaunchThread
    <3>3. QED
      BY <3>1, <3>2 DEF OverlapInv, ThreadsOK
  <2>2. /\ at' \in [Actor -> Place] /\ at'[c] = "off" /\ Live' = Live
        /\ \A d \in Actor : d # c => at'[d] = at[d]
    BY <2>1, MoveFacts DEF Place
  <2>3. Starters' = Starters \ {c}
    BY <2>2, ActorFacts DEF Starters
  <2>4. Weight' = Weight - 1
    BY <1>4, <1>5, <2>2, <2>3 DEF Weight
  <2>5. Weight' <= Allowed' /\ Weight' \in Nat
    <3>1. Cardinality(Starters) - 1 \in Nat
      <4>1. IsFiniteSet(Starters')
        BY <1>4, <2>3
      <4>2. Cardinality(Starters') \in Nat
        BY <4>1, FS_CardinalityType
      <4>3. QED
        BY <1>4, <2>3, <4>2
    <3>2. QED
      BY <1>5, <1>6, <2>4, <3>1 DEF Weight
  <2>6. ThreadsOK'
    BY <1>2, <2>2 DEF OverlapInv, ThreadsOK
  <2>7. IsFiniteSet(Live') /\ IsFiniteSet(Starters')
    BY <1>4, <2>2, <2>3 DEF OverlapInv
  <2>8. QED
    BY <2>5, <2>6, <2>7, RoomInv
<1>9. QED
  BY <1>7, <1>8

\* A caller moves on in its stop: if it minded, it still does or the thread has ended.
LEMMA ShiftInv ==
  ASSUME OverlapInv, NEW c \in Caller, NEW x \in Place, at' = [at EXCEPT ![c] = x],
         {at[c], x} \cap {"set", "make", "launch"} = {}, ThreadsOK',
         UNCHANGED <<running, loopThread, timeouts, crossed>>,
         \A d \in Caller : d # c => joined'[d] = joined[d],
         loopThread \in Live /\ Minds(c) => Minds(c)'
  PROVE  OverlapInv'
<1>1. /\ at'[c] = x /\ Live' = Live
      /\ \A d \in Caller : d # c => at'[d] = at[d]
  BY MoveFacts, ActorFacts
<1>2. Starters' = Starters
  BY <1>1 DEF Starters
<1>3. Weight' = Weight /\ Allowed' = Allowed
  BY <1>1, <1>2 DEF Weight, Allowed
<1>4. \A d \in Caller : d # c /\ Minds(d) => Minds(d)'
  BY <1>1 DEF Minds
<1>5. (\E d \in Caller : at'[d] \in {"make", "launch"})
        => \E d \in Caller : at[d] \in {"make", "launch"}
  BY <1>1
<1>6. ASSUME ~running, ~(Weight <= Allowed)
      PROVE  \E d \in Caller : Minds(d)'
  <2>1. \A d \in Caller : at[d] \notin {"make", "launch"}
    BY <1>6 DEF OverlapInv
  <2>2. CASE Starters # {}
    <3>1. PICK d \in Caller : at[d] = "set"
      BY <2>1, <2>2 DEF Starters
    <3>2. d # c /\ Minds(d)
      BY <3>1 DEF Minds
    <3>3. QED
      BY <1>4, <3>2
  <2>3. CASE Starters = {}
    <3>1. loopThread \in Live
      BY <1>6, <2>3 DEF OverlapInv
    <3>2. PICK d \in Caller : Minds(d)
      BY <1>6 DEF OverlapInv
    <3>3. QED
      BY <1>4, <3>1, <3>2
  <2>4. QED
    BY <2>2, <2>3
<1>7. IsFiniteSet(Live') /\ IsFiniteSet(Starters') /\ Weight' <= 1 + Allowed'
  BY <1>1, <1>2, <1>3 DEF OverlapInv
<1>8. Weight' <= Allowed' \/ Starters' # {} \/ loopThread' \in Live'
  BY <1>1, <1>2, <1>3 DEF OverlapInv
<1>9. (~running' /\ \E d \in Caller : at'[d] \in {"make", "launch"}) => Weight' <= Allowed'
  BY <1>3, <1>5 DEF OverlapInv
<1>10. ~running' => Weight' <= Allowed' \/ \E d \in Caller : Minds(d)'
  BY <1>3, <1>6
<1>11. QED
  BY <1>7, <1>8, <1>9, <1>10 DEF OverlapInv

\* stop, the test: it passes if the thread runs.
LEMMA TestInv ==
  ASSUME OverlapInv, NEW c \in Caller, TestAlive(c)
  PROVE  OverlapInv'
<1> DEFINE x == IF Alive(loopThread) THEN "enter" ELSE "off"
<1>1. at' = [at EXCEPT ![c] = x] /\ at[c] = "test" /\ x \in Place
  BY DEF TestAlive, Place, CallPlace
<1>2. UNCHANGED <<running, loopThread, joined, timeouts, crossed>>
  BY DEF TestAlive, runVars
<1>3. at' \in [Actor -> Place] /\ at'[c] = x
  BY <1>1, MoveFacts
<1>4. ThreadsOK'
  BY <1>2, <1>3 DEF OverlapInv, ThreadsOK
<1>5. loopThread \in Live => Minds(c)'
  BY <1>3 DEF Live, Minds
<1>6. {at[c], x} \cap {"set", "make", "launch"} = {}
  BY <1>1
<1> HIDE DEF x
<1>7. QED
  BY <1>1, <1>2, <1>4, <1>5, <1>6, ShiftInv

\* stop, the join: of whatever loopThread names now.
LEMMA EnterInv ==
  ASSUME OverlapInv, NEW c \in Caller, EnterJoin(c)
  PROVE  OverlapInv'
<1>1. at[c] = "enter" /\ UNCHANGED <<running, loopThread, timeouts, crossed>>
  BY DEF EnterJoin
<1>2. CASE at[loopThread] = "new" /\ at' = [at EXCEPT ![c] = "off"] /\ UNCHANGED joined
  <2>1. at' \in [Actor -> Place]
    BY <1>2, MoveFacts DEF Place
  <2>2. ThreadsOK'
    BY <1>1, <1>2, <2>1 DEF OverlapInv, ThreadsOK
  <2>3. loopThread \notin Live
    BY <1>2 DEF Live, Alive
  <2>4. "off" \in Place
    BY DEF Place
  <2>5. QED
    BY <1>1, <1>2, <2>2, <2>3, <2>4, ShiftInv
<1>3. CASE /\ at' = [at EXCEPT ![c] = "join"]
           /\ joined' = [joined EXCEPT ![c] = loopThread]
  <2>1. at' \in [Actor -> Place] /\ at'[c] = "join" /\ "join" \in Place
    BY <1>3, MoveFacts DEF Place, CallPlace
  <2>2. joined \in [Caller -> Thread \cup {None}]
    BY DEF OverlapInv, ThreadsOK
  <2>3. joined'[c] = loopThread /\ \A d \in Caller : d # c => joined'[d] = joined[d]
    BY <1>3, <2>2
  <2>4. ThreadsOK'
    BY <1>1, <1>3, <2>1 DEF OverlapInv, ThreadsOK
  <2>5. Minds(c)'
    BY <1>1, <2>1, <2>3 DEF Minds
  <2>6. QED
    BY <1>1, <1>3, <2>1, <2>3, <2>4, <2>5, ShiftInv
<1>4. QED
  BY <1>2, <1>3 DEF EnterJoin

\* stop returns: with the thread, or after a timeout that is counted.
LEMMA JoinInv ==
  ASSUME OverlapInv, NEW c \in Caller, Join(c)
  PROVE  OverlapInv'
<1>1. /\ at[c] = "join" /\ at' = [at EXCEPT ![c] = "off"] /\ "off" \in Place
      /\ joined' = [joined EXCEPT ![c] = None]
      /\ UNCHANGED <<running, loopThread, crossed>>
  BY DEF Join, Place
<1>2. /\ at' \in [Actor -> Place] /\ at'[c] = "off" /\ Live' = Live
      /\ \A d \in Actor : d # c => at'[d] = at[d]
  BY <1>1, MoveFacts
<1>3. \A d \in Caller : d # c => joined'[d] = joined[d]
  BY <1>1 DEF OverlapInv, ThreadsOK
<1>4. joined' \in [Caller -> Thread \cup {None}]
  BY <1>1 DEF OverlapInv, ThreadsOK
<1>5. CASE at[joined[c]] = "off" /\ timeouts' = timeouts
  <2>1. joined[c] \notin Live
    BY <1>5 DEF Live, Alive
  <2>2. ~(loopThread \in Live /\ Minds(c))
    BY <1>1, <2>1 DEF Minds
  <2>3. ThreadsOK'
    BY <1>1, <1>2, <1>4, <1>5 DEF OverlapInv, ThreadsOK
  <2>4. QED
    BY <1>1, <1>3, <1>5, <2>2, <2>3, ShiftInv
<1>6. CASE timeouts' = timeouts + 1
  <2>1. Starters' = Starters
    BY <1>1, <1>2, ActorFacts DEF Starters
  <2>2. Weight' = Weight
    BY <1>2, <2>1 DEF Weight
  <2>3. timeouts' \in Nat /\ Allowed' = Allowed + 1
    BY <1>1, <1>6 DEF Allowed, OverlapInv, ThreadsOK
  <2>4. ThreadsOK'
    BY <1>1, <1>2, <1>4, <2>3 DEF OverlapInv, ThreadsOK
  <2>5. Weight' \in Nat /\ Weight' <= Allowed'
    <3>1. Weight <= 1 + Allowed
      BY DEF OverlapInv
    <3>2. QED
      BY <2>2, <2>3, <3>1, Counts
  <2>6. IsFiniteSet(Live') /\ IsFiniteSet(Starters')
    BY <1>2, <2>1 DEF OverlapInv
  <2>7. QED
    BY <2>4, <2>5, <2>6, RoomInv
<1>7. QED
  BY <1>5, <1>6 DEF Join

-----------------------------------------------------------------------------
(* Steps of the loop threads and of the user. *)

LEMMA TopInv ==
  ASSUME OverlapInv, NEW t \in Thread, Top(t)
  PROVE  OverlapInv'
<1>1. t \in Proc /\ t \in Actor /\ t # User /\ t \notin Caller /\ at \in [Actor -> Place]
  BY ActorFacts DEF Thread, OverlapInv, ThreadsOK
<1>2. CASE at' = [at EXCEPT ![t] = First(Due(cycle'[t]))]
  <2>1. First(Due(cycle'[t])) \in CyclePlace \ {"off"}
    BY DueFacts
  <2>2. "top" \in CyclePlace
    BY DEF CyclePlace, Place, CallPlace
  <2>3. Walks(t)
    BY <1>1, <1>2, <2>1, <2>2 DEF Top, Walks
  <2>4. QED
    BY <1>1, <2>3, WalkInv
<1>3. CASE at' = [at EXCEPT ![t] = "off"]
  <2>1. at' \in [Actor -> Place] /\ \A d \in Actor : at'[d] = IF d = t THEN "off" ELSE at[d]
    BY <1>1, <1>3 DEF Place
  <2>2. Live' = Live \ {t} /\ t \in Live
    BY <1>1, <2>1, ActorFacts DEF Live, Alive, Top
  <2>3. Starters' = Starters
    BY <1>1, <2>1, ActorFacts DEF Starters
  <2>4. IsFiniteSet(Live') /\ Cardinality(Live') = Cardinality(Live) - 1
    BY <2>2, FS_RemoveElement DEF OverlapInv
  <2>5. UNCHANGED <<running, loopThread, joined, timeouts, crossed>>
    BY DEF Top, runVars
  <2>6. ThreadsOK' /\ Allowed' = Allowed
    BY <2>1, <2>5 DEF OverlapInv, ThreadsOK, Allowed
  <2>7. Weight' \in Nat /\ Weight' <= Allowed'
    <3>1. Cardinality(Live') \in Nat
      BY <2>4, FS_CardinalityType
    <3>2. Weight <= 1 + Allowed
      BY DEF OverlapInv
    <3>3. QED
      BY <2>3, <2>4, <2>6, <3>1, <3>2, Counts DEF Weight
  <2>8. IsFiniteSet(Starters')
    BY <2>3 DEF OverlapInv
  <2>9. QED
    BY <2>4, <2>6, <2>7, <2>8, RoomInv
<1>4. QED
  BY <1>2, <1>3 DEF Top

LEMMA CrashAllInv ==
  ASSUME OverlapInv, CrashAll
  PROVE  OverlapInv'
<1>1. at' \in [Actor -> Place] /\ \A p \in Actor : at'[p] = "off"
  BY DEF CrashAll, Place
<1>2. Live' = {} /\ Starters' = {}
  BY <1>1, ActorFacts DEF Live, Alive, Starters
<1>3. /\ running' = FALSE /\ loopThread' = None /\ timeouts' = timeouts /\ crossed' = crossed
      /\ joined' \in [Caller -> Thread \cup {None}]
  BY DEF CrashAll
<1>4. IsFiniteSet({}) /\ Cardinality({}) = 0
  BY FS_EmptySet
<1>5. timeouts \in Nat /\ crossed \in Nat
  BY DEF OverlapInv, ThreadsOK
<1>6. Allowed' \in Nat
  <2>1. Allowed' = timeouts + crossed
    BY <1>3 DEF Allowed
  <2>2. QED
    BY <1>5, <2>1
<1>7. ThreadsOK'
  <2>1. timeouts' \in Nat /\ crossed' \in Nat
    BY <1>3, <1>5
  <2>2. running' \in BOOLEAN /\ loopThread' \in Thread \cup {None}
    BY <1>3
  <2>3. QED
    BY <1>1, <1>3, <2>1, <2>2 DEF ThreadsOK
<1>8. Weight' = 0
  BY <1>2, <1>4 DEF Weight
<1>9. QED
  BY <1>2, <1>4, <1>6, <1>7, <1>8, RoomInv

\* What the threads do within a cycle, and the user within a call.
LEMMA StepWalks ==
  ASSUME OverlapInv, NEW p \in Proc,
         \/ p # User /\ (LoopEvolve(p) \/ Ask(p) \/ LoopExplore(p) \/ LoopRecord(p))
         \/ Saving(p) \/ SyncRead(p) \/ SyncValues(p) \/ SyncGoals(p) \/ SyncFails(p)
  PROVE  Walks(p)
<1>1. \A s : After(p, s) \in CyclePlace /\ (p # User => After(p, s) # "off")
  BY AfterFacts
<1>2. {"top", "saving", "record", "values", "goals"} \cup Stage \subseteq CyclePlace \ {"off"}
  BY StageFacts DEF CyclePlace, Place, CallPlace, StagePlaces
<1>3. {"evolve", "task", "question", "explore", "sync"} = Stage
  BY StageFacts DEF StagePlaces
<1>4. ASSUME p # User, LoopEvolve(p) PROVE Walks(p)
  BY <1>1, <1>2, <1>3, <1>4 DEF LoopEvolve, Called, Walks
<1>5. ASSUME p # User, Ask(p) PROVE Walks(p)
  BY <1>1, <1>2, <1>3, <1>5 DEF Ask, Raise, GoOn, Walks
<1>6. ASSUME p # User, LoopExplore(p) PROVE Walks(p)
  BY <1>1, <1>2, <1>3, <1>6 DEF LoopExplore, Raise, GoOn, Walks
<1>7. ASSUME p # User, LoopRecord(p) PROVE Walks(p)
  BY <1>1, <1>2, <1>7 DEF LoopRecord, Raise, GoOn, Walks
<1>8. ASSUME Saving(p) PROVE Walks(p)
  BY <1>1, <1>2, <1>8 DEF Saving, GoOn, Walks
<1>9. ASSUME SyncRead(p) \/ SyncValues(p) PROVE Walks(p)
  BY <1>2, <1>3, <1>9 DEF SyncRead, SyncValues, Walks
<1>10. ASSUME SyncGoals(p) \/ SyncFails(p) PROVE Walks(p)
  BY <1>1, <1>2, <1>10 DEF SyncGoals, SyncFails, GoOn, Walks
<1>11. QED
  BY <1>4, <1>5, <1>6, <1>7, <1>8, <1>9, <1>10

LEMMA UserWalks ==
  ASSUME OverlapInv, UserEvolve \/ UserTeach
  PROVE  Walks(User)
<1>1. \A s : After(User, s) \in CyclePlace
  BY AfterFacts, AgentMainAssumption
<1>2. {"saving", "off"} \subseteq CyclePlace
  BY DEF CyclePlace, Place, CallPlace
<1>3. QED
  BY <1>1, <1>2 DEF UserEvolve, UserTeach, Called, Walks

LEMMA OverlapStep == OverlapInv /\ [Next]_vars => OverlapInv'
<1> SUFFICES ASSUME OverlapInv, [Next]_vars PROVE OverlapInv'
  OBVIOUS
<1> User \in Proc
  BY AgentMainAssumption
<1>1. ASSUME NEW p \in Proc, Step(p) PROVE OverlapInv'
  <2>1. CASE p # User /\ Top(p)
    BY <2>1, TopInv DEF Thread
  <2>2. CASE ~(p # User /\ Top(p))
    <3>1. Walks(p)
      BY <1>1, <2>2, StepWalks DEF Step
    <3>2. QED
      BY <3>1, WalkInv
  <2>3. QED
    BY <2>1, <2>2
<1>2. CASE UserEvolve \/ UserTeach
  BY <1>2, UserWalks, WalkInv
<1>3. ASSUME NEW c \in Caller, StartLoop(c) \/ StopLoop(c) PROVE OverlapInv'
  BY <1>3, StartInv, StopInv
<1>4. ASSUME NEW c \in Caller, CallStep(c) PROVE OverlapInv'
  BY <1>4, SetInv, MakeInv, LaunchInv, TestInv, EnterInv, JoinInv DEF CallStep
<1>5. CASE CrashAll
  BY <1>5, CrashAllInv
<1>6. ASSUME UNCHANGED <<runVars, at>> PROVE OverlapInv'
  <2>1. ThreadsOK' /\ Live' = Live
    BY <1>6 DEF OverlapInv, ThreadsOK, Live, Alive, runVars
  <2>2. QED
    BY <1>6, <2>1, CalmInv
<1>7. ASSUME NEW x \in Topic, UserExplore(x) \/ AddToBlacklist(x) PROVE OverlapInv'
  BY <1>6, <1>7 DEF UserExplore, AddToBlacklist
<1>8. CASE UNCHANGED vars
  BY <1>6, <1>8 DEF vars, mainVars
<1>9. QED
  BY <1>1, <1>2, <1>3, <1>4, <1>5, <1>7, <1>8 DEF Next, UserCall

\* Every loop thread beyond the first is owed to a join that ran into its timeout or to a call
\* of start or stop that began inside another caller's, for any number of threads and callers.
THEOREM OverlapNeedsCause == Spec => []OverlapIsOwed
<1>1. Spec => []OverlapInv
  BY OverlapInit, OverlapStep, PTL DEF Spec
<1>2. OverlapInv => OverlapIsOwed
  <2>1. SUFFICES ASSUME OverlapInv PROVE Cardinality(Live) <= 1 + timeouts + crossed
    BY DEF OverlapIsOwed, Live
  <2>2. /\ Cardinality(Live) \in Nat /\ Cardinality(Starters) \in Nat
        /\ timeouts \in Nat /\ crossed \in Nat
    BY <2>1, Counts DEF OverlapInv, ThreadsOK
  <2>3. Cardinality(Live) + Cardinality(Starters) <= 1 + (timeouts + crossed)
    BY <2>1 DEF OverlapInv, Weight, Allowed
  <2>4. QED
    BY <2>2, <2>3
<1>3. QED
  BY <1>1, <1>2, PTL

-----------------------------------------------------------------------------
(* Types of the agent's state.  Timeouts and crossings count among the events.          *)

Copy == [values : [Key -> Value], goals : SUBSET Goal]

DataOK ==
  /\ cycle \in [Thread -> 0..Period]
  /\ seen \in [Proc -> Copy] /\ capsule \in Copy
  /\ blacklist \subseteq Topic /\ explored \subseteq Topic

DataInv == DataOK /\ timeouts + crossed <= events

LEMMA EventsGrow ==
  ASSUME IdInv, [IdNext]_idVars
  PROVE  events' \in Nat /\ events' >= events
<1> events \in Nat
  BY IdentityAssumption DEF IdInv, SavingOK
<1> DEFINE Grows == events' \in Nat /\ events' >= events
<1>1. ASSUME NEW p \in Proc, NEW cost \in 0..1, Save(p, cost)
      PROVE  Grows
  BY <1>1 DEF Save
<1>2. ASSUME NEW p \in Proc, Teach(p)
      PROVE  Grows
  <2>1. Save(p, 1) /\ 1 \in 0..1
    BY <1>2, TeachFacts DEF IdInv
  <2>2. QED
    BY <1>1, <2>1
<1>3. ASSUME NEW p \in Proc, SaveStep(p)
      PROVE  Grows
  BY <1>3 DEF SaveStep, SaveEnds, SaveFails, Event
<1>4. ASSUME NEW p \in Proc, NEW cost \in 0..1, Evolve(p, cost)
      PROVE  Grows
  BY <1>1, <1>4 DEF Evolve
<1>5. QED
  BY <1>2, <1>3, <1>4 DEF IdNext, Crash, Elsewhere, Event, idVars

LEMMA UnreadFacts == Unread \in Copy /\ 0 \in Value
BY IdentityAssumption DEF Unread, Copy

LEMMA DataInit == Init => DataInv
BY UnreadFacts, AgentMainAssumption DEF Init, IdInit, DataInv, DataOK

LEMMA DataStep == IdTypeOK /\ DataInv /\ [Next]_vars => DataOK'
<1> SUFFICES ASSUME IdTypeOK, DataInv, [Next]_vars PROVE DataOK'
  OBVIOUS
<1> USE DEF DataInv, DataOK
<1>1. ASSUME NEW t \in Thread, Top(t) PROVE DataOK'
  <2>1. (cycle[t] % Period) + 1 \in 0..Period
    BY AgentMainAssumption
  <2>2. 0 \in 0..Period
    BY AgentMainAssumption
  <2>3. QED
    BY <1>1, <2>1, <2>2 DEF Top, syncVars, topicVars
<1>2. ASSUME NEW p \in Proc, LoopEvolve(p) \/ Ask(p) \/ LoopExplore(p) \/ Saving(p)
      PROVE  DataOK'
  BY <1>2 DEF LoopEvolve, Ask, LoopExplore, Saving, syncVars, topicVars
<1>3. ASSUME NEW p \in Proc, LoopRecord(p) PROVE DataOK'
  BY <1>3 DEF LoopRecord, syncVars
<1>4. ASSUME NEW p \in Proc, SyncRead(p) PROVE DataOK'
  <2>1. Self \in Copy
    BY DEF Self, Copy, IdTypeOK, CurType
  <2>2. QED
    BY <1>4, <2>1 DEF SyncRead, topicVars
<1>5. ASSUME NEW p \in Proc, SyncFails(p) PROVE DataOK'
  BY <1>5, UnreadFacts DEF SyncFails, topicVars
<1>6. ASSUME NEW p \in Proc, SyncValues(p) \/ SyncGoals(p) PROVE DataOK'
  <2>1. capsule' \in Copy
    BY <1>6 DEF SyncValues, SyncGoals, Copy
  <2>2. seen' \in [Proc -> Copy]
    BY <1>6, UnreadFacts DEF SyncValues, SyncGoals
  <2>3. QED
    BY <1>6, <2>1, <2>2 DEF SyncValues, SyncGoals, topicVars
<1>7. ASSUME NEW c \in Caller,
             UserEvolve \/ UserTeach \/ StartLoop(c) \/ StopLoop(c) \/ CallStep(c)
      PROVE  DataOK'
  <2>1. UNCHANGED <<cycle, syncVars, topicVars>>
    BY <1>7 DEF UserEvolve, UserTeach, StopLoop, StartLoop, CallStep, SetRunning, MakeThread,
                LaunchThread, TestAlive, EnterJoin, Join
  <2>2. QED
    BY <2>1 DEF syncVars, topicVars
<1>12. CASE UserEvolve \/ UserTeach
  BY <1>12 DEF UserEvolve, UserTeach, syncVars, topicVars
<1>8. ASSUME NEW x \in Topic, UserExplore(x) \/ AddToBlacklist(x) PROVE DataOK'
  BY <1>8 DEF UserExplore, AddToBlacklist, syncVars
<1>9. CASE CrashAll
  BY <1>9, UnreadFacts, AgentMainAssumption DEF CrashAll
<1>10. CASE UNCHANGED vars
  BY <1>10 DEF vars, mainVars
<1>11. QED
  BY <1>1, <1>2, <1>3, <1>4, <1>5, <1>6, <1>7, <1>8, <1>9, <1>10, <1>12
     DEF Next, Step, UserCall, Thread

LEMMA CountStep ==
  ASSUME IdInv, ThreadsOK, timeouts + crossed <= events, [Next]_vars
  PROVE  timeouts' + crossed' <= events'
<1>1. /\ events \in Nat /\ events' \in Nat
      /\ events' >= events
  BY EventsGrow, IdentityStep, IdentityAssumption DEF IdInv, SavingOK
<1>2. timeouts \in Nat /\ crossed \in Nat
  BY DEF ThreadsOK
<1>3. ASSUME NEW c \in Caller, Join(c) PROVE timeouts' + crossed' <= events'
  BY <1>1, <1>2, <1>3 DEF Join, Event
<1>4. ASSUME NEW c \in Caller, StartLoop(c) \/ StopLoop(c)
      PROVE  timeouts' + crossed' <= events'
  BY <1>1, <1>2, <1>4 DEF StartLoop, StopLoop, Begin, Event
<1>5. ASSUME timeouts' = timeouts, crossed' = crossed PROVE timeouts' + crossed' <= events'
  BY <1>1, <1>2, <1>5
<1>6. ASSUME NEW c \in Caller,
             \/ SetRunning(c) \/ MakeThread(c) \/ LaunchThread(c)
             \/ TestAlive(c) \/ EnterJoin(c)
      PROVE  timeouts' + crossed' <= events'
  BY <1>5, <1>6 DEF SetRunning, MakeThread, LaunchThread, TestAlive, EnterJoin, runVars
<1>7. ASSUME NEW p \in Proc, Step(p) PROVE timeouts' + crossed' <= events'
  BY <1>5, <1>7 DEF Step, Top, LoopEvolve, Ask, LoopExplore, LoopRecord, Saving, SyncRead,
                    SyncValues, SyncGoals, SyncFails, runVars
<1>8. CASE UserCall
  BY <1>5, <1>8 DEF UserCall, UserEvolve, UserTeach, UserExplore, AddToBlacklist, runVars
<1>9. CASE CrashAll \/ UNCHANGED vars
  BY <1>5, <1>9 DEF CrashAll, vars, mainVars, runVars
<1>10. QED
  BY <1>3, <1>4, <1>6, <1>7, <1>8, <1>9 DEF Next, CallStep

\* The types of the agent's state are kept by every step.
THEOREM AgentTypes == Spec => []TypeOK
<1>1. Spec => [](IdInv /\ IdTypeOK)
  BY AgentImplementsIdentity, IdentityInvariant, IdentityTypes, PTL
<1>2. Spec => []OverlapInv
  BY OverlapInit, OverlapStep, PTL DEF Spec
<1>3. IdInv /\ IdTypeOK /\ OverlapInv /\ DataInv /\ [Next]_vars => DataInv'
  BY DataStep, CountStep DEF DataInv, OverlapInv
<1>4. Spec => []DataInv
  BY <1>1, <1>2, <1>3, DataInit, PTL DEF Spec
<1>5. IdTypeOK /\ OverlapInv /\ DataInv => TypeOK
  <2>1. SUFFICES ASSUME IdTypeOK, OverlapInv, DataInv PROVE TypeOK
    OBVIOUS
  <2>2. timeouts + crossed <= MaxEvents
    BY <2>1, IdentityAssumption DEF IdTypeOK, OverlapInv, ThreadsOK, DataInv
  <2>3. QED
    BY <2>1, <2>2 DEF OverlapInv, ThreadsOK, DataInv, DataOK, Copy, TypeOK
<1>6. QED
  BY <1>1, <1>2, <1>4, <1>5, PTL
=============================================================================
