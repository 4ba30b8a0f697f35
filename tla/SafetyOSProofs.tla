--------------------------- MODULE SafetyOSProofs ---------------------------
(***************************************************************************)
(* Theorems about the safety gate, for any set of requests, any scores the *)
(* evaluator answers and any part of the environment that may fail.        *)
(*                                                                         *)
(* Two invariants: GateInv, of the decisions and where they are written,   *)
(* and RegisterInv, of the register of risky tasks and the timeline.       *)
(***************************************************************************)
EXTENDS SafetyOS, SequenceTheorems, TLAPS

\* The types of what GateInv is about.
DataType ==
  /\ emergency \in BOOLEAN
  /\ pc \in [Action -> {"new", "review", "executing", "feedback", "done", "raised"}]
  /\ decision \in [Action -> Final \cup {"none"}]
  /\ recorded \in [Action -> SUBSET Place]

\* A request that is still undecided has been written nowhere: without this a stray entry
\* could make an action look learned before it was logged.
Undecided == \A a \in Action : pc[a] \in {"new", "review"} => recorded[a] = {}

GateInv ==
  /\ DataType
  /\ Undecided
  /\ AuditedBeforeActing
  /\ EveryDecisionAudited

-----------------------------------------------------------------------------
\* _make_final_decision answers one of the four decisions, whatever it is given.
LEMMA FinalDecisionType ==
  ASSUME NEW s \in {1, 6, 8}, NEW o \in Opinion
  PROVE  FinalDecision(s, o) \in Final
  BY DEF FinalDecision, Opinion, Final

\* Only a score of at most 0.3 is ever allowed: the thresholds leave no other one through.
LEMMA AllowedIsLow ==
  ASSUME NEW s \in {1, 6, 8}, NEW o \in Opinion, FinalDecision(s, o) = "allow"
  PROVE  s <= 3
<1>1. CASE s = 1
  BY <1>1
<1>2. CASE s = 6
  BY <1>2 DEF FinalDecision, Opinion
<1>3. CASE s = 8
  BY <1>3 DEF FinalDecision, Opinion
<1> QED BY <1>1, <1>2, <1>3

\* The notes of the causal engine and of the capsule store are places of the ledger.
LEMMA NotesArePlaces ==
  /\ \A c \in CausalNote : c \subseteq {"causal"}
  /\ \A r : \A k \in Capsule(r, "chain") : k \subseteq {"chain"}
  /\ \A r : \A k \in Capsule(r, "full_chain") : k \subseteq {"full_chain"}
  BY DEF CausalNote, Capsule

-----------------------------------------------------------------------------
\* The invariant holds initially.
LEMMA GateInit == Init => GateInv
  BY DEF Init, GateInv, DataType, Undecided, AuditedBeforeActing, EveryDecisionAudited, Final

\* Every step keeps it: one case per action; the commands touch none of its variables but
\* emergency_mode.
LEMMA GateStep == GateInv /\ [Next]_vars => GateInv'
<1> SUFFICES ASSUME GateInv, [Next]_vars PROVE GateInv'
  OBVIOUS
<1> USE DEF GateInv
<1>1. CASE UNCHANGED vars
  BY <1>1 DEF vars, DataType, Undecided, AuditedBeforeActing, EveryDecisionAudited
<1>2. CASE Command
  <2>1. UNCHANGED <<pc, decision, recorded>> /\ emergency' \in BOOLEAN
    BY <1>2 DEF Command, EmergencyOn, EmergencyOff, Stop, StopAll, DataType
  <2> QED
    BY <2>1 DEF DataType, Undecided, AuditedBeforeActing, EveryDecisionAudited
<1>3. ASSUME NEW a \in Action, EmergencyBlock(a) PROVE GateInv'
  <2>1. PICK c \in CausalNote : recorded' = [recorded EXCEPT ![a] = {"audit"} \cup c]
    BY <1>3 DEF EmergencyBlock
  <2>2. c \subseteq {"causal"}
    BY NotesArePlaces
  <2> QED
    BY <1>3, <2>1, <2>2 DEF EmergencyBlock, DataType, Undecided, AuditedBeforeActing,
       EveryDecisionAudited, Final, Place
<1>4. ASSUME NEW a \in Action, AskTeachers(a) PROVE GateInv'
  BY <1>4 DEF AskTeachers, DataType, Undecided, AuditedBeforeActing, EveryDecisionAudited
<1>5. ASSUME NEW a \in Action, NEW o \in Opinion, Decide(a, o) PROVE GateInv'
  <2>1. PICK c \in CausalNote, k \in Capsule(o, "chain") :
          recorded' = [recorded EXCEPT ![a] = {"audit", "drift", "file"} \cup c \cup k]
    BY <1>5 DEF Decide
  <2>2. c \subseteq {"causal"} /\ k \subseteq {"chain"}
    BY NotesArePlaces
  <2>3. FinalDecision(Score[a], o) \in Final
    BY FinalDecisionType, SafetyOSAssumption DEF SafetyOSAssumption
  <2>4. /\ pc[a] = "review"
        /\ decision' = [decision EXCEPT ![a] = FinalDecision(Score[a], o)]
        /\ UNCHANGED emergency
    BY <1>5 DEF Decide, Conclude
  <2>5. \/ decision'[a] = "allow" /\ pc' = [pc EXCEPT ![a] = "executing"]
        \/ pc' = [pc EXCEPT ![a] = "done"]
    BY <1>5 DEF Decide
  <2>6. "learned" \notin {"audit", "drift", "file"} \cup c \cup k
    BY <2>2
  <2>7. DataType' /\ Undecided'
    BY <2>1, <2>2, <2>3, <2>4, <2>5 DEF DataType, Undecided, Place
  <2>8. AuditedBeforeActing'
    BY <2>1, <2>4, <2>5, <2>6 DEF DataType, AuditedBeforeActing
  <2>9. EveryDecisionAudited'
    BY <2>1, <2>3, <2>4, <2>5 DEF DataType, EveryDecisionAudited, Final
  <2> QED BY <2>7, <2>8, <2>9
<1>6. ASSUME NEW a \in Action, NEW o \in Opinion, DecideFails(a, o) PROVE GateInv'
  <2>1. PICK c \in CausalNote :
          recorded' = [recorded EXCEPT ![a] = {"audit", "drift"} \cup c]
    BY <1>6 DEF DecideFails
  <2>2. c \subseteq {"causal"}
    BY NotesArePlaces
  <2>3. FinalDecision(Score[a], o) \in Final
    BY FinalDecisionType, SafetyOSAssumption DEF SafetyOSAssumption
  <2>4. /\ pc' = [pc EXCEPT ![a] = "raised"]
        /\ decision' = [decision EXCEPT ![a] = FinalDecision(Score[a], o)]
        /\ UNCHANGED emergency
    BY <1>6 DEF DecideFails, Conclude
  <2> QED
    BY <2>1, <2>2, <2>3, <2>4 DEF DataType, Undecided, AuditedBeforeActing,
       EveryDecisionAudited, Final, Place
<1>7. ASSUME NEW a \in Action, ActionEnds(a) PROVE GateInv'
  BY <1>7 DEF ActionEnds, DataType, Undecided, AuditedBeforeActing, EveryDecisionAudited
<1>8. ASSUME NEW a \in Action, Learned(a) PROVE GateInv'
  <2>1. PICK k \in Capsule(review[a], "full_chain") :
          recorded' = [recorded EXCEPT ![a] = @ \cup {"learned"} \cup k]
    BY <1>8 DEF Learned
  <2>2. k \subseteq {"full_chain"}
    BY NotesArePlaces
  <2> QED
    BY <1>8, <2>1, <2>2 DEF Learned, DataType, Undecided, AuditedBeforeActing,
       EveryDecisionAudited, Place
<1>9. ASSUME NEW a \in Action, LearnerFails(a) PROVE GateInv'
  BY <1>9 DEF LearnerFails, DataType, Undecided, AuditedBeforeActing, EveryDecisionAudited
<1> QED
  BY <1>1, <1>2, <1>3, <1>4, <1>5, <1>6, <1>7, <1>8, <1>9 DEF Next, Request

\* The gate's invariant holds in every behaviour.
THEOREM GateInvariant == Spec => []GateInv
<1> QED BY GateInit, GateStep, PTL DEF Spec

\* Nothing runs, or has run, whose decision was not written to both logs first.
THEOREM NothingRunsUnaudited == Spec => []AuditedBeforeActing
<1>1. GateInv => AuditedBeforeActing
  BY DEF GateInv
<1> QED BY <1>1, GateInvariant, PTL

\* Every decided request can be looked up in the audit log.
THEOREM DecisionsCanBeShown == Spec => []EveryDecisionAudited
<1>1. GateInv => EveryDecisionAudited
  BY DEF GateInv
<1> QED BY <1>1, GateInvariant, PTL

-----------------------------------------------------------------------------
\* A step that starts an action is approve() returning "allow", so the score is low.
LEMMA OnlyLowStarts ==
  ASSUME NEW a \in Action, DataType, [Next]_vars, pc[a] # "executing", pc'[a] = "executing"
  PROVE  Score[a] <= 3
<1>1. PICK b \in Action, o \in Opinion : Decide(b, o)
  BY DEF Next, vars, Command, EmergencyOn, EmergencyOff, Stop, StopAll, Request, EmergencyBlock,
     AskTeachers, DecideFails, ActionEnds, Learned, LearnerFails, DataType
<1>2. a = b /\ decision'[a] = "allow"
  BY <1>1 DEF Decide, DataType
<1>3. FinalDecision(Score[a], o) = "allow"
  BY <1>1, <1>2 DEF Decide, Conclude, DataType
<1> QED
  BY <1>3, AllowedIsLow, SafetyOSAssumption DEF SafetyOSAssumption

\* Emergency mode holds whenever it was turned on: before, during or after the review.
THEOREM EmergencyIsSafe == Spec => EmergencyHolds
<1>1. GateInv /\ [Next]_vars =>
        [\A a \in Action : emergency /\ pc[a] # "executing" /\ pc'[a] = "executing"
                             => Score[a] <= 3]_vars
  BY OnlyLowStarts DEF GateInv
<1> QED BY <1>1, GateInvariant, PTL DEF Spec, EmergencyHolds
-----------------------------------------------------------------------------
(* The register and the timeline *)

Event == [type : {"decision", "manual_stop"}, id : Action]

\* The register holds every entry once.
Distinct(r) == \A i, j \in DOMAIN r : r[i] = r[j] => i = j

\* An entry of the register is a request whose decision was made and is not "allow".
Refused(r, p, d) ==
  \A i \in DOMAIN r : p[r[i]] \notin {"new", "review"} /\ d[r[i]] \in Final \ {"allow"}

\* An event of the timeline is about a request that has been decided: without this the
\* decision event of a request could follow a stop of it.
Traced(s, p) == \A i \in DOMAIN s : p[s[i].id] \notin {"new", "review"}

\* After a stop nothing is noted about the request, and the register no longer has it.
StopCloses(s, r) ==
  \A i \in DOMAIN s : s[i].type = "manual_stop" =>
    /\ \A k \in DOMAIN r : r[k] # s[i].id
    /\ \A j \in DOMAIN s : j > i => s[j].id # s[i].id

\* The types of the other variables.
RegisterType ==
  /\ review \in [Action -> Opinion]
  /\ timeline \in Seq(Event)
  /\ Len(timeline) <= TimelineMax
  /\ risky \in Seq(Action)

RegisterInv ==
  /\ RegisterType
  /\ Distinct(risky)
  /\ Refused(risky, pc, decision)
  /\ Traced(timeline, pc)
  /\ StopCloses(timeline, risky)

\* TimelineManager keeps an end of what it is given: at most max_size events, in order.
LEMMA TrimKeepsTheEnd ==
  ASSUME NEW s \in Seq(Event)
  PROVE  /\ Trim(s) \in Seq(Event)
         /\ Len(Trim(s)) <= TimelineMax
         /\ \E d \in Nat : \A i \in DOMAIN Trim(s) : i + d \in DOMAIN s /\ Trim(s)[i] = s[i + d]
<1>0. Len(s) \in Nat /\ TimelineMax \in Nat
  BY LenProperties, SafetyOSAssumption DEF SafetyOSAssumption
<1>1. CASE Len(s) <= TimelineMax
  <2>1. Trim(s) = s
    BY <1>0, <1>1 DEF Trim
  <2>2. \A i \in DOMAIN s : i + 0 \in DOMAIN s /\ s[i] = s[i + 0]
    OBVIOUS
  <2> QED BY <1>1, <2>1, <2>2
<1>2. CASE Len(s) > TimelineMax
  <2> DEFINE cut == Len(s) - TimelineMax
  <2>1. Trim(s) = SubSeq(s, cut + 1, Len(s))
    BY <1>2 DEF Trim
  <2>2. cut \in Nat /\ cut + 1 \in Int /\ Len(s) \in Int
    BY <1>0, <1>2
  <2>3. \A i \in cut + 1 .. Len(s) : s[i] \in Event
    BY <2>2
  <2>4. cut + 1 <= Len(s) /\ Len(s) - (cut + 1) + 1 = TimelineMax /\ cut + TimelineMax = Len(s)
    <3>1. Len(s) >= TimelineMax + 1
      BY <1>0, <1>2
    <3>2. cut + TimelineMax = Len(s)
      BY <1>0
    <3>3. Len(s) - (cut + 1) + 1 = TimelineMax
      BY <1>0
    <3>4. cut + 1 <= Len(s)
      BY <1>0, <1>2, SafetyOSAssumption DEF SafetyOSAssumption
    <3> QED BY <3>2, <3>3, <3>4
  <2> HIDE DEF cut
  <2>5. /\ Trim(s) \in Seq(Event)
        /\ Len(Trim(s)) = IF cut + 1 <= Len(s) THEN Len(s) - (cut + 1) + 1 ELSE 0
        /\ \A i \in 1..Len(s) - (cut + 1) + 1 : Trim(s)[i] = s[cut + 1 + i - 1]
    BY <2>1, <2>2, <2>3, SubSeqProperties
  <2>6. DOMAIN Trim(s) = 1..TimelineMax /\ Len(Trim(s)) = TimelineMax /\ DOMAIN s = 1..Len(s)
    BY <2>4, <2>5, LenProperties
  <2>7. \A i \in 1..TimelineMax : cut + 1 + i - 1 = i + cut /\ i + cut \in 1..Len(s)
    BY <1>0, <2>2, <2>4
  <2>8. \A i \in DOMAIN Trim(s) : i + cut \in DOMAIN s /\ Trim(s)[i] = s[i + cut]
    BY <2>4, <2>5, <2>6, <2>7
  <2>9. \E d \in Nat : \A i \in DOMAIN Trim(s) : i + d \in DOMAIN s /\ Trim(s)[i] = s[i + d]
    BY <2>2, <2>8, Zenon
  <2>10. Len(Trim(s)) <= TimelineMax
    BY <1>0, <2>6
  <2> QED BY <2>5, <2>9, <2>10
<1>3. Len(s) <= TimelineMax \/ Len(s) > TimelineMax
  BY <1>0
<1> QED BY <1>1, <1>2, <1>3, Zenon

\* What holds of all events, or of an event and the later ones, survives the trimming.
LEMMA TrimKeepsFacts ==
  ASSUME NEW s \in Seq(Event), NEW r, NEW p, Traced(s, p), StopCloses(s, r)
  PROVE  Traced(Trim(s), p) /\ StopCloses(Trim(s), r)
<1>1. Trim(s) \in Seq(Event)
  BY TrimKeepsTheEnd
<1>2. PICK d \in Nat : \A i \in DOMAIN Trim(s) : i + d \in DOMAIN s /\ Trim(s)[i] = s[i + d]
  BY TrimKeepsTheEnd
<1>3. Traced(Trim(s), p)
  BY <1>2 DEF Traced
<1>4. \A i, j \in DOMAIN Trim(s) : j > i => j + d > i + d
  BY <1>1
<1>5. StopCloses(Trim(s), r)
  BY <1>2, <1>4 DEF StopCloses
<1> QED BY <1>3, <1>5

\* An event about a request that was decided and is not stopped may be noted.
LEMMA NotedTimeline ==
  ASSUME NEW s \in Seq(Event), NEW r, NEW p, Traced(s, p), StopCloses(s, r),
         NEW e \in Event, p[e.id] \notin {"new", "review"},
         \A i \in DOMAIN s : s[i].type = "manual_stop" => s[i].id # e.id,
         e.type = "manual_stop" => \A k \in DOMAIN r : r[k] # e.id
  PROVE  /\ Trim(Append(s, e)) \in Seq(Event)
         /\ Len(Trim(Append(s, e))) <= TimelineMax
         /\ Traced(Trim(Append(s, e)), p)
         /\ StopCloses(Trim(Append(s, e)), r)
<1> DEFINE t == Append(s, e)
<1>1. /\ t \in Seq(Event) /\ DOMAIN t = 1..Len(s) + 1 /\ DOMAIN s = 1..Len(s) /\ Len(s) \in Nat
      /\ \A i \in DOMAIN s : t[i] = s[i]
      /\ t[Len(s) + 1] = e
  BY AppendProperties
<1>2. \A i \in DOMAIN t : i \in DOMAIN s \/ i = Len(s) + 1
  BY <1>1
<1>3. \A i, j \in DOMAIN t : j > i => i \in DOMAIN s
  BY <1>1
<1> HIDE DEF t
<1>4. Traced(t, p)
  BY <1>1, <1>2 DEF Traced
<1>5. StopCloses(t, r)
  BY <1>1, <1>2, <1>3 DEF StopCloses
<1>6. Traced(Trim(t), p) /\ StopCloses(Trim(t), r)
  BY <1>1, <1>4, <1>5, TrimKeepsFacts
<1> QED BY <1>1, <1>6, TrimKeepsTheEnd DEF t

\* Where the i-th entry was before the n-th was popped.
Before(n, i) == IF i < n THEN i ELSE i + 1

\* Popping moves every other entry to a place of its own.
LEMMA BeforeIsInjective ==
  ASSUME NEW m \in Nat, NEW n \in 1..m
  PROVE  /\ \A i \in 1..m - 1 : Before(n, i) \in 1..m /\ Before(n, i) # n
         /\ \A i, j \in 1..m - 1 : Before(n, i) = Before(n, j) => i = j
  BY DEF Before

\* pop leaves the other entries, in their order.
LEMMA PopProperties ==
  ASSUME NEW r \in Seq(Action), NEW n \in 1..Len(r)
  PROVE  LET q == SubSeq(r, 1, n - 1) \o SubSeq(r, n + 1, Len(r))
         IN  /\ q \in Seq(Action) /\ Len(q) = Len(r) - 1
             /\ \A i \in 1..Len(r) - 1 : q[i] = r[Before(n, i)]
<1> DEFINE u == SubSeq(r, 1, n - 1)
           v == SubSeq(r, n + 1, Len(r))
           q == u \o v
<1>1. Len(r) \in Nat /\ n \in Nat /\ 1 \in Int /\ n - 1 \in Int /\ n + 1 \in Int /\ Len(r) \in Int
  BY LenProperties
<1>2. \A i \in 1..Len(r) : r[i] \in Action
  BY LenProperties
<1>3. /\ \A i \in 1..n - 1 : r[i] \in Action
      /\ \A i \in n + 1..Len(r) : r[i] \in Action
  BY <1>1, <1>2
<1>4. /\ u \in Seq(Action) /\ Len(u) = IF 1 <= n - 1 THEN n - 1 - 1 + 1 ELSE 0
      /\ \A i \in 1..n - 1 - 1 + 1 : u[i] = r[1 + i - 1]
  BY <1>1, <1>3, SubSeqProperties
<1>5. /\ v \in Seq(Action) /\ Len(v) = IF n + 1 <= Len(r) THEN Len(r) - (n + 1) + 1 ELSE 0
      /\ \A i \in 1..Len(r) - (n + 1) + 1 : v[i] = r[n + 1 + i - 1]
  BY <1>1, <1>3, SubSeqProperties
<1> HIDE DEF u, v
<1>6. /\ q \in Seq(Action) /\ Len(q) = Len(u) + Len(v)
      /\ \A i \in 1..Len(u) + Len(v) : q[i] = IF i <= Len(u) THEN u[i] ELSE v[i - Len(u)]
  BY <1>4, <1>5, ConcatProperties
<1> HIDE DEF q
<1>7. Len(u) = n - 1 /\ Len(v) = Len(r) - n /\ Len(u) + Len(v) = Len(r) - 1
  <2>1. n >= 1 /\ n <= Len(r)
    BY <1>1
  <2>2. Len(u) = n - 1
    BY <1>1, <1>4, <2>1
  <2>3. Len(v) = Len(r) - n
    BY <1>1, <1>5, <2>1
  <2> QED BY <1>1, <2>2, <2>3
<1>8. \A i \in 1..n - 1 : u[i] = r[i]
  <2>1. n - 1 - 1 + 1 = n - 1 /\ \A i \in 1..n - 1 : 1 + i - 1 = i
    BY <1>1
  <2> QED BY <1>4, <2>1
<1>9. \A i \in 1..Len(r) - n : v[i] = r[n + 1 + i - 1]
  <2>1. Len(r) - (n + 1) + 1 = Len(r) - n
    BY <1>1
  <2> QED BY <1>5, <2>1
<1>10. \A i \in 1..Len(r) - 1 : q[i] = IF i <= n - 1 THEN u[i] ELSE v[i - (n - 1)]
  BY <1>6, <1>7
<1>11. ASSUME NEW i \in 1..Len(r) - 1 PROVE q[i] = r[Before(n, i)]
  <2>1. CASE i < n
    <3>1. i <= n - 1 /\ i \in 1..n - 1
      BY <1>1, <2>1
    <3> QED BY <1>8, <1>10, <2>1, <3>1 DEF Before
  <2>2. CASE ~(i < n)
    <3>1. ~(i <= n - 1) /\ i - (n - 1) \in 1..Len(r) - n /\ n + 1 + (i - (n - 1)) - 1 = i + 1
      BY <1>1, <2>2
    <3>2. q[i] = v[i - (n - 1)]
      BY <1>10, <3>1
    <3>3. v[i - (n - 1)] = r[n + 1 + (i - (n - 1)) - 1]
      BY <1>9, <3>1
    <3> QED BY <2>2, <3>1, <3>2, <3>3 DEF Before
  <2> QED BY <2>1, <2>2
<1> QED BY <1>6, <1>7, <1>11 DEF q, u, v

\* So popping an entry keeps what holds of all entries, and the entry is gone.
LEMMA PopKeepsFacts ==
  ASSUME NEW r \in Seq(Action), NEW n \in DOMAIN r, NEW q, NEW s, NEW p, NEW d,
         q = SubSeq(r, 1, n - 1) \o SubSeq(r, n + 1, Len(r)),
         Distinct(r), Refused(r, p, d), StopCloses(s, r)
  PROVE  /\ q \in Seq(Action) /\ Distinct(q) /\ Refused(q, p, d) /\ StopCloses(s, q)
         /\ \A k \in DOMAIN q : q[k] # r[n]
<1>1. DOMAIN r = 1..Len(r) /\ Len(r) \in Nat /\ n \in 1..Len(r)
  BY LenProperties
<1>2. /\ q \in Seq(Action) /\ Len(q) = Len(r) - 1
      /\ \A i \in 1..Len(r) - 1 : q[i] = r[Before(n, i)]
  BY <1>1, PopProperties
<1>3. DOMAIN q = 1..Len(r) - 1
  BY <1>2, LenProperties
<1>4. /\ \A i \in DOMAIN q : Before(n, i) \in DOMAIN r /\ Before(n, i) # n
      /\ \A i, j \in DOMAIN q : Before(n, i) = Before(n, j) => i = j
  <2> DEFINE m == Len(r)
  <2>1. m \in Nat /\ n \in 1..m /\ DOMAIN q = 1..m - 1 /\ DOMAIN r = 1..m
    BY <1>1, <1>3
  <2> HIDE DEF m
  <2>2. /\ \A i \in 1..m - 1 : Before(n, i) \in 1..m /\ Before(n, i) # n
        /\ \A i, j \in 1..m - 1 : Before(n, i) = Before(n, j) => i = j
    BY <2>1, BeforeIsInjective
  <2> QED BY <2>1, <2>2, Zenon
<1>5. \A i \in DOMAIN q : q[i] = r[Before(n, i)]
  BY <1>2, <1>3
<1>6. Distinct(q)
  <2> SUFFICES ASSUME NEW i \in DOMAIN q, NEW j \in DOMAIN q, q[i] = q[j] PROVE i = j
    BY DEF Distinct
  <2>1. r[Before(n, i)] = r[Before(n, j)]
    BY <1>5, Zenon
  <2>2. Before(n, i) = Before(n, j)
    BY <1>4, <2>1, Zenon DEF Distinct
  <2> QED BY <1>4, <2>2, Zenon
<1>7. Refused(q, p, d)
  BY <1>4, <1>5, Zenon DEF Refused
<1>8. StopCloses(s, q)
  BY <1>4, <1>5, Zenon DEF StopCloses
<1>9. \A k \in DOMAIN q : q[k] # r[n]
  BY <1>4, <1>5, Zenon DEF Distinct
<1> QED BY <1>2, <1>6, <1>7, <1>8, <1>9
\* A step that decides a request, and takes back no decision, keeps what was known of the
\* requests in the register and in the timeline.
LEMMA DecidedStaysDecided ==
  ASSUME NEW r \in Seq(Action), NEW s \in Seq(Event), NEW p, NEW d, NEW p2, NEW d2,
         \A b \in Action : p[b] \notin {"new", "review"} =>
            p2[b] \notin {"new", "review"} /\ d2[b] = d[b]
  PROVE  /\ Refused(r, p, d) => Refused(r, p2, d2)
         /\ Traced(s, p) => Traced(s, p2)
<1>1. \A i \in DOMAIN r : r[i] \in Action
  BY LenProperties
<1>2. \A i \in DOMAIN s : s[i].id \in Action
  <2>1. \A i \in DOMAIN s : s[i] \in Event
    BY LenProperties
  <2> QED BY <2>1 DEF Event
<1>3. Refused(r, p, d) => Refused(r, p2, d2)
  BY <1>1, Zenon DEF Refused
<1>4. Traced(s, p) => Traced(s, p2)
  BY <1>2, Zenon DEF Traced
<1> QED BY <1>3, <1>4

\* The decision event of a request nobody has decided before: no stop names it yet.
LEMMA DecisionNoted ==
  ASSUME NEW a \in Action, DataType, RegisterInv, pc[a] \in {"new", "review"}, NoteDecision(a),
         NEW x \in {"executing", "feedback", "done", "raised"}, pc' = [pc EXCEPT ![a] = x],
         NEW r, StopCloses(timeline, r)
  PROVE  /\ timeline' \in Seq(Event) /\ Len(timeline') <= TimelineMax
         /\ Traced(timeline', pc')
         /\ StopCloses(timeline', r)
<1> DEFINE e == DecisionEvent(a)
           p == pc'
<1>1. e \in Event /\ e.id = a /\ e.type = "decision"
  BY DEF DecisionEvent, Event
<1>2. timeline \in Seq(Event) /\ risky \in Seq(Action)
  BY DEF RegisterInv, RegisterType
<1>3. \A b \in Action : pc[b] \notin {"new", "review"} => p[b] \notin {"new", "review"}
  BY DEF DataType
<1>4. p[a] \notin {"new", "review"}
  BY DEF DataType
<1>5. timeline' = Trim(Append(timeline, e))
  BY DEF NoteDecision
<1> HIDE DEF e, p
<1>6. Traced(timeline, p)
  BY <1>2, <1>3, DecidedStaysDecided DEF RegisterInv
<1>7. \A i \in DOMAIN timeline : timeline[i].type = "manual_stop" => timeline[i].id # a
  BY Zenon DEF RegisterInv, Traced
<1>8. /\ Trim(Append(timeline, e)) \in Seq(Event)
      /\ Len(Trim(Append(timeline, e))) <= TimelineMax
      /\ Traced(Trim(Append(timeline, e)), p)
      /\ StopCloses(Trim(Append(timeline, e)), r)
  BY <1>1, <1>2, <1>4, <1>6, <1>7, NotedTimeline
<1> QED BY <1>5, <1>8 DEF p

\* approve() decides: the refused request enters the register, once, and no stop names it.
LEMMA ConcludeKeeps ==
  ASSUME NEW a \in Action, NEW o \in Opinion, DataType, RegisterInv, Conclude(a, o),
         NEW x \in {"executing", "feedback", "done", "raised"}, pc' = [pc EXCEPT ![a] = x]
  PROVE  RegisterInv'
<1>1. /\ pc[a] = "review" /\ NoteDecision(a)
      /\ review' = [review EXCEPT ![a] = o]
      /\ decision' = [decision EXCEPT ![a] = FinalDecision(Score[a], o)]
  BY DEF Conclude
<1>2. timeline \in Seq(Event) /\ risky \in Seq(Action)
  BY DEF RegisterInv, RegisterType
<1>3. /\ timeline' \in Seq(Event) /\ Len(timeline') <= TimelineMax
      /\ Traced(timeline', pc') /\ StopCloses(timeline', risky)
  BY <1>1, DecisionNoted DEF RegisterInv
<1>4. FinalDecision(Score[a], o) \in Final /\ decision'[a] = FinalDecision(Score[a], o)
  BY <1>1, FinalDecisionType, SafetyOSAssumption DEF SafetyOSAssumption, DataType
<1>5. /\ \A b \in Action : pc[b] \notin {"new", "review"} =>
           pc'[b] \notin {"new", "review"} /\ decision'[b] = decision[b]
      /\ pc'[a] \notin {"new", "review"}
  BY <1>1 DEF DataType
<1>6. Refused(risky, pc', decision')
  BY <1>2, <1>5, DecidedStaysDecided DEF RegisterInv
<1>7. review' \in [Action -> Opinion]
  BY <1>1 DEF RegisterInv, RegisterType
<1>8. CASE risky' = risky
  BY <1>2, <1>3, <1>6, <1>7, <1>8 DEF RegisterInv, RegisterType
<1>9. CASE risky' = Append(risky, a) /\ (Score[a] > 6 \/ decision'[a] # "allow")
  <2>1. decision'[a] \in Final \ {"allow"}
    <3>1. FinalDecision(Score[a], o) = "allow" => ~(Score[a] > 6)
      BY AllowedIsLow, SafetyOSAssumption DEF SafetyOSAssumption
    <3> QED BY <1>4, <1>9, <3>1
  <2>2. /\ risky' \in Seq(Action)
        /\ \A i \in DOMAIN risky' :
             \/ i \in DOMAIN risky /\ risky'[i] = risky[i]
             \/ i = Len(risky) + 1 /\ risky'[i] = a
    <3>1. DOMAIN risky = 1..Len(risky) /\ Len(risky) \in Nat
      BY <1>2, LenProperties
    <3>2. /\ risky' \in Seq(Action) /\ DOMAIN risky' = 1..Len(risky) + 1
          /\ \A i \in DOMAIN risky : risky'[i] = risky[i]
          /\ risky'[Len(risky) + 1] = a
      BY <1>2, <1>9, <3>1, AppendProperties
    <3>3. \A i \in DOMAIN risky' : i \in DOMAIN risky \/ i = Len(risky) + 1
      BY <3>1, <3>2
    <3> QED BY <3>2, <3>3
  <2>3. \A i \in DOMAIN risky : risky[i] # a
    BY <1>1, Zenon DEF RegisterInv, Refused
  <2>4. Distinct(risky')
    BY <2>2, <2>3, Zenon DEF RegisterInv, Distinct
  <2>5. Refused(risky', pc', decision')
    BY <1>5, <1>6, <2>1, <2>2, Zenon DEF Refused
  <2>6. StopCloses(timeline', risky')
    <3>1. \A i \in DOMAIN timeline : timeline[i].type = "manual_stop" => timeline[i].id # a
      BY <1>1, Zenon DEF RegisterInv, Traced
    <3>2. StopCloses(timeline, risky')
      BY <2>2, <3>1, Zenon DEF RegisterInv, StopCloses
    <3> QED BY <1>1, <3>2, DecisionNoted
  <2> QED BY <1>3, <1>7, <2>2, <2>4, <2>5, <2>6 DEF RegisterInv, RegisterType
<1> QED BY <1>8, <1>9 DEF Conclude

\* stop() of the n-th entry: it leaves the register, and the note closes its events.
LEMMA StopKeeps ==
  ASSUME NEW a \in Action, RegisterInv, Stop(a)
  PROVE  RegisterInv'
<1>1. PICK n \in DOMAIN risky : risky[n] = a /\ Forget(n)
  BY DEF Stop
<1>2. timeline \in Seq(Event) /\ risky \in Seq(Action)
  BY DEF RegisterInv, RegisterType
<1>3. UNCHANGED <<pc, review, decision>> /\ timeline' = Trim(Append(timeline, StopEvent(a)))
  BY DEF Stop
<1>4. /\ risky' \in Seq(Action) /\ Distinct(risky') /\ Refused(risky', pc, decision)
      /\ StopCloses(timeline, risky') /\ \A k \in DOMAIN risky' : risky'[k] # a
  BY <1>1, <1>2, PopKeepsFacts DEF Forget, RegisterInv
<1>5. pc[a] \notin {"new", "review"}
  BY <1>1 DEF RegisterInv, Refused
<1>6. \A i \in DOMAIN timeline : timeline[i].type = "manual_stop" => timeline[i].id # a
  BY <1>1, Zenon DEF RegisterInv, StopCloses
<1>7. StopEvent(a) \in Event /\ StopEvent(a).id = a
  BY DEF StopEvent, Event
<1>8. /\ timeline' \in Seq(Event) /\ Len(timeline') <= TimelineMax
      /\ Traced(timeline', pc) /\ StopCloses(timeline', risky')
  <2> DEFINE e == StopEvent(a)
             r == risky'
  <2>1. /\ e \in Event /\ e.id = a /\ Traced(timeline, pc) /\ StopCloses(timeline, r)
        /\ \A k \in DOMAIN r : r[k] # a
    BY <1>4, <1>7 DEF RegisterInv
  <2>2. timeline' = Trim(Append(timeline, e))
    BY <1>3
  <2> HIDE DEF e, r
  <2>3. /\ Trim(Append(timeline, e)) \in Seq(Event)
        /\ Len(Trim(Append(timeline, e))) <= TimelineMax
        /\ Traced(Trim(Append(timeline, e)), pc)
        /\ StopCloses(Trim(Append(timeline, e)), r)
    BY <1>2, <1>5, <1>6, <2>1, NotedTimeline
  <2> QED BY <2>2, <2>3 DEF r
<1> QED BY <1>3, <1>4, <1>8 DEF RegisterInv, RegisterType

\* stop_all and stop_all_risky: a note for every entry, and nothing is left.
LEMMA StopAllKeeps ==
  ASSUME NEW on \in BOOLEAN, RegisterInv, StopAll(on)
  PROVE  RegisterInv'
<1> DEFINE n == Len(risky)
           m == Len(timeline)
           f == [i \in DOMAIN risky |-> StopEvent(risky[i])]
           t == timeline \o f
<1>1. timeline \in Seq(Event) /\ risky \in Seq(Action)
  BY DEF RegisterInv, RegisterType
<1>2. /\ n \in Nat /\ m \in Nat /\ DOMAIN risky = 1..n /\ DOMAIN timeline = 1..m
      /\ \A i \in 1..n : risky[i] \in Action
  BY <1>1, LenProperties
<1>3. /\ risky' = <<>> /\ timeline' = Trim(t)
      /\ UNCHANGED <<pc, review, decision>>
  BY DEF StopAll
<1>4. /\ f \in Seq(Event) /\ Len(f) = n
      /\ \A i \in 1..n : f[i] = StopEvent(risky[i])
  <2>1. f \in [1..n -> Event]
    BY <1>2 DEF StopEvent, Event
  <2>2. f \in Seq(Event)
    BY <1>2, <2>1, SeqDef
  <2>3. Len(f) = n
    BY <1>2, <2>1, <2>2, LenProperties
  <2> QED BY <1>2, <2>2, <2>3
<1> HIDE DEF n, m, f
<1>5. /\ t \in Seq(Event) /\ Len(t) = m + n
      /\ \A i \in 1..m + n : t[i] = IF i <= m THEN timeline[i] ELSE f[i - m]
  BY <1>1, <1>4, ConcatProperties DEF m
<1> HIDE DEF t
<1>6. DOMAIN t = 1..m + n
  BY <1>5, LenProperties
<1>7. \A i \in DOMAIN t :
         \/ i <= m /\ i \in DOMAIN timeline /\ t[i] = timeline[i]
         \/ i > m /\ i - m \in DOMAIN risky /\ t[i] = StopEvent(risky[i - m])
  BY <1>2, <1>4, <1>5, <1>6
<1>8. Traced(t, pc)
  BY <1>7 DEF Traced, StopEvent, RegisterInv, Refused
<1>9. StopCloses(t, <<>>)
  <2> SUFFICES ASSUME NEW i \in DOMAIN t, t[i].type = "manual_stop",
                      NEW j \in DOMAIN t, j > i
               PROVE  t[j].id # t[i].id
    BY DEF StopCloses
  <2>1. i \in Nat /\ j \in Nat
    BY <1>2, <1>6
  <2>2. CASE i <= m /\ j <= m
    BY <1>2, <1>7, <2>1, <2>2 DEF RegisterInv, StopCloses
  <2>3. CASE i <= m /\ j > m
    <3>1. i \in DOMAIN timeline /\ t[i] = timeline[i]
      BY <1>2, <1>7, <2>1, <2>3
    <3>2. j - m \in DOMAIN risky /\ t[j].id = risky[j - m]
      BY <1>2, <1>7, <2>1, <2>3 DEF StopEvent
    <3> QED BY <3>1, <3>2 DEF RegisterInv, StopCloses
  <2>4. CASE i > m
    <3>1. i - m \in DOMAIN risky /\ t[i].id = risky[i - m]
      BY <1>2, <1>7, <2>1, <2>4 DEF StopEvent
    <3>2. j - m \in DOMAIN risky /\ t[j].id = risky[j - m]
      BY <1>2, <1>7, <2>1, <2>4 DEF StopEvent
    <3>3. i - m # j - m
      BY <1>2, <2>1
    <3> QED BY <3>1, <3>2, <3>3 DEF RegisterInv, Distinct
  <2> QED BY <1>2, <2>1, <2>2, <2>3, <2>4
<1>10. /\ Trim(t) \in Seq(Event) /\ Len(Trim(t)) <= TimelineMax
       /\ Traced(Trim(t), pc) /\ StopCloses(Trim(t), <<>>)
  BY <1>5, <1>8, <1>9, TrimKeepsTheEnd, TrimKeepsFacts
<1>11. <<>> \in Seq(Action) /\ Distinct(<<>>) /\ Refused(<<>>, pc, decision)
  BY DEF Distinct, Refused
<1> QED BY <1>3, <1>10, <1>11 DEF RegisterInv, RegisterType

-----------------------------------------------------------------------------
\* An empty register and an empty timeline.
LEMMA RegisterInit == Init => RegisterInv
<1> SUFFICES ASSUME Init PROVE RegisterInv
  OBVIOUS
<1>1. review \in [Action -> Opinion]
  BY DEF Init, Opinion
<1>2. /\ timeline \in Seq(Event) /\ Len(timeline) = 0 /\ DOMAIN timeline = {}
      /\ risky \in Seq(Action) /\ DOMAIN risky = {}
  BY DEF Init
<1>3. Len(timeline) <= TimelineMax
  BY <1>2, SafetyOSAssumption DEF SafetyOSAssumption
<1> QED
  BY <1>1, <1>2, <1>3 DEF RegisterInv, RegisterType, Distinct, Refused, Traced, StopCloses

\* Every step keeps it: the decisions and the stops by the lemmas above, the others write
\* neither to the register nor to the timeline and take back no decision.
LEMMA RegisterStep == DataType /\ RegisterInv /\ [Next]_vars => RegisterInv'
<1> SUFFICES ASSUME DataType, RegisterInv, [Next]_vars PROVE RegisterInv'
  OBVIOUS
<1>1. ASSUME UNCHANGED <<review, decision, timeline, risky>>,
             \A b \in Action : pc[b] \notin {"new", "review"} => pc'[b] \notin {"new", "review"}
      PROVE  RegisterInv'
  <2>1. timeline \in Seq(Event) /\ risky \in Seq(Action)
    BY DEF RegisterInv, RegisterType
  <2>2. Refused(risky, pc', decision) /\ Traced(timeline, pc')
    BY <1>1, <2>1, DecidedStaysDecided DEF RegisterInv
  <2> QED BY <1>1, <2>2 DEF RegisterInv, RegisterType
<1>2. CASE UNCHANGED vars
  BY <1>1, <1>2 DEF vars
<1>3. CASE EmergencyOn \/ EmergencyOff
  BY <1>1, <1>3 DEF EmergencyOn, EmergencyOff
<1>4. ASSUME NEW a \in Action, Stop(a) PROVE RegisterInv'
  BY <1>4, StopKeeps
<1>5. ASSUME NEW on \in BOOLEAN, StopAll(on) PROVE RegisterInv'
  BY <1>5, StopAllKeeps
<1>6. ASSUME NEW a \in Action, EmergencyBlock(a) PROVE RegisterInv'
  <2>1. /\ pc[a] = "new" /\ NoteDecision(a) /\ UNCHANGED <<review, risky>>
        /\ pc' = [pc EXCEPT ![a] = "done"]
        /\ decision' = [decision EXCEPT ![a] = "emergency_stop"]
    BY <1>6 DEF EmergencyBlock
  <2>2. /\ timeline' \in Seq(Event) /\ Len(timeline') <= TimelineMax
        /\ Traced(timeline', pc') /\ StopCloses(timeline', risky)
    BY <2>1, DecisionNoted DEF RegisterInv
  <2>3. \A b \in Action : pc[b] \notin {"new", "review"} =>
           pc'[b] \notin {"new", "review"} /\ decision'[b] = decision[b]
    BY <2>1 DEF DataType
  <2>4. Refused(risky, pc', decision')
    BY <2>3, DecidedStaysDecided DEF RegisterInv, RegisterType
  <2> QED BY <2>1, <2>2, <2>4 DEF RegisterInv, RegisterType
<1>7. ASSUME NEW a \in Action, NEW o \in Opinion, Decide(a, o) PROVE RegisterInv'
  BY <1>7, ConcludeKeeps DEF Decide
<1>8. ASSUME NEW a \in Action, NEW o \in Opinion, DecideFails(a, o) PROVE RegisterInv'
  BY <1>8, ConcludeKeeps DEF DecideFails
<1>9. ASSUME NEW a \in Action,
             AskTeachers(a) \/ ActionEnds(a) \/ Learned(a) \/ LearnerFails(a)
      PROVE  RegisterInv'
  <2>1. UNCHANGED <<review, decision, timeline, risky>>
    BY <1>9 DEF AskTeachers, ActionEnds, Learned, LearnerFails
  <2>2. \A b \in Action : pc[b] \notin {"new", "review"} => pc'[b] \notin {"new", "review"}
    BY <1>9 DEF AskTeachers, ActionEnds, Learned, LearnerFails, DataType
  <2> QED BY <1>1, <2>1, <2>2
<1> QED
  BY <1>2, <1>3, <1>4, <1>5, <1>6, <1>7, <1>8, <1>9 DEF Next, Command, Request

\* Both invariants hold in every behaviour.
THEOREM RegisterInvariant == Spec => [](GateInv /\ RegisterInv)
<1>1. GateInv /\ RegisterInv /\ [Next]_vars => RegisterInv'
  BY RegisterStep DEF GateInv
<1> QED BY RegisterInit, GateInit, GateStep, <1>1, PTL DEF Spec

\* The gate's variables have their types; the timeline keeps at most max_size events.
THEOREM TypeCorrect == Spec => []TypeOK
<1>1. GateInv /\ RegisterInv => TypeOK
  BY DEF GateInv, DataType, RegisterInv, RegisterType, TypeOK, Event
<1> QED BY <1>1, RegisterInvariant, PTL

\* However stops, stop-alls and decisions interleave: a refused decision is stopped at most
\* once, after it was made, and an allowed one is never in the register.
THEOREM StopsOnce == Spec => []StoppedOnce
<1>1. RegisterInv => StoppedOnce
  BY DEF RegisterInv, Distinct, Refused, StopCloses, StoppedOnce
<1> QED BY <1>1, RegisterInvariant, PTL
=============================================================================
