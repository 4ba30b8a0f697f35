---------------------------- MODULE AgentProofs ----------------------------
(***************************************************************************)
(* Theorems about what an agent works with: Controller, for any tasks,     *)
(* MemoryKernel, for any items, and SubAgent, for any agents and tasks.    *)
(***************************************************************************)
EXTENDS Controller, MemoryKernel, SubAgent, FiniteSetTheorems, TLAPS

-----------------------------------------------------------------------------
(* Controller *)

\* The controller keeps its types: nothing is learned of a task there is not.
THEOREM ControllerTypes == CtrlSpec => []CtrlTypeOK
<1>1. CtrlInit => CtrlTypeOK
  BY DEF CtrlInit, CtrlTypeOK
<1>2. CtrlTypeOK /\ [CtrlNext]_ctrlVars => CtrlTypeOK'
  <2> SUFFICES ASSUME CtrlTypeOK, [CtrlNext]_ctrlVars PROVE CtrlTypeOK'
    OBVIOUS
  <2> USE DEF CtrlTypeOK
  <2>1. ASSUME NEW t \in CTask, DecideBypassing(t) PROVE CtrlTypeOK'
    BY <2>1 DEF DecideBypassing
  <2>2. ASSUME NEW t \in CTask, DecideUnclear(t) PROVE CtrlTypeOK'
    BY <2>2 DEF DecideUnclear
  <2>3. ASSUME NEW t \in CTask, DecideByPolicy(t) PROVE CtrlTypeOK'
    <3>1. PICK failing, succeeding, stale \in BOOLEAN, valid \in {"", "poor", "good", "bare"} :
            advice' = [advice EXCEPT ![t] = TimeAware(failing, succeeding, stale, valid)]
      BY <2>3 DEF DecideByPolicy
    <3>2. TimeAware(failing, succeeding, stale, valid)
            \in {"none", "explore_new", "reinforce", "explore", "reuse"}
      BY DEF TimeAware
    <3> QED BY <2>3, <3>1, <3>2 DEF DecideByPolicy
  <2>4. ASSUME NEW t \in CTask, Feedback(t) PROVE CtrlTypeOK'
    <3>1. learned' \subseteq CTask \X CTask
      <4>1. lastDecision # NoDecision => <<t, lastDecision>> \in CTask \X CTask
        OBVIOUS
      <4> QED BY <2>4, <4>1 DEF Feedback
    <3> QED BY <2>4, <3>1 DEF Feedback
  <2>5. ASSUME NEW t \in CTask, DecideRaises(t) PROVE CtrlTypeOK'
    BY <2>5 DEF DecideRaises
  <2>6. CASE UNCHANGED ctrlVars
    BY <2>6 DEF ctrlVars
  <2> QED BY <2>1, <2>2, <2>3, <2>4, <2>5, <2>6 DEF CtrlNext
<1> QED BY <1>1, <1>2, PTL DEF CtrlSpec

-----------------------------------------------------------------------------
(* MemoryKernel *)

\* Every route leads to a layer there is.
MemInv ==
  /\ custom \subseteq EventType \X Layer
  /\ DOMAIN holds = Layer

LEMMA RouteIsLayer ==
  ASSUME MemInv, NEW type, NEW n PROVE Route(type, n) \in Layer
<1>1. CASE \E r \in custom : r[1] = type
  BY <1>1 DEF Route, MemInv
<1>2. CASE ~\E r \in custom : r[1] = type
  BY <1>2 DEF Route, RouteMap, RouteByImportance, Layer
<1> QED BY <1>1, <1>2

\* A registered route leads to the layer it was registered for, and replaces no other type's.
LEMMA RoutesStay ==
  ASSUME MemInv, NEW type \in EventType, NEW layer \in Layer, RegisterRoute(type, layer)
  PROVE  custom' \subseteq EventType \X Layer
<1>1. custom' = {r \in custom : r[1] # type} \cup {<<type, layer>>}
  BY DEF RegisterRoute
<1>2. {<<type, layer>>} \subseteq EventType \X Layer
  OBVIOUS
<1>3. {r \in custom : r[1] # type} \subseteq custom
  OBVIOUS
<1> QED BY <1>1, <1>2, <1>3 DEF MemInv

LEMMA MemStepInv == MemInv /\ [MemNext]_memVars => MemInv'
<1> SUFFICES ASSUME MemInv, [MemNext]_memVars PROVE MemInv'
  OBVIOUS
<1>1. CASE InitLayers
  BY <1>1 DEF InitLayers, MemInv
<1>2. CASE DecayAll
  BY <1>2 DEF DecayAll, MemInv
<1>3. ASSUME NEW type \in EventType, NEW layer \in Layer, RegisterRoute(type, layer) PROVE MemInv'
  BY <1>3, RoutesStay DEF RegisterRoute, MemInv
<1>4. ASSUME NEW i \in Item, NEW type \in EventType, NEW n \in Importance, MemWrite(i, type, n)
      PROVE  MemInv'
  BY <1>4 DEF MemWrite, MemInv
<1>5. ASSUME NEW i \in Item, NEW from \in Layer, NEW to \in Layer, Promote(i, from, to)
      PROVE  MemInv'
  BY <1>5 DEF Promote, MemInv
<1>6. CASE UNCHANGED memVars
  BY <1>6 DEF memVars, MemInv
<1> QED BY <1>1, <1>2, <1>3, <1>4, <1>5, <1>6 DEF MemNext

\* Every step keeps what a layer holds, except what decay takes and what is promoted to
\* its own layer.
LEMMA KeptUnlessDecayed ==
  ASSUME MemInv, [MemNext]_memVars, NEW i \in Item, NEW l \in Layer, i \in holds[l]
  PROVE  (\E k \in Layer : i \in holds'[k]) \/ i \in decayed' \cup onItself'
<1>1. CASE UNCHANGED holds
  BY <1>1
<1>2. CASE DecayAll
  <2>1. PICK gone \in [Layer -> SUBSET Item] :
          /\ holds' = [k \in Layer |-> holds[k] \ gone[k]]
          /\ decayed' = UNION {gone[k] : k \in Layer}
    BY <1>2 DEF DecayAll
  <2> QED BY <2>1
<1>3. ASSUME NEW j \in Item, NEW type \in EventType, NEW n \in Importance, MemWrite(j, type, n)
      PROVE  i \in holds'[l]
  <2>1. holds' = [holds EXCEPT ![Route(type, n)] = @ \cup {j}] \/ holds' = holds
    BY <1>3 DEF MemWrite
  <2> QED BY <2>1 DEF MemInv
<1>4. ASSUME NEW j \in Item, NEW from \in Layer, NEW to \in Layer, Promote(j, from, to)
      PROVE  (\E k \in Layer : i \in holds'[k]) \/ i \in onItself'
  <2> DEFINE stored == [holds EXCEPT ![to] = @ \cup {j}]
  <2>1. /\ DOMAIN stored = Layer /\ i \in stored[l] /\ j \in stored[to]
    BY DEF MemInv
  <2>2. /\ \/ holds' = [stored EXCEPT ![from] = @ \ {j}]
           \/ holds' = stored \/ holds' = holds
        /\ onItself' = IF from = to THEN {j} ELSE {}
    BY <1>4 DEF Promote
  <2> HIDE DEF stored
  <2>3. CASE holds' = [stored EXCEPT ![from] = @ \ {j}]
    <3>1. CASE i # j
      BY <2>1, <2>3, <3>1
    <3>2. CASE i = j /\ from # to
      BY <2>1, <2>3, <3>2
    <3>3. CASE i = j /\ from = to
      BY <2>2, <3>3
    <3> QED BY <3>1, <3>2, <3>3
  <2> QED BY <2>1, <2>2, <2>3
<1> QED BY <1>1, <1>2, <1>3, <1>4 DEF MemNext, memVars, InitLayers, RegisterRoute

\* Whatever is written, promoted or raises, and however many layers have it, an item that a
\* layer took is only lost by decay or by a promotion to the layer it is in.
THEOREM NeverLostByMoving == MemSpec => PromotionIsSafe
<1>1. MemInit => MemInv
  BY DEF MemInit, MemInv
<1>2. MemInv /\ [MemNext]_memVars =>
        [ \A i \in Item :
            (\E l \in Layer : i \in holds[l]) =>
              (\E l \in Layer : i \in holds'[l]) \/ i \in decayed' \cup onItself' ]_memVars
  BY KeptUnlessDecayed
<1> QED BY <1>1, <1>2, MemStepInv, PTL DEF MemSpec, PromotionIsSafe

\* The memory kernel keeps its types: an item goes to a layer, whatever routes are registered.
THEOREM MemoryTypes == MemSpec => []MemTypeOK
<1>1. MemInit => MemInv /\ MemTypeOK
  BY DEF MemInit, MemInv, MemTypeOK
<1>2. MemInv /\ MemTypeOK /\ [MemNext]_memVars => MemTypeOK'
  <2> SUFFICES ASSUME MemInv, MemTypeOK, [MemNext]_memVars PROVE MemTypeOK'
    OBVIOUS
  <2>1. CASE InitLayers
    BY <2>1 DEF InitLayers, MemTypeOK
  <2>2. CASE DecayAll
    <3>1. PICK gone \in [Layer -> SUBSET Item] :
            /\ holds' = [k \in Layer |-> holds[k] \ gone[k]]
            /\ decayed' = UNION {gone[k] : k \in Layer}
      BY <2>2 DEF DecayAll
    <3>2. UNION {gone[k] : k \in Layer} \subseteq Item
      OBVIOUS
    <3>3. onItself' = {} /\ UNCHANGED <<booted, real, custom>>
      BY <2>2 DEF DecayAll
    <3> QED BY <3>1, <3>2, <3>3 DEF MemTypeOK
  <2>3. ASSUME NEW type \in EventType, NEW layer \in Layer, RegisterRoute(type, layer)
        PROVE  MemTypeOK'
    BY <2>3, RoutesStay DEF RegisterRoute, MemTypeOK
  <2>4. ASSUME NEW i \in Item, NEW type \in EventType, NEW n \in Importance, MemWrite(i, type, n)
        PROVE  MemTypeOK'
    BY <2>4 DEF MemWrite, MemTypeOK
  <2>5. ASSUME NEW i \in Item, NEW from \in Layer, NEW to \in Layer, Promote(i, from, to)
        PROVE  MemTypeOK'
    BY <2>5 DEF Promote, MemTypeOK
  <2>6. CASE UNCHANGED memVars
    BY <2>6 DEF memVars, MemTypeOK
  <2> QED BY <2>1, <2>2, <2>3, <2>4, <2>5, <2>6 DEF MemNext
<1> QED BY <1>1, <1>2, MemStepInv, PTL DEF MemSpec

-----------------------------------------------------------------------------
(* SubAgent *)

\* The agent is at work on the task.
WorksOn(a, t) == t \in capsules[a] \/ (dag[a] = t /\ t # NoTask)

SubShape ==
  /\ capsules \in [Agent -> SUBSET SubTask]
  /\ dag \in [Agent -> SubTask \union {NoTask}]
  /\ load \in [Agent -> Nat] /\ leaks \in [Agent -> Nat]
  /\ contexts \subseteq SubTask

\* A task is at one agent, as its DAG or as one of its capsules, and has a
\* context exactly then; otherwise the end of one would clear the context of
\* another.
PlaceInv ==
  /\ \A t \in SubTask : t \in contexts <=> \E a \in Agent : WorksOn(a, t)
  /\ \A t \in SubTask : \A a, b \in Agent : WorksOn(a, t) /\ WorksOn(b, t) => a = b
  /\ \A a \in Agent : dag[a] \notin capsules[a]

LoadInv ==
  \A a \in Agent : load[a] = leaks[a] + (IF dag[a] = NoTask THEN 0 ELSE 1)

SubInv == SubShape /\ PlaceInv /\ LoadInv

LEMMA InProgressIs ==
  ASSUME SubShape, NEW t
  PROVE  t \in InProgress <=> \E a \in Agent : WorksOn(a, t)
<1>1. t \in UNION {capsules[a] : a \in Agent} <=> \E a \in Agent : t \in capsules[a]
  OBVIOUS
<1>2. t \in ({dag[a] : a \in Agent} \ {NoTask}) <=> \E a \in Agent : dag[a] = t /\ t # NoTask
  OBVIOUS
<1>3. t \in InProgress <=> \/ t \in UNION {capsules[a] : a \in Agent}
                            \/ t \in ({dag[a] : a \in Agent} \ {NoTask})
  BY DEF InProgress
<1>4. (\E a \in Agent : WorksOn(a, t)) <=> \/ \E a \in Agent : t \in capsules[a]
                                         \/ \E a \in Agent : dag[a] = t /\ t # NoTask
  BY DEF WorksOn
<1> HIDE DEF InProgress, WorksOn
<1> QED BY <1>1, <1>2, <1>3, <1>4

LEMMA SubInitInv == SubInit => SubInv
<1> SUFFICES ASSUME SubInit PROVE SubInv
  OBVIOUS
<1>1. SubShape
  BY DEF SubInit, SubShape
<1>2. PlaceInv
  BY SubAgentAssumption DEF SubAgentAssumption, SubInit, PlaceInv, WorksOn
<1>3. LoadInv
  BY DEF SubInit, LoadInv
<1> QED BY <1>1, <1>2, <1>3 DEF SubInv

\* A task that an agent takes was with nobody.
LEMMA TakenIsFree ==
  ASSUME SubInv, NEW a \in Agent, NEW t \in SubTask, Takes(a, t)
  PROVE  /\ dag[a] = NoTask /\ t # NoTask /\ contexts' = contexts \union {t}
         /\ \A b \in Agent : ~WorksOn(b, t)
<1>1. SubShape
  BY DEF SubInv
<1>2. dag[a] = NoTask /\ t \notin InProgress /\ contexts' = contexts \union {t}
  BY DEF Takes
<1>3. \A b \in Agent : ~WorksOn(b, t)
  BY <1>1, <1>2, InProgressIs
<1>4. t # NoTask
  BY SubAgentAssumption DEF SubAgentAssumption
<1> QED BY <1>2, <1>3, <1>4

LEMMA SubStepInv == SubInv /\ [SubNext]_subVars => SubInv'
<1> SUFFICES ASSUME SubInv, [SubNext]_subVars PROVE SubInv'
  OBVIOUS
<1> USE DEF SubInv
<1>0. NoTask \notin SubTask
  BY SubAgentAssumption DEF SubAgentAssumption
<1>1. ASSUME NEW a \in Agent, NEW t \in SubTask, StartDag(a, t) PROVE SubInv'
  <2>1. /\ dag[a] = NoTask /\ t # NoTask /\ contexts' = contexts \union {t}
        /\ \A b \in Agent : ~WorksOn(b, t)
    BY <1>1, TakenIsFree DEF StartDag
  <2>2. /\ load' = [load EXCEPT ![a] = @ + 1] /\ dag' = [dag EXCEPT ![a] = t]
        /\ UNCHANGED <<capsules, leaks>>
    BY <1>1 DEF StartDag
  <2>3. SubShape'
    BY <2>1, <2>2 DEF SubShape
  <2>4. PlaceInv'
    BY <2>1, <2>2, <1>0 DEF SubShape, PlaceInv, WorksOn
  <2>5. LoadInv'
    BY <2>1, <2>2 DEF SubShape, LoadInv
  <2> QED BY <2>3, <2>4, <2>5
<1>2. ASSUME NEW a \in Agent, NEW t \in SubTask, StartCapsule(a, t) PROVE SubInv'
  <2>1. /\ dag[a] = NoTask /\ t # NoTask /\ contexts' = contexts \union {t}
        /\ \A b \in Agent : ~WorksOn(b, t)
    BY <1>2, TakenIsFree DEF StartCapsule
  <2>2. /\ capsules' = [capsules EXCEPT ![a] = @ \union {t}]
        /\ UNCHANGED <<load, dag, leaks>>
    BY <1>2 DEF StartCapsule
  <2>3. SubShape'
    BY <2>1, <2>2 DEF SubShape
  <2>4. PlaceInv'
    BY <2>1, <2>2, <1>0 DEF SubShape, PlaceInv, WorksOn
  <2>5. LoadInv'
    BY <2>2 DEF LoadInv
  <2> QED BY <2>3, <2>4, <2>5
<1>3. ASSUME NEW a \in Agent, NEW t \in SubTask, CapsuleEnds(a, t) PROVE SubInv'
  <2>1. /\ t \in capsules[a] /\ contexts' = contexts \ {t}
        /\ capsules' = [capsules EXCEPT ![a] = @ \ {t}]
        /\ UNCHANGED <<load, dag, leaks>>
    BY <1>3 DEF CapsuleEnds, ClearContext
  <2>2. SubShape'
    BY <2>1 DEF SubShape
  <2>3. \A b \in Agent : ~WorksOn(b, t)'
    BY <2>1, <1>0 DEF SubShape, PlaceInv, WorksOn
  <2>4. \A s \in SubTask, b \in Agent : s # t => (WorksOn(b, s)' <=> WorksOn(b, s))
    BY <2>1 DEF SubShape, WorksOn
  <2>5. PlaceInv'
    BY <2>1, <2>3, <2>4 DEF PlaceInv, SubShape
  <2>6. LoadInv'
    BY <2>1 DEF LoadInv
  <2> QED BY <2>2, <2>5, <2>6
<1>4. ASSUME NEW a \in Agent, DagReturns(a) \/ DagRaises(a) PROVE SubInv'
  <2>0. PICK t \in SubTask : t = dag[a]
    BY <1>4 DEF DagReturns, DagRaises, SubShape
  <2>1. /\ contexts' = contexts \ {t}
        /\ dag' = [dag EXCEPT ![a] = NoTask] /\ UNCHANGED capsules
    BY <1>4, <2>0 DEF DagReturns, DagRaises, ClearContext
  <2>2. /\ load'[a] = leaks'[a] /\ load' \in [Agent -> Nat] /\ leaks' \in [Agent -> Nat]
        /\ \A b \in Agent \ {a} : load'[b] = load[b] /\ leaks'[b] = leaks[b]
    <3>1. load[a] = leaks[a] + 1 /\ load[a] \in Nat /\ leaks[a] \in Nat
      BY <2>0, <1>0 DEF LoadInv, SubShape
    <3>2. CASE DagReturns(a)
      <4>1. load' = [load EXCEPT ![a] = load[a] - 1] /\ leaks' = leaks
        BY <3>1, <3>2, load[a] > 0 DEF DagReturns
      <4> QED BY <3>1, <4>1 DEF SubShape
    <3>3. CASE DagRaises(a)
      <4>1. leaks' = [leaks EXCEPT ![a] = leaks[a] + 1] /\ load' = load
        BY <3>3 DEF DagRaises
      <4> QED BY <3>1, <4>1 DEF SubShape
    <3> QED BY <1>4, <3>2, <3>3
  <2>3. SubShape'
    BY <2>1, <2>2 DEF SubShape
  <2>4. \A b \in Agent : ~WorksOn(b, t)'
    BY <2>0, <2>1, <1>0 DEF SubShape, PlaceInv, WorksOn
  <2>5. \A s \in SubTask, b \in Agent : s # t => (WorksOn(b, s)' <=> WorksOn(b, s))
    BY <2>0, <2>1, <1>0 DEF SubShape, WorksOn
  <2>6. \A b \in Agent : dag'[b] \notin capsules'[b]
    BY <2>1, <1>0 DEF SubShape, PlaceInv
  <2>7. PlaceInv'
    BY <2>1, <2>4, <2>5, <2>6 DEF PlaceInv, SubShape
  <2>8. LoadInv'
    <3>1. dag'[a] = NoTask /\ \A b \in Agent \ {a} : dag'[b] = dag[b]
      BY <2>1 DEF SubShape
    <3>2. leaks'[a] \in Nat
      BY <2>2
    <3> QED BY <2>2, <3>1, <3>2 DEF LoadInv
  <2> QED BY <2>3, <2>7, <2>8
<1>5. CASE \/ \E a \in Agent : AddAgent(a) \/ RemoveAgent(a)
           \/ UNCHANGED subVars
  <2>1. UNCHANGED <<load, dag, capsules, contexts, leaks>>
    BY <1>5 DEF AddAgent, RemoveAgent, subVars
  <2> QED BY <2>1 DEF SubShape, PlaceInv, WorksOn, LoadInv
<1> QED BY <1>1, <1>2, <1>3, <1>4, <1>5 DEF SubNext

\* Whatever raises, a context exists exactly while its task is in progress,
\* and an agent's load is its failed DAGs and the one it is executing.
THEOREM AgentsAccounted == SubSpec => []AgentAccounts
<1>1. SubInv => AgentAccounts
  <2> SUFFICES ASSUME SubInv PROVE AgentAccounts
    OBVIOUS
  <2>1. SubShape /\ PlaceInv /\ LoadInv
    BY DEF SubInv
  <2>2. \A t : t \in InProgress <=> \E a \in Agent : WorksOn(a, t)
    BY <2>1, InProgressIs
  <2>3. \A t : (\E a \in Agent : WorksOn(a, t)) => t \in SubTask
    BY <2>1 DEF SubShape, WorksOn
  <2>4. contexts = InProgress
    BY <2>1, <2>2, <2>3 DEF SubShape, PlaceInv
  <2> QED BY <2>1, <2>4 DEF AgentAccounts, LoadInv
<1> QED BY <1>1, SubInitInv, SubStepInv, PTL DEF SubSpec

\* A DAG that runs may still fail without passing the bound.
MayFail == \A a \in Agent : dag[a] # NoTask => leaks[a] < MaxLeaks

\* The sub-agents and their pool keep their types.
THEOREM SubAgentTypes == SubSpec => []SubTypeOK
<1>0. MaxLeaks \in Nat
  BY SubAgentAssumption DEF SubAgentAssumption
<1>1. SubInit => SubTypeOK /\ MayFail
  BY <1>0 DEF SubInit, SubTypeOK, MayFail
<1>2. SubTypeOK /\ MayFail /\ [SubNext]_subVars => (SubTypeOK /\ MayFail)'
  <2> SUFFICES ASSUME SubTypeOK, MayFail, [SubNext]_subVars PROVE (SubTypeOK /\ MayFail)'
    OBVIOUS
  <2> USE <1>0 DEF SubTypeOK, MayFail
  <2>1. ASSUME NEW a \in Agent, NEW t \in SubTask, StartDag(a, t) PROVE (SubTypeOK /\ MayFail)'
    BY <2>1 DEF StartDag, Takes
  <2>2. ASSUME NEW a \in Agent, NEW t \in SubTask, StartCapsule(a, t)
        PROVE  (SubTypeOK /\ MayFail)'
    BY <2>2 DEF StartCapsule, Takes
  <2>3. ASSUME NEW a \in Agent, NEW t \in SubTask, CapsuleEnds(a, t) PROVE (SubTypeOK /\ MayFail)'
    BY <2>3 DEF CapsuleEnds, ClearContext
  <2>4. ASSUME NEW a \in Agent, DagReturns(a) PROVE (SubTypeOK /\ MayFail)'
    <3>1. dag[a] \in SubTask
      BY <2>4 DEF DagReturns
    <3> QED BY <2>4, <3>1 DEF DagReturns, ClearContext
  <2>5. ASSUME NEW a \in Agent, DagRaises(a) PROVE (SubTypeOK /\ MayFail)'
    <3>1. leaks[a] + 1 \in 0..MaxLeaks
      BY <2>5 DEF DagRaises
    <3> QED BY <2>5, <3>1 DEF DagRaises, ClearContext
  <2>6. ASSUME NEW a \in Agent, AddAgent(a) \/ RemoveAgent(a) PROVE (SubTypeOK /\ MayFail)'
    BY <2>6 DEF AddAgent, RemoveAgent
  <2>7. CASE UNCHANGED subVars
    BY <2>7 DEF subVars
  <2> QED BY <2>1, <2>2, <2>3, <2>4, <2>5, <2>6, <2>7 DEF SubNext
<1> QED BY <1>1, <1>2, PTL DEF SubSpec
=============================================================================
