--------------------------- MODULE ServicesProofs ---------------------------
(***************************************************************************)
(* The smaller components together, as MCServices runs them: every part    *)
(* behaves as its own module says, so what is proved of the parts holds of *)
(* the whole.  Also the types of Application, which has no other theorem.  *)
(***************************************************************************)
EXTENDS MCServices, RuntimeProofs, AgentProofs, ValueProofs, TLAPS

-----------------------------------------------------------------------------
(* Application *)

\* Components are created until there are none left to create.
AppInv == AppTypeOK /\ (main = "assembling" => layer <= Len(Assembly))

LEMMA LengthsAre == Len(Assembly) = 14 /\ Len(Boot) = 4 /\ Len(Halt) = 4
BY DEF Assembly, Boot, Halt

LEMMA AppInitInv == AppInit => AppInv
<1> SUFFICES ASSUME AppInit PROVE AppInv
  OBVIOUS
<1>1. /\ layer \in 1..Len(Assembly) + 1 /\ boot \in 1..Len(Boot) + 2 /\ halt \in 1..Len(Halt) + 1
      /\ layer <= Len(Assembly)
  BY LengthsAre DEF AppInit
<1>2. signals \in 0..MaxSignals
  BY ApplicationAssumption DEF ApplicationAssumption, AppInit
<1>3. /\ bundle \subseteq Managed /\ started \subseteq bundle /\ tasks \subseteq RunLoops
      /\ switch \in BOOLEAN /\ running \in BOOLEAN
  BY DEF AppInit
<1>4. /\ ui = "none" /\ main = "assembling" /\ resume = "exited" /\ thread = "none"
      /\ shutdown = "none" /\ memory = "open"
  BY DEF AppInit
<1> QED BY <1>1, <1>2, <1>3, <1>4 DEF AppInv, AppTypeOK

\* The main thread keeps the types.
LEMMA AppMainStep == AppInv /\ AppMain => AppInv'
<1> SUFFICES ASSUME AppInv, AppMain PROVE AppInv'
  OBVIOUS
<1> USE LengthsAre DEF AppInv, AppTypeOK, mainVars, loopVars
<1>1. CASE CreateLayer
  <2>1. /\ layer \in 1..14 /\ layer' = layer + 1
        /\ main' = IF layer = 14 THEN "start" ELSE main
    BY <1>1 DEF CreateLayer
  <2>2. bundle \subseteq bundle' /\ bundle' \subseteq Managed
    BY <1>1 DEF CreateLayer
  <2>3. ui' \in {"none", "tkinter", "manager"}
    BY <1>1 DEF CreateLayer
  <2>4. UNCHANGED <<switch, resume, running, signals, loopVars, memory>>
    BY <1>1 DEF CreateLayer
  <2>5. layer' \in 1..15 /\ (main' = "assembling" => layer' <= 14)
    BY <2>1
  <2>6. main' \in {"assembling", "start"}
    BY <1>1, <2>1 DEF CreateLayer
  <2> QED BY <2>2, <2>3, <2>4, <2>5, <2>6
<1>2. CASE CreateRaises
  BY <1>2 DEF CreateRaises
<1>3. CASE InstallSwitch
  BY <1>3 DEF InstallSwitch
<1>4. CASE Start
  BY <1>4 DEF Start
<1>5. CASE StartFails
  <2>1. main' \in {"exited", "cleanup"}
    BY <1>5 DEF StartFails
  <2> QED BY <1>5, <2>1 DEF StartFails
<1>6. CASE MainloopEnds
  <2>1. main' \in {"cleanup", "stop", "exited"}
    BY <1>6 DEF MainloopEnds
  <2> QED BY <1>6, <2>1 DEF MainloopEnds
<1>7. CASE Signal
  <2>1. signals' \in 0..MaxSignals
    BY <1>7, ApplicationAssumption DEF ApplicationAssumption, Signal
  <2>2. resume' \in {"exited", "cleanup"}
    BY <1>7 DEF Signal
  <2> QED BY <1>7, <2>1, <2>2 DEF Signal
<1>8. CASE CleanupUi
  BY <1>8 DEF CleanupUi
<1>9. CASE Stop
  BY <1>9 DEF Stop
<1>10. CASE Submit
  <2>1. main' \in {"waiting", "join"} /\ shutdown' \in {"queued", shutdown} /\ halt' \in {1, halt}
    BY <1>10 DEF Submit
  <2> QED BY <1>10, <2>1 DEF Submit
<1>11. CASE Waited
  BY <1>11 DEF Waited
<1>12. CASE Joined
  BY <1>12 DEF Joined
<1> QED
  BY <1>1, <1>2, <1>3, <1>4, <1>5, <1>6, <1>7, <1>8, <1>9, <1>10, <1>11, <1>12 DEF AppMain

\* So does the loop thread.
LEMMA AppLoopStep == AppInv /\ AppLoop => AppInv'
<1> SUFFICES ASSUME AppInv, AppLoop PROVE AppInv'
  OBVIOUS
<1> USE LengthsAre DEF AppInv, AppTypeOK, mainVars
<1>1. CASE LoopThreadStarts
  BY <1>1 DEF LoopThreadStarts
<1>2. CASE BootStep
  BY <1>2 DEF BootStep
<1>3. CASE BootTasks
  BY <1>3 DEF BootTasks
<1>4. CASE TaskEnds
  BY <1>4 DEF TaskEnds
<1>5. CASE ShutdownBegins
  BY <1>5 DEF ShutdownBegins
<1>6. CASE ShutdownStep
  BY <1>6 DEF ShutdownStep
<1>7. CASE ShutdownEnds
  BY <1>7 DEF ShutdownEnds
<1>8. CASE AsyncMainEnds
  BY <1>8 DEF AsyncMainEnds
<1>9. CASE CancelPending
  <2>1. shutdown' \in {"cancelled", "lost", shutdown}
    BY <1>9 DEF CancelPending
  <2> QED BY <1>9, <2>1 DEF CancelPending
<1>10. CASE LoopCloses
  BY <1>10 DEF LoopCloses
<1> QED
  BY <1>1, <1>2, <1>3, <1>4, <1>5, <1>6, <1>7, <1>8, <1>9, <1>10 DEF AppLoop

LEMMA AppStepInv == AppInv /\ [AppNext]_appVars => AppInv'
<1>1. AppInv /\ UNCHANGED appVars => AppInv'
  BY DEF AppInv, AppTypeOK, appVars, mainVars, loopVars
<1> QED BY <1>1, AppMainStep, AppLoopStep DEF AppNext

\* Application keeps its types; nothing is started that is not in the bundle.
THEOREM ApplicationTypes == AppInit /\ [][AppNext]_appVars => []AppTypeOK
<1>1. AppInv => AppTypeOK
  BY DEF AppInv
<1> QED BY <1>1, AppInitInv, AppStepInv, PTL

-----------------------------------------------------------------------------
(* The parts and the whole *)

\* A step of the whole is a step of each part, or the part rests.
LEMMA PartsStep ==
  [ServicesNext]_servicesVars =>
    /\ [ChainNext]_chainVars /\ [BusNext]_busVars /\ [MemNext]_memVars
    /\ [CoordNext]_coordVars /\ [CtrlNext]_ctrlVars /\ [SubNext]_subVars
    /\ [CtxNext]_ctxVars /\ [AppNext]_appVars /\ [ObsNext]_obsVars
    /\ [GateNext]_gateVars /\ [GoldNext]_goldVars
    /\ part' = part
BY DEF ServicesNext, servicesVars, ChainMoves, BusMoves, MemoryMoves, CoordinatorMoves,
       ControllerMoves, SubAgentMoves, ContextMoves, ApplicationMoves, AppRests,
       ObservationMoves, ValueMoves, GoldenMoves

\* In the run of the smaller components each of them behaves as its module specifies.
THEOREM PartsAsSpecified ==
  ServicesSpec =>
    /\ ChainSpec /\ BusSpec /\ MemSpec /\ CoordSpec /\ CtrlSpec /\ SubSpec
    /\ CtxSpec /\ ObsSpec /\ GateSpec /\ GoldSpec
    /\ AppInit /\ [][AppNext]_appVars
<1>1. ServicesInit => /\ ChainInit /\ BusInit /\ MemInit /\ CoordInit /\ CtrlInit /\ SubInit
                      /\ CtxInit /\ AppInit /\ ObsInit /\ GateInit /\ GoldInit
  BY DEF ServicesInit
<1> QED
  BY <1>1, PartsStep, PTL
  DEF ServicesSpec, ChainSpec, BusSpec, MemSpec, CoordSpec, CtrlSpec, SubSpec, CtxSpec,
      ObsSpec, GateSpec, GoldSpec

\* Every component keeps its state well-formed, for any instance.
THEOREM ServicesTypes == ServicesSpec => []ServicesTypeOK
<1>1. ServicesSpec => [](part \in Parts)
  <2>1. ServicesInit => part \in Parts
    BY DEF ServicesInit
  <2>2. part \in Parts /\ [ServicesNext]_servicesVars => (part \in Parts)'
    BY PartsStep
  <2> QED BY <2>1, <2>2, PTL DEF ServicesSpec
<1>2. /\ part \in Parts /\ ChainTypeOK /\ BusTypeOK /\ MemTypeOK /\ CoordTypeOK /\ CtrlTypeOK
      /\ SubTypeOK /\ CtxTypeOK /\ AppTypeOK /\ ObsTypeOK /\ GateTypeOK /\ GoldTypeOK
      => ServicesTypeOK
  BY DEF ServicesTypeOK
<1> QED
  BY <1>1, <1>2, PartsAsSpecified, ChainTypes, EventBusTypes, MemoryTypes, CoordinatorTypes,
     ControllerTypes, SubAgentTypes, ContextTypes, ApplicationTypes, ObservationTypes,
     GateTypes, GoldenTypes, PTL

\* What the modules promise one by one holds in the run of them all, for any instance.
THEOREM ServicesSafe ==
  ServicesSpec =>
    /\ [](OnceIsOver /\ OneModulePerName /\ AgentAccounts /\ ContextsSound)
    /\ [](EpisodesAligned /\ ApprovedNeverRejected /\ PraiseIsEarned)
    /\ KeepsCatalog /\ PromotionIsSafe
<1> QED
  BY PartsAsSpecified, OnceOnly, OneModule, AgentsAccounted, ContextSound,
     EpisodesInOrder, RejectedNotApproved, PraiseEarned, ImplementsCatalog, NeverLostByMoving, PTL
=============================================================================
