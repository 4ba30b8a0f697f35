----------------------------- MODULE MCServices -----------------------------
(***************************************************************************)
(* The smaller components, checked in one run.  They share no state, so    *)
(* nothing is lost by letting one of them move per behaviour: `part` is    *)
(* chosen at the start, the others rest in their initial states, and every *)
(* property of a component is a property of the whole.                     *)
(***************************************************************************)
EXTENDS ChainStore, EventBus, MemoryKernel, Coordinator, Controller, SubAgent,
        RuntimeContext, Application, Observation, ValueGate, GoldenChain

VARIABLE part

Parts == {"chain_store", "event_bus", "memory", "coordinator", "controller", "sub_agent",
          "runtime_context", "application", "observation", "value_gate", "golden_chain"}

servicesVars == <<part, chainVars, busVars, memVars, coordVars, ctrlVars, subVars,
                  ctxVars, appVars, obsVars, gateVars, goldVars>>

ServicesInit ==
  /\ part \in Parts
  /\ ChainInit /\ BusInit /\ MemInit /\ CoordInit /\ CtrlInit /\ SubInit
  /\ CtxInit /\ AppInit /\ ObsInit /\ GateInit /\ GoldInit

ChainMoves ==
  /\ part = "chain_store" /\ ChainNext
  /\ UNCHANGED <<part, busVars, memVars, coordVars, ctrlVars, subVars, ctxVars,
                 appVars, obsVars, gateVars, goldVars>>

BusMoves ==
  /\ part = "event_bus" /\ BusNext
  /\ UNCHANGED <<part, chainVars, memVars, coordVars, ctrlVars, subVars, ctxVars,
                 appVars, obsVars, gateVars, goldVars>>

MemoryMoves ==
  /\ part = "memory" /\ MemNext
  /\ UNCHANGED <<part, chainVars, busVars, coordVars, ctrlVars, subVars, ctxVars,
                 appVars, obsVars, gateVars, goldVars>>

CoordinatorMoves ==
  /\ part = "coordinator" /\ CoordNext
  /\ UNCHANGED <<part, chainVars, busVars, memVars, ctrlVars, subVars, ctxVars,
                 appVars, obsVars, gateVars, goldVars>>

ControllerMoves ==
  /\ part = "controller" /\ CtrlNext
  /\ UNCHANGED <<part, chainVars, busVars, memVars, coordVars, subVars, ctxVars,
                 appVars, obsVars, gateVars, goldVars>>

SubAgentMoves ==
  /\ part = "sub_agent" /\ SubNext
  /\ UNCHANGED <<part, chainVars, busVars, memVars, coordVars, ctrlVars, ctxVars,
                 appVars, obsVars, gateVars, goldVars>>

ContextMoves ==
  /\ part = "runtime_context" /\ CtxNext
  /\ UNCHANGED <<part, chainVars, busVars, memVars, coordVars, ctrlVars, subVars,
                 appVars, obsVars, gateVars, goldVars>>

AppRests == UNCHANGED <<part, chainVars, busVars, memVars, coordVars, ctrlVars, subVars,
                        ctxVars, obsVars, gateVars, goldVars>>

ApplicationMoves == part = "application" /\ AppNext /\ AppRests

ObservationMoves ==
  /\ part = "observation" /\ ObsNext
  /\ UNCHANGED <<part, chainVars, busVars, memVars, coordVars, ctrlVars, subVars,
                 ctxVars, appVars, gateVars, goldVars>>

ValueMoves ==
  /\ part = "value_gate" /\ GateNext
  /\ UNCHANGED <<part, chainVars, busVars, memVars, coordVars, ctrlVars, subVars,
                 ctxVars, appVars, obsVars, goldVars>>

GoldenMoves ==
  /\ part = "golden_chain" /\ GoldNext
  /\ UNCHANGED <<part, chainVars, busVars, memVars, coordVars, ctrlVars, subVars,
                 ctxVars, appVars, obsVars, gateVars>>

ServicesNext ==
  \/ ChainMoves \/ BusMoves \/ MemoryMoves \/ CoordinatorMoves \/ ControllerMoves
  \/ SubAgentMoves \/ ContextMoves \/ ApplicationMoves \/ ObservationMoves
  \/ ValueMoves \/ GoldenMoves

\* The fairness of Application: the main thread goes on once it stops.
ServicesSpec ==
  /\ ServicesInit /\ [][ServicesNext]_servicesVars
  /\ WF_appVars(part = "application" /\ AppStopping /\ AppRests)

\* Every component keeps its state well-formed; among other things no chain is
\* filed with a reward outside -1..1, and nothing is started that is not there.
ServicesTypeOK ==
  /\ part \in Parts
  /\ ChainTypeOK /\ BusTypeOK /\ MemTypeOK /\ CoordTypeOK /\ CtrlTypeOK /\ SubTypeOK
  /\ CtxTypeOK /\ AppTypeOK /\ ObsTypeOK /\ GateTypeOK /\ GoldTypeOK
=============================================================================
