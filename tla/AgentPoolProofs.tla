--------------------------- MODULE AgentPoolProofs ---------------------------
(***************************************************************************)
(* Proofs about AgentPool, for every value of its constants: types, the    *)
(* agreement of the pool's registries with its coroutines, the bound on    *)
(* the pool's size, that no task is lost where nothing destroys workers or *)
(* replaces the queue, and that no task is ever in more places than its    *)
(* client submitted it.                                                    *)
(***************************************************************************)
EXTENDS AgentPool, FiniteSetTheorems, TLAPS

USE DEF Loop, poolVars, clientVars, loopVars, lockVars, runVars

-----------------------------------------------------------------------------
(* The inductive invariants *)

\* A blocked dispatcher holds a task.
HandHolds == \A n \in Loop : loop[n] = "blocked" => hand[n] \in Task

TypeInv == TypeOK /\ HandHolds

\* An id no worker was created under is mentioned nowhere.
FreshUnused ==
  \A w \in Worker : wstate[w] = "none" =>
    /\ w \notin workers /\ w \notin idle /\ w \notin busy
    /\ \A e \in execs : e.worker # w

\* No id is idle, registered or not, while a coroutine uses it.
ExecNotIdle == \A e \in execs : e.worker \notin idle

\* The worker's own state follows the phase of its coroutine as long as it is registered;
\* one destroyed before its coroutine began stays stopped until the coroutine sees it.
StateFollowsPhase ==
  \A e \in execs :
    /\ e.worker \in workers =>
         wstate[e.worker] = IF e.phase = "spawned" THEN "idle" ELSE "busy"
    /\ e.worker \notin workers /\ e.phase = "spawned" => wstate[e.worker] = "stopped"

PoolInv ==
  /\ OneTaskPerWorker /\ RegistriesAgree /\ IdleMeansFree /\ DestroyedWaitForNothing
  /\ FreshUnused /\ ExecNotIdle /\ StateFollowsPhase

IInv == TypeInv /\ PoolInv

-----------------------------------------------------------------------------
(* Types *)

\* The types hold initially.
LEMMA TypeInit == Init => TypeInv
<1> SUFFICES ASSUME Init PROVE TypeInv
  OBVIOUS
<1> USE DEF Init
<1>1. /\ starts \in 0..MaxStarts /\ lock \in Loop \cup {0}
      /\ attempts \in [Task -> 1..MaxAttempts]
  BY AgentPoolAssumption DEF AgentPoolAssumption
<1>2. HandHolds
  BY DEF HandHolds
<1>3. /\ status \in [Task -> Status] /\ queue \in [Task -> Nat]
      /\ wstate \in [Worker -> {"none", "idle", "busy", "stopped"}]
      /\ caps \in [Worker -> SUBSET Type]
      /\ hand \in [Loop -> Task \cup {NoTask}]
  BY DEF Status
<1> QED BY <1>1, <1>2, <1>3 DEF TypeInv, TypeOK

\* Every step of a client keeps the types.
LEMMA TypeClient == TypeInv /\ ClientStep => TypeInv'
<1> SUFFICES ASSUME TypeInv, NEW t \in Task, Submit(t) \/ TakeResult(t) \/ WaitTimeout(t)
             PROVE TypeInv'
  BY DEF ClientStep
<1> USE AgentPoolAssumption DEF AgentPoolAssumption, TypeInv, TypeOK, HandHolds, Status
<1>1. CASE Submit(t)
  BY <1>1 DEF Submit, Enqueue
<1>2. ASSUME Retry(t) PROVE /\ attempts' \in [Task -> 1..MaxAttempts]
                            /\ client' \in [Task -> {"new", "waiting", "done", "failed"}]
                            /\ status' \in [Task -> Status]
                            /\ queue' \in [Task -> Nat]
  <2>1. CASE attempts[t] < MaxAttempts
    <3>1. /\ attempts' = [attempts EXCEPT ![t] = attempts[t] + 1]
          /\ status' = [status EXCEPT ![t] = "pending"]
          /\ queue' = [queue EXCEPT ![t] = queue[t] + 1]
          /\ UNCHANGED client
      BY <1>2, <2>1 DEF Retry, Enqueue
    <3>2. attempts[t] + 1 \in 1..MaxAttempts
      BY <2>1
    <3> QED BY <3>1, <3>2
  <2>2. CASE ~(attempts[t] < MaxAttempts)
    BY <1>2, <2>2 DEF Retry
  <2> QED BY <2>1, <2>2
<1>3. CASE TakeResult(t)
  BY <1>2, <1>3 DEF TakeResult
<1>4. CASE WaitTimeout(t)
  BY <1>2, <1>4 DEF WaitTimeout
<1> QED BY <1>1, <1>3, <1>4

\* Every step of a dispatch loop keeps the types.
LEMMA TypeDispatch == ASSUME TypeInv, NEW n \in Loop, DispatchStep(n) PROVE TypeInv'
<1> USE AgentPoolAssumption DEF AgentPoolAssumption, TypeInv, TypeOK, HandHolds, Status
<1>1. ASSUME NEW t \in Task, Head(t), Dequeue(t) PROVE queue' \in [Task -> Nat]
  BY <1>1 DEF Head, Dequeue
<1>2. ASSUME NEW w \in Worker, NEW t \in Task, Spawn(w, t) PROVE execs' \subseteq ExecType
  BY <1>2 DEF Spawn, ExecType, Phase, Outcome
<1>3. ASSUME NEW t \in Task, NEW w \in Worker, DispatchIdle(n, t, w) PROVE TypeInv'
  BY <1>1, <1>2, <1>3 DEF DispatchIdle, MarkBusy
<1>4. ASSUME NEW t \in Task, NEW w \in Worker, DispatchCreate(n, t, w) PROVE TypeInv'
  BY <1>1, <1>2, <1>4 DEF DispatchCreate, Create
<1>5. ASSUME NEW t \in Task, DispatchKeyError(n, t) PROVE TypeInv'
  BY <1>1, <1>5 DEF DispatchKeyError
<1>6. ASSUME NEW t \in Task, DispatchBlock(n, t) PROVE TypeInv'
  BY <1>1, <1>6 DEF DispatchBlock
<1>7. CASE DispatchResume(n)
  <2>1. hand[n] \in Task
    BY <1>7 DEF DispatchResume
  <2>2. ASSUME NEW w \in Worker, Create(w, hand[n]), Spawn(w, hand[n])
        PROVE /\ execs' \subseteq ExecType /\ caps' \in [Worker -> SUBSET Type]
              /\ wstate' \in [Worker -> {"none", "idle", "busy", "stopped"}]
              /\ workers' \subseteq Worker /\ busy' \subseteq Worker /\ idle' \subseteq Worker
              /\ bare' \subseteq Worker /\ finished' \subseteq Worker /\ aged' \subseteq Worker
    BY <1>2, <2>1, <2>2 DEF Create
  <2>3. CASE HasRoom /\ UNCHANGED queue /\ \E w \in Worker : Create(w, hand[n]) /\ Spawn(w, hand[n])
    BY <1>7, <2>2, <2>3 DEF DispatchResume
  <2>4. CASE Enqueue(hand[n]) /\ UNCHANGED <<execs, poolVars>>
    BY <1>7, <2>1, <2>4 DEF DispatchResume, Enqueue
  <2> QED BY <1>7, <2>3, <2>4 DEF DispatchResume
<1>8. CASE DispatchExit(n)
  BY <1>8 DEF DispatchExit
<1> QED BY <1>3, <1>4, <1>5, <1>6, <1>7, <1>8 DEF DispatchStep

\* Every step of an _execute_and_collect coroutine, and the end of its handler, keeps the types.
LEMMA TypeExec ==
  ASSUME TypeInv, NEW w \in Worker, ExecStep(w) \/ HandlerStep(w) PROVE TypeInv'
<1> USE AgentPoolAssumption DEF AgentPoolAssumption, TypeInv, TypeOK, HandHolds, Status, ExecType, Phase, Outcome
<1>1. ASSUME NEW e \in execs, ExecReject(e) PROVE TypeInv'
  BY <1>1 DEF ExecReject, MarkIdle
<1>2. ASSUME NEW e \in execs, ExecStart(e) PROVE TypeInv'
  BY <1>2 DEF ExecStart
<1>3. ASSUME NEW e \in execs, ExecFinish(e) PROVE TypeInv'
  <2>1. StatusAfter(e.task, e.phase) \in Status
    BY <1>3 DEF ExecFinish, StatusAfter
  <2> QED BY <1>3, <2>1 DEF ExecFinish, MarkIdle
<1>4. ASSUME NEW e \in execs, NEW o \in Outcome, HandlerEnds(e, o) PROVE TypeInv'
  BY <1>4 DEF HandlerEnds
<1> QED BY <1>1, <1>2, <1>3, <1>4 DEF ExecStep, HandlerStep

\* Removing workers, the heart of every destroy and of stop(), keeps the pool's types.
LEMMA TypeRemove ==
  ASSUME TypeInv, NEW S, Remove(S)
  PROVE  /\ wstate' \in [Worker -> {"none", "idle", "busy", "stopped"}]
         /\ workers' \subseteq Worker /\ idle' \subseteq Worker /\ busy' \subseteq Worker
         /\ execs' \subseteq ExecType
         /\ UNCHANGED <<caps, bare, finished, aged>>
<1>1. ASSUME NEW e \in execs PROVE Cancelled(e, S) \in ExecType
  <2>1. e \in ExecType
    BY DEF TypeInv, TypeOK
  <2>2. [e EXCEPT !.phase = "cancelled"] \in ExecType
    BY <2>1 DEF ExecType, Phase, Outcome
  <2> QED BY <2>1, <2>2 DEF Cancelled
<1> QED BY <1>1 DEF Remove, TypeInv, TypeOK

\* Every operation from outside keeps the types, and so does the end of stop().
LEMMA TypeOutside == TypeInv /\ (OutsideStep \/ StopDestroy) => TypeInv'
<1> SUFFICES ASSUME TypeInv, OutsideStep \/ StopDestroy PROVE TypeInv'
  OBVIOUS
<1> USE AgentPoolAssumption DEF AgentPoolAssumption, TypeInv, TypeOK, HandHolds
<1>1. ASSUME NEW w \in Worker, NEW force \in BOOLEAN, Destroy(w, force) PROVE TypeInv'
  BY <1>1, TypeRemove DEF Destroy
<1>2. ASSUME NEW w \in Worker, Terminate(w) PROVE TypeInv'
  BY <1>2, TypeRemove DEF Terminate
<1>3. ASSUME NEW w \in Worker, MakeInsert(w) PROVE TypeInv'
  BY <1>3 DEF MakeInsert
<1>4. ASSUME NEW w \in Worker, Age(w) PROVE TypeInv'
  BY <1>4 DEF Age
<1>5. CASE MakeCheck
  BY <1>5 DEF MakeCheck
<1>6. CASE Start
  BY <1>6 DEF Start
<1>7. CASE StopBegin
  BY <1>7 DEF StopBegin
<1>8. CASE StopDestroy
  BY <1>8, TypeRemove DEF StopDestroy
<1> QED BY <1>1, <1>2, <1>3, <1>4, <1>5, <1>6, <1>7, <1>8 DEF OutsideStep

\* Every step keeps the types.
LEMMA TypeStep == TypeInv /\ [Next]_vars => TypeInv'
<1> SUFFICES ASSUME TypeInv, [Next]_vars PROVE TypeInv'
  OBVIOUS
<1>1. ASSUME NEW n \in Loop, CleanerStep(n) PROVE TypeInv'
  BY <1>1, AgentPoolAssumption
  DEF AgentPoolAssumption, CleanerStep, Cleanup, CleanerExit, TypeInv, TypeOK, HandHolds
<1>2. CASE UNCHANGED vars
  BY <1>2 DEF vars, TypeInv, TypeOK, HandHolds
<1> QED BY <1>1, <1>2, TypeClient, TypeDispatch, TypeExec, TypeOutside DEF Next

\* Every variable keeps its type: AgentManager, WorkerPool, workers, tasks and clients.
THEOREM TypeCorrect == Spec => []TypeOK
<1>1. TypeInv => TypeOK
  BY DEF TypeInv
<1> QED BY TypeInit, TypeStep, <1>1, PTL DEF Spec
-----------------------------------------------------------------------------
(* The pool's registries, the workers' states and the coroutines agree *)

\* A step that touches neither lists, worker states nor coroutines keeps their agreement.
LEMMA PoolFrame ==
  ASSUME PoolInv, UNCHANGED <<workers, idle, busy, wstate, execs>> PROVE PoolInv'
BY DEF PoolInv, OneTaskPerWorker, RegistriesAgree, IdleMeansFree, DestroyedWaitForNothing,
       FreshUnused, ExecNotIdle, StateFollowsPhase

\* A worker taken from the idle list for a new coroutine was free.
LEMMA PoolDispatchIdle ==
  ASSUME TypeInv, PoolInv, NEW n \in Loop, NEW t \in Task, NEW w \in Worker,
         DispatchIdle(n, t, w)
  PROVE  PoolInv'
<1> DEFINE new == [worker |-> w, task |-> t, phase |-> "spawned"]
<1>1. /\ w \in idle /\ w \in workers
      /\ idle' = idle \ {w} /\ busy' = busy \cup {w}
      /\ execs' = execs \cup {new}
      /\ UNCHANGED <<workers, wstate>>
  BY DEF DispatchIdle, MarkBusy, Spawn
<1>2. /\ new.worker = w /\ new.phase = "spawned"
      /\ \A e \in execs : e.worker # w
      /\ wstate[w] = "idle"
  BY <1>1 DEF PoolInv, ExecNotIdle, IdleMeansFree
<1> HIDE DEF new
<1> USE DEF PoolInv
<1>3. OneTaskPerWorker'
  BY <1>1, <1>2 DEF OneTaskPerWorker
<1>4. RegistriesAgree'
  BY <1>1, <1>2 DEF RegistriesAgree
<1>5. IdleMeansFree' /\ ExecNotIdle'
  BY <1>1, <1>2 DEF IdleMeansFree, ExecNotIdle
<1>6. DestroyedWaitForNothing' /\ FreshUnused'
  BY <1>1, <1>2 DEF DestroyedWaitForNothing, FreshUnused
<1>7. StateFollowsPhase'
  BY <1>1, <1>2 DEF StateFollowsPhase
<1> QED BY <1>3, <1>4, <1>5, <1>6, <1>7

\* A worker created for a task enters the busy list and nothing knew its id before.
LEMMA PoolCreate ==
  ASSUME TypeInv, PoolInv, NEW w \in Worker, NEW t, Create(w, t), Spawn(w, t)
  PROVE  PoolInv'
<1> DEFINE new == [worker |-> w, task |-> t, phase |-> "spawned"]
<1>1. /\ wstate[w] = "none"
      /\ wstate' = [wstate EXCEPT ![w] = "idle"]
      /\ workers' = workers \cup {w} /\ busy' = busy \cup {w}
      /\ UNCHANGED idle
      /\ execs' = execs \cup {new}
  BY DEF Create, Spawn
<1>2. /\ new.worker = w /\ new.phase = "spawned"
      /\ w \notin workers /\ w \notin idle /\ w \notin busy
      /\ \A e \in execs : e.worker # w
  BY <1>1 DEF PoolInv, FreshUnused
<1>3. /\ wstate'[w] = "idle"
      /\ \A v \in Worker \ {w} : wstate'[v] = wstate[v]
      /\ \A e \in execs : e.worker \in Worker
      /\ workers \subseteq Worker /\ idle \subseteq Worker
  BY <1>1 DEF TypeInv, TypeOK, ExecType
<1> HIDE DEF new
<1> USE DEF PoolInv
<1>4. OneTaskPerWorker'
  BY <1>1, <1>2 DEF OneTaskPerWorker
<1>5. RegistriesAgree'
  BY <1>1, <1>2 DEF RegistriesAgree
<1>6. IdleMeansFree' /\ ExecNotIdle'
  BY <1>1, <1>2, <1>3 DEF IdleMeansFree, ExecNotIdle
<1>7. DestroyedWaitForNothing' /\ FreshUnused'
  BY <1>1, <1>2, <1>3 DEF DestroyedWaitForNothing, FreshUnused
<1>8. StateFollowsPhase'
  BY <1>1, <1>2, <1>3 DEF StateFollowsPhase
<1> QED BY <1>4, <1>5, <1>6, <1>7, <1>8

\* A worker that create_agent inserts is free.
LEMMA PoolMakeInsert ==
  ASSUME TypeInv, PoolInv, NEW w \in Worker, MakeInsert(w) PROVE PoolInv'
<1>1. /\ wstate[w] = "none"
      /\ wstate' = [wstate EXCEPT ![w] = "idle"]
      /\ workers' = workers \cup {w} /\ idle' = idle \cup {w}
      /\ UNCHANGED <<busy, execs>>
  BY DEF MakeInsert
<1>2. /\ w \notin workers /\ w \notin idle /\ w \notin busy
      /\ \A e \in execs : e.worker # w
  BY <1>1 DEF PoolInv, FreshUnused
<1>3. /\ wstate'[w] = "idle"
      /\ \A v \in Worker \ {w} : wstate'[v] = wstate[v]
      /\ \A e \in execs : e.worker \in Worker
      /\ workers \subseteq Worker /\ idle \subseteq Worker
  BY <1>1 DEF TypeInv, TypeOK, ExecType
<1> USE DEF PoolInv
<1>4. OneTaskPerWorker' /\ RegistriesAgree'
  BY <1>1, <1>2 DEF OneTaskPerWorker, RegistriesAgree
<1>5. IdleMeansFree' /\ ExecNotIdle'
  BY <1>1, <1>2, <1>3 DEF IdleMeansFree, ExecNotIdle
<1>6. DestroyedWaitForNothing' /\ FreshUnused' /\ StateFollowsPhase'
  BY <1>1, <1>2, <1>3 DEF DestroyedWaitForNothing, FreshUnused, StateFollowsPhase
<1> QED BY <1>4, <1>5, <1>6

\* Removing registered workers takes them out of every list; their coroutines stay, and
\* the running ones are cancelled.
LEMMA PoolRemove ==
  ASSUME TypeInv, PoolInv, NEW S, S \subseteq workers, Remove(S) PROVE PoolInv'
<1>1. /\ workers' = workers \ S /\ idle' = idle \ S /\ busy' = busy \ S
      /\ execs' = {Cancelled(e, S) : e \in execs}
      /\ \A w \in Worker : wstate'[w] = IF w \in S THEN "stopped" ELSE wstate[w]
  BY DEF Remove
<1>2. ASSUME NEW e \in execs
      PROVE  /\ e.worker \in Worker
             /\ Cancelled(e, S).worker = e.worker
             /\ e.worker \notin S => Cancelled(e, S) = e
             /\ Cancelled(e, S).phase \in {e.phase, "cancelled"}
             /\ e.worker \in S => Cancelled(e, S).phase # "running"
  <2>1. e \in ExecType
    BY DEF TypeInv, TypeOK
  <2>2. /\ [e EXCEPT !.phase = "cancelled"].worker = e.worker
        /\ [e EXCEPT !.phase = "cancelled"].phase = "cancelled"
    BY <2>1 DEF ExecType
  <2>3. e.worker \in S /\ e.phase = "running" => wstate[e.worker] = "busy"
    BY DEF PoolInv, StateFollowsPhase
  <2> QED BY <2>1, <2>2, <2>3 DEF Cancelled, ExecType
<1>3. S \subseteq Worker /\ idle \subseteq Worker
  BY DEF TypeInv, TypeOK
<1>4. ASSUME NEW f \in execs'
      PROVE  \E e \in execs : /\ f.worker = e.worker /\ e.worker \in Worker
                              /\ e.worker \notin S => f = e
                              /\ f.phase \in {e.phase, "cancelled"}
                              /\ e.worker \in S => f.phase # "running"
  <2>1. PICK e \in execs : f = Cancelled(e, S)
    BY <1>1
  <2> QED BY <1>2, <2>1
<1> USE DEF PoolInv
<1>5. OneTaskPerWorker'
  <2> SUFFICES ASSUME NEW f \in execs', NEW g \in execs', f.worker = g.worker PROVE f = g
    BY DEF OneTaskPerWorker
  <2>1. PICK d \in execs : f = Cancelled(d, S)
    BY <1>1
  <2>2. PICK e \in execs : g = Cancelled(e, S)
    BY <1>1
  <2>3. d = e
    BY <1>2, <2>1, <2>2 DEF OneTaskPerWorker
  <2> QED BY <2>1, <2>2, <2>3
<1>6. RegistriesAgree'
  <2>1. \A w : (\E f \in execs' : f.worker = w) <=> (\E e \in execs : e.worker = w)
    BY <1>1, <1>2, <1>4
  <2> QED BY <1>1, <2>1 DEF RegistriesAgree
<1>7. IdleMeansFree'
  BY <1>1, <1>3, <1>4 DEF IdleMeansFree
<1>8. DestroyedWaitForNothing'
  BY <1>1, <1>4 DEF DestroyedWaitForNothing
<1>9. FreshUnused'
  BY <1>1, <1>3, <1>4 DEF FreshUnused
<1>10. ExecNotIdle'
  BY <1>1, <1>4 DEF ExecNotIdle
<1>11. StateFollowsPhase'
  <2> SUFFICES ASSUME NEW f \in execs'
               PROVE /\ f.worker \in workers' =>
                          wstate'[f.worker] = IF f.phase = "spawned" THEN "idle" ELSE "busy"
                     /\ f.worker \notin workers' /\ f.phase = "spawned"
                          => wstate'[f.worker] = "stopped"
    BY DEF StateFollowsPhase
  <2>1. PICK e \in execs : /\ f.worker = e.worker /\ e.worker \in Worker
                           /\ e.worker \notin S => f = e
                           /\ f.phase \in {e.phase, "cancelled"}
    BY <1>4
  <2>2. CASE e.worker \in S
    BY <1>1, <2>1, <2>2
  <2>3. CASE e.worker \notin S
    BY <1>1, <2>1, <2>3 DEF StateFollowsPhase
  <2> QED BY <2>2, <2>3
<1> QED BY <1>5, <1>6, <1>7, <1>8, <1>9, <1>10, <1>11

\* A coroutine that ends puts its worker's id in the idle list: a registered worker is then
\* free, and the id of a destroyed one is idle without being registered.
LEMMA PoolExecEnds ==
  ASSUME TypeInv, PoolInv, NEW e \in execs, ExecReject(e) \/ ExecFinish(e) PROVE PoolInv'
<1>1. /\ busy' = busy \ {e.worker} /\ idle' = idle \cup {e.worker}
      /\ execs' = execs \ {e} /\ UNCHANGED workers
  BY DEF ExecReject, ExecFinish, MarkIdle
<1>2. /\ e.worker \in Worker
      /\ \A f \in execs : f.worker \in Worker
      /\ \A f \in execs \ {e} : f.worker # e.worker
      /\ wstate[e.worker] # "none"
      /\ workers \subseteq Worker /\ idle \subseteq Worker
  BY DEF PoolInv, OneTaskPerWorker, FreshUnused, TypeInv, TypeOK, ExecType
<1>3. /\ \A w \in Worker \ {e.worker} : wstate'[w] = wstate[w]
      /\ wstate'[e.worker] # "none"
      /\ e.worker \in workers => wstate'[e.worker] = "idle"
  <2>1. CASE ExecReject(e)
    <3>1. e.worker \notin workers
      BY <2>1 DEF ExecReject, PoolInv, StateFollowsPhase
    <3> QED BY <2>1, <3>1, <1>2 DEF ExecReject
  <2>2. CASE ExecFinish(e)
    BY <2>2, <1>2 DEF ExecFinish, TypeInv, TypeOK
  <2> QED BY <2>1, <2>2
<1> USE DEF PoolInv
<1>4. OneTaskPerWorker'
  BY <1>1 DEF OneTaskPerWorker
<1>5. RegistriesAgree'
  BY <1>1, <1>2 DEF RegistriesAgree
<1>6. IdleMeansFree' /\ ExecNotIdle'
  BY <1>1, <1>2, <1>3 DEF IdleMeansFree, ExecNotIdle
<1>7. DestroyedWaitForNothing' /\ FreshUnused' /\ StateFollowsPhase'
  BY <1>1, <1>2, <1>3 DEF DestroyedWaitForNothing, FreshUnused, StateFollowsPhase
<1> QED BY <1>4, <1>5, <1>6, <1>7

\* A coroutine that starts on a worker, or whose handler ends, stays the worker's only one.
LEMMA PoolExecGoesOn ==
  ASSUME TypeInv, PoolInv, NEW e \in execs,
         ExecStart(e) \/ \E o \in Outcome : HandlerEnds(e, o)
  PROVE  PoolInv'
<1>1. /\ e \in ExecType
      /\ \A f \in execs : f.worker \in Worker
      /\ \A f \in execs \ {e} : f.worker # e.worker
      /\ workers \subseteq Worker
  BY DEF PoolInv, OneTaskPerWorker, TypeInv, TypeOK, ExecType
<1>2. PICK g : /\ execs' = (execs \ {e}) \cup {g}
               /\ g.worker = e.worker /\ g.phase # "spawned"
               /\ g.phase = "running" => ExecStart(e)
  <2>1. \A o : /\ [e EXCEPT !.phase = o].worker = e.worker
               /\ [e EXCEPT !.phase = o].phase = o
    BY <1>1 DEF ExecType
  <2>2. CASE ExecStart(e)
    <3>1. execs' = (execs \ {e}) \cup {[e EXCEPT !.phase = "running"]}
      BY <2>2 DEF ExecStart
    <3>2. /\ [e EXCEPT !.phase = "running"].worker = e.worker
          /\ [e EXCEPT !.phase = "running"].phase = "running"
      BY <2>1
    <3> QED BY <2>2, <3>1, <3>2
  <2>3. CASE \E o \in Outcome : HandlerEnds(e, o)
    <3>1. PICK o \in Outcome \ {"cancelled"} :
            execs' = (execs \ {e}) \cup {[e EXCEPT !.phase = o]}
      BY <2>3 DEF HandlerEnds
    <3> QED BY <2>1, <3>1 DEF Outcome
  <2> QED BY <2>2, <2>3
<1>3. UNCHANGED <<workers, idle, busy>>
  BY DEF ExecStart, HandlerEnds, poolVars
<1>4. /\ \A w \in Worker \ {e.worker} : wstate'[w] = wstate[w]
      /\ wstate'[e.worker] # "none"
      /\ e.worker \in workers => wstate'[e.worker] = "busy"
      /\ ExecStart(e) => e.worker \in workers
  <2>1. wstate[e.worker] # "none" /\ e.worker \in Worker
    BY <1>1 DEF PoolInv, FreshUnused, ExecType
  <2>2. CASE ExecStart(e)
    BY <2>1, <2>2 DEF ExecStart, PoolInv, StateFollowsPhase, TypeInv, TypeOK
  <2>3. CASE \E o \in Outcome : HandlerEnds(e, o)
    BY <2>1, <2>3 DEF HandlerEnds, ExecStart, PoolInv, StateFollowsPhase
  <2> QED BY <2>2, <2>3
<1> USE DEF PoolInv
<1>5. OneTaskPerWorker'
  BY <1>1, <1>2 DEF OneTaskPerWorker
<1>6. RegistriesAgree'
  BY <1>2, <1>3 DEF RegistriesAgree
<1>7. IdleMeansFree' /\ ExecNotIdle'
  BY <1>1, <1>2, <1>3, <1>4 DEF IdleMeansFree, ExecNotIdle
<1>8. DestroyedWaitForNothing' /\ FreshUnused' /\ StateFollowsPhase'
  BY <1>1, <1>2, <1>3, <1>4 DEF DestroyedWaitForNothing, FreshUnused, StateFollowsPhase
<1> QED BY <1>5, <1>6, <1>7, <1>8

\* Every step keeps the agreement.
LEMMA PoolStep == TypeInv /\ PoolInv /\ [Next]_vars => PoolInv'
<1> SUFFICES ASSUME TypeInv, PoolInv, [Next]_vars PROVE PoolInv'
  OBVIOUS
<1>1. CASE ClientStep
  BY <1>1, PoolFrame DEF ClientStep, Submit, TakeResult, WaitTimeout
<1>2. ASSUME NEW n \in Loop, DispatchStep(n) PROVE PoolInv'
  <2>1. ASSUME NEW t \in Task, NEW w \in Worker, DispatchCreate(n, t, w) PROVE PoolInv'
    BY <2>1, PoolCreate DEF DispatchCreate
  <2>2. ASSUME NEW t \in Task, DispatchKeyError(n, t) \/ DispatchBlock(n, t) PROVE PoolInv'
    BY <2>2, PoolFrame DEF DispatchKeyError, DispatchBlock
  <2>3. CASE DispatchResume(n)
    <3>1. CASE \E w \in Worker : Create(w, hand[n]) /\ Spawn(w, hand[n])
      BY <3>1, PoolCreate
    <3>2. CASE UNCHANGED <<execs, poolVars>>
      BY <3>2, PoolFrame
    <3> QED BY <2>3, <3>1, <3>2 DEF DispatchResume
  <2>4. CASE DispatchExit(n)
    BY <2>4, PoolFrame DEF DispatchExit
  <2> QED BY <1>2, <2>1, <2>2, <2>3, <2>4, PoolDispatchIdle DEF DispatchStep
<1>3. ASSUME NEW n \in Loop, CleanerStep(n) PROVE PoolInv'
  BY <1>3, PoolFrame DEF CleanerStep, Cleanup, CleanerExit
<1>4. ASSUME NEW w \in Worker, ExecStep(w) \/ HandlerStep(w) PROVE PoolInv'
  BY <1>4, PoolExecEnds, PoolExecGoesOn DEF ExecStep, HandlerStep
<1>5. CASE OutsideStep
  <2>1. ASSUME NEW w \in Worker, NEW force \in BOOLEAN, Destroy(w, force) \/ Terminate(w)
        PROVE PoolInv'
    <3>1. {w} \subseteq workers /\ Remove({w})
      BY <2>1 DEF Destroy, Terminate
    <3> QED BY <3>1, PoolRemove
  <2>2. ASSUME NEW w \in Worker, Age(w) PROVE PoolInv'
    BY <2>2, PoolFrame DEF Age
  <2>3. CASE MakeCheck \/ Start \/ StopBegin
    BY <2>3, PoolFrame DEF MakeCheck, Start, StopBegin
  <2> QED BY <1>5, <2>1, <2>2, <2>3, PoolMakeInsert DEF OutsideStep
<1>6. CASE StopDestroy
  <2>1. snapshot \cap workers \subseteq workers /\ Remove(snapshot \cap workers)
    BY <1>6 DEF StopDestroy
  <2> QED BY <2>1, PoolRemove
<1>7. CASE UNCHANGED vars
  BY <1>7, PoolFrame DEF vars
<1> QED BY <1>1, <1>2, <1>3, <1>4, <1>5, <1>6, <1>7 DEF Next

\* Initially there is no worker.
LEMMA PoolInit == Init => PoolInv
BY DEF Init, PoolInv, OneTaskPerWorker, RegistriesAgree, IdleMeansFree,
       DestroyedWaitForNothing, FreshUnused, ExecNotIdle, StateFollowsPhase

\* The inductive invariant holds throughout.
THEOREM Inductive == Spec => []IInv
<1>1. Init => IInv
  BY TypeInit, PoolInit DEF IInv
<1>2. IInv /\ [Next]_vars => IInv'
  BY TypeStep, PoolStep DEF IInv
<1> QED BY <1>1, <1>2, PTL DEF Spec

\* No worker runs two coroutines (dispatch's pick and mark_busy without a suspension).
THEOREM NoSharedWorker == Spec => []OneTaskPerWorker
<1>1. IInv => OneTaskPerWorker
  BY DEF IInv, PoolInv
<1> QED BY <1>1, Inductive, PTL

\* A registered worker is in exactly one list, in the busy one while a coroutine uses it.
THEOREM RegistriesConsistent == Spec => []RegistriesAgree
<1>1. IInv => RegistriesAgree
  BY DEF IInv, PoolInv
<1> QED BY <1>1, Inductive, PTL

\* A registered idle worker is free: WorkerAgent.state agrees with the pool's list.
THEOREM IdleWorkersFree == Spec => []IdleMeansFree
<1>1. IInv => IdleMeansFree
  BY DEF IInv, PoolInv
<1> QED BY <1>1, Inductive, PTL

\* A coroutine whose worker was destroyed waits for no handler (force_stop cancels it).
THEOREM DestroyedDoNotWait == Spec => []DestroyedWaitForNothing
<1>1. IInv => DestroyedWaitForNothing
  BY DEF IInv, PoolInv
<1> QED BY <1>1, Inductive, PTL

-----------------------------------------------------------------------------
(* The size of the pool *)

\* Without create_agent only one lock is ever used, and the bound is exact.
OneLock == "create_agent" \notin Ops => maker = "out" /\ PoolBounded

SizeInv == IsFiniteSet(workers) /\ OvershootByOne /\ OneLock

\* The pool and its outstanding creation exceed max_workers by one at most: it grows in
\* Create, under its own size check, and in MakeInsert, under a check made earlier.
LEMMA SizeStep == TypeInv /\ PoolInv /\ SizeInv /\ [Next]_vars => SizeInv'
<1> SUFFICES ASSUME TypeInv, PoolInv, SizeInv, [Next]_vars PROVE SizeInv'
  OBVIOUS
<1> USE AgentPoolAssumption DEF AgentPoolAssumption
<1>1. /\ IsFiniteSet(workers) /\ Cardinality(workers) \in Nat
      /\ Cardinality(workers) + (IF maker = "checked" THEN 1 ELSE 0) <= MaxWorkers + 1
      /\ "create_agent" \notin Ops => maker = "out" /\ Cardinality(workers) <= MaxWorkers
  BY FS_CardinalityType DEF SizeInv, OvershootByOne, OneLock, PoolBounded
<1>2. ASSUME UNCHANGED <<workers, maker>> PROVE SizeInv'
  BY <1>2 DEF SizeInv, OvershootByOne, OneLock, PoolBounded
<1>3. ASSUME NEW S, Remove(S), UNCHANGED maker PROVE SizeInv'
  <2>1. /\ IsFiniteSet(workers') /\ Cardinality(workers') <= Cardinality(workers)
        /\ Cardinality(workers') \in Nat
    <3>1. workers' \in SUBSET workers
      BY <1>3 DEF Remove
    <3> QED BY <1>1, <3>1, FS_Subset, FS_CardinalityType
  <2> QED BY <1>1, <1>3, <2>1 DEF SizeInv, OvershootByOne, OneLock, PoolBounded
<1>4. ASSUME NEW w, workers' = workers \cup {w}, w \notin workers
      PROVE  IsFiniteSet(workers') /\ Cardinality(workers') = Cardinality(workers) + 1
  BY <1>1, <1>4, FS_AddElement
<1>5. ASSUME NEW w \in Worker, NEW t, Create(w, t), HasRoom, UNCHANGED maker PROVE SizeInv'
  <2>1. IsFiniteSet(workers') /\ Cardinality(workers') = Cardinality(workers) + 1
    BY <1>4, <1>5 DEF Create, PoolInv, FreshUnused
  <2> QED BY <1>1, <1>5, <2>1 DEF HasRoom, SizeInv, OvershootByOne, OneLock, PoolBounded
<1>6. CASE ClientStep
  BY <1>2, <1>6 DEF ClientStep, Submit, TakeResult, WaitTimeout
<1>7. ASSUME NEW n \in Loop, DispatchStep(n) PROVE SizeInv'
  <2>1. ASSUME NEW t \in Task, NEW w \in Worker, DispatchIdle(n, t, w) PROVE SizeInv'
    BY <1>2, <2>1 DEF DispatchIdle
  <2>2. ASSUME NEW t \in Task, NEW w \in Worker, DispatchCreate(n, t, w) PROVE SizeInv'
    BY <1>5, <2>2 DEF DispatchCreate
  <2>3. ASSUME NEW t \in Task, DispatchKeyError(n, t) \/ DispatchBlock(n, t) PROVE SizeInv'
    BY <1>2, <2>3 DEF DispatchKeyError, DispatchBlock
  <2>4. CASE DispatchResume(n)
    BY <1>2, <1>5, <2>4 DEF DispatchResume
  <2>5. CASE DispatchExit(n)
    BY <1>2, <2>5 DEF DispatchExit
  <2> QED BY <1>7, <2>1, <2>2, <2>3, <2>4, <2>5 DEF DispatchStep
<1>8. ASSUME NEW n \in Loop, CleanerStep(n) PROVE SizeInv'
  BY <1>2, <1>8 DEF CleanerStep, Cleanup, CleanerExit
<1>9. ASSUME NEW w \in Worker, ExecStep(w) \/ HandlerStep(w) PROVE SizeInv'
  BY <1>2, <1>9 DEF ExecStep, HandlerStep, ExecReject, ExecStart, ExecFinish, HandlerEnds
<1>10. CASE OutsideStep
  <2>1. ASSUME NEW w \in Worker, NEW force \in BOOLEAN, Destroy(w, force) \/ Terminate(w)
        PROVE SizeInv'
    BY <1>3, <2>1 DEF Destroy, Terminate
  <2>2. ASSUME NEW w \in Worker, MakeInsert(w) PROVE SizeInv'
    <3>1. IsFiniteSet(workers') /\ Cardinality(workers') = Cardinality(workers) + 1
      BY <1>4, <2>2 DEF MakeInsert, PoolInv, FreshUnused
    <3> QED BY <1>1, <2>2, <3>1 DEF MakeInsert, SizeInv, OvershootByOne, OneLock, PoolBounded
  <2>3. ASSUME NEW w \in Worker, Age(w) PROVE SizeInv'
    BY <1>2, <2>3 DEF Age
  <2>4. CASE MakeCheck
    BY <1>1, <2>4 DEF MakeCheck, HasRoom, SizeInv, OvershootByOne, OneLock, PoolBounded
  <2>5. CASE Start \/ StopBegin
    BY <1>2, <2>5 DEF Start, StopBegin
  <2> QED BY <1>10, <2>1, <2>2, <2>3, <2>4, <2>5 DEF OutsideStep
<1>11. CASE StopDestroy
  BY <1>3, <1>11 DEF StopDestroy
<1>12. CASE UNCHANGED vars
  BY <1>2, <1>12 DEF vars
<1> QED BY <1>6, <1>7, <1>8, <1>9, <1>10, <1>11, <1>12 DEF Next

\* The empty pool is within its bound.
LEMMA SizeInit == Init => SizeInv
BY AgentPoolAssumption, FS_EmptySet DEF AgentPoolAssumption, Init, SizeInv, OvershootByOne, OneLock, PoolBounded

\* Whatever create_agent and create_worker do at the same time under their two locks, the
\* pool exceeds max_workers by one worker at most.
THEOREM OvershootBounded == Spec => []OvershootByOne
<1>1. Init => IInv /\ SizeInv
  BY TypeInit, PoolInit, SizeInit DEF IInv
<1>2. IInv /\ SizeInv /\ [Next]_vars => (IInv /\ SizeInv)'
  BY TypeStep, PoolStep, SizeStep DEF IInv
<1>3. SizeInv => OvershootByOne
  BY DEF SizeInv
<1> QED BY <1>1, <1>2, <1>3, PTL DEF Spec

\* As long as create_agent is not used the pool never exceeds max_workers.
THEOREM PoolStaysBounded == "create_agent" \notin Ops => (Spec => []PoolBounded)
<1> SUFFICES ASSUME "create_agent" \notin Ops PROVE Spec => []PoolBounded
  OBVIOUS
<1>1. Init => IInv /\ SizeInv
  BY TypeInit, PoolInit, SizeInit DEF IInv
<1>2. IInv /\ SizeInv /\ [Next]_vars => (IInv /\ SizeInv)'
  BY TypeStep, PoolStep, SizeStep DEF IInv
<1>3. SizeInv => PoolBounded
  BY DEF SizeInv, OneLock
<1> QED BY <1>1, <1>2, <1>3, PTL DEF Spec

-----------------------------------------------------------------------------
(* Nothing is lost while nothing is destroyed and the queue is not replaced *)

\* No worker is ever removed, and start() is called once.
Quiet == Ops \cap {"destroy", "terminate", "stop"} = {} /\ MaxStarts = 1

\* There are then no idle ids without a worker, so dispatch meets no KeyError; and no client
\* has submitted anything before the queue exists.
KeepInv ==
  /\ NoTaskLost
  /\ idle \subseteq workers
  /\ \A e \in execs : e.worker \in workers
  /\ starts = 0 => /\ \A t \in Task : client[t] = "new"
                   /\ \A n \in Loop : loop[n] = "off"
  /\ ~stopping
  /\ \A n \in Loop : loop[n] # "blocked" => hand[n] = NoTask

\* A client's step keeps what waiting clients wait for.
LEMMA KeepClient ==
  ASSUME Quiet, TypeInv, KeepInv, NEW t \in Task, Submit(t) \/ TakeResult(t) \/ WaitTimeout(t)
  PROVE  KeepInv'
<1>1. UNCHANGED <<idle, workers, execs, starts, stopping, hand, loop>>
  BY DEF Submit, TakeResult, WaitTimeout
<1>2. /\ \A u \in Task \ {t} : /\ client'[u] = client[u] /\ queue'[u] = queue[u]
                             /\ results'[u] = results[u]
      /\ client'[t] = "waiting" => queue'[t] > 0
  <2>1. queue[t] + 1 > 0
    BY DEF TypeInv, TypeOK
  <2>2. CASE Submit(t)
    BY <2>1, <2>2 DEF Submit, Enqueue, TypeInv, TypeOK
  <2>3. ASSUME Retry(t)
        PROVE  /\ \A u \in Task \ {t} : client'[u] = client[u] /\ queue'[u] = queue[u]
               /\ client'[t] = "waiting" => queue'[t] > 0
    BY <2>1, <2>3 DEF Retry, Enqueue, TypeInv, TypeOK
  <2>4. CASE TakeResult(t)
    BY <2>3, <2>4 DEF TakeResult, TypeInv, TypeOK
  <2>5. CASE WaitTimeout(t)
    BY <2>3, <2>5 DEF WaitTimeout
  <2> QED BY <2>2, <2>4, <2>5
<1>3. starts # 0
  BY DEF Submit, TakeResult, WaitTimeout, KeepInv
<1> QED BY <1>1, <1>2, <1>3 DEF KeepInv, NoTaskLost, InFlight

\* A dispatcher passes a task on: from the queue to a coroutine or to its hand, and from its
\* hand to a coroutine or back to the queue.
LEMMA KeepDispatch ==
  ASSUME Quiet, TypeInv, KeepInv, NEW n \in Loop, DispatchStep(n) PROVE KeepInv'
<1> USE DEF KeepInv
<1>1. ASSUME NEW t \in Task, Dequeue(t) PROVE \A u \in Task \ {t} : queue'[u] = queue[u]
  BY <1>1 DEF Dequeue
<1>2. ASSUME NEW w \in Worker, NEW t \in Task, Spawn(w, t)
      PROVE  /\ execs \subseteq execs' /\ \E e \in execs' : e.task = t
             /\ \A e \in execs' \ execs : e.worker = w
  <2> DEFINE new == [worker |-> w, task |-> t, phase |-> "spawned"]
  <2>1. execs' = execs \cup {new} /\ new.task = t /\ new.worker = w
    BY <1>2 DEF Spawn
  <2> HIDE DEF new
  <2> QED BY <2>1
<1>3. ASSUME NEW t \in Task, Dequeue(t), NEW w \in Worker, Spawn(w, t), w \in workers',
             workers \subseteq workers', idle' \subseteq idle,
             UNCHANGED <<client, loop, hand, results, starts, stopping>>
      PROVE  KeepInv'
  BY <1>1, <1>2, <1>3 DEF NoTaskLost, InFlight
<1>4. ASSUME NEW t \in Task, NEW w \in Worker, DispatchIdle(n, t, w) PROVE KeepInv'
  BY <1>3, <1>4 DEF DispatchIdle, MarkBusy
<1>5. ASSUME NEW t \in Task, NEW w \in Worker, DispatchCreate(n, t, w) PROVE KeepInv'
  BY <1>3, <1>5 DEF DispatchCreate, Create
<1>6. ASSUME NEW t \in Task, DispatchKeyError(n, t) PROVE FALSE
  BY <1>6 DEF DispatchKeyError
<1>7. ASSUME NEW t \in Task, DispatchBlock(n, t) PROVE KeepInv'
  <2>1. /\ hand' = [hand EXCEPT ![n] = t] /\ hand'[n] = t
        /\ loop' = [loop EXCEPT ![n] = "blocked"] /\ loop'[n] = "blocked"
        /\ hand[n] = NoTask /\ starts # 0
    BY <1>7 DEF DispatchBlock, Turn, TypeInv, TypeOK
  <2>2. \A m \in Loop \ {n} : hand'[m] = hand[m] /\ loop'[m] = loop[m]
    BY <2>1 DEF TypeInv, TypeOK
  <2>3. UNCHANGED <<client, results, execs, idle, workers, starts, stopping>>
    BY <1>7 DEF DispatchBlock
  <2>4. \A u \in Task : InFlight(u) => InFlight(u)'
    BY <1>1, <1>7, <2>1, <2>2, <2>3, AgentPoolAssumption
    DEF DispatchBlock, InFlight, AgentPoolAssumption
  <2> QED BY <2>1, <2>2, <2>3, <2>4 DEF NoTaskLost
<1>8. CASE DispatchResume(n)
  <2>1. /\ hand' = [hand EXCEPT ![n] = NoTask] /\ loop' = [loop EXCEPT ![n] = "ready"]
        /\ hand[n] \in Task /\ starts # 0
        /\ UNCHANGED <<client, results, starts, stopping>>
    BY <1>8 DEF DispatchResume, TypeInv, HandHolds
  <2>2. /\ \A m \in Loop \ {n} : hand'[m] = hand[m] /\ loop'[m] = loop[m]
        /\ hand'[n] = NoTask
    BY <2>1 DEF TypeInv, TypeOK
  <2>3. CASE \E w \in Worker : Create(w, hand[n]) /\ Spawn(w, hand[n]) /\ UNCHANGED queue
    <3>1. PICK w \in Worker : Create(w, hand[n]) /\ Spawn(w, hand[n]) /\ UNCHANGED queue
      BY <2>3
    <3>2. /\ execs \subseteq execs' /\ \E e \in execs' : e.task = hand[n]
          /\ \A e \in execs' \ execs : e.worker = w
      BY <1>2, <2>1, <3>1
    <3>3. workers' = workers \cup {w} /\ UNCHANGED <<idle, queue>>
      BY <3>1 DEF Create
    <3>4. \A u \in Task : InFlight(u) => InFlight(u)'
      BY <2>2, <3>2, <3>3 DEF InFlight
    <3> QED BY <2>1, <2>2, <3>2, <3>3, <3>4 DEF NoTaskLost
  <2>4. CASE Enqueue(hand[n]) /\ UNCHANGED <<execs, poolVars>>
    <3>1. /\ queue'[hand[n]] > 0 /\ \A u \in Task : queue[u] > 0 => queue'[u] > 0
      BY <2>1, <2>4 DEF Enqueue, TypeInv, TypeOK
    <3>2. \A u \in Task : InFlight(u) => InFlight(u)'
      BY <2>2, <2>4, <3>1 DEF InFlight
    <3> QED BY <2>1, <2>2, <2>4, <3>2 DEF NoTaskLost
  <2> QED BY <1>8, <2>3, <2>4 DEF DispatchResume
<1>9. CASE DispatchExit(n)
  <2>1. hand[n] = NoTask
    BY <1>9 DEF DispatchExit
  <2> QED BY <1>9, <2>1 DEF DispatchExit, NoTaskLost, InFlight, TypeInv, TypeOK
<1> QED BY <1>4, <1>5, <1>6, <1>7, <1>8, <1>9 DEF DispatchStep

\* A coroutine that ends leaves a result, and its worker is still registered.
LEMMA KeepExec ==
  ASSUME Quiet, TypeInv, KeepInv, NEW w \in Worker, ExecStep(w) \/ HandlerStep(w)
  PROVE  KeepInv'
<1> USE DEF KeepInv
<1>1. ASSUME NEW e \in execs, ExecReject(e) \/ ExecFinish(e) PROVE KeepInv'
  <2>1. /\ execs' = execs \ {e} /\ e.task \in Task
        /\ idle' = idle \cup {e.worker}
        /\ UNCHANGED <<workers, queue, client, starts, stopping, loop, hand>>
    BY <1>1 DEF ExecReject, ExecFinish, MarkIdle, TypeInv, TypeOK, ExecType
  <2>2. results'[e.task] # "none" /\ \A u \in Task \ {e.task} : results'[u] = results[u]
    BY <1>1, <2>1 DEF ExecReject, ExecFinish, TypeInv, TypeOK
  <2> QED BY <2>1, <2>2 DEF NoTaskLost, InFlight
<1>2. ASSUME NEW e \in execs, NEW p, execs' = (execs \ {e}) \cup {[e EXCEPT !.phase = p]},
             UNCHANGED <<idle, workers, queue, results, client, starts, stopping, loop, hand>>
      PROVE  KeepInv'
  <2> DEFINE new == [e EXCEPT !.phase = p]
  <2>1. new.task = e.task /\ new.worker = e.worker
    BY DEF TypeInv, TypeOK, ExecType
  <2>2. execs' = (execs \ {e}) \cup {new}
    BY <1>2
  <2> HIDE DEF new
  <2>3. \A u \in Task : InFlight(u) => InFlight(u)'
    BY <1>2, <2>1, <2>2 DEF InFlight
  <2> QED BY <1>2, <2>1, <2>2, <2>3 DEF NoTaskLost
<1>3. ASSUME NEW e \in execs, ExecStart(e) PROVE KeepInv'
  BY <1>2, <1>3 DEF ExecStart
<1>4. ASSUME NEW e \in execs, NEW o \in Outcome, HandlerEnds(e, o) PROVE KeepInv'
  BY <1>2, <1>4 DEF HandlerEnds
<1> QED BY <1>1, <1>3, <1>4 DEF ExecStep, HandlerStep

\* Every step of a quiet system keeps what waiting clients wait for.
LEMMA KeepStep == Quiet /\ TypeInv /\ KeepInv /\ [Next]_vars => KeepInv'
<1> SUFFICES ASSUME Quiet, TypeInv, KeepInv, [Next]_vars PROVE KeepInv'
  OBVIOUS
<1>1. ASSUME UNCHANGED <<idle, workers, queue, results, client, starts, stopping, loop, hand, execs>>
      PROVE  KeepInv'
  BY <1>1 DEF KeepInv, NoTaskLost, InFlight
<1>2. ASSUME NEW n \in Loop, CleanerStep(n) PROVE KeepInv'
  BY <1>1, <1>2 DEF CleanerStep, Cleanup, CleanerExit
<1>3. ASSUME NEW w \in Worker, MakeInsert(w) PROVE KeepInv'
  BY <1>3 DEF MakeInsert, KeepInv, NoTaskLost, InFlight
<1>4. CASE MakeCheck
  BY <1>1, <1>4 DEF MakeCheck
<1>5. ASSUME NEW w \in Worker, Age(w) PROVE KeepInv'
  BY <1>1, <1>5 DEF Age
<1>6. CASE Start
  <2>1. /\ starts = 0 /\ starts' # 0
        /\ UNCHANGED <<idle, workers, client, stopping, hand, execs>>
        /\ \A n \in Loop : hand[n] = NoTask
    BY <1>6 DEF Start, Quiet, KeepInv, TypeInv, TypeOK
  <2> QED BY <2>1 DEF KeepInv, NoTaskLost
<1>7. ~StopBegin /\ ~StopDestroy
  BY DEF StopBegin, StopDestroy, Quiet, KeepInv
<1>8. ASSUME NEW w \in Worker, NEW force \in BOOLEAN PROVE ~Destroy(w, force) /\ ~Terminate(w)
  BY DEF Destroy, Terminate, Quiet
<1>9. CASE UNCHANGED vars
  BY <1>1, <1>9 DEF vars
<1> QED BY <1>2, <1>3, <1>4, <1>5, <1>6, <1>7, <1>8, <1>9, KeepClient, KeepDispatch, KeepExec
        DEF Next, ClientStep, OutsideStep

\* Initially no client waits.
LEMMA KeepInit == Init => KeepInv
BY DEF Init, KeepInv, NoTaskLost

\* As long as no worker is destroyed and start() is called once, a waiting client's task is
\* queued, in a dispatcher's hand or executing, or its result is there, through requeues,
\* retries, blocked dispatchers and a pool that create_agent overfills.
THEOREM QuietLosesNothing == Quiet => (Spec => []NoTaskLost)
<1> SUFFICES ASSUME Quiet PROVE Spec => []NoTaskLost
  OBVIOUS
<1>1. Init => TypeInv /\ KeepInv
  BY TypeInit, KeepInit
<1>2. TypeInv /\ KeepInv /\ [Next]_vars => (TypeInv /\ KeepInv)'
  BY TypeStep, KeepStep
<1>3. KeepInv => NoTaskLost
  BY DEF KeepInv
<1> QED BY <1>1, <1>2, <1>3, PTL DEF Spec
-----------------------------------------------------------------------------
(* No work is invented *)

\* The loops that hold t, and the coroutines of E that execute it.
Holders(h, t) == {n \in Loop : h[n] = t}
RunsOf(E, t)  == {e \in E : e.task = t}

\* What there is of task t: queue entries, copies in hand, coroutines, a result.
Load(q, h, E, r, t) ==
  q[t] + Cardinality(Holders(h, t)) + Cardinality(RunsOf(E, t))
       + (IF r[t] = "none" THEN 0 ELSE 1)

\* What its client has asked for.
Asked(c, a, t) == IF c[t] = "new" THEN 0 ELSE a[t]

WorkInv ==
  /\ IsFiniteSet(execs)
  /\ \A t \in Task : Load(queue, hand, execs, results, t) <= Asked(client, attempts, t)

\* The counted sets are finite.
LEMMA CountsAreNumbers ==
  ASSUME NEW h, NEW E, NEW t, IsFiniteSet(E)
  PROVE  /\ IsFiniteSet(Holders(h, t)) /\ Cardinality(Holders(h, t)) \in Nat
         /\ IsFiniteSet(RunsOf(E, t)) /\ Cardinality(RunsOf(E, t)) \in Nat
<1>1. MaxStarts \in Nat /\ MaxStarts \in Int /\ 1 \in Int
  BY AgentPoolAssumption DEF AgentPoolAssumption
<1>2. IsFiniteSet(Loop)
  BY <1>1, FS_Interval
<1>3. Holders(h, t) \in SUBSET Loop /\ RunsOf(E, t) \in SUBSET E
  BY DEF Holders, RunsOf
<1>4. IsFiniteSet(Holders(h, t)) /\ IsFiniteSet(RunsOf(E, t))
  BY <1>2, <1>3, FS_Subset
<1> QED BY <1>4, FS_CardinalityType

\* One element more or less changes a count by at most one.
LEMMA OneMoreOneLess ==
  ASSUME NEW S, IsFiniteSet(S), NEW x
  PROVE  /\ IsFiniteSet(S \cup {x}) /\ IsFiniteSet(S \ {x})
         /\ Cardinality(S \cup {x}) <= Cardinality(S) + 1
         /\ x \in S => Cardinality(S \ {x}) + 1 = Cardinality(S)
         /\ x \notin S => Cardinality(S \ {x}) = Cardinality(S)
<1>1. /\ IsFiniteSet(S \cup {x}) /\ IsFiniteSet(S \ {x})
      /\ Cardinality(S \cup {x}) = IF x \in S THEN Cardinality(S) ELSE Cardinality(S) + 1
      /\ Cardinality(S \ {x}) = IF x \in S THEN Cardinality(S) - 1 ELSE Cardinality(S)
  BY FS_AddElement, FS_RemoveElement
<1>2. Cardinality(S) \in Nat
  BY FS_CardinalityType
<1>3. CASE x \in S
  <2>1. Cardinality(S \cup {x}) = Cardinality(S) /\ Cardinality(S \ {x}) = Cardinality(S) - 1
    BY <1>1, <1>3
  <2> QED BY <1>1, <1>2, <1>3, <2>1
<1>4. CASE x \notin S
  <2>1. Cardinality(S \cup {x}) = Cardinality(S) + 1 /\ Cardinality(S \ {x}) = Cardinality(S)
    BY <1>1, <1>4
  <2> QED BY <1>1, <1>2, <1>4, <2>1
<1> QED BY <1>3, <1>4

\* One coroutine more counts for its own task and no other.
LEMMA AddRun ==
  ASSUME NEW E, IsFiniteSet(E), NEW x, NEW t
  PROVE  /\ IsFiniteSet(E \cup {x})
         /\ x.task = t => Cardinality(RunsOf(E \cup {x}, t)) <= Cardinality(RunsOf(E, t)) + 1
         /\ x.task # t => Cardinality(RunsOf(E \cup {x}, t)) = Cardinality(RunsOf(E, t))
<1>1. IsFiniteSet(RunsOf(E, t)) /\ Cardinality(RunsOf(E, t)) \in Nat
  BY CountsAreNumbers
<1>2. IsFiniteSet(E \cup {x})
  BY FS_AddElement
<1>3. CASE x.task = t
  <2>1. RunsOf(E \cup {x}, t) = RunsOf(E, t) \cup {x}
    BY <1>3 DEF RunsOf
  <2>2. Cardinality(RunsOf(E, t) \cup {x}) <= Cardinality(RunsOf(E, t)) + 1
    BY <1>1, OneMoreOneLess
  <2> QED BY <1>2, <1>3, <2>1, <2>2
<1>4. CASE x.task # t
  <2>1. RunsOf(E \cup {x}, t) = RunsOf(E, t)
    BY <1>4 DEF RunsOf
  <2> QED BY <1>2, <1>4, <2>1
<1> QED BY <1>3, <1>4

\* One coroutine less.
LEMMA DropRun ==
  ASSUME NEW E, IsFiniteSet(E), NEW e \in E, NEW t
  PROVE  /\ IsFiniteSet(E \ {e})
         /\ e.task = t => Cardinality(RunsOf(E \ {e}, t)) + 1 = Cardinality(RunsOf(E, t))
         /\ e.task # t => Cardinality(RunsOf(E \ {e}, t)) = Cardinality(RunsOf(E, t))
<1>1. IsFiniteSet(RunsOf(E, t)) /\ Cardinality(RunsOf(E, t)) \in Nat
  BY CountsAreNumbers
<1>2. IsFiniteSet(E \ {e})
  BY FS_RemoveElement
<1>3. CASE e.task = t
  <2>1. RunsOf(E \ {e}, t) = RunsOf(E, t) \ {e} /\ e \in RunsOf(E, t)
    BY <1>3 DEF RunsOf
  <2>2. Cardinality(RunsOf(E, t) \ {e}) + 1 = Cardinality(RunsOf(E, t))
    BY <1>1, <2>1, OneMoreOneLess
  <2> QED BY <1>1, <1>2, <1>3, <2>1, <2>2
<1>4. CASE e.task # t
  <2>1. RunsOf(E \ {e}, t) = RunsOf(E, t)
    BY <1>4 DEF RunsOf
  <2> QED BY <1>2, <1>4, <2>1
<1> QED BY <1>3, <1>4

\* A coroutine that moves on still counts for its task.
LEMMA MoveRun ==
  ASSUME NEW E, IsFiniteSet(E), NEW e \in E, NEW x, x.task = e.task, NEW t
  PROVE  /\ IsFiniteSet((E \ {e}) \cup {x})
         /\ Cardinality(RunsOf((E \ {e}) \cup {x}, t)) <= Cardinality(RunsOf(E, t))
<1> DEFINE D == E \ {e}
<1>1. /\ IsFiniteSet(D)
      /\ e.task = t => Cardinality(RunsOf(D, t)) + 1 = Cardinality(RunsOf(E, t))
      /\ e.task # t => Cardinality(RunsOf(D, t)) = Cardinality(RunsOf(E, t))
  BY DropRun
<1> HIDE DEF D
<1>2. /\ IsFiniteSet(D \cup {x})
      /\ x.task = t => Cardinality(RunsOf(D \cup {x}, t)) <= Cardinality(RunsOf(D, t)) + 1
      /\ x.task # t => Cardinality(RunsOf(D \cup {x}, t)) = Cardinality(RunsOf(D, t))
  BY <1>1, AddRun
<1>3. Cardinality(RunsOf(E, t)) \in Nat /\ Cardinality(RunsOf(D, t)) \in Nat
  BY <1>1, CountsAreNumbers
<1>4. Cardinality(RunsOf(D \cup {x}, t)) <= Cardinality(RunsOf(E, t))
  BY <1>1, <1>2, <1>3
<1> QED BY <1>2, <1>4 DEF D

\* Cancelling coroutines makes none: at most as many, each for the task it had.
LEMMA CancelRuns ==
  ASSUME TypeInv, IsFiniteSet(execs), NEW S, execs' = {Cancelled(e, S) : e \in execs}, NEW t
  PROVE  /\ IsFiniteSet(execs')
         /\ Cardinality(RunsOf(execs', t)) <= Cardinality(RunsOf(execs, t))
<1>1. ASSUME NEW e \in execs PROVE Cancelled(e, S).task = e.task
  <2>1. [e EXCEPT !.phase = "cancelled"].task = e.task
    BY DEF TypeInv, TypeOK, ExecType
  <2> QED BY <2>1 DEF Cancelled
<1> DEFINE f == [e \in execs |-> Cancelled(e, S)]
           g == [e \in RunsOf(execs, t) |-> Cancelled(e, S)]
<1>2. f \in Surjection(execs, execs')
  BY DEF Surjection
<1>3. RunsOf(execs', t) = {Cancelled(e, S) : e \in RunsOf(execs, t)}
  BY <1>1 DEF RunsOf
<1>4. g \in Surjection(RunsOf(execs, t), RunsOf(execs', t))
  BY <1>3 DEF Surjection
<1>5. IsFiniteSet(RunsOf(execs, t))
  BY CountsAreNumbers
<1> HIDE DEF f, g
<1> QED BY <1>2, <1>4, <1>5, FS_Surjection

\* Who else holds a task when a loop takes one in hand: that loop, at most.
LEMMA OneHolderMore ==
  ASSUME NEW S, IsFiniteSet(S), NEW T, NEW x, T \subseteq S \cup {x}
  PROVE  Cardinality(T) <= Cardinality(S) + 1
<1>1. IsFiniteSet(S \cup {x}) /\ Cardinality(S \cup {x}) <= Cardinality(S) + 1
  BY OneMoreOneLess
<1>2. /\ Cardinality(T) <= Cardinality(S \cup {x})
      /\ Cardinality(T) \in Nat /\ Cardinality(S \cup {x}) \in Nat
  BY <1>1, FS_Subset, FS_CardinalityType
<1>3. Cardinality(S) \in Nat
  BY FS_CardinalityType
<1> QED BY <1>1, <1>2, <1>3

\* What a step does to the load of one task, as numbers: the parts of Load.
LEMMA LoadParts ==
  ASSUME NEW q, NEW h, NEW E, NEW r, NEW t, IsFiniteSet(E), q[t] \in Nat
  PROVE  \E a, b, x \in Nat :
            /\ a = Cardinality(Holders(h, t)) /\ b = Cardinality(RunsOf(E, t))
            /\ x \in {0, 1} /\ (r[t] = "none" => x = 0) /\ (r[t] # "none" => x = 1)
            /\ Load(q, h, E, r, t) = q[t] + a + b + x
<1> DEFINE x == IF r[t] = "none" THEN 0 ELSE 1
<1>1. x \in {0, 1} /\ x \in Nat /\ (r[t] = "none" => x = 0) /\ (r[t] # "none" => x = 1)
  OBVIOUS
<1>2. Load(q, h, E, r, t) = q[t] + Cardinality(Holders(h, t)) + Cardinality(RunsOf(E, t)) + x
  BY DEF Load
<1> HIDE DEF x
<1> QED BY <1>1, <1>2, CountsAreNumbers

\* When tasks only move between the queue, hands and coroutines the load does not grow, and
\* a result may appear where a copy disappears.
LEMMA LoadKept ==
  ASSUME NEW q, NEW h, NEW E, NEW r, NEW q2, NEW h2, NEW E2, NEW r2, NEW t,
         IsFiniteSet(E), IsFiniteSet(E2), q[t] \in Nat, q2[t] \in Nat,
         \/ /\ r[t] = "none" => r2[t] = "none"
            /\ q2[t] + Cardinality(Holders(h2, t)) + Cardinality(RunsOf(E2, t))
                 <= q[t] + Cardinality(Holders(h, t)) + Cardinality(RunsOf(E, t))
         \/ q2[t] + Cardinality(Holders(h2, t)) + Cardinality(RunsOf(E2, t)) + 1
                 <= q[t] + Cardinality(Holders(h, t)) + Cardinality(RunsOf(E, t))
  PROVE  Load(q2, h2, E2, r2, t) <= Load(q, h, E, r, t)
<1>1. PICK a, b, x \in Nat :
            /\ a = Cardinality(Holders(h, t)) /\ b = Cardinality(RunsOf(E, t))
            /\ x \in {0, 1} /\ (r[t] = "none" => x = 0) /\ (r[t] # "none" => x = 1)
            /\ Load(q, h, E, r, t) = q[t] + a + b + x
  BY LoadParts
<1>2. PICK a2, b2, x2 \in Nat :
            /\ a2 = Cardinality(Holders(h2, t)) /\ b2 = Cardinality(RunsOf(E2, t))
            /\ x2 \in {0, 1} /\ (r2[t] = "none" => x2 = 0) /\ (r2[t] # "none" => x2 = 1)
            /\ Load(q2, h2, E2, r2, t) = q2[t] + a2 + b2 + x2
  BY LoadParts
<1>3. \/ x2 <= x /\ q2[t] + a2 + b2 <= q[t] + a + b
      \/ q2[t] + a2 + b2 + 1 <= q[t] + a + b
  BY <1>1, <1>2
<1>4. x2 <= 1
  BY <1>2
<1> QED BY <1>1, <1>2, <1>3, <1>4

\* A step that is no client's keeps the invariant if no load grows.
LEMMA WorkKept ==
  ASSUME TypeInv, TypeInv', WorkInv, UNCHANGED <<client, attempts>>, IsFiniteSet(execs'),
         \A t \in Task : Load(queue', hand', execs', results', t)
                           <= Load(queue, hand, execs, results, t)
  PROVE  WorkInv'
<1> SUFFICES ASSUME NEW t \in Task
             PROVE  Load(queue', hand', execs', results', t) <= Asked(client', attempts', t)
  BY DEF WorkInv
<1>1. queue[t] \in Nat /\ queue'[t] \in Nat
  BY DEF TypeInv, TypeOK
<1>2. Load(queue, hand, execs, results, t) \in Nat
  <2>1. IsFiniteSet(execs)
    BY DEF WorkInv
  <2> QED BY <1>1, <2>1, LoadParts
<1>3. Load(queue', hand', execs', results', t) \in Nat
  BY <1>1, LoadParts
<1>4. Asked(client, attempts, t) \in Nat /\ Asked(client', attempts', t) = Asked(client, attempts, t)
  BY AgentPoolAssumption DEF AgentPoolAssumption, TypeInv, TypeOK, Asked
<1>5. /\ Load(queue', hand', execs', results', t) <= Load(queue, hand, execs, results, t)
      /\ Load(queue, hand, execs, results, t) <= Asked(client, attempts, t)
  BY DEF WorkInv
<1> QED BY <1>2, <1>3, <1>4, <1>5

\* A client asks for one more copy whenever it adds one: submit and every retry.
LEMMA WorkClient ==
  ASSUME TypeInv, TypeInv', WorkInv, NEW u \in Task, Submit(u) \/ TakeResult(u) \/ WaitTimeout(u)
  PROVE  WorkInv'
<1>1. UNCHANGED <<hand, execs>>
  BY DEF Submit, TakeResult, WaitTimeout
<1>2. IsFiniteSet(execs)
  BY DEF WorkInv
<1> SUFFICES ASSUME NEW t \in Task
             PROVE  Load(queue', hand, execs, results', t) <= Asked(client', attempts', t)
  BY <1>1, <1>2 DEF WorkInv
<1>3. /\ queue[t] \in Nat /\ queue'[t] \in Nat
      /\ attempts[t] \in Nat /\ attempts[t] >= 1 /\ attempts'[t] \in Nat
  BY AgentPoolAssumption DEF AgentPoolAssumption, TypeInv, TypeOK
<1>4. PICK a, b, x \in Nat :
            /\ a = Cardinality(Holders(hand, t)) /\ b = Cardinality(RunsOf(execs, t))
            /\ x \in {0, 1} /\ (results[t] = "none" => x = 0) /\ (results[t] # "none" => x = 1)
            /\ Load(queue, hand, execs, results, t) = queue[t] + a + b + x
  <2>1. queue[t] \in Nat
    BY <1>3
  <2> QED BY <1>2, <2>1, LoadParts
<1>5. PICK a2, b2, x2 \in Nat :
            /\ a2 = Cardinality(Holders(hand, t)) /\ b2 = Cardinality(RunsOf(execs, t))
            /\ x2 \in {0, 1} /\ (results'[t] = "none" => x2 = 0) /\ (results'[t] # "none" => x2 = 1)
            /\ Load(queue', hand, execs, results', t) = queue'[t] + a2 + b2 + x2
  BY <1>2, <1>3, LoadParts
<1>6. a2 = a /\ b2 = b
  BY <1>4, <1>5
<1>7. queue[t] + a + b + x <= Asked(client, attempts, t)
  <2>1. Load(queue, hand, execs, results, t) <= Asked(client, attempts, t)
    BY DEF WorkInv
  <2> QED BY <1>4, <2>1
<1>8. CASE t # u
  <2>1. queue'[t] = queue[t] /\ results'[t] = results[t] /\ attempts'[t] = attempts[t] /\ client'[t] = client[t]
    BY <1>8 DEF Submit, TakeResult, WaitTimeout, Retry, Enqueue, TypeInv, TypeOK
  <2>2. x2 = x /\ Asked(client', attempts', t) = Asked(client, attempts, t)
    BY <1>4, <1>5, <2>1 DEF Asked
  <2> QED BY <1>5, <1>6, <1>7, <2>1, <2>2
<1>9. CASE t = u /\ Submit(u)
  <2>1. /\ client[t] = "new" /\ client'[t] = "waiting" /\ queue'[t] = queue[t] + 1
        /\ UNCHANGED <<results, attempts>>
    BY <1>9 DEF Submit, Enqueue, TypeInv, TypeOK
  <2>2. Asked(client, attempts, t) = 0 /\ Asked(client', attempts', t) = attempts[t] /\ x2 = x
    BY <1>4, <1>5, <2>1 DEF Asked
  <2> QED BY <1>3, <1>4, <1>5, <1>6, <1>7, <2>1, <2>2
<1>10. ASSUME t = u, client[t] = "waiting", x2 = 0, Retry(t)
       PROVE  queue'[t] + a2 + b2 + x2 <= Asked(client', attempts', t)
  <2>1. Asked(client, attempts, t) = attempts[t]
    BY <1>10 DEF Asked
  <2>2. CASE attempts[t] < MaxAttempts
    <3>1. queue'[t] = queue[t] + 1 /\ attempts'[t] = attempts[t] + 1 /\ client'[t] = "waiting"
      BY <1>10, <2>2 DEF Retry, Enqueue, TypeInv, TypeOK
    <3>2. Asked(client', attempts', t) = attempts[t] + 1
      BY <3>1 DEF Asked
    <3> QED BY <1>3, <1>6, <1>7, <1>10, <2>1, <3>1, <3>2
  <2>3. CASE ~(attempts[t] < MaxAttempts)
    <3>1. UNCHANGED <<queue, attempts>> /\ client'[t] = "failed"
      BY <1>10, <2>3 DEF Retry, TypeInv, TypeOK
    <3>2. Asked(client', attempts', t) = attempts[t]
      BY <3>1 DEF Asked
    <3> QED BY <1>3, <1>6, <1>7, <1>10, <2>1, <3>1, <3>2
  <2> QED BY <2>2, <2>3
<1>11. CASE t = u /\ WaitTimeout(u)
  <2>1. client[t] = "waiting" /\ Retry(t) /\ results'[t] = "none"
    BY <1>11 DEF WaitTimeout
  <2> QED BY <1>5, <1>10, <1>11, <2>1
<1>12. CASE t = u /\ TakeResult(u)
  <2>1. client[t] = "waiting" /\ results'[t] = "none"
    BY <1>12 DEF TakeResult, TypeInv, TypeOK
  <2>2. CASE Retry(t)
    BY <1>5, <1>10, <1>12, <2>1, <2>2
  <2>3. CASE ~Retry(t)
    <3>1. UNCHANGED <<queue, attempts>> /\ client'[t] = "done"
      BY <1>12, <2>3 DEF TakeResult, TypeInv, TypeOK
    <3>2. Asked(client, attempts, t) = attempts[t] /\ Asked(client', attempts', t) = attempts[t]
      BY <2>1, <3>1 DEF Asked
    <3>3. x2 = 0
      BY <1>5, <2>1
    <3> QED BY <1>3, <1>5, <1>6, <1>7, <3>1, <3>2, <3>3
  <2> QED BY <2>2, <2>3
<1> QED BY <1>8, <1>9, <1>11, <1>12

\* A dispatcher moves copies: from the queue to its hand or a coroutine, and back.
LEMMA WorkDispatch ==
  ASSUME TypeInv, TypeInv', WorkInv, NEW n \in Loop, DispatchStep(n) PROVE WorkInv'
<1> DEFINE H(t)  == Cardinality(Holders(hand, t))
           R(t)  == Cardinality(RunsOf(execs, t))
<1>1. UNCHANGED <<client, attempts, results>>
  BY DEF DispatchStep, DispatchIdle, DispatchCreate, DispatchKeyError, DispatchBlock,
         DispatchResume, DispatchExit
<1>2. IsFiniteSet(execs) /\ DOMAIN hand = Loop
  BY DEF WorkInv, TypeInv, TypeOK
<1>3. \A t \in Task : /\ queue[t] \in Nat /\ queue'[t] \in Nat
                       /\ H(t) \in Nat /\ R(t) \in Nat
  <2>1. \A t \in Task : queue[t] \in Nat /\ queue'[t] \in Nat
    BY DEF TypeInv, TypeOK
  <2>2. \A t \in Task : H(t) \in Nat /\ R(t) \in Nat
    BY <1>2, CountsAreNumbers
  <2> QED BY <2>1, <2>2, Zenon
<1>4. ASSUME IsFiniteSet(execs'),
             \A t \in Task : queue'[t] + Cardinality(Holders(hand', t)) + Cardinality(RunsOf(execs', t))
                              <= queue[t] + H(t) + R(t)
      PROVE  WorkInv'
  <2>1. ASSUME NEW t \in Task
        PROVE  Load(queue', hand', execs', results', t) <= Load(queue, hand, execs, results, t)
    BY <1>1, <1>2, <1>3, <1>4, LoadKept
  <2> QED BY <1>1, <1>4, <2>1, WorkKept
<1>5. ASSUME NEW u \in Task, Head(u), Dequeue(u), NEW t \in Task
      PROVE  /\ t = u => queue'[t] + 1 = queue[t]
             /\ t # u => queue'[t] = queue[t]
  BY <1>5 DEF Head, Dequeue, TypeInv, TypeOK
<1>6. ASSUME NEW u \in Task, NEW w \in Worker, Spawn(w, u), NEW t \in Task
      PROVE  /\ IsFiniteSet(execs') /\ Cardinality(RunsOf(execs', t)) \in Nat
             /\ t = u => Cardinality(RunsOf(execs', t)) <= R(t) + 1
             /\ t # u => Cardinality(RunsOf(execs', t)) = R(t)
  <2> DEFINE new == [worker |-> w, task |-> u, phase |-> "spawned"]
  <2>1. new.task = u /\ execs' = execs \cup {new}
    BY <1>6 DEF Spawn
  <2> HIDE DEF new
  <2> QED BY <1>2, <2>1, AddRun, CountsAreNumbers
<1>7. ASSUME NEW u \in Task, NEW w \in Worker, Head(u), Dequeue(u), Spawn(w, u), UNCHANGED hand
      PROVE  WorkInv'
  <2>1. IsFiniteSet(execs')
    BY <1>6, <1>7
  <2>2. ASSUME NEW t \in Task
        PROVE  queue'[t] + Cardinality(Holders(hand', t)) + Cardinality(RunsOf(execs', t))
                 <= queue[t] + H(t) + R(t)
    <3>1. /\ t = u => queue'[t] + 1 = queue[t]
          /\ t # u => queue'[t] = queue[t]
      BY <1>5, <1>7
    <3>2. /\ Cardinality(RunsOf(execs', t)) \in Nat
          /\ t = u => Cardinality(RunsOf(execs', t)) <= R(t) + 1
          /\ t # u => Cardinality(RunsOf(execs', t)) = R(t)
      BY <1>6, <1>7
    <3>3. Cardinality(Holders(hand', t)) = H(t)
      BY <1>7
    <3> HIDE DEF H, R
    <3> QED BY <1>3, <3>1, <3>2, <3>3
  <2> QED BY <1>4, <2>1, <2>2
<1>8. ASSUME NEW t \in Task, NEW w \in Worker, DispatchIdle(n, t, w) \/ DispatchCreate(n, t, w)
      PROVE  WorkInv'
  BY <1>7, <1>8 DEF DispatchIdle, DispatchCreate
<1>9. ASSUME NEW u \in Task, DispatchKeyError(n, u) PROVE WorkInv'
  <2>1. UNCHANGED <<hand, execs>> /\ Head(u) /\ Dequeue(u)
    BY <1>9 DEF DispatchKeyError
  <2>2. ASSUME NEW t \in Task
        PROVE  queue'[t] + Cardinality(Holders(hand', t)) + Cardinality(RunsOf(execs', t))
                 <= queue[t] + H(t) + R(t)
    <3>1. queue'[t] + 1 = queue[t] \/ queue'[t] = queue[t]
      BY <1>5, <2>1
    <3>2. Cardinality(Holders(hand', t)) = H(t) /\ Cardinality(RunsOf(execs', t)) = R(t)
      BY <2>1
    <3> HIDE DEF H, R
    <3> QED BY <1>3, <3>1, <3>2
  <2> QED BY <1>2, <1>4, <2>1, <2>2
<1>10. ASSUME NEW u \in Task, DispatchBlock(n, u) PROVE WorkInv'
  <2>1. UNCHANGED execs /\ hand' = [hand EXCEPT ![n] = u] /\ Head(u) /\ Dequeue(u)
    BY <1>10 DEF DispatchBlock
  <2>2. ASSUME NEW t \in Task
        PROVE  queue'[t] + Cardinality(Holders(hand', t)) + Cardinality(RunsOf(execs', t))
                 <= queue[t] + H(t) + R(t)
    <3>1. /\ t = u => queue'[t] + 1 = queue[t]
          /\ t # u => queue'[t] = queue[t]
      BY <1>5, <2>1
    <3> DEFINE S == Holders(hand, t)
               T == Holders(hand', t)
    <3>4. /\ T \subseteq S \cup {n}
          /\ t # u => T = S \/ T = S \ {n}
      BY <1>2, <2>1 DEF Holders
    <3>5. /\ IsFiniteSet(S) /\ IsFiniteSet(T)
          /\ Cardinality(S) \in Nat /\ Cardinality(T) \in Nat
      BY <1>2, CountsAreNumbers
    <3>6. Cardinality(T) <= Cardinality(S) + 1
      <4> HIDE DEF S, T
      <4> QED BY <3>4, <3>5, OneHolderMore
    <3>7. t # u => Cardinality(T) <= Cardinality(S)
      <4> HIDE DEF S, T
      <4>1. n \notin S => S \ {n} = S
        OBVIOUS
      <4>2. n \in S => Cardinality(S \ {n}) + 1 = Cardinality(S)
        BY <3>5, OneMoreOneLess
      <4>3. Cardinality(S \ {n}) <= Cardinality(S)
        BY <3>5, <4>1, <4>2, FS_Subset
      <4> QED BY <3>4, <3>5, <4>3
    <3>2. /\ t # u => Cardinality(Holders(hand', t)) <= H(t)
          /\ Cardinality(Holders(hand', t)) <= H(t) + 1
          /\ Cardinality(Holders(hand', t)) \in Nat
      BY <3>5, <3>6, <3>7
    <3>3. Cardinality(RunsOf(execs', t)) = R(t)
      BY <2>1
    <3> HIDE DEF H, R
    <3> QED BY <1>3, <3>1, <3>2, <3>3
  <2> QED BY <1>2, <1>4, <2>1, <2>2
<1>11. CASE DispatchResume(n)
  <2> DEFINE u == hand[n]
  <2>1. hand' = [hand EXCEPT ![n] = NoTask] /\ u \in Task /\ u # NoTask
    BY <1>11, AgentPoolAssumption DEF DispatchResume, TypeInv, HandHolds, AgentPoolAssumption
  <2>2. ASSUME NEW t \in Task
        PROVE  /\ Cardinality(Holders(hand', t)) \in Nat
               /\ t = u => Cardinality(Holders(hand', t)) + 1 = H(t)
               /\ Cardinality(Holders(hand', t)) <= H(t)
    <3> DEFINE S == Holders(hand, t)
               T == Holders(hand', t)
    <3>1. IsFiniteSet(S) /\ Cardinality(S) \in Nat /\ Cardinality(T) \in Nat
      BY <1>2, CountsAreNumbers
    <3>2. T = S \ {n} /\ (t = u => n \in S)
      BY <1>2, <2>1, AgentPoolAssumption DEF Holders, AgentPoolAssumption
    <3>3. /\ n \in S => Cardinality(T) + 1 = Cardinality(S)
          /\ n \notin S => T = S
      <4> HIDE DEF S, T
      <4> QED BY <3>1, <3>2, OneMoreOneLess
    <3>4. /\ t = u => Cardinality(T) + 1 = Cardinality(S)
          /\ Cardinality(T) <= Cardinality(S)
      <4> HIDE DEF S, T, u
      <4>1. t = u => Cardinality(T) + 1 = Cardinality(S)
        BY <3>2, <3>3
      <4>2. CASE n \in S
        BY <3>1, <3>3, <4>1, <4>2
      <4>3. CASE n \notin S
        <5>1. T = S
          BY <3>3, <4>3
        <5> QED BY <3>1, <4>1, <5>1
      <4> QED BY <4>2, <4>3
    <3> QED BY <3>1, <3>4
  <2>3. CASE UNCHANGED queue /\ \E w \in Worker : Spawn(w, u)
    <3>1. PICK w \in Worker : Spawn(w, u)
      BY <2>3
    <3>2. IsFiniteSet(execs')
      BY <1>6, <2>1, <3>1
    <3>3. ASSUME NEW t \in Task
          PROVE  queue'[t] + Cardinality(Holders(hand', t)) + Cardinality(RunsOf(execs', t))
                   <= queue[t] + H(t) + R(t)
      <4>1. /\ Cardinality(RunsOf(execs', t)) \in Nat
            /\ t = u => Cardinality(RunsOf(execs', t)) <= R(t) + 1
            /\ t # u => Cardinality(RunsOf(execs', t)) = R(t)
        BY <1>6, <2>1, <3>1
      <4>2. queue'[t] = queue[t]
        BY <2>3
      <4>3. /\ Cardinality(Holders(hand', t)) \in Nat
            /\ t = u => Cardinality(Holders(hand', t)) + 1 = H(t)
            /\ Cardinality(Holders(hand', t)) <= H(t)
        BY <2>2
      <4> HIDE DEF H, R, u
      <4> QED BY <1>3, <4>1, <4>2, <4>3
    <3> QED BY <1>4, <3>2, <3>3
  <2>4. CASE UNCHANGED execs /\ Enqueue(u)
    <3>1. ASSUME NEW t \in Task
          PROVE  queue'[t] + Cardinality(Holders(hand', t)) + Cardinality(RunsOf(execs', t))
                   <= queue[t] + H(t) + R(t)
      <4>1. Cardinality(RunsOf(execs', t)) = R(t)
        BY <2>4
      <4>2. /\ t = u => queue'[t] = queue[t] + 1
            /\ t # u => queue'[t] = queue[t]
        BY <2>1, <2>4 DEF Enqueue, TypeInv, TypeOK
      <4>3. /\ Cardinality(Holders(hand', t)) \in Nat
            /\ t = u => Cardinality(Holders(hand', t)) + 1 = H(t)
            /\ Cardinality(Holders(hand', t)) <= H(t)
        BY <2>2
      <4> HIDE DEF H, R, u
      <4> QED BY <1>3, <4>1, <4>2, <4>3
    <3> QED BY <1>2, <1>4, <2>4, <3>1
  <2> QED BY <1>11, <2>3, <2>4 DEF DispatchResume
<1>12. CASE DispatchExit(n)
  <2>1. UNCHANGED <<queue, hand, execs>>
    BY <1>12 DEF DispatchExit
  <2> QED BY <1>1, <2>1 DEF WorkInv
<1> QED BY <1>8, <1>9, <1>10, <1>11, <1>12 DEF DispatchStep

\* A coroutine that ends leaves one result for the copy it was; the others only move on.
LEMMA WorkExec ==
  ASSUME TypeInv, TypeInv', WorkInv, NEW w \in Worker, ExecStep(w) \/ HandlerStep(w)
  PROVE  WorkInv'
<1>1. UNCHANGED <<client, attempts, queue, hand>>
  BY DEF ExecStep, HandlerStep, ExecReject, ExecStart, ExecFinish, HandlerEnds
<1>2. IsFiniteSet(execs)
  BY DEF WorkInv
<1>3. \A t \in Task : /\ queue[t] \in Nat /\ queue'[t] = queue[t]
                       /\ Cardinality(Holders(hand, t)) \in Nat
                       /\ Cardinality(Holders(hand', t)) = Cardinality(Holders(hand, t))
                       /\ Cardinality(RunsOf(execs, t)) \in Nat
  <2>1. \A t \in Task : queue[t] \in Nat /\ queue'[t] \in Nat
    BY DEF TypeInv, TypeOK
  <2>2. \A t \in Task : /\ Cardinality(Holders(hand, t)) \in Nat
                         /\ Cardinality(Holders(hand', t)) = Cardinality(Holders(hand, t))
                         /\ Cardinality(RunsOf(execs, t)) \in Nat
    BY <1>1, <1>2, CountsAreNumbers
  <2> QED BY <1>1, <2>1, <2>2, Zenon
<1>4. ASSUME NEW e \in execs, ExecReject(e) \/ ExecFinish(e) PROVE WorkInv'
  <2>1. execs' = execs \ {e} /\ \A t \in Task : t # e.task => results'[t] = results[t]
    BY <1>4 DEF ExecReject, ExecFinish, TypeInv, TypeOK
  <2>2. IsFiniteSet(execs')
    BY <1>2, <2>1, DropRun
  <2>3. ASSUME NEW t \in Task
        PROVE  Load(queue', hand', execs', results', t) <= Load(queue, hand, execs, results, t)
    <3>1. /\ e.task = t => Cardinality(RunsOf(execs', t)) + 1 = Cardinality(RunsOf(execs, t))
          /\ e.task # t => Cardinality(RunsOf(execs', t)) = Cardinality(RunsOf(execs, t))
          /\ Cardinality(RunsOf(execs', t)) \in Nat
      BY <1>2, <2>1, <2>2, DropRun, CountsAreNumbers
    <3>2. \/ /\ results[t] = "none" => results'[t] = "none"
             /\ queue'[t] + Cardinality(Holders(hand', t)) + Cardinality(RunsOf(execs', t))
                  <= queue[t] + Cardinality(Holders(hand, t)) + Cardinality(RunsOf(execs, t))
          \/ queue'[t] + Cardinality(Holders(hand', t)) + Cardinality(RunsOf(execs', t)) + 1
                  <= queue[t] + Cardinality(Holders(hand, t)) + Cardinality(RunsOf(execs, t))
      BY <1>3, <2>1, <3>1
    <3>3. queue'[t] \in Nat /\ queue[t] \in Nat
      BY <1>3
    <3> QED BY <1>2, <2>2, <3>2, <3>3, LoadKept
  <2> QED BY <1>1, <2>2, <2>3, WorkKept
<1>5. ASSUME NEW e \in execs, NEW x, x.task = e.task, execs' = (execs \ {e}) \cup {x},
             UNCHANGED results
      PROVE  WorkInv'
  <2>1. IsFiniteSet(execs')
    BY <1>2, <1>5, MoveRun
  <2>2. ASSUME NEW t \in Task
        PROVE  Load(queue', hand', execs', results', t) <= Load(queue, hand, execs, results, t)
    <3>1. Cardinality(RunsOf(execs', t)) <= Cardinality(RunsOf(execs, t))
      BY <1>2, <1>5, MoveRun
    <3>2. Cardinality(RunsOf(execs', t)) \in Nat
      BY <2>1, CountsAreNumbers
    <3>3. queue'[t] + Cardinality(Holders(hand', t)) + Cardinality(RunsOf(execs', t))
            <= queue[t] + Cardinality(Holders(hand, t)) + Cardinality(RunsOf(execs, t))
      BY <1>3, <3>1, <3>2
    <3>4. queue'[t] \in Nat /\ queue[t] \in Nat /\ (results[t] = "none" => results'[t] = "none")
      BY <1>3, <1>5
    <3> QED BY <1>2, <2>1, <3>3, <3>4, LoadKept
  <2> QED BY <1>1, <2>1, <2>2, WorkKept
<1>6. ASSUME NEW e \in execs, NEW p PROVE [e EXCEPT !.phase = p].task = e.task
  BY DEF TypeInv, TypeOK, ExecType
<1>7. ASSUME NEW e \in execs, ExecStart(e) PROVE WorkInv'
  BY <1>5, <1>6, <1>7 DEF ExecStart
<1>8. ASSUME NEW e \in execs, NEW o \in Outcome, HandlerEnds(e, o) PROVE WorkInv'
  BY <1>5, <1>6, <1>8 DEF HandlerEnds
<1> QED BY <1>4, <1>7, <1>8 DEF ExecStep, HandlerStep

\* Destroying workers cancels coroutines, start() forgets the queue: no load grows.
LEMMA WorkOutside ==
  ASSUME TypeInv, TypeInv', WorkInv, OutsideStep \/ StopDestroy PROVE WorkInv'
<1>1. UNCHANGED <<client, attempts, hand, results>>
  BY DEF OutsideStep, StopDestroy, Destroy, Terminate, MakeInsert, Age, MakeCheck, Start, StopBegin
<1>2. IsFiniteSet(execs)
  BY DEF WorkInv
<1>3. \A t \in Task : /\ queue[t] \in Nat /\ queue'[t] \in Nat
                       /\ Cardinality(Holders(hand, t)) \in Nat
                       /\ Cardinality(Holders(hand', t)) = Cardinality(Holders(hand, t))
                       /\ Cardinality(RunsOf(execs, t)) \in Nat
  <2>1. \A t \in Task : queue[t] \in Nat /\ queue'[t] \in Nat
    BY DEF TypeInv, TypeOK
  <2>2. \A t \in Task : /\ Cardinality(Holders(hand, t)) \in Nat
                         /\ Cardinality(Holders(hand', t)) = Cardinality(Holders(hand, t))
                         /\ Cardinality(RunsOf(execs, t)) \in Nat
    BY <1>1, <1>2, CountsAreNumbers
  <2> QED BY <1>1, <2>1, <2>2, Zenon
<1>4. ASSUME IsFiniteSet(execs'), \A t \in Task : queue'[t] <= queue[t],
             \A t \in Task : Cardinality(RunsOf(execs', t)) <= Cardinality(RunsOf(execs, t))
      PROVE  WorkInv'
  <2>1. ASSUME NEW t \in Task
        PROVE  Load(queue', hand', execs', results', t) <= Load(queue, hand, execs, results, t)
    <3>1. Cardinality(RunsOf(execs', t)) \in Nat
      BY <1>4, CountsAreNumbers
    <3>2. queue'[t] + Cardinality(Holders(hand', t)) + Cardinality(RunsOf(execs', t))
            <= queue[t] + Cardinality(Holders(hand, t)) + Cardinality(RunsOf(execs, t))
      BY <1>3, <1>4, <3>1
    <3>3. queue'[t] \in Nat /\ queue[t] \in Nat /\ (results[t] = "none" => results'[t] = "none")
      BY <1>1, <1>3
    <3> QED BY <1>2, <1>4, <3>2, <3>3, LoadKept
  <2> QED BY <1>1, <1>4, <2>1, WorkKept
<1>5. ASSUME NEW S, Remove(S), UNCHANGED queue PROVE WorkInv'
  <2>1. execs' = {Cancelled(e, S) : e \in execs}
    BY <1>5 DEF Remove
  <2>2. IsFiniteSet(execs') /\ \A t \in Task :
           Cardinality(RunsOf(execs', t)) <= Cardinality(RunsOf(execs, t))
    BY <1>2, <2>1, CancelRuns
  <2>3. \A t \in Task : queue'[t] <= queue[t]
    BY <1>3, <1>5
  <2> QED BY <1>4, <2>2, <2>3
<1>6. ASSUME UNCHANGED <<queue, execs>> PROVE WorkInv'
  BY <1>1, <1>6 DEF WorkInv
<1>7. ASSUME NEW w \in Worker, NEW force \in BOOLEAN, Destroy(w, force) PROVE WorkInv'
  BY <1>5, <1>7 DEF Destroy
<1>8. ASSUME NEW w \in Worker, Terminate(w) PROVE WorkInv'
  BY <1>5, <1>8 DEF Terminate
<1>9. ASSUME NEW w \in Worker, MakeInsert(w) \/ Age(w) PROVE WorkInv'
  BY <1>6, <1>9 DEF MakeInsert, Age
<1>10. CASE MakeCheck \/ StopBegin
  BY <1>6, <1>10 DEF MakeCheck, StopBegin
<1>11. CASE Start
  <2>1. UNCHANGED execs /\ \A t \in Task : queue'[t] = 0
    BY <1>11 DEF Start
  <2>2. /\ \A t \in Task : queue'[t] <= queue[t]
        /\ \A t \in Task : Cardinality(RunsOf(execs', t)) <= Cardinality(RunsOf(execs, t))
    BY <1>3, <2>1
  <2> QED BY <1>2, <1>4, <2>1, <2>2
<1>12. CASE StopDestroy
  BY <1>5, <1>12 DEF StopDestroy
<1> QED BY <1>7, <1>8, <1>9, <1>10, <1>11, <1>12 DEF OutsideStep

\* No step makes more of a task than its client asked for.
LEMMA WorkStep == TypeInv /\ WorkInv /\ [Next]_vars => WorkInv'
<1> SUFFICES ASSUME TypeInv, WorkInv, [Next]_vars PROVE WorkInv'
  OBVIOUS
<1>1. TypeInv'
  BY TypeStep
<1>2. ASSUME UNCHANGED <<queue, hand, execs, results, client, attempts>> PROVE WorkInv'
  BY <1>2 DEF WorkInv
<1>3. ASSUME NEW n \in Loop, CleanerStep(n) PROVE WorkInv'
  BY <1>2, <1>3 DEF CleanerStep, Cleanup, CleanerExit
<1>4. CASE UNCHANGED vars
  BY <1>2, <1>4 DEF vars
<1> QED
  BY <1>1, <1>3, <1>4, WorkClient, WorkDispatch, WorkExec, WorkOutside DEF Next, ClientStep

\* Initially there is nothing of any task.
LEMMA WorkInit == Init => WorkInv
<1> SUFFICES ASSUME Init PROVE WorkInv
  OBVIOUS
<1>1. IsFiniteSet(execs) /\ execs = {}
  BY FS_EmptySet DEF Init
<1> SUFFICES ASSUME NEW t \in Task
             PROVE  Load(queue, hand, execs, results, t) <= Asked(client, attempts, t)
  BY <1>1 DEF WorkInv
<1>2. Holders(hand, t) = {} /\ RunsOf(execs, t) = {}
  BY <1>1, AgentPoolAssumption DEF Init, Holders, RunsOf, AgentPoolAssumption
<1>3. Cardinality(Holders(hand, t)) = 0 /\ Cardinality(RunsOf(execs, t)) = 0
  BY <1>2, FS_EmptySet
<1>4. queue[t] = 0 /\ results[t] = "none" /\ client[t] = "new"
  BY DEF Init
<1> QED BY <1>3, <1>4 DEF Load, Asked

\* Through requeues, retries, late results, destroyed workers and restarts, the queue entries,
\* copies in hand, coroutines and results of a task never outnumber its submissions.
THEOREM WorkIsAsked == Spec => []NoExtraWork
<1>1. Init => TypeInv /\ WorkInv
  BY TypeInit, WorkInit
<1>2. TypeInv /\ WorkInv /\ [Next]_vars => (TypeInv /\ WorkInv)'
  BY TypeStep, WorkStep
<1>3. WorkInv => NoExtraWork
  BY DEF WorkInv, NoExtraWork, Load, Asked, Copies, Holders, RunsOf
<1> QED BY <1>1, <1>2, <1>3, PTL DEF Spec
=============================================================================
