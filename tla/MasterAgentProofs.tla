------------------------- MODULE MasterAgentProofs -------------------------
(***************************************************************************)
(* Theorems about MasterAgent, for any set of tasks and any limits.        *)
(***************************************************************************)
EXTENDS MasterAgent, TLAPS

\* What holds of the task the loop executes: it has been entered, is not yet
\* settled, and this is start number attempt + 1.
InHand ==
  pc = "handler" =>
    /\ cur \in Task
    /\ arrival[cur] > 0
    /\ cur \notin settled
    /\ attempt = retryCounts[cur]
    /\ starts[cur] = attempt + 1

\* A pending task that the loop does not hold has been started once for each
\* retry it was granted.
Waiting ==
  \A t \in pending : /\ arrival[t] > 0
                     /\ t \notin settled
                     /\ (pc = "handler" /\ t = cur) \/ starts[t] = retryCounts[t]

\* Every hand-over of a task is still a copy, the result in store, a result that was
\* reported, or one that a later result has replaced.
PoolEntries ==
  \A t \in Task :
    copies[t] + (IF results[t] = "none" THEN 0 ELSE 1) + reported[t] <= handed[t]

\* A task never entered has no trace.
Untouched ==
  \A t \in Task : arrival[t] = 0 =>
    /\ t \notin settled
    /\ retryCounts[t] = 0
    /\ starts[t] = 0

\* The task in hand is pending, or somebody else took it away.
HeldIsOwned == pc = "handler" => cur \in pending \cup withdrawn \cup Reported

\* At most one late start, none while another may follow, and none while the
\* agent runs undisturbed.
LateStarts ==
  /\ OneLateStart
  /\ pc \in {"off", "take"} => late = 0
  /\ late = 1 => stopped \/ ~running

IInv ==
  /\ TypeOK
  /\ InHand
  /\ Waiting
  /\ PoolEntries
  /\ Untouched
  /\ RetryBudget
  /\ RetryEntriesOwned
  /\ EndsAnnounced
  /\ HeldIsOwned
  /\ LateStarts

USE DEF loopVars, dictVars, poolVars, Place, Result, Reported

-----------------------------------------------------------------------------
(* Types *)

\* The types hold initially.
LEMMA TypesInit == Init => TypeOK
<1> SUFFICES ASSUME Init PROVE TypeOK
  OBVIOUS
<1> USE DEF Init
<1>1. /\ arrival \in [Task -> Nat] /\ starts \in [Task -> Nat]
      /\ retryCounts \in [Task -> 0..MaxRetries]
      /\ attempt \in 0..MaxRetries
  BY MasterAssumption DEF MasterAssumption
<1>2. /\ results \in [Task -> Result]
      /\ copies \in [Task -> Nat] /\ handed \in [Task -> Nat] /\ reported \in [Task -> Nat]
  OBVIOUS
<1> QED BY <1>1, <1>2 DEF TypeOK

\* Every step keeps the types.
LEMMA TypesStep == TypeOK /\ [Next]_vars => TypeOK'
<1> SUFFICES ASSUME TypeOK, [Next]_vars PROVE TypeOK'
  OBVIOUS
<1> USE MasterAssumption DEF MasterAssumption, TypeOK
<1>1. ASSUME NEW t \in Task, SubmitTask(t) \/ CreateTask(t) \/ SubmitSubtask(t)
      PROVE  TypeOK'
  <2>1. handed' \in [Task -> Nat] /\ copies' \in [Task -> Nat]
    BY <1>1 DEF SubmitTask, CreateTask, SubmitSubtask, Enter, HandOver
  <2> QED BY <1>1, <2>1 DEF SubmitTask, CreateTask, SubmitSubtask, Enter
<1>2. ASSUME NEW t \in Task, Resubmit(t) \/ PoolFinishes(t) \/ CancelTask(t)
      PROVE  TypeOK'
  <2>1. CASE Resubmit(t)
    BY <2>1 DEF Resubmit, HandOver
  <2>2. CASE PoolFinishes(t)
    BY <2>2 DEF PoolFinishes
  <2>3. CASE CancelTask(t)
    BY <2>3 DEF CancelTask
  <2> QED BY <1>2, <2>1, <2>2, <2>3
<1>3. ASSUME NEW t \in Task, WaitForTask(t) PROVE TypeOK'
  <2>1. /\ completed' \in Nat /\ failed' \in Nat
        /\ reported' \in [Task -> Nat] /\ results' \in [Task -> Result]
    BY <1>3 DEF WaitForTask
  <2> QED BY <1>3, <2>1 DEF WaitForTask
<1>4. CASE Start \/ Stop \/ EmergencyStop \/ SafetyStop \/ SafetyResume
  <2>1. CASE Start \/ Stop
    BY <2>1 DEF Start, Stop
  <2>2. CASE EmergencyStop
    BY <2>2 DEF EmergencyStop
  <2>3. CASE SafetyStop
    BY <2>3 DEF SafetyStop
  <2>4. CASE SafetyResume
    <3>1. stopped' \in BOOLEAN /\ late' \in Nat
      BY <2>4 DEF SafetyResume
    <3> QED BY <2>4, <3>1 DEF SafetyResume
  <2> QED BY <1>4, <2>1, <2>2, <2>3, <2>4
<1>5. CASE Test \/ Wake \/ TakeFails
  BY <1>5 DEF Test, Wake, TakeFails
<1>6. CASE Take
  BY <1>6 DEF Take
<1>7. CASE Retry
  <2>1. cur \in Task => attempt + 1 \in 0..MaxRetries
    BY <1>7 DEF Retry
  <2>2. Cooled(errors) \in Nat
    BY DEF Cooled
  <2> QED BY <1>7, <2>1, <2>2 DEF Retry, Leave
<1>8. CASE Complete \/ FinalFailure \/ FinalError
  <2>1. Cooled(errors) \in Nat /\ Cooled(errors + 1) \in Nat
    BY DEF Cooled
  <2>2. retryCounts' \in [Task -> 0..MaxRetries]
    BY <1>8 DEF Complete, FinalFailure, FinalError, Finish
  <2>3. errors' \in Nat
    BY <1>8, <2>1 DEF Complete, FinalFailure, FinalError
  <2>4. settled' \subseteq Task /\ announced' \subseteq Task
    BY <1>8 DEF Complete, FinalFailure, FinalError, Finish, Leave
  <2> QED BY <1>8, <2>2, <2>3, <2>4 DEF Complete, FinalFailure, FinalError, Finish, Leave
<1>9. CASE UNCHANGED vars
  BY <1>9 DEF vars
<1> QED
  BY <1>1, <1>2, <1>3, <1>4, <1>5, <1>6, <1>7, <1>8, <1>9 DEF Next, LoopStep, HandlerEnds
-----------------------------------------------------------------------------
(* The inductive invariant *)

USE DEF IInv

\* The invariant holds initially.
LEMMA InvInit == Init => IInv
<1> SUFFICES ASSUME Init PROVE IInv
  OBVIOUS
<1>1. TypeOK
  BY TypesInit
<1>2. InHand /\ HeldIsOwned /\ Waiting /\ LateStarts
  BY DEF Init, InHand, HeldIsOwned, Waiting, LateStarts, OneLateStart
<1>3. PoolEntries /\ Untouched
  BY DEF Init, PoolEntries, Untouched
<1>4. RetryBudget /\ RetryEntriesOwned /\ EndsAnnounced
  BY MasterAssumption DEF MasterAssumption, Init, RetryBudget, RetryEntriesOwned,
     EndsAnnounced
<1> QED BY <1>1, <1>2, <1>3, <1>4

\* What the callers do keeps what holds of the tasks.
LEMMA CallersKeep ==
  ASSUME IInv, TypeOK',
         \/ \E t \in Task : \/ SubmitTask(t) \/ CreateTask(t) \/ SubmitSubtask(t)
                            \/ Resubmit(t) \/ PoolFinishes(t) \/ WaitForTask(t)
                            \/ CancelTask(t)
         \/ Start \/ Stop \/ EmergencyStop \/ SafetyStop \/ SafetyResume
  PROVE  IInv'
<1> USE MasterAssumption DEF MasterAssumption, TypeOK
<1>1. ASSUME NEW t \in Task, SubmitTask(t) \/ CreateTask(t) \/ SubmitSubtask(t)
      PROVE  IInv'
  <2> USE <1>1 DEF SubmitTask, CreateTask, SubmitSubtask, Enter, HandOver
  <2>1. HeldIsOwned' /\ InHand' /\ Untouched'
    BY DEF HeldIsOwned, InHand, Untouched
  <2>2. Waiting'
    BY DEF Waiting, InHand, Untouched
  <2>3. PoolEntries'
    BY DEF PoolEntries
  <2>4. RetryBudget' /\ EndsAnnounced' /\ LateStarts'
    BY DEF RetryBudget, EndsAnnounced, LateStarts, OneLateStart
  <2>5. RetryEntriesOwned'
    BY DEF RetryEntriesOwned
  <2> QED BY <2>1, <2>2, <2>3, <2>4, <2>5
<1>2. ASSUME NEW t \in Task, Resubmit(t) \/ PoolFinishes(t) \/ CancelTask(t)
      PROVE  IInv'
  <2> USE <1>2 DEF Resubmit, HandOver, PoolFinishes, CancelTask
  <2>1. HeldIsOwned' /\ InHand' /\ Untouched' /\ Waiting'
    BY DEF HeldIsOwned, InHand, Untouched, Waiting
  <2>2. PoolEntries'
    <3>1. CASE Resubmit(t)
      BY <3>1 DEF PoolEntries
    <3>2. CASE PoolFinishes(t)
      BY <3>2 DEF PoolEntries
    <3>3. CASE CancelTask(t)
      BY <3>3 DEF PoolEntries
    <3> QED BY <1>2, <3>1, <3>2, <3>3
  <2>3. RetryBudget' /\ EndsAnnounced' /\ LateStarts' /\ RetryEntriesOwned'
    BY DEF RetryBudget, EndsAnnounced, LateStarts, OneLateStart, RetryEntriesOwned
  <2> QED BY <2>1, <2>2, <2>3
<1>3. ASSUME NEW t \in Task, WaitForTask(t)
      PROVE  IInv'
  <2> USE <1>3 DEF WaitForTask
  <2>1. HeldIsOwned' /\ InHand' /\ Untouched' /\ Waiting'
    BY DEF HeldIsOwned, InHand, Untouched, Waiting
  <2>2. PoolEntries'
    BY DEF PoolEntries
  <2>3. RetryBudget' /\ EndsAnnounced' /\ LateStarts' /\ RetryEntriesOwned'
    BY DEF RetryBudget, EndsAnnounced, LateStarts, OneLateStart, RetryEntriesOwned
  <2> QED BY <2>1, <2>2, <2>3
<1>4. CASE Start \/ Stop \/ EmergencyStop \/ SafetyStop \/ SafetyResume
  <2> USE <1>4 DEF Start, Stop, EmergencyStop, SafetyStop, SafetyResume
  <2>1. HeldIsOwned' /\ InHand' /\ Untouched'
    BY DEF HeldIsOwned, InHand, Untouched
  <2>2. Waiting' /\ PoolEntries'
    BY DEF Waiting, PoolEntries
  <2>3. RetryBudget' /\ EndsAnnounced' /\ RetryEntriesOwned'
    BY DEF RetryBudget, EndsAnnounced, RetryEntriesOwned
  <2>4. LateStarts'
    BY DEF LateStarts, OneLateStart
  <2> QED BY <2>1, <2>2, <2>3, <2>4
<1> QED BY <1>1, <1>2, <1>3, <1>4

\* The loop's own steps keep it.
LEMMA LoopKeeps ==
  ASSUME IInv, TypeOK', LoopStep
  PROVE  IInv'
<1> USE MasterAssumption DEF MasterAssumption, TypeOK
<1>1. CASE Test \/ Wake \/ TakeFails
  <2> USE <1>1 DEF Test, Wake, TakeFails
  <2>1. HeldIsOwned' /\ InHand' /\ Untouched' /\ Waiting' /\ PoolEntries'
    BY DEF HeldIsOwned, InHand, Untouched, Waiting, PoolEntries
  <2>2. RetryBudget' /\ EndsAnnounced' /\ RetryEntriesOwned'
    BY DEF RetryBudget, EndsAnnounced, RetryEntriesOwned
  <2>3. LateStarts'
    BY DEF LateStarts, OneLateStart
  <2> QED BY <2>1, <2>2, <2>3
<1>2. CASE Take
  <2>1. PICK t \in Task :
          /\ t \in pending /\ pc = "take" /\ pc' = "handler" /\ cur' = t
          /\ attempt' = retryCounts[t]
          /\ starts' = [starts EXCEPT ![t] = @ + 1]
          /\ late' = IF running /\ ~stopped THEN late ELSE late + 1
          /\ UNCHANGED <<running, stopped, pending, arrival, poolVars, announced,
                         withdrawn, retryCounts, settled>>
    BY <1>2 DEF Take, Oldest
  <2>2. arrival[t] > 0 /\ t \notin settled /\ starts[t] = retryCounts[t]
    BY <2>1 DEF Waiting
  <2>3. InHand' /\ HeldIsOwned'
    BY <2>1, <2>2 DEF HeldIsOwned, InHand
  <2>4. Waiting'
    BY <2>1, <2>2 DEF Waiting
  <2>5. Untouched' /\ PoolEntries'
    BY <2>1, <2>2 DEF Untouched, PoolEntries
  <2>6. RetryBudget'
    BY <2>1, <2>2 DEF RetryBudget
  <2>7. EndsAnnounced' /\ RetryEntriesOwned'
    BY <2>1 DEF EndsAnnounced, RetryEntriesOwned
  <2>8. LateStarts'
    BY <2>1 DEF LateStarts, OneLateStart
  <2> QED BY <2>3, <2>4, <2>5, <2>6, <2>7, <2>8
<1>3. CASE Retry
  <2> USE <1>3 DEF Retry, Leave
  <2>1. cur \in Task /\ arrival[cur] > 0 /\ cur \notin settled /\ starts[cur] = attempt + 1
    BY DEF InHand
  <2>2. HeldIsOwned' /\ InHand' /\ PoolEntries' /\ Untouched' /\ LateStarts'
    BY <2>1 DEF HeldIsOwned, InHand, PoolEntries, Untouched, LateStarts, OneLateStart
  <2>3. Waiting'
    BY <2>1 DEF Waiting
  <2>4. RetryBudget' /\ EndsAnnounced'
    BY DEF RetryBudget, EndsAnnounced
  <2>5. cur \in pending \cup withdrawn \cup Reported
    BY <2>1 DEF HeldIsOwned
  <2>6. RetryEntriesOwned'
    BY <2>1, <2>5 DEF RetryEntriesOwned
  <2> QED BY <2>2, <2>3, <2>4, <2>6
<1>4. CASE Complete \/ FinalFailure \/ FinalError
  <2>1. /\ Finish /\ Leave
        /\ announced \subseteq announced'
        /\ cur \in announced' \/ cur \notin pending
    BY <1>4 DEF Complete, FinalFailure, FinalError, Finish
  <2> USE <2>1 DEF Finish, Leave
  <2>2. cur \in Task /\ arrival[cur] > 0
    BY DEF InHand
  <2>3. HeldIsOwned' /\ InHand' /\ PoolEntries' /\ LateStarts'
    BY DEF HeldIsOwned, InHand, PoolEntries, LateStarts, OneLateStart
  <2>4. Waiting' /\ Untouched'
    BY <2>2 DEF Waiting, Untouched
  <2>5. RetryBudget' /\ RetryEntriesOwned'
    BY <2>2 DEF RetryBudget, RetryEntriesOwned
  <2>6. EndsAnnounced'
    BY <2>2 DEF EndsAnnounced, HeldIsOwned
  <2> QED BY <2>3, <2>4, <2>5, <2>6
<1> QED BY <1>1, <1>2, <1>3, <1>4 DEF LoopStep, HandlerEnds

\* Every step keeps the invariant.
LEMMA InvStep == IInv /\ [Next]_vars => IInv'
<1> SUFFICES ASSUME IInv, [Next]_vars PROVE IInv'
  OBVIOUS
<1>1. TypeOK'
  BY TypesStep
<1>2. CASE LoopStep
  BY <1>1, <1>2, LoopKeeps
<1>3. CASE UNCHANGED vars
  BY <1>1, <1>3 DEF vars, InHand, Waiting, PoolEntries, Untouched, RetryBudget,
     RetryEntriesOwned, EndsAnnounced, HeldIsOwned, LateStarts, OneLateStart
<1>4. CASE Next /\ ~LoopStep
  BY <1>1, <1>4, CallersKeep DEF Next
<1> QED BY <1>2, <1>3, <1>4

\* The invariant holds in every reachable state.
THEOREM Inductive == Spec => []IInv
BY InvInit, InvStep, PTL DEF Spec

\* Every variable keeps its type.
THEOREM TypeCorrect == Spec => []TypeOK
BY Inductive, PTL

\* No task is started more than max_retries + 1 times, however the callers
\* interleave with the loop.
THEOREM RetriesBounded == Spec => []RetryBudget
BY Inductive, PTL

\* A stop is followed by at most one more start of a handler.
THEOREM StopTakesEffect == Spec => []OneLateStart
<1>1. IInv => OneLateStart
  BY DEF LateStarts
<1> QED BY <1>1, Inductive, PTL

\* Only a task somebody took away ends without a notice.
THEOREM EndsAreAnnounced == Spec => []EndsAnnounced
BY Inductive, PTL

\* Only a task somebody took away leaves a retry entry behind.
THEOREM NoStrayRetryEntries == Spec => []RetryEntriesOwned
BY Inductive, PTL
-----------------------------------------------------------------------------
(* The ledger *)

Accepted == {t \in Task : arrival[t] > 0}

\* A step of a caller is a step of the ledger or leaves it alone.
LEMMA CallersKeepLedger ==
  ASSUME IInv,
         \/ \E t \in Task : \/ SubmitTask(t) \/ CreateTask(t) \/ SubmitSubtask(t)
                            \/ Resubmit(t) \/ PoolFinishes(t) \/ WaitForTask(t)
                            \/ CancelTask(t)
         \/ Start \/ Stop \/ EmergencyStop \/ SafetyStop \/ SafetyResume
  PROVE  Ledger!LedgerNext \/ UNCHANGED <<Accepted, pending, settled, handed, reported, completed + failed>>
<1> USE DEF TypeOK, Accepted
<1>1. ASSUME NEW t \in Task, SubmitTask(t) \/ CreateTask(t) \/ SubmitSubtask(t)
      PROVE  Ledger!LedgerNext
  <2> USE <1>1 DEF SubmitTask, CreateTask, SubmitSubtask, Enter, HandOver
  <2>1. Accepted' = Accepted \cup {t} /\ t \notin Accepted
    OBVIOUS
  <2>2. /\ pending' = pending \cup {t}
        /\ handed' = [handed EXCEPT ![t] = @ + 1] \/ handed' = handed
        /\ UNCHANGED <<settled, reported, completed + failed>>
    OBVIOUS
  <2> QED BY <2>1, <2>2 DEF Ledger!LedgerNext, Ledger!Accept
<1>2. ASSUME NEW t \in Task, PoolFinishes(t)
      PROVE  UNCHANGED <<Accepted, pending, settled, handed, reported, completed + failed>>
  BY <1>2 DEF PoolFinishes
<1>3. ASSUME NEW t \in Task, Resubmit(t) \/ CancelTask(t)
      PROVE  Ledger!LedgerNext
  BY <1>3 DEF Resubmit, HandOver, CancelTask, Ledger!LedgerNext, Ledger!HandOver,
     Ledger!Withdraw
<1>4. ASSUME NEW t \in Task, WaitForTask(t)
      PROVE  Ledger!LedgerNext
  <2> USE <1>4 DEF WaitForTask
  <2>1. reported[t] < handed[t]
    BY DEF PoolEntries
  <2>2. completed' + failed' = (completed + failed) + 1
    OBVIOUS
  <2>3. /\ pending' = pending \ {t} /\ reported' = [reported EXCEPT ![t] = @ + 1]
        /\ Accepted' = Accepted /\ settled' = settled /\ handed' = handed
    OBVIOUS
  <2> QED BY <2>1, <2>2, <2>3 DEF Ledger!LedgerNext, Ledger!Report
<1>5. CASE Start \/ Stop \/ SafetyStop \/ SafetyResume
  BY <1>5 DEF Start, Stop, SafetyStop, SafetyResume
<1>6. CASE EmergencyStop
  BY <1>6 DEF EmergencyStop, Ledger!LedgerNext, Ledger!Withdraw
<1> QED BY <1>1, <1>2, <1>3, <1>4, <1>5, <1>6

\* So is every step of the loop.
LEMMA LoopKeepsLedger ==
  ASSUME IInv, LoopStep
  PROVE  Ledger!LedgerNext \/ UNCHANGED <<Accepted, pending, settled, handed, reported, completed + failed>>
<1> USE DEF TypeOK, Accepted
<1>1. CASE Test \/ Wake \/ TakeFails \/ Take \/ Retry
  BY <1>1 DEF Test, Wake, TakeFails, Take, Retry, Leave
<1>2. CASE Complete \/ FinalFailure \/ FinalError
  <2>1. Finish /\ Leave /\ completed' + failed' = (completed + failed) + 1
    BY <1>2 DEF Complete, FinalFailure, FinalError, Finish
  <2>2. cur \in Task /\ cur \in Accepted \ settled
    BY <2>1 DEF Leave, InHand
  <2>3. /\ pending' = pending \ {cur} /\ settled' = settled \cup {cur}
        /\ Accepted' = Accepted /\ reported' = reported /\ handed' = handed
    BY <2>1 DEF Finish, Leave
  <2> QED BY <2>1, <2>2, <2>3 DEF Ledger!LedgerNext, Ledger!Settle
<1> QED BY <1>1, <1>2 DEF LoopStep, HandlerEnds

\* The agent implements the ledger.
THEOREM ImplementsLedger == Spec => KeepsLedger
<1>1. Init => Ledger!LedgerInit
  BY DEF Init, Ledger!LedgerInit
<1>2. IInv /\ [Next]_vars => [Ledger!LedgerNext]_(Ledger!ledgerVars)
  <2> SUFFICES ASSUME IInv, [Next]_vars
               PROVE  [Ledger!LedgerNext]_(Ledger!ledgerVars)
    OBVIOUS
  <2> USE DEF Ledger!ledgerVars
  <2>1. CASE LoopStep
    BY <2>1, LoopKeepsLedger DEF Accepted
  <2>2. CASE UNCHANGED vars
    BY <2>2 DEF vars
  <2>3. CASE Next /\ ~LoopStep
    BY <2>3, CallersKeepLedger DEF Next, Accepted
  <2> QED BY <2>1, <2>2, <2>3
<1> QED
  BY <1>1, <1>2, Inductive, PTL DEF Spec, KeepsLedger, Ledger!LedgerSpec
=============================================================================
