----------------------------- MODULE TaskLedger -----------------------------
(***************************************************************************)
(* What MasterAgent (core/agent/master_agent.py) promises about the tasks  *)
(* it accepts, whoever ends them: a task is accepted once; its own loop    *)
(* settles it at most once and never after that finds it open again; a     *)
(* task handed to the pool, which may happen again and again, is reported  *)
(* to waiters at most once for each time it was handed over; and the two   *)
(* totals of MasterStats add up to exactly these settlements and reports.  *)
(* Callers may withdraw open tasks at any time, also one the loop is busy  *)
(* with, and may hand over Tasks that were never entered.                  *)
(***************************************************************************)
EXTENDS Naturals, FiniteSets

CONSTANT Task    \* Task objects, by id

VARIABLES
  accepted,  \* tasks that were ever entered
  open,      \* those that are still listed as pending
  settled,   \* those whose fate the loop decided
  handed,    \* [Task -> Nat]: how often a task was given to the pool
  reported,  \* [Task -> Nat]: results that waiters collected from the pool
  tally      \* total_tasks_completed + total_tasks_failed

ledgerVars == <<accepted, open, settled, handed, reported, tally>>

LedgerInit ==
  /\ accepted = {} /\ open = {} /\ settled = {}
  /\ handed = [t \in Task |-> 0]
  /\ reported = [t \in Task |-> 0]
  /\ tally = 0

\* A subtask is handed over at once.
Accept(t) ==
  /\ t \notin accepted
  /\ accepted' = accepted \cup {t}
  /\ open' = open \cup {t}
  /\ \/ handed' = [handed EXCEPT ![t] = @ + 1]
     \/ UNCHANGED handed
  /\ UNCHANGED <<settled, reported, tally>>

HandOver(t) ==
  /\ handed' = [handed EXCEPT ![t] = @ + 1]
  /\ UNCHANGED <<accepted, open, settled, reported, tally>>

Settle(t) ==
  /\ t \in accepted \ settled
  /\ settled' = settled \cup {t}
  /\ open' = open \ {t}
  /\ tally' = tally + 1
  /\ UNCHANGED <<accepted, handed, reported>>

Report(t) ==
  /\ reported[t] < handed[t]
  /\ reported' = [reported EXCEPT ![t] = @ + 1]
  /\ open' = open \ {t}
  /\ tally' = tally + 1
  /\ UNCHANGED <<accepted, settled, handed>>

Withdraw ==
  /\ open' \in SUBSET open
  /\ UNCHANGED <<accepted, settled, handed, reported, tally>>

LedgerNext ==
  \/ Withdraw
  \/ \E t \in Task : Accept(t) \/ HandOver(t) \/ Settle(t) \/ Report(t)

LedgerSpec == LedgerInit /\ [][LedgerNext]_ledgerVars
=============================================================================
