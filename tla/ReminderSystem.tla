--------------------------- MODULE ReminderSystem ---------------------------
(***************************************************************************)
(* API requests and scheduler workers on one database: who wins when a     *)
(* user edits, cancels or deletes what a worker is about to send, what a   *)
(* crash or a database error leaves behind, and whether every reminder     *)
(* that is due is dealt with.                                              *)
(***************************************************************************)
EXTENDS Requests, SchedulerTick

CONSTANT MaxFailures   \* a bound on crashes and database errors

ASSUME SystemAssumption == MaxFailures \in Nat

VARIABLE failures      \* crashes and database errors so far

vars == <<clock, tasks, reminders, taskLock, rowLock, req, requests, overwritten,
          tick, notified, aborted, failures>>

Init ==
  /\ StoreInit
  /\ RequestsInit
  /\ TickInit
  /\ failures = 0

(***************************************************************************)
(* PostgreSQL's deadlock detector aborts one process of a cycle of waiting *)
(* ones.  When the budget of failures is spent it prefers a request, so    *)
(* that the history counters stay bounded.                                 *)
(***************************************************************************)
WaitsFor(p) == IF p \in Workers THEN TickWaitsFor(p) ELSE RequestWaitsFor(p)

Deadlocked(S) ==
  \A p \in S : /\ WaitsFor(p) \cap S # {}
               /\ \E q \in S : p \in WaitsFor(q)

DeadlockVictim(p) ==
  \E S \in SUBSET Processes :
    /\ p \in S
    /\ Deadlocked(S)
    /\ p \in Workers => failures < MaxFailures \/ S \subseteq Workers

Rollback(p) ==
  \/ p \in Clients /\ RollbackRequest(p) /\ UNCHANGED tickVars
  \/ p \in Workers /\ RollbackTick(p) /\ UNCHANGED reqVars

AbortVictim(p) ==
  /\ DeadlockVictim(p)
  /\ Rollback(p)
  /\ failures' = IF failures < MaxFailures THEN failures + 1 ELSE failures

Fail(p) ==
  /\ failures < MaxFailures
  /\ failures' = failures + 1
  /\ Rollback(p)

Start(c)    == StartRequest(c) /\ UNCHANGED <<tickVars, failures>>
Continue(c) == ContinueRequest(c) /\ UNCHANGED <<tickVars, failures>>
Work(w)     == TickStep(w) /\ UNCHANGED <<reqVars, failures>>
PassTime    == AdvanceClock /\ UNCHANGED <<reqVars, tickVars, failures>>

Next ==
  \/ PassTime
  \/ \E c \in Clients : Start(c) \/ Continue(c)
  \/ \E w \in Workers : Work(w)
  \/ \E p \in Processes : Fail(p) \/ AbortVictim(p)

Spec == Init /\ [][Next]_vars

(***************************************************************************)
(* run_forever starts a new tick after every tick, failed ones included,   *)
(* so each worker keeps making the steps it can make; the server finishes  *)
(* the requests it has started; PostgreSQL resolves deadlocks.  Nothing    *)
(* makes clients send requests, time advance or failures happen.           *)
(***************************************************************************)
Fairness ==
  /\ \A w \in Workers : WF_vars(Work(w))
  /\ \A c \in Clients : WF_vars(Continue(c))
  /\ WF_vars(\E p \in Processes : AbortVictim(p))

FairSpec == Spec /\ Fairness

-----------------------------------------------------------------------------
TypeOK ==
  /\ StoreTypeOK
  /\ RequestsTypeOK
  /\ TickTypeOK
  /\ failures \in 0..MaxFailures

(***************************************************************************)
(* The foreign key with ON DELETE CASCADE: no committed reminder outlives  *)
(* its task, although the insert of a reminder checks its task long before *)
(* it writes, and although a deleted task takes its reminders along one at *)
(* a time.                                                                 *)
(***************************************************************************)
NoOrphanReminder ==
  \A r \in ReminderIds : ReminderExists(r) => TaskExists(reminders[r].task)

(***************************************************************************)
(* What mark_sent's WHERE clause found true stays true until the worker    *)
(* commits: no request cancels, reschedules or deletes a claimed reminder, *)
(* or deletes its task, in between.                                        *)
(***************************************************************************)
ClaimStands ==
  \A w \in Workers : \A r \in Held(w) :
    /\ Due(reminders[r], clock)
    /\ TaskExists(reminders[r].task)

(***************************************************************************)
(* The user is never notified of a reminder that, at that moment, is       *)
(* cancelled, deleted, already sent or not due, or whose task is deleted.  *)
(***************************************************************************)
NotifiesOnlyDue ==
  [][\A r \in ReminderIds :
       notified'[r] # notified[r] =>
         Due(reminders[r], clock) /\ TaskExists(reminders[r].task)]_vars

(***************************************************************************)
(* scheduler_module.py: "whole batch retried next tick, idempotent", and   *)
(* scheduler_service.py, before provider.send: "claim is already durable". *)
(* A reminder is notified once, unless a request replaced its status SENT: *)
(* the retry of a batch that was rolled back notifies nobody again.        *)
(***************************************************************************)
RetryIsIdempotent ==
  \A r \in ReminderIds : notified[r] =< 1 + overwritten[r]

(***************************************************************************)
(* What holds instead.  The claim is durable with the commit of the batch  *)
(* only, so every rollback of a tick that had notified a reminder may cost *)
(* one more notification, but nothing else does: several workers never     *)
(* send it twice between them, nor does one that waited for its row.       *)
(***************************************************************************)
DuplicatesExplained ==
  \A r \in ReminderIds : notified[r] =< 1 + aborted[r] + overwritten[r]

(***************************************************************************)
(* reminder_service.py: "A SENT reminder cannot be updated".               *)
(***************************************************************************)
SentIsFinal ==
  [][\A r \in ReminderIds :
       reminders[r].status = "SENT" =>
         reminders'[r] = reminders[r] \/ reminders'[r].status = "gone"]_vars

(***************************************************************************)
(* A reminder that is due is eventually sent, or cancelled, rescheduled or *)
(* deleted by a request: it is not starved by a backlog larger than the    *)
(* batch limit, by rolled back ticks, by waits for rows that others hold,  *)
(* or by deadlocks with a cascading delete or with another worker.         *)
(***************************************************************************)
DueIsHandled ==
  \A r \in ReminderIds : Due(reminders[r], clock) ~> ~Due(reminders[r], clock)

(***************************************************************************)
(* The committed rows behave as ReminderLedger says.                       *)
(***************************************************************************)
Ledger == INSTANCE ReminderLedger

ImplementsLedger == Ledger!LedgerSpec
=============================================================================
