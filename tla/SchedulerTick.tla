---------------------------- MODULE SchedulerTick ----------------------------
(***************************************************************************)
(* The scheduler worker: run_once, SchedulerModule.tick and                *)
(* SchedulerService.tick.  A tick is one transaction:                      *)
(*                                                                         *)
(*   now := datetime.now(); find_due(limit, now)                           *)
(*   for each due reminder, oldest first:                                  *)
(*     read its task; mark_sent(id, now); provider.send                    *)
(*   commit, when anything was due                                         *)
(*                                                                         *)
(* so a claim is committed only at the end of the batch, after the         *)
(* notifications of the batch have gone out.  A failed tick is rolled      *)
(* back and run_forever starts another one.                                *)
(***************************************************************************)
EXTENDS DeadlineStore

CONSTANT BatchLimit    \* scheduler_batch_size

ASSUME TickAssumption == BatchLimit \in Nat \ {0}

VARIABLES
  tick,         \* the progress of the tick each worker is running
  notified,     \* history: per reminder, how often provider.send was called
  aborted       \* history: per reminder, calls of provider.send in ticks rolled back

tickVars == <<tick, notified, aborted>>

(***************************************************************************)
(* `todo` is what find_due returned and the loop has not come to yet, with *)
(* the values that were read; `item` is the loop's reminder, or the one    *)
(* before it, whose task the session's identity map still holds.           *)
(***************************************************************************)
DueItem == [id : ReminderIds, task : TaskIds \cup {None}, remind_at : Times]

NoItem == [id |-> None, task |-> None, remind_at |-> 0]

TickState == [pc   : {"idle", "find", "next", "claim", "wait", "notify"},
              now  : Times,
              todo : SUBSET DueItem,
              item : DueItem \cup {NoItem}]

IdleTick == [pc |-> "idle", now |-> 0, todo |-> {}, item |-> NoItem]

TickTypeOK ==
  /\ tick \in [Workers -> TickState]
  /\ notified \in [ReminderIds -> Nat]
  /\ aborted \in [ReminderIds -> Nat]

TickInit ==
  /\ tick = [w \in Workers |-> IdleTick]
  /\ notified = [r \in ReminderIds |-> 0]
  /\ aborted = [r \in ReminderIds |-> 0]

(***************************************************************************)
(* ORDER BY remind_at, id LIMIT limit.                                     *)
(***************************************************************************)
Before(a, b) ==
  \/ a.remind_at < b.remind_at
  \/ a.remind_at = b.remind_at /\ a.id < b.id

Limited(items) == {i \in items : Cardinality({j \in items : Before(j, i)}) < BatchLimit}

IsFirst(i, items) == \A j \in items \ {i} : Before(i, j)

(***************************************************************************)
(* The loop wakes up and reads the clock.                                  *)
(***************************************************************************)
Wake(w) ==
  /\ tick[w].pc = "idle"
  /\ tick' = [tick EXCEPT ![w].pc = "find", ![w].now = clock]
  /\ UNCHANGED <<storeVars, notified, aborted>>

(***************************************************************************)
(* find_due.  When nothing is due the tick ends without a commit.          *)
(***************************************************************************)
DueAt(now) ==
  {[id |-> r, task |-> reminders[r].task, remind_at |-> reminders[r].remind_at] :
     r \in {q \in ReminderIds : Due(reminders[q], now)}}

FindDue(w) ==
  LET due == Limited(DueAt(tick[w].now)) IN
  /\ tick[w].pc = "find"
  /\ tick' = [tick EXCEPT ![w] = IF due = {} THEN IdleTick
                                 ELSE [@ EXCEPT !.pc = "next", !.todo = due]]
  /\ UNCHANGED <<storeVars, notified, aborted>>

(***************************************************************************)
(* Task context first: a reminder whose task is gone is counted as failed  *)
(* and not claimed.                                                        *)
(***************************************************************************)
ResolveTask(w) ==
  /\ tick[w].pc = "next"
  /\ \E i \in tick[w].todo :
       /\ IsFirst(i, tick[w].todo)
       /\ tick' = [tick EXCEPT ![w] =
            IF TaskExists(i.task) \/ tick[w].item.task = i.task
              THEN [tick[w] EXCEPT !.pc = "claim", !.todo = @ \ {i}, !.item = i]
              ELSE [tick[w] EXCEPT !.todo = @ \ {i}, !.item = NoItem]]
  /\ UNCHANGED <<storeVars, notified, aborted>>

(***************************************************************************)
(* mark_sent: UPDATE ... SET status = SENT WHERE id = ... AND status =     *)
(* PENDING AND remind_at <= now.  It waits for the lock of a row that      *)
(* matches, and matches again when it gets the lock; a worker that comes   *)
(* later does not get it first.  No row updated: the reminder is skipped.  *)
(*                                                                         *)
(* The variants of Claimable are mistakes one could make in that WHERE     *)
(* clause: id alone, status or remind_at forgotten, < for <=.              *)
(***************************************************************************)
ClaimableById(row, now) == TRUE
ClaimableAnyStatus(row, now) == row.status \in ReminderStatus /\ row.remind_at =< now
ClaimableUnlessSent(row, now) == row.status \in ReminderStatus \ {"SENT"} /\ row.remind_at =< now
ClaimableBefore(row, now) == row.status = "PENDING" /\ row.remind_at < now
Claimable(row, now) == Due(row, now)

Waiting(r) == {w \in Workers : tick[w].pc = "wait" /\ tick[w].item.id = r}

MarkSent(w) ==
  LET r == tick[w].item.id IN
  /\ tick[w].pc \in {"claim", "wait"}
  /\ Claimable(reminders[r], tick[w].now)
  /\ rowLock[r] = None
  /\ tick[w].pc = "claim" => Waiting(r) = {}
  /\ rowLock' = [rowLock EXCEPT ![r] = w]
  /\ tick' = [tick EXCEPT ![w].pc = "notify"]
  /\ UNCHANGED <<clock, tasks, reminders, taskLock, notified, aborted>>

WaitForRow(w) ==
  LET r == tick[w].item.id IN
  /\ tick[w].pc = "claim"
  /\ Claimable(reminders[r], tick[w].now)
  /\ rowLock[r] # None
  /\ tick' = [tick EXCEPT ![w].pc = "wait"]
  /\ UNCHANGED <<storeVars, notified, aborted>>

SkipReminder(w) ==
  LET r == tick[w].item.id IN
  /\ tick[w].pc \in {"claim", "wait"}
  /\ ~Claimable(reminders[r], tick[w].now)
  /\ tick' = [tick EXCEPT ![w].pc = "next"]
  /\ UNCHANGED <<storeVars, notified, aborted>>

(***************************************************************************)
(* provider.send.  An exception of the provider is caught and changes      *)
(* nothing but a counter in a log line.                                    *)
(***************************************************************************)
Notify(w) ==
  /\ tick[w].pc = "notify"
  /\ notified' = [notified EXCEPT ![tick[w].item.id] = @ + 1]
  /\ tick' = [tick EXCEPT ![w].pc = "next"]
  /\ UNCHANGED <<storeVars, aborted>>

(***************************************************************************)
(* The end of the batch: every claim of the tick is committed at once.     *)
(***************************************************************************)
Committed(w) ==
  [r \in ReminderIds |->
     IF r \in Held(w) THEN [reminders[r] EXCEPT !.status = "SENT"] ELSE reminders[r]]

CommitTick(w) ==
  /\ tick[w].pc = "next"
  /\ tick[w].todo = {}
  /\ reminders' = Committed(w)
  /\ rowLock' = ReleaseRows(w)
  /\ tick' = [tick EXCEPT ![w] = IdleTick]
  /\ UNCHANGED <<clock, tasks, taskLock, notified, aborted>>

(***************************************************************************)
(* A database error anywhere in the tick, commit included, or a crash of   *)
(* the worker: the claims are undone, the notifications are not.           *)
(***************************************************************************)
NotifiedInTick(w) ==
  Held(w) \ (IF tick[w].pc = "notify" THEN {tick[w].item.id} ELSE {})

RollbackTick(w) ==
  /\ tick[w].pc # "idle"
  /\ aborted' = [r \in ReminderIds |->
                   IF r \in NotifiedInTick(w) THEN aborted[r] + 1 ELSE aborted[r]]
  /\ rowLock' = ReleaseRows(w)
  /\ tick' = [tick EXCEPT ![w] = IdleTick]
  /\ UNCHANGED <<clock, tasks, reminders, taskLock, notified>>

TickStep(w) ==
  \/ Wake(w)
  \/ FindDue(w)
  \/ ResolveTask(w)
  \/ MarkSent(w)
  \/ WaitForRow(w)
  \/ SkipReminder(w)
  \/ Notify(w)
  \/ CommitTick(w)

(***************************************************************************)
(* The process whose lock mark_sent is waiting for.                        *)
(***************************************************************************)
TickWaitsFor(w) ==
  IF tick[w].pc = "wait" THEN {rowLock[tick[w].item.id]} \ {None} ELSE {}
=============================================================================
