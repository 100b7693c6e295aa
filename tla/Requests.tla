------------------------------ MODULE Requests ------------------------------
(***************************************************************************)
(* The write requests of the task and reminder API: TaskModule and         *)
(* ReminderModule with the services and repositories they call.  The       *)
(* agent's ActionExecutor issues the same calls.  A request is one         *)
(* database transaction in one of the Clients; its SELECTs are separate    *)
(* steps from its write, so that everything it checked may be stale when   *)
(* it writes.                                                              *)
(*                                                                         *)
(* A request that writes one row flushes, refreshes and commits in one     *)
(* step: until the commit the others see the old row or wait for its       *)
(* lock, which is to come before or after the whole step.  Deleting a      *)
(* task locks several rows and takes several steps.  Arguments are chosen  *)
(* at the step that first looks at them.                                   *)
(*                                                                         *)
(* Only the fields that scheduling depends on are kept: a task's deadline, *)
(* a reminder's status, task and remind_at.                                *)
(***************************************************************************)
EXTENDS DeadlineStore

CONSTANT MaxRequests   \* a bound on the requests that ever start

ASSUME RequestsAssumption == MaxRequests \in Nat

VARIABLES
  req,          \* the progress of the request each client is running
  requests,     \* requests started so far
  overwritten   \* history: per reminder, how often a request replaced status SENT

reqVars == <<req, requests, overwritten>>

Unset == -1     \* an `at` that was not supplied
Keep  == "keep" \* a `status` that was not supplied

Assignable == {"PENDING", "CANCELLED"}

RequestState ==
  [pc       : {"idle", "updateTask", "deleteTask", "cascade", "insertReminder",
               "checkReminder", "writeReminder", "deleteReminder"},
   task     : TaskIds \cup {None},
   reminder : ReminderIds \cup {None},
   at       : Times \cup {Unset},            \* deadline or remind_at
   status   : ReminderStatus \cup {Keep}]

Request(pc, t, r, at, status) ==
  [pc |-> pc, task |-> t, reminder |-> r, at |-> at, status |-> status]

IdleRequest == Request("idle", None, None, Unset, Keep)

RequestsTypeOK ==
  /\ req \in [Clients -> RequestState]
  /\ requests \in 0..MaxRequests
  /\ overwritten \in [ReminderIds -> Nat]

RequestsInit ==
  /\ req = [c \in Clients |-> IdleRequest]
  /\ requests = 0
  /\ overwritten = [r \in ReminderIds |-> 0]

(***************************************************************************)
(* Every request starts by reading (or by inserting a task) and moves on   *)
(* to its next step, or answers its client.                                *)
(***************************************************************************)
Begin(c, first) ==
  /\ req[c].pc = "idle"
  /\ requests < MaxRequests
  /\ requests' = requests + 1
  /\ req' = [req EXCEPT ![c] = first]
  /\ UNCHANGED overwritten

Finish(c) ==
  /\ req' = [req EXCEPT ![c] = IdleRequest]
  /\ UNCHANGED requests

(***************************************************************************)
(* POST /tasks: the deadline must not be in the past.                      *)
(***************************************************************************)
CreateTask(c) ==
  /\ Begin(c, IdleRequest)
  /\ \E t \in TaskIds, deadline \in clock..MaxTime :
       /\ tasks[t].state = "unborn"
       /\ tasks' = [tasks EXCEPT ![t] = [state |-> "live", deadline |-> deadline]]
  /\ UNCHANGED <<clock, reminders, taskLock, rowLock>>

(***************************************************************************)
(* PATCH /tasks/{id} with a deadline: get_task, the check against the      *)
(* clock, and later the UPDATE of that row.  An unchanged deadline makes   *)
(* SQLAlchemy emit no UPDATE at all, and the reminders of the task are not *)
(* looked at.                                                              *)
(***************************************************************************)
ReadTaskToUpdate(c) ==
  /\ \E t \in TaskIds, deadline \in clock..MaxTime :
       /\ TaskExists(t)
       /\ deadline # tasks[t].deadline
       /\ Begin(c, Request("updateTask", t, None, deadline, Keep))
  /\ UNCHANGED storeVars

WriteTask(c) ==
  LET t == req[c].task IN
  /\ req[c].pc = "updateTask"
  /\ TaskExists(t)
  /\ taskLock[t] = None
  /\ tasks' = [tasks EXCEPT ![t].deadline = req[c].at]
  /\ Finish(c)
  /\ UNCHANGED <<clock, reminders, taskLock, rowLock, overwritten>>

(***************************************************************************)
(* DELETE /tasks/{id}.  The ORM deletes the task row only                  *)
(* (passive_deletes="all"); the foreign key's ON DELETE CASCADE then locks *)
(* and deletes the reminders of the task one by one.                       *)
(***************************************************************************)
ReadTaskToDelete(c) ==
  /\ \E t \in TaskIds :
       /\ TaskExists(t)
       /\ Begin(c, Request("deleteTask", t, None, Unset, Keep))
  /\ UNCHANGED storeVars

LockTask(c) ==
  LET t == req[c].task IN
  /\ req[c].pc = "deleteTask"
  /\ TaskExists(t)
  /\ taskLock[t] = None
  /\ taskLock' = [taskLock EXCEPT ![t] = c]
  /\ req' = [req EXCEPT ![c].pc = "cascade"]
  /\ UNCHANGED <<clock, tasks, reminders, rowLock, requests, overwritten>>

CascadeReminder(c) ==
  /\ req[c].pc = "cascade"
  /\ \E r \in RemindersOf(req[c].task) :
       /\ rowLock[r] = None
       /\ rowLock' = [rowLock EXCEPT ![r] = c]
  /\ UNCHANGED <<clock, tasks, reminders, taskLock, reqVars>>

CommitTaskDelete(c) ==
  LET t == req[c].task IN
  /\ req[c].pc = "cascade"
  /\ RemindersOf(t) \subseteq Held(c)
  /\ tasks' = [tasks EXCEPT ![t] = NoTaskRow("gone")]
  /\ reminders' = [r \in ReminderIds |->
                     IF r \in Held(c) THEN NoReminderRow("gone") ELSE reminders[r]]
  /\ taskLock' = ReleaseTasks(c)
  /\ rowLock' = ReleaseRows(c)
  /\ Finish(c)
  /\ UNCHANGED <<clock, overwritten>>

(***************************************************************************)
(* POST /reminders: remind_at must not be after the deadline that was      *)
(* read; it may be in the past.  The new row gets a UUID nobody else has.  *)
(* The INSERT's foreign key check waits for a transaction that is deleting *)
(* the task.                                                               *)
(***************************************************************************)
ByDeadline(at, t) == at =< tasks[t].deadline

ReadTaskForReminder(c) ==
  /\ \E t \in TaskIds, r \in ReminderIds, at \in Times :
       /\ TaskExists(t)
       /\ ByDeadline(at, t)
       /\ reminders[r].status = "unborn"
       /\ \A d \in Clients : req[d].reminder # r
       /\ Begin(c, Request("insertReminder", t, r, at, Keep))
  /\ UNCHANGED storeVars

InsertReminder(c) ==
  LET t == req[c].task IN
  /\ req[c].pc = "insertReminder"
  /\ TaskExists(t)
  /\ taskLock[t] = None
  /\ reminders' = [reminders EXCEPT ![req[c].reminder] =
       [status |-> "PENDING", task |-> t, remind_at |-> req[c].at]]
  /\ Finish(c)
  /\ UNCHANGED <<clock, tasks, taskLock, rowLock, overwritten>>

(***************************************************************************)
(* PATCH /reminders/{id}: update_reminder reads the row and refuses one    *)
(* that is SENT; then it checks the arguments, reading the task when       *)
(* remind_at is supplied; then the flush writes, WHERE id = ..., the       *)
(* columns whose new value differs from the value it read, if any does.    *)
(***************************************************************************)
ReadReminderToEdit(c) ==
  /\ \E r \in ReminderIds :
       LET row == reminders[r] IN
       /\ ReminderExists(r)
       /\ row.status # "SENT"
       /\ Begin(c, Request("checkReminder", row.task, r, row.remind_at, row.status))
  /\ UNCHANGED storeVars

AcceptsEdit(t, at, status) ==
  /\ at # Unset => TaskExists(t) /\ ByDeadline(at, t)
  /\ status \in Assignable \cup {Keep}

Changed(new, old, none) == IF new = old THEN none ELSE new

CheckReminderEdit(c) ==
  LET seen == req[c] IN
  /\ seen.pc = "checkReminder"
  /\ \E at \in Times \cup {Unset}, status \in ReminderStatus \cup {Keep} :
       LET newAt     == Changed(at, seen.at, Unset)
           newStatus == Changed(status, seen.status, Keep)
           writes    == newAt # Unset \/ newStatus # Keep
       IN  req' = [req EXCEPT ![c] =
             IF AcceptsEdit(seen.task, at, status) /\ writes
               THEN Request("writeReminder", seen.task, seen.reminder, newAt, newStatus)
               ELSE IdleRequest]
  /\ UNCHANGED <<storeVars, requests, overwritten>>

(***************************************************************************)
(* The UPDATE writes what was supplied.                                    *)
(***************************************************************************)
Patched(row, patch) ==
  [row EXCEPT !.remind_at = IF patch.at = Unset THEN @ ELSE patch.at,
              !.status    = IF patch.status = Keep THEN @ ELSE patch.status]

WriteReminder(c) ==
  LET r == req[c].reminder IN
  /\ req[c].pc = "writeReminder"
  /\ ReminderExists(r)
  /\ rowLock[r] = None
  /\ reminders' = [reminders EXCEPT ![r] = Patched(@, req[c])]
  /\ overwritten' = IF reminders[r].status = "SENT" /\ req[c].status # Keep
                      THEN [overwritten EXCEPT ![r] = @ + 1]
                      ELSE overwritten
  /\ Finish(c)
  /\ UNCHANGED <<clock, tasks, taskLock, rowLock>>

(***************************************************************************)
(* DELETE /reminders/{id}.                                                 *)
(***************************************************************************)
ReadReminderToDelete(c) ==
  /\ \E r \in ReminderIds :
       /\ ReminderExists(r)
       /\ Begin(c, Request("deleteReminder", None, r, Unset, Keep))
  /\ UNCHANGED storeVars

DeleteReminder(c) ==
  LET r == req[c].reminder IN
  /\ req[c].pc = "deleteReminder"
  /\ ReminderExists(r)
  /\ rowLock[r] = None
  /\ reminders' = [reminders EXCEPT ![r] = NoReminderRow("gone")]
  /\ Finish(c)
  /\ UNCHANGED <<clock, tasks, taskLock, rowLock, overwritten>>

(***************************************************************************)
(* The row a request is about to write was deleted after the request read  *)
(* it.  An UPDATE matches no row (StaleDataError), an INSERT violates the  *)
(* foreign key, a DELETE only logs a warning: in no case is anything       *)
(* written.                                                                *)
(***************************************************************************)
TargetVanished(c) ==
  /\ \/ req[c].pc \in {"updateTask", "deleteTask", "insertReminder"} /\ ~TaskExists(req[c].task)
     \/ req[c].pc \in {"writeReminder", "deleteReminder"} /\ ~ReminderExists(req[c].reminder)
  /\ Finish(c)
  /\ UNCHANGED <<storeVars, overwritten>>

(***************************************************************************)
(* A database error, a crash of the server or a deadlock: the Module rolls *)
(* back, or the connection is lost and PostgreSQL does.                    *)
(***************************************************************************)
RollbackRequest(c) ==
  /\ req[c].pc # "idle"
  /\ taskLock' = ReleaseTasks(c)
  /\ rowLock' = ReleaseRows(c)
  /\ Finish(c)
  /\ UNCHANGED <<clock, tasks, reminders, overwritten>>

(***************************************************************************)
(* The steps that start a request, which clients may never do, and the     *)
(* steps of a started request, which the server does do.                   *)
(***************************************************************************)
StartRequest(c) ==
  \/ CreateTask(c)
  \/ ReadTaskToUpdate(c)
  \/ ReadTaskToDelete(c)
  \/ ReadTaskForReminder(c)
  \/ ReadReminderToEdit(c)
  \/ ReadReminderToDelete(c)

ContinueRequest(c) ==
  \/ WriteTask(c)
  \/ LockTask(c)
  \/ CascadeReminder(c)
  \/ CommitTaskDelete(c)
  \/ InsertReminder(c)
  \/ CheckReminderEdit(c)
  \/ WriteReminder(c)
  \/ DeleteReminder(c)
  \/ TargetVanished(c)

(***************************************************************************)
(* The processes a request waits for while it holds locks of its own: only *)
(* a cascading delete does.                                                *)
(***************************************************************************)
RequestWaitsFor(c) ==
  LET missing == RemindersOf(req[c].task) \ Held(c) IN
  IF req[c].pc = "cascade" /\ \A r \in missing : rowLock[r] # None
    THEN {rowLock[r] : r \in missing}
    ELSE {}
=============================================================================
