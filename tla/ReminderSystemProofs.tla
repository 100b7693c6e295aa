------------------------ MODULE ReminderSystemProofs ------------------------
(***************************************************************************)
(* Proofs, for any number of tasks, reminders, requests and workers and    *)
(* any bounds, that claims stand until they are committed, that no         *)
(* reminder outlives its task, that only due reminders are notified, and   *)
(* that every duplicate notification is explained.                         *)
(***************************************************************************)
EXTENDS ReminderSystem, TLAPS

(***************************************************************************)
(* What the step a request or a tick has come to says about its fields.    *)
(***************************************************************************)
RequestShape(c) ==
  /\ req[c].pc \in {"updateTask", "deleteTask", "cascade", "insertReminder"} =>
       req[c].task \in TaskIds
  /\ req[c].pc \in {"insertReminder", "checkReminder", "writeReminder", "deleteReminder"} =>
       req[c].reminder \in ReminderIds
  /\ req[c].pc \in {"updateTask", "insertReminder"} => req[c].at \in Times

TickShape(w) ==
  /\ tick[w].pc \in {"claim", "wait", "notify"} => tick[w].item \in DueItem
  /\ tick[w].now =< clock

Shapes ==
  /\ \A c \in Clients : RequestShape(c)
  /\ \A w \in Workers : TickShape(w)

(***************************************************************************)
(* A row lock is held by a request that is deleting the reminder's task,   *)
(* or by a worker whose tick found the reminder due.                       *)
(***************************************************************************)
HeldByRequest(c) ==
  \A r \in Held(c) : /\ req[c].pc = "cascade"
                     /\ ReminderExists(r)
                     /\ reminders[r].task = req[c].task

HeldByWorker(w) ==
  /\ \A r \in Held(w) : /\ tick[w].pc \notin {"idle", "find"}
                        /\ Due(reminders[r], tick[w].now)
  /\ tick[w].pc = "notify" => rowLock[tick[w].item.id] = w

Locks ==
  /\ \A c \in Clients : HeldByRequest(c)
  /\ \A w \in Workers : HeldByWorker(w)

(***************************************************************************)
(* The id of a reminder that is being inserted is not in use.              *)
(***************************************************************************)
FreshId(c) ==
  req[c].pc = "insertReminder" =>
    /\ reminders[req[c].reminder].status = "unborn"
    /\ \A d \in Clients \ {c} : req[d].reminder # req[c].reminder

(***************************************************************************)
(* The id of a new reminder is fresh, and every reminder has a task.       *)
(***************************************************************************)
Rows ==
  /\ \A c \in Clients : FreshId(c)
  /\ \A r \in ReminderIds : ReminderExists(r) => reminders[r].task \in TaskIds
  /\ NoOrphanReminder

(***************************************************************************)
(* A reminder accounts for one notification when it is SENT or deleted, or *)
(* when the tick that holds it has called the provider; every other call   *)
(* was rolled back or overwritten.                                         *)
(***************************************************************************)
Accounted(r) ==
  \/ reminders[r].status \in {"SENT", "gone"}
  \/ \E w \in Workers : r \in NotifiedInTick(w)

NotificationsAccounted ==
  \A r \in ReminderIds :
    notified[r] =< aborted[r] + overwritten[r] + (IF Accounted(r) THEN 1 ELSE 0)

Inv == TypeOK /\ Shapes /\ Locks /\ Rows /\ NotificationsAccounted

-----------------------------------------------------------------------------
(***************************************************************************)
(* Types.                                                                  *)
(***************************************************************************)
LEMMA IdleRequestType == IdleRequest \in RequestState /\ IdleRequest.pc = "idle"
  BY DEF IdleRequest, Request, RequestState, Unset, Keep

LEMMA IdleTickType ==
  IdleTick \in TickState /\ IdleTick.pc = "idle" /\ IdleTick.now = 0
  BY StoreAssumption DEF IdleTick, TickState, NoItem, Times

LEMMA NoRowType ==
  /\ \A state \in {"unborn", "live", "gone"} : NoTaskRow(state) \in TaskRow
  /\ \A status \in {"unborn", "gone"} : /\ NoReminderRow(status) \in ReminderRow
                                        /\ NoReminderRow(status).status = status
  BY StoreAssumption DEF NoTaskRow, NoReminderRow, TaskRow, ReminderRow, Times

LEMMA ReleaseType ==
  ASSUME StoreTypeOK, NEW p \in Processes
  PROVE  /\ ReleaseRows(p) \in [ReminderIds -> Processes \cup {None}]
         /\ ReleaseTasks(p) \in [TaskIds -> Clients \cup {None}]
  BY DEF StoreTypeOK, ReleaseRows, ReleaseTasks

(***************************************************************************)
(* A request that becomes x: its type and shape.                           *)
(***************************************************************************)
ShapeOf(x) ==
  /\ x.pc \in {"updateTask", "deleteTask", "cascade", "insertReminder"} => x.task \in TaskIds
  /\ x.pc \in {"insertReminder", "checkReminder", "writeReminder", "deleteReminder"} =>
       x.reminder \in ReminderIds
  /\ x.pc \in {"updateTask", "insertReminder"} => x.at \in Times

LEMMA RequestMoves ==
  ASSUME TypeOK, Shapes, NEW c \in Clients, NEW x \in RequestState, ShapeOf(x),
         req' = [req EXCEPT ![c] = x],
         requests' = requests \/ (requests < MaxRequests /\ requests' = requests + 1),
         overwritten' \in [ReminderIds -> Nat]
  PROVE  RequestsTypeOK' /\ (\A d \in Clients : RequestShape(d)')
<1>1. RequestsTypeOK'
  BY RequestsAssumption DEF TypeOK, RequestsTypeOK
<1>2. \A d \in Clients : RequestShape(d)'
  BY DEF TypeOK, RequestsTypeOK, Shapes, RequestShape, ShapeOf
<1>. QED
  BY <1>1, <1>2

LEMMA FutureTimes ==
  ASSUME TypeOK
  PROVE  clock..MaxTime \subseteq Times
  BY StoreAssumption DEF TypeOK, StoreTypeOK, Times

LEMMA PatchedType ==
  ASSUME NEW row \in ReminderRow, NEW patch \in RequestState
  PROVE  /\ Patched(row, patch) \in ReminderRow
         /\ Patched(row, patch).task = row.task
         /\ Patched(row, patch).status = IF patch.status = Keep THEN row.status ELSE patch.status
<1> DEFINE at == IF patch.at = Unset THEN row.remind_at ELSE patch.at
           status == IF patch.status = Keep THEN row.status ELSE patch.status
<1>1. at \in Times /\ status \in ReminderStatus \cup {"unborn", "gone"}
  BY DEF ReminderRow, RequestState
<1>2. Patched(row, patch) = [row EXCEPT !.remind_at = at, !.status = status]
  BY DEF Patched
<1> HIDE DEF at, status
<1>3. [row EXCEPT !.remind_at = at, !.status = status] \in ReminderRow
  BY <1>1 DEF ReminderRow
<1>. QED
  BY <1>1, <1>2, <1>3 DEF ReminderRow, status

LEMMA RequestType ==
  ASSUME NEW pc \in {"updateTask", "deleteTask", "cascade", "insertReminder",
                     "checkReminder", "writeReminder", "deleteReminder"},
         NEW t \in TaskIds \cup {None}, NEW r \in ReminderIds \cup {None},
         NEW at \in Times \cup {Unset}, NEW status \in ReminderStatus \cup {Keep}
  PROVE  Request(pc, t, r, at, status) \in RequestState
  BY DEF Request, RequestState

LEMMA StartRequestType ==
  ASSUME TypeOK, Shapes, NEW c \in Clients, StartRequest(c)
  PROVE  /\ StoreTypeOK' /\ RequestsTypeOK' /\ clock' = clock
         /\ \A d \in Clients : RequestShape(d)'
<1> USE StoreAssumption, RequestsAssumption DEF Begin
<1>1. overwritten' \in [ReminderIds -> Nat] /\ requests < MaxRequests /\ requests' = requests + 1
  BY DEF StartRequest, CreateTask, ReadTaskToUpdate, ReadTaskToDelete, ReadTaskForReminder,
         ReadReminderToEdit, ReadReminderToDelete, TypeOK, RequestsTypeOK
<1>2. CASE CreateTask(c)
  <2>1. PICK t \in TaskIds, deadline \in clock..MaxTime :
          tasks' = [tasks EXCEPT ![t] = [state |-> "live", deadline |-> deadline]]
    BY <1>2 DEF CreateTask
  <2>2. StoreTypeOK' /\ clock' = clock
    BY <1>2, <2>1, FutureTimes DEF CreateTask, TypeOK, StoreTypeOK, TaskRow
  <2>. QED
    BY <1>1, <1>2, <2>2, IdleRequestType, RequestMoves DEF CreateTask, ShapeOf
<1>3. ASSUME UNCHANGED storeVars,
             NEW x \in RequestState, ShapeOf(x), req' = [req EXCEPT ![c] = x]
      PROVE  /\ StoreTypeOK' /\ RequestsTypeOK' /\ clock' = clock
             /\ \A d \in Clients : RequestShape(d)'
  <2>1. StoreTypeOK' /\ clock' = clock
    BY <1>3 DEF storeVars, TypeOK, StoreTypeOK
  <2>. QED
    BY <1>1, <1>3, <2>1, RequestMoves
<1>4. CASE ReadTaskToUpdate(c)
  <2>1. PICK t \in TaskIds, deadline \in clock..MaxTime :
          req' = [req EXCEPT ![c] = Request("updateTask", t, None, deadline, Keep)]
    BY <1>4 DEF ReadTaskToUpdate
  <2>. QED
    BY <1>3, <1>4, <2>1, FutureTimes, RequestType DEF ReadTaskToUpdate, ShapeOf, Request
<1>5. CASE ReadTaskToDelete(c)
  <2>1. PICK t \in TaskIds : req' = [req EXCEPT ![c] = Request("deleteTask", t, None, Unset, Keep)]
    BY <1>5 DEF ReadTaskToDelete
  <2>. QED
    BY <1>3, <1>5, <2>1, RequestType DEF ReadTaskToDelete, ShapeOf, Request
<1>6. CASE ReadTaskForReminder(c)
  <2>1. PICK t \in TaskIds, r \in ReminderIds, at \in Times :
          req' = [req EXCEPT ![c] = Request("insertReminder", t, r, at, Keep)]
    BY <1>6 DEF ReadTaskForReminder
  <2>. QED
    BY <1>3, <1>6, <2>1, RequestType DEF ReadTaskForReminder, ShapeOf, Request
<1>7. CASE ReadReminderToEdit(c)
  <2>1. PICK r \in ReminderIds :
          /\ ReminderExists(r)
          /\ req' = [req EXCEPT ![c] = Request("checkReminder", reminders[r].task, r,
                                      reminders[r].remind_at, reminders[r].status)]
    BY <1>7 DEF ReadReminderToEdit
  <2>2. /\ reminders[r].task \in TaskIds \cup {None}
        /\ reminders[r].remind_at \in Times
        /\ reminders[r].status \in ReminderStatus
    BY <2>1 DEF TypeOK, StoreTypeOK, ReminderRow, ReminderExists
  <2>. QED
    BY <1>3, <1>7, <2>1, <2>2, RequestType DEF ReadReminderToEdit, ShapeOf, Request
<1>8. CASE ReadReminderToDelete(c)
  <2>1. PICK r \in ReminderIds : req' = [req EXCEPT ![c] = Request("deleteReminder", None, r, Unset, Keep)]
    BY <1>8 DEF ReadReminderToDelete
  <2>. QED
    BY <1>3, <1>8, <2>1, RequestType DEF ReadReminderToDelete, ShapeOf, Request
<1>. QED
  BY <1>2, <1>4, <1>5, <1>6, <1>7, <1>8 DEF StartRequest

LEMMA ContinueRequestType ==
  ASSUME TypeOK, Shapes, NEW c \in Clients, ContinueRequest(c)
  PROVE  /\ StoreTypeOK' /\ RequestsTypeOK' /\ clock' = clock
         /\ \A d \in Clients : RequestShape(d)'
<1> USE StoreAssumption, RequestsAssumption DEF Finish
<1>1. overwritten' \in [ReminderIds -> Nat] /\ requests' = requests
  <2>1. CASE WriteReminder(c)
    <3>1. PICK r \in ReminderIds :
            overwritten' = overwritten
            \/ overwritten' = [overwritten EXCEPT ![r] = overwritten[r] + 1]
      BY <2>1 DEF WriteReminder, Shapes, RequestShape
    <3>2. overwritten' \in [ReminderIds -> Nat]
      BY <3>1 DEF TypeOK, RequestsTypeOK
    <3>. QED
      BY <2>1, <3>2 DEF WriteReminder
  <2>2. CASE ~WriteReminder(c)
    BY <2>2 DEF ContinueRequest, WriteTask, LockTask, CascadeReminder, CommitTaskDelete,
           InsertReminder, CheckReminderEdit, DeleteReminder, TargetVanished, reqVars,
           TypeOK, RequestsTypeOK
  <2>. QED
    BY <2>1, <2>2
<1>2. ASSUME StoreTypeOK', clock' = clock,
             NEW x \in RequestState, ShapeOf(x), req' = [req EXCEPT ![c] = x]
      PROVE  /\ StoreTypeOK' /\ RequestsTypeOK' /\ clock' = clock
             /\ \A d \in Clients : RequestShape(d)'
  <2>1. RequestsTypeOK' /\ (\A d \in Clients : RequestShape(d)')
    BY <1>1, <1>2, RequestMoves
  <2>. QED
    BY <1>2, <2>1
<1>3. ASSUME StoreTypeOK', clock' = clock, req' = [req EXCEPT ![c] = IdleRequest]
      PROVE  /\ StoreTypeOK' /\ RequestsTypeOK' /\ clock' = clock
             /\ \A d \in Clients : RequestShape(d)'
  BY <1>2, <1>3, IdleRequestType DEF ShapeOf
<1>4. CASE WriteTask(c)
  <2>1. PICK t \in TaskIds, at \in Times : tasks' = [tasks EXCEPT ![t].deadline = at]
    BY <1>4 DEF WriteTask, Shapes, RequestShape
  <2>2. tasks' \in [TaskIds -> TaskRow]
    BY <2>1 DEF TypeOK, StoreTypeOK, TaskRow
  <2>. QED
    BY <1>3, <1>4, <2>2 DEF WriteTask, TypeOK, StoreTypeOK
<1>5. CASE LockTask(c)
  <2> DEFINE x == [req[c] EXCEPT !.pc = "cascade"]
  <2>1. req[c].task \in TaskIds /\ req[c] \in RequestState
    BY <1>5 DEF LockTask, Shapes, RequestShape, TypeOK, RequestsTypeOK
  <2>2. x \in RequestState /\ x.pc = "cascade" /\ x.task = req[c].task
    BY <2>1 DEF RequestState
  <2>3. req' = [req EXCEPT ![c] = x]
    BY <1>5 DEF LockTask, TypeOK, RequestsTypeOK, RequestState
  <2>4. StoreTypeOK' /\ clock' = clock
    BY <1>5, <2>1 DEF LockTask, TypeOK, StoreTypeOK
  <2> HIDE DEF x
  <2>. QED
    BY <1>2, <2>1, <2>2, <2>3, <2>4 DEF ShapeOf
<1>6. CASE CascadeReminder(c)
  <2>1. StoreTypeOK' /\ clock' = clock
    BY <1>6 DEF CascadeReminder, RemindersOf, TypeOK, StoreTypeOK, Processes
  <2>. QED
    BY <1>6, <2>1 DEF CascadeReminder, reqVars, TypeOK, RequestsTypeOK, Shapes, RequestShape
<1>7. CASE CommitTaskDelete(c)
  <2>1. c \in Processes /\ req[c].task \in TaskIds
    BY <1>7 DEF CommitTaskDelete, Processes, Shapes, RequestShape
  <2>2. StoreTypeOK' /\ clock' = clock
    BY <1>7, <2>1, ReleaseType, NoRowType DEF CommitTaskDelete, TypeOK, StoreTypeOK
  <2>. QED
    BY <1>3, <1>7, <2>2 DEF CommitTaskDelete
<1>8. CASE InsertReminder(c)
  <2>1. PICK r \in ReminderIds, t \in TaskIds, at \in Times :
          reminders' = [reminders EXCEPT ![r] = [status |-> "PENDING", task |-> t, remind_at |-> at]]
    BY <1>8 DEF InsertReminder, Shapes, RequestShape
  <2>2. [status |-> "PENDING", task |-> t, remind_at |-> at] \in ReminderRow
    BY DEF ReminderRow, ReminderStatus
  <2>3. reminders' \in [ReminderIds -> ReminderRow]
    BY <2>1, <2>2 DEF TypeOK, StoreTypeOK
  <2>. QED
    BY <1>3, <1>8, <2>3 DEF InsertReminder, TypeOK, StoreTypeOK
<1>9. CASE CheckReminderEdit(c)
  <2>1. StoreTypeOK' /\ clock' = clock
    BY <1>9 DEF CheckReminderEdit, storeVars, TypeOK, StoreTypeOK
  <2>2. req[c].reminder \in ReminderIds /\ req[c].task \in TaskIds \cup {None}
    BY <1>9 DEF CheckReminderEdit, Shapes, RequestShape, TypeOK, RequestsTypeOK, RequestState
  <2>3. PICK at \in Times \cup {Unset}, status \in ReminderStatus \cup {Keep} :
          req' = [req EXCEPT ![c] = IdleRequest]
          \/ req' = [req EXCEPT ![c] = Request("writeReminder", req[c].task, req[c].reminder, at, status)]
    BY <1>9, Zenon DEF CheckReminderEdit, Changed
  <2>4. CASE req' = [req EXCEPT ![c] = IdleRequest]
    BY <1>3, <2>1, <2>4
  <2>5. CASE req' = [req EXCEPT ![c] = Request("writeReminder", req[c].task, req[c].reminder, at, status)]
    BY <1>2, <2>1, <2>2, <2>5, RequestType DEF ShapeOf, Request
  <2>. QED
    BY <2>3, <2>4, <2>5
<1>10. CASE WriteReminder(c)
  <2>1. req[c].reminder \in ReminderIds /\ req[c] \in RequestState
    BY <1>10 DEF WriteReminder, Shapes, RequestShape, TypeOK, RequestsTypeOK
  <2>2. Patched(reminders[req[c].reminder], req[c]) \in ReminderRow
    BY <2>1, PatchedType DEF TypeOK, StoreTypeOK
  <2>. QED
    BY <1>3, <1>10, <2>1, <2>2 DEF WriteReminder, TypeOK, StoreTypeOK
<1>11. CASE DeleteReminder(c)
  BY <1>3, <1>11, NoRowType DEF DeleteReminder, TypeOK, StoreTypeOK
<1>12. CASE TargetVanished(c)
  BY <1>3, <1>12 DEF TargetVanished, storeVars, TypeOK, StoreTypeOK
<1>. QED
  BY <1>4, <1>5, <1>6, <1>7, <1>8, <1>9, <1>10, <1>11, <1>12 DEF ContinueRequest

(***************************************************************************)
(* A tick that becomes x: its type and shape.                              *)
(***************************************************************************)
TickMove(w, x) ==
  /\ tick' = [tick EXCEPT ![w] = x]
  /\ x \in TickState
  /\ x.pc \in {"claim", "wait", "notify"} => x.item \in DueItem
  /\ x.now =< clock

LEMMA TickMoves ==
  ASSUME TypeOK, Shapes, NEW w \in Workers, NEW x, TickMove(w, x), clock' = clock
  PROVE  tick' \in [Workers -> TickState] /\ (\A v \in Workers : TickShape(v)')
  BY DEF TypeOK, TickTypeOK, Shapes, TickShape, TickMove

(***************************************************************************)
(* What each step of a tick makes of it.                                   *)
(***************************************************************************)
LEMMA StepOfTick ==
  ASSUME TypeOK, Shapes, NEW w \in Workers, TickStep(w)
  PROVE  \E x : TickMove(w, x)
<1> USE StoreAssumption
<1>1. tick[w] \in TickState /\ tick[w].now =< clock /\ clock \in Times
  BY DEF TypeOK, TickTypeOK, StoreTypeOK, Shapes, TickShape
<1>2. TickMove(w, IdleTick) <=> tick' = [tick EXCEPT ![w] = IdleTick]
  BY <1>1, IdleTickType DEF TickMove, Times
<1>3. ASSUME NEW pc \in {"idle", "find", "next", "claim", "wait", "notify"},
             tick' = [tick EXCEPT ![w].pc = pc],
             pc \in {"claim", "wait", "notify"} => tick[w].item \in DueItem
      PROVE  \E x : TickMove(w, x)
  <2> DEFINE x == [tick[w] EXCEPT !.pc = pc]
  <2>1. x \in TickState /\ x.pc = pc /\ x.item = tick[w].item /\ x.now = tick[w].now
    BY <1>1 DEF TickState
  <2>2. tick' = [tick EXCEPT ![w] = x]
    BY <1>3 DEF TypeOK, TickTypeOK, TickState
  <2> HIDE DEF x
  <2>. QED
    BY <1>1, <1>3, <2>1, <2>2 DEF TickMove
<1>4. CASE Wake(w)
  <2> DEFINE x == [tick[w] EXCEPT !.pc = "find", !.now = clock]
  <2>1. x \in TickState /\ x.pc = "find" /\ x.now = clock
    BY <1>1 DEF TickState
  <2>2. tick' = [tick EXCEPT ![w] = x]
    BY <1>4 DEF Wake, TypeOK, TickTypeOK, TickState
  <2>3. clock =< clock
    BY <1>1 DEF Times
  <2> HIDE DEF x
  <2>. QED
    BY <2>1, <2>2, <2>3 DEF TickMove
<1>5. CASE FindDue(w)
  <2> DEFINE due == Limited(DueAt(tick[w].now))
             x == [tick[w] EXCEPT !.pc = "next", !.todo = due]
  <2>1. due \subseteq DueItem
    BY DEF Limited, DueAt, DueItem, TypeOK, StoreTypeOK, ReminderRow
  <2>2. tick' = [tick EXCEPT ![w] = IF due = {} THEN IdleTick ELSE x]
    BY <1>5 DEF FindDue
  <2> HIDE DEF due
  <2>3. x \in TickState /\ x.pc = "next" /\ x.now = tick[w].now
    BY <1>1, <2>1 DEF TickState
  <2> HIDE DEF x
  <2>. QED
    BY <1>1, <1>2, <2>2, <2>3 DEF TickMove
<1>6. CASE ResolveTask(w)
  <2>1. PICK i \in tick[w].todo :
          tick' = [tick EXCEPT ![w] =
            IF TaskExists(i.task) \/ tick[w].item.task = i.task
              THEN [tick[w] EXCEPT !.pc = "claim", !.todo = tick[w].todo \ {i}, !.item = i]
              ELSE [tick[w] EXCEPT !.todo = tick[w].todo \ {i}, !.item = NoItem]]
    BY <1>6 DEF ResolveTask
  <2> DEFINE x == [tick[w] EXCEPT !.pc = "claim", !.todo = tick[w].todo \ {i}, !.item = i]
             y == [tick[w] EXCEPT !.todo = tick[w].todo \ {i}, !.item = NoItem]
  <2>2. i \in DueItem
    BY <1>1 DEF TickState
  <2>3. x \in TickState /\ x.pc = "claim" /\ x.now = tick[w].now /\ x.item = i
    BY <1>1, <2>2 DEF TickState
  <2>4. y \in TickState /\ y.pc = tick[w].pc /\ y.now = tick[w].now
    BY <1>1 DEF TickState
  <2>5. tick' = [tick EXCEPT ![w] = x] \/ tick' = [tick EXCEPT ![w] = y]
    BY <2>1, Zenon
  <2> HIDE DEF x, y
  <2>. QED
    BY <1>1, <1>6, <2>2, <2>3, <2>4, <2>5 DEF TickMove, ResolveTask
<1>7. CASE MarkSent(w)
  BY <1>3, <1>7 DEF MarkSent, Shapes, TickShape
<1>8. CASE WaitForRow(w)
  BY <1>3, <1>8 DEF WaitForRow, Shapes, TickShape
<1>9. CASE SkipReminder(w) \/ Notify(w)
  BY <1>3, <1>9 DEF SkipReminder, Notify
<1>10. CASE CommitTick(w)
  BY <1>2, <1>10 DEF CommitTick
<1>. QED
  BY <1>4, <1>5, <1>6, <1>7, <1>8, <1>9, <1>10 DEF TickStep

LEMMA TickStepType ==
  ASSUME TypeOK, Shapes, NEW w \in Workers, TickStep(w)
  PROVE  /\ StoreTypeOK' /\ TickTypeOK' /\ clock' = clock
         /\ \A v \in Workers : TickShape(v)'
<1>1. StoreTypeOK' /\ clock' = clock
  <2>1. CASE CommitTick(w)
    <3>1. Committed(w) \in [ReminderIds -> ReminderRow]
      BY DEF Committed, TypeOK, StoreTypeOK, ReminderRow, ReminderStatus
    <3>. QED
      BY <2>1, <3>1, ReleaseType DEF CommitTick, TypeOK, StoreTypeOK, Processes
  <2>2. CASE MarkSent(w)
    BY <2>2 DEF MarkSent, TypeOK, StoreTypeOK, Processes
  <2>3. CASE UNCHANGED storeVars
    BY <2>3 DEF storeVars, TypeOK, StoreTypeOK
  <2>. QED
    BY <2>1, <2>2, <2>3
    DEF TickStep, Wake, FindDue, ResolveTask, WaitForRow, SkipReminder, Notify
<1>2. notified' \in [ReminderIds -> Nat] /\ aborted' \in [ReminderIds -> Nat]
  <2>1. CASE Notify(w)
    <3>1. PICK r \in ReminderIds :
            notified' = [notified EXCEPT ![r] = notified[r] + 1] /\ aborted' = aborted
      BY <2>1 DEF Notify, Shapes, TickShape, DueItem
    <3>. QED
      BY <3>1 DEF TypeOK, TickTypeOK
  <2>2. CASE UNCHANGED <<notified, aborted>>
    BY <2>2 DEF TypeOK, TickTypeOK
  <2>. QED
    BY <2>1, <2>2
    DEF TickStep, Wake, FindDue, ResolveTask, MarkSent, WaitForRow, SkipReminder, CommitTick
<1>. QED
  BY <1>1, <1>2, StepOfTick, TickMoves DEF TickTypeOK

LEMMA RollbackType ==
  ASSUME TypeOK, Shapes, NEW p \in Processes, Rollback(p)
  PROVE  StoreTypeOK' /\ RequestsTypeOK' /\ TickTypeOK' /\ Shapes'
<1> USE StoreAssumption
<1>1. CASE p \in Clients /\ RollbackRequest(p) /\ UNCHANGED tickVars
  <2>1. StoreTypeOK' /\ clock' = clock
    BY <1>1, ReleaseType DEF RollbackRequest, TypeOK, StoreTypeOK
  <2>2. RequestsTypeOK' /\ (\A d \in Clients : RequestShape(d)')
    BY <1>1, IdleRequestType, RequestMoves
    DEF RollbackRequest, Finish, ShapeOf, TypeOK, RequestsTypeOK
  <2>. QED
    BY <1>1, <2>1, <2>2 DEF tickVars, TypeOK, TickTypeOK, Shapes, TickShape
<1>2. CASE p \in Workers /\ RollbackTick(p) /\ UNCHANGED reqVars
  <2>1. StoreTypeOK' /\ clock' = clock
    BY <1>2, ReleaseType DEF RollbackTick, TypeOK, StoreTypeOK
  <2>2. TickMove(p, IdleTick)
    BY <1>2, IdleTickType DEF RollbackTick, TickMove, TypeOK, StoreTypeOK, Times
  <2>3. aborted' \in [ReminderIds -> Nat] /\ notified' = notified
    BY <1>2 DEF RollbackTick, TypeOK, TickTypeOK
  <2>4. TickTypeOK' /\ (\A v \in Workers : TickShape(v)')
    BY <1>2, <2>1, <2>2, <2>3, TickMoves DEF TypeOK, TickTypeOK
  <2>. QED
    BY <1>2, <2>1, <2>4 DEF reqVars, TypeOK, RequestsTypeOK, Shapes, RequestShape
<1>. QED
  BY <1>1, <1>2 DEF Rollback

(***************************************************************************)
(* Every variable keeps its type, and requests and ticks their shape.      *)
(***************************************************************************)
LEMMA TypeStep == TypeOK /\ Shapes /\ [Next]_vars => TypeOK' /\ Shapes'
<1> SUFFICES ASSUME TypeOK, Shapes, [Next]_vars PROVE TypeOK' /\ Shapes'
  OBVIOUS
<1> USE StoreAssumption, SystemAssumption
<1>1. CASE PassTime
  <2>1. clock \in Times /\ clock' \in Times /\ clock' = clock + 1
    BY <1>1 DEF PassTime, AdvanceClock, TypeOK, StoreTypeOK, Times
  <2>2. TypeOK'
    BY <1>1, <2>1 DEF PassTime, AdvanceClock, reqVars, tickVars,
                      TypeOK, StoreTypeOK, RequestsTypeOK, TickTypeOK
  <2>3. \A w \in Workers : tick[w].now \in Times /\ tick[w].now =< clock
    BY DEF TypeOK, TickTypeOK, TickState, Shapes, TickShape
  <2>4. \A w \in Workers : tick[w].now =< clock'
    BY <2>1, <2>3 DEF Times
  <2>5. Shapes'
    BY <1>1, <2>4 DEF PassTime, reqVars, tickVars, Shapes, RequestShape, TickShape
  <2>. QED
    BY <2>2, <2>5
<1>2. ASSUME NEW c \in Clients, Start(c) \/ Continue(c) PROVE TypeOK' /\ Shapes'
  BY <1>2, StartRequestType, ContinueRequestType
  DEF Start, Continue, tickVars, TypeOK, TickTypeOK, Shapes, TickShape
<1>3. ASSUME NEW w \in Workers, Work(w) PROVE TypeOK' /\ Shapes'
  BY <1>3, TickStepType DEF Work, reqVars, TypeOK, RequestsTypeOK, Shapes, RequestShape
<1>4. ASSUME NEW p \in Processes, Fail(p) \/ AbortVictim(p) PROVE TypeOK' /\ Shapes'
  BY <1>4, RollbackType DEF Fail, AbortVictim, TypeOK
<1>5. CASE UNCHANGED vars
  BY <1>5 DEF vars, TypeOK, StoreTypeOK, RequestsTypeOK, TickTypeOK, Shapes, RequestShape, TickShape
<1>. QED
  BY <1>1, <1>2, <1>3, <1>4, <1>5 DEF Next

LEMMA TypeAndShapes == Spec => [](TypeOK /\ Shapes)
<1>1. Init => TypeOK /\ Shapes
  BY StoreAssumption, RequestsAssumption, SystemAssumption, IdleRequestType, IdleTickType, NoRowType
  DEF Init, StoreInit, RequestsInit, TickInit, TypeOK, StoreTypeOK, RequestsTypeOK, TickTypeOK,
      Times, Shapes, RequestShape, TickShape
<1>. QED
  BY <1>1, TypeStep, PTL DEF Spec

(***************************************************************************)
(* Every variable keeps its type.                                          *)
(***************************************************************************)
THEOREM TypeCorrect == Spec => []TypeOK
  BY TypeAndShapes, PTL

-----------------------------------------------------------------------------
(***************************************************************************)
(* Locks.  A request that does not delete a task holds no row, so its      *)
(* steps keep Locks when they leave the locked rows alone.                 *)
(***************************************************************************)
LEMMA RequestKeepsLocks ==
  ASSUME TypeOK, Locks, NEW c \in Clients, NEW x, req' = [req EXCEPT ![c] = x],
         req[c].pc # "cascade", rowLock' = rowLock, tick' = tick,
         \A r \in ReminderIds : rowLock[r] # None => reminders'[r] = reminders[r]
  PROVE  Locks'
<1> USE StoreAssumption
<1>1. Held(c) = {}
  BY DEF Locks, HeldByRequest
<1>2. \A d \in Clients : HeldByRequest(d)'
  BY <1>1 DEF Locks, HeldByRequest, Held, ReminderExists, TypeOK, RequestsTypeOK
<1>3. \A w \in Workers : HeldByWorker(w)'
  BY DEF Locks, HeldByWorker, Held, Due
<1>. QED
  BY <1>2, <1>3 DEF Locks

(***************************************************************************)
(* Steps of a tick that lock nothing.                                      *)
(***************************************************************************)
LEMMA TickKeepsLocks ==
  ASSUME TypeOK, Locks, NEW w \in Workers, NEW x, tick' = [tick EXCEPT ![w] = x],
         x.pc # "notify",
         \/ tick[w].pc \in {"idle", "find"}
         \/ x.pc \notin {"idle", "find"} /\ x.now = tick[w].now,
         rowLock' = rowLock, reminders' = reminders, req' = req
  PROVE  Locks'
<1>1. \A d \in Clients : HeldByRequest(d)'
  BY DEF Locks, HeldByRequest, Held, ReminderExists
<1>2. tick'[w] = x /\ \A v \in Workers \ {w} : tick'[v] = tick[v]
  BY DEF TypeOK, TickTypeOK
<1>3. HeldByWorker(w) /\ Held(w)' = Held(w)
  BY DEF Locks, Held
<1>4. HeldByWorker(w)'
  BY <1>2, <1>3 DEF HeldByWorker, Due
<1>5. ASSUME NEW v \in Workers \ {w} PROVE HeldByWorker(v)'
  BY <1>2 DEF Locks, HeldByWorker, Held, Due
<1>. QED
  BY <1>1, <1>4, <1>5 DEF Locks

(***************************************************************************)
(* COMMIT or ROLLBACK of a process.                                        *)
(***************************************************************************)
LEMMA ReleaseKeepsLocks ==
  ASSUME TypeOK, Shapes, Locks, NEW p \in Processes, rowLock' = ReleaseRows(p),
         \A r \in ReminderIds : rowLock[r] \notin {None, p} => reminders'[r] = reminders[r],
         \/ p \in Clients /\ tick' = tick /\ \E x : req' = [req EXCEPT ![p] = x]
         \/ p \in Workers /\ req' = req /\ tick' = [tick EXCEPT ![p] = IdleTick]
  PROVE  Locks'
<1> USE StoreAssumption
<1>1. p # None /\ \A q \in Processes : q # None
  BY DEF Processes
<1>2. Held(p)' = {} /\ \A q \in Processes \ {p} : Held(q)' = Held(q)
  BY <1>1 DEF Held, ReleaseRows
<1>3. ASSUME NEW q \in Processes \ {p}, NEW r \in Held(q) PROVE reminders'[r] = reminders[r]
  BY <1>1 DEF Held
<1>4. ASSUME NEW d \in Clients PROVE HeldByRequest(d)'
  <2>1. CASE d = p
    BY <1>2, <2>1 DEF HeldByRequest
  <2>2. CASE d # p
    <3>1. req'[d] = req[d]
      BY <2>2 DEF TypeOK, RequestsTypeOK
    <3>. QED
      BY <1>2, <1>3, <2>2, <3>1 DEF Locks, HeldByRequest, ReminderExists, Processes
  <2>. QED
    BY <2>1, <2>2
<1>5. ASSUME NEW v \in Workers PROVE HeldByWorker(v)'
  <2>1. CASE v = p
    <3>1. tick'[v] = IdleTick
      BY <2>1 DEF TypeOK, TickTypeOK
    <3>. QED
      BY <1>2, <2>1, <3>1, IdleTickType DEF HeldByWorker
  <2>2. CASE v # p
    <3>1. tick'[v] = tick[v]
      BY <2>2 DEF TypeOK, TickTypeOK
    <3>2. \A r \in Held(v)' : /\ tick'[v].pc \notin {"idle", "find"}
                             /\ Due(reminders'[r], tick'[v].now)
      BY <1>2, <1>3, <2>2, <3>1 DEF Locks, HeldByWorker, Processes
    <3>3. tick'[v].pc = "notify" => rowLock'[tick'[v].item.id] = v
      <4>1. tick[v].pc = "notify" => tick[v].item.id \in ReminderIds
        BY DEF Shapes, TickShape, DueItem
      <4>. QED
        BY <2>2, <3>1, <4>1 DEF Locks, HeldByWorker, ReleaseRows
    <3>. QED
      BY <3>2, <3>3 DEF HeldByWorker
  <2>. QED
    BY <2>1, <2>2
<1>. QED
  BY <1>4, <1>5 DEF Locks

LEMMA StartKeepsLocks ==
  ASSUME TypeOK, Locks, NEW c \in Clients, Start(c)
  PROVE  Locks'
<1>1. /\ req[c].pc = "idle" /\ \E x : req' = [req EXCEPT ![c] = x]
      /\ rowLock' = rowLock /\ reminders' = reminders /\ tick' = tick
  BY DEF Start, StartRequest, tickVars, Begin, storeVars, CreateTask, ReadTaskToUpdate,
         ReadTaskToDelete, ReadTaskForReminder, ReadReminderToEdit, ReadReminderToDelete
<1>. QED
  BY <1>1, RequestKeepsLocks

LEMMA ContinueKeepsLocks ==
  ASSUME TypeOK, Shapes, Locks, Rows, NEW c \in Clients, Continue(c)
  PROVE  Locks'
<1> USE StoreAssumption
<1>1. tick' = tick /\ ContinueRequest(c) /\ c \in Processes
  BY DEF Continue, tickVars, Processes
<1>2. ASSUME NEW r \in ReminderIds, rowLock[r] = None, NEW row, NEW x,
             reminders' = [reminders EXCEPT ![r] = row], req' = [req EXCEPT ![c] = x],
             req[c].pc # "cascade", rowLock' = rowLock
      PROVE  Locks'
  <2>1. \A q \in ReminderIds : rowLock[q] # None => reminders'[q] = reminders[q]
    BY <1>2 DEF TypeOK, StoreTypeOK
  <2>. QED
    BY <1>1, <1>2, <2>1, RequestKeepsLocks
<1>3. CASE WriteTask(c) \/ LockTask(c) \/ CheckReminderEdit(c) \/ TargetVanished(c)
  <2>1. /\ req[c].pc # "cascade" /\ rowLock' = rowLock /\ reminders' = reminders
        /\ \E x : req' = [req EXCEPT ![c] = x]
    <3>1. CASE WriteTask(c) \/ TargetVanished(c)
      BY <3>1 DEF WriteTask, TargetVanished, Finish, storeVars
    <3>2. CASE LockTask(c)
      BY <3>2 DEF LockTask
    <3>3. CASE CheckReminderEdit(c)
      BY <3>3 DEF CheckReminderEdit, storeVars
    <3>. QED
      BY <1>3, <3>1, <3>2, <3>3
  <2>. QED
    BY <1>1, <2>1, RequestKeepsLocks
<1>4. CASE CascadeReminder(c)
  <2>1. PICK r \in RemindersOf(req[c].task) :
          rowLock[r] = None /\ rowLock' = [rowLock EXCEPT ![r] = c]
    BY <1>4 DEF CascadeReminder
  <2>2. r \in ReminderIds /\ ReminderExists(r) /\ reminders[r].task = req[c].task
    BY DEF RemindersOf
  <2>3. req[c].pc = "cascade" /\ reminders' = reminders /\ req' = req
    BY <1>4 DEF CascadeReminder, reqVars
  <2>4. Held(c)' = Held(c) \cup {r} /\ \A p \in Processes \ {c} : Held(p)' = Held(p)
    BY <2>1, <2>2 DEF Held, TypeOK, StoreTypeOK, Processes
  <2>5. \A d \in Clients : HeldByRequest(d)'
    BY <2>2, <2>3, <2>4 DEF Locks, HeldByRequest, ReminderExists, Processes
  <2>6. ASSUME NEW w \in Workers PROVE HeldByWorker(w)'
    <3>1. tick[w].pc = "notify" => tick[w].item.id \in ReminderIds /\ tick[w].item.id # r
      BY <2>1 DEF Shapes, TickShape, DueItem, Locks, HeldByWorker
    <3>. QED
      BY <1>1, <2>1, <2>3, <2>4, <3>1 DEF Locks, HeldByWorker, Due, Processes, TypeOK, StoreTypeOK
  <2>. QED
    BY <2>5, <2>6 DEF Locks
<1>5. CASE CommitTaskDelete(c)
  <2>1. \A r \in ReminderIds : rowLock[r] \notin {None, c} => reminders'[r] = reminders[r]
    BY <1>5 DEF CommitTaskDelete, Held
  <2>. QED
    BY <1>1, <1>5, <2>1, ReleaseKeepsLocks DEF CommitTaskDelete, Finish
<1>6. CASE InsertReminder(c)
  <2>1. req[c].reminder \in ReminderIds /\ reminders[req[c].reminder].status = "unborn"
    BY <1>6 DEF InsertReminder, Shapes, RequestShape, Rows, FreshId
  <2>2. rowLock[req[c].reminder] = None
    <3>1. \A p \in Processes : req[c].reminder \notin Held(p)
      BY <2>1 DEF Processes, Locks, HeldByRequest, HeldByWorker, Due, ReminderExists, ReminderStatus
    <3>. QED
      BY <2>1, <3>1 DEF Held, TypeOK, StoreTypeOK
  <2>. QED
    BY <1>2, <1>6, <2>1, <2>2 DEF InsertReminder, Finish
<1>7. CASE WriteReminder(c)
  BY <1>2, <1>7 DEF WriteReminder, Finish, Shapes, RequestShape
<1>8. CASE DeleteReminder(c)
  BY <1>2, <1>8 DEF DeleteReminder, Finish, Shapes, RequestShape
<1>. QED
  BY <1>1, <1>3, <1>4, <1>5, <1>6, <1>7, <1>8 DEF ContinueRequest

LEMMA WorkKeepsLocks ==
  ASSUME TypeOK, Shapes, Locks, NEW w \in Workers, Work(w)
  PROVE  Locks'
<1> USE StoreAssumption
<1>1. req' = req /\ TickStep(w) /\ w \in Processes
  BY DEF Work, reqVars, Processes
<1>2. CASE Wake(w)
  <2> DEFINE x == [tick[w] EXCEPT !.pc = "find", !.now = clock]
  <2>1. tick' = [tick EXCEPT ![w] = x] /\ tick[w].pc = "idle"
    BY <1>2 DEF Wake, TypeOK, TickTypeOK, TickState
  <2>2. x.pc = "find"
    BY DEF TypeOK, TickTypeOK, TickState
  <2> HIDE DEF x
  <2>. QED
    BY <1>1, <1>2, <2>1, <2>2, TickKeepsLocks DEF Wake, storeVars
<1>3. CASE FindDue(w)
  <2> DEFINE due == Limited(DueAt(tick[w].now))
             x == IF due = {} THEN IdleTick ELSE [tick[w] EXCEPT !.pc = "next", !.todo = due]
  <2>1. tick' = [tick EXCEPT ![w] = x] /\ tick[w].pc = "find"
    BY <1>3 DEF FindDue
  <2> HIDE DEF due
  <2>2. x.pc # "notify"
    BY IdleTickType DEF TypeOK, TickTypeOK, TickState
  <2> HIDE DEF x
  <2>. QED
    BY <1>1, <1>3, <2>1, <2>2, TickKeepsLocks DEF FindDue, storeVars
<1>4. CASE ResolveTask(w)
  <2>1. PICK x \in TickState :
          tick' = [tick EXCEPT ![w] = x] /\ x.pc \in {"next", "claim"} /\ x.now = tick[w].now
    <3>1. PICK i \in tick[w].todo :
            tick' = [tick EXCEPT ![w] =
              IF TaskExists(i.task) \/ tick[w].item.task = i.task
                THEN [tick[w] EXCEPT !.pc = "claim", !.todo = tick[w].todo \ {i}, !.item = i]
                ELSE [tick[w] EXCEPT !.todo = tick[w].todo \ {i}, !.item = NoItem]]
      BY <1>4 DEF ResolveTask
    <3> DEFINE x == [tick[w] EXCEPT !.pc = "claim", !.todo = tick[w].todo \ {i}, !.item = i]
               y == [tick[w] EXCEPT !.todo = tick[w].todo \ {i}, !.item = NoItem]
    <3>2. tick[w] \in TickState /\ i \in DueItem
      BY DEF TypeOK, TickTypeOK, TickState
    <3>3. x \in TickState /\ x.pc = "claim" /\ x.now = tick[w].now
      BY <3>2 DEF TickState
    <3>4. y \in TickState /\ y.pc = tick[w].pc /\ y.now = tick[w].now
      BY <3>2 DEF TickState
    <3>5. tick' = [tick EXCEPT ![w] = x] \/ tick' = [tick EXCEPT ![w] = y]
      BY <3>1, Zenon
    <3> HIDE DEF x, y
    <3>. QED
      BY <1>4, <3>3, <3>4, <3>5 DEF ResolveTask
  <2>. QED
    BY <1>1, <1>4, <2>1, TickKeepsLocks DEF ResolveTask, storeVars
<1>5. CASE MarkSent(w)
  <2> DEFINE r == tick[w].item.id
  <2>1. r \in ReminderIds /\ rowLock[r] = None
    BY <1>5 DEF MarkSent, Shapes, TickShape, DueItem
  <2>2. Held(w)' = Held(w) \cup {r} /\ \A p \in Processes \ {w} : Held(p)' = Held(p)
    BY <1>5, <2>1 DEF MarkSent, Held, TypeOK, StoreTypeOK, Processes
  <2>3. /\ tick'[w].pc = "notify" /\ tick'[w].now = tick[w].now /\ tick'[w].item.id = r
        /\ \A v \in Workers \ {w} : tick'[v] = tick[v]
    BY <1>5 DEF MarkSent, TypeOK, TickTypeOK, TickState
  <2>4. \A d \in Clients : HeldByRequest(d)'
    BY <1>1, <1>5, <2>2 DEF MarkSent, Locks, HeldByRequest, ReminderExists, Processes
  <2>5. HeldByWorker(w)'
    <3>1. reminders' = reminders /\ Due(reminders[r], tick[w].now) /\ rowLock'[r] = w
      BY <1>5, <2>1 DEF MarkSent, Claimable, TypeOK, StoreTypeOK
    <3>. QED
      BY <2>2, <2>3, <3>1 DEF Locks, HeldByWorker, Due
  <2>6. ASSUME NEW v \in Workers \ {w} PROVE HeldByWorker(v)'
    <3>1. tick[v].pc = "notify" => tick[v].item.id \in ReminderIds /\ tick[v].item.id # r
      BY <2>1 DEF Shapes, TickShape, DueItem, Locks, HeldByWorker
    <3>. QED
      BY <1>5, <2>1, <2>2, <2>3, <3>1 DEF MarkSent, Locks, HeldByWorker, Due, Processes, TypeOK, StoreTypeOK
  <2>. QED
    BY <2>4, <2>5, <2>6 DEF Locks
<1>6. CASE WaitForRow(w) \/ SkipReminder(w) \/ Notify(w)
  <2>1. PICK pc \in {"wait", "next"} : tick' = [tick EXCEPT ![w].pc = pc]
    BY <1>6 DEF WaitForRow, SkipReminder, Notify
  <2> DEFINE x == [tick[w] EXCEPT !.pc = pc]
  <2>2. tick' = [tick EXCEPT ![w] = x] /\ x.pc = pc /\ x.now = tick[w].now
    BY <2>1 DEF TypeOK, TickTypeOK, TickState
  <2> HIDE DEF x
  <2>. QED
    BY <1>1, <1>6, <2>2, TickKeepsLocks DEF WaitForRow, SkipReminder, Notify, storeVars
<1>7. CASE CommitTick(w)
  <2>1. \A r \in ReminderIds : rowLock[r] \notin {None, w} => reminders'[r] = reminders[r]
    BY <1>7 DEF CommitTick, Committed, Held
  <2>. QED
    BY <1>1, <1>7, <2>1, ReleaseKeepsLocks DEF CommitTick
<1>. QED
  BY <1>1, <1>2, <1>3, <1>4, <1>5, <1>6, <1>7 DEF TickStep

LEMMA LocksStep ==
  TypeOK /\ Shapes /\ Locks /\ Rows /\ [Next]_vars => Locks'
<1> SUFFICES ASSUME TypeOK, Shapes, Locks, Rows, [Next]_vars PROVE Locks'
  OBVIOUS
<1>1. CASE PassTime \/ UNCHANGED vars
  BY <1>1 DEF PassTime, AdvanceClock, reqVars, tickVars, vars,
              Locks, HeldByRequest, HeldByWorker, Held, ReminderExists
<1>2. ASSUME NEW c \in Clients, Start(c) \/ Continue(c) PROVE Locks'
  BY <1>2, StartKeepsLocks, ContinueKeepsLocks
<1>3. ASSUME NEW w \in Workers, Work(w) PROVE Locks'
  BY <1>3, WorkKeepsLocks
<1>4. ASSUME NEW p \in Processes, Fail(p) \/ AbortVictim(p) PROVE Locks'
  <2>1. Rollback(p)
    BY <1>4 DEF Fail, AbortVictim
  <2>. QED
    BY <2>1, ReleaseKeepsLocks
    DEF Rollback, RollbackRequest, RollbackTick, Finish, tickVars, reqVars
<1>. QED
  BY <1>1, <1>2, <1>3, <1>4 DEF Next

-----------------------------------------------------------------------------
(***************************************************************************)
(* Rows.  A step keeps them when it makes no reminder appear and no task   *)
(* vanish, and when a request it moves on does not become an insert.       *)
(***************************************************************************)
GoesOn(c, x) ==
  /\ req' = [req EXCEPT ![c] = x]
  /\ x.pc # "insertReminder"
  /\ \/ x.reminder \in {None, req[c].reminder}
     \/ x.reminder \in ReminderIds /\ ReminderExists(x.reminder)

LEMMA RowsKept ==
  ASSUME TypeOK, Shapes, Rows,
         \A r \in ReminderIds : /\ ReminderExists(r)' => ReminderExists(r)
                                /\ ReminderExists(r)' => reminders'[r].task = reminders[r].task
                                /\ reminders[r].status = "unborn" =>
                                     reminders'[r].status = "unborn",
         \A t \in TaskIds : TaskExists(t) => TaskExists(t)',
         req' = req \/ \E c \in Clients : \E x : GoesOn(c, x)
  PROVE  Rows'
<1> USE StoreAssumption
<1>1. \A r \in ReminderIds : ReminderExists(r)' => reminders'[r].task \in TaskIds
  BY DEF Rows
<1>2. NoOrphanReminder'
  BY DEF Rows, NoOrphanReminder
<1>3. ASSUME NEW d \in Clients, req'[d].pc = "insertReminder" PROVE FreshId(d)'
  <2>1. req'[d] = req[d]
    BY <1>3 DEF GoesOn, TypeOK, RequestsTypeOK
  <2>2. FreshId(d) /\ req[d].reminder \in ReminderIds
    BY <1>3, <2>1 DEF Rows, Shapes, RequestShape
  <2>3. reminders'[req'[d].reminder].status = "unborn"
    BY <1>3, <2>1, <2>2 DEF FreshId
  <2>4. ASSUME NEW e \in Clients \ {d} PROVE req'[e].reminder # req'[d].reminder
    <3>1. req[e].reminder # req[d].reminder /\ ~ReminderExists(req[d].reminder)
      BY <1>3, <2>1, <2>2 DEF FreshId, ReminderExists, ReminderStatus
    <3>2. req'[e] = req[e] \/ req'[e].reminder \in {None, req[e].reminder}
          \/ ReminderExists(req'[e].reminder)
      BY DEF GoesOn, TypeOK, RequestsTypeOK
    <3>. QED
      BY <2>1, <2>2, <3>1, <3>2
  <2>. QED
    BY <2>3, <2>4 DEF FreshId
<1>4. \A d \in Clients : FreshId(d)'
  BY <1>3 DEF FreshId
<1>. QED
  BY <1>1, <1>2, <1>4 DEF Rows

LEMMA IdleGoesOn == IdleRequest.pc = "idle" /\ IdleRequest.reminder = None
  BY DEF IdleRequest, Request

LEMMA StartKeepsRows ==
  ASSUME TypeOK, Shapes, Rows, NEW c \in Clients, Start(c)
  PROVE  Rows'
<1> USE StoreAssumption DEF Begin
<1>1. StartRequest(c)
  BY DEF Start
<1>2. CASE CreateTask(c)
  <2>1. \A t \in TaskIds : TaskExists(t) => TaskExists(t)'
    BY <1>2 DEF CreateTask, TaskExists, TypeOK, StoreTypeOK
  <2>2. GoesOn(c, IdleRequest)
    BY <1>2, IdleGoesOn DEF CreateTask, GoesOn
  <2>. QED
    BY <1>2, <2>1, <2>2, RowsKept DEF CreateTask, ReminderExists
<1>3. ASSUME UNCHANGED storeVars, NEW x, GoesOn(c, x) PROVE Rows'
  <2>1. \A t \in TaskIds : TaskExists(t) => TaskExists(t)'
    BY <1>3 DEF storeVars, TaskExists
  <2>. QED
    BY <1>3, <2>1, RowsKept DEF storeVars, ReminderExists
<1>4. CASE ReadTaskToUpdate(c)
  <2>1. PICK t, deadline : req' = [req EXCEPT ![c] = Request("updateTask", t, None, deadline, Keep)]
    BY <1>4 DEF ReadTaskToUpdate
  <2>. QED
    BY <1>3, <1>4, <2>1 DEF ReadTaskToUpdate, GoesOn, Request
<1>5. CASE ReadTaskToDelete(c)
  <2>1. PICK t : req' = [req EXCEPT ![c] = Request("deleteTask", t, None, Unset, Keep)]
    BY <1>5 DEF ReadTaskToDelete
  <2>. QED
    BY <1>3, <1>5, <2>1 DEF ReadTaskToDelete, GoesOn, Request
<1>6. CASE ReadReminderToEdit(c)
  <2>1. PICK r \in ReminderIds :
          /\ ReminderExists(r)
          /\ req' = [req EXCEPT ![c] = Request("checkReminder", reminders[r].task, r,
                                      reminders[r].remind_at, reminders[r].status)]
    BY <1>6 DEF ReadReminderToEdit
  <2>. QED
    BY <1>3, <1>6, <2>1 DEF ReadReminderToEdit, GoesOn, Request
<1>7. CASE ReadReminderToDelete(c)
  <2>1. PICK r \in ReminderIds :
          /\ ReminderExists(r)
          /\ req' = [req EXCEPT ![c] = Request("deleteReminder", None, r, Unset, Keep)]
    BY <1>7 DEF ReadReminderToDelete
  <2>. QED
    BY <1>3, <1>7, <2>1 DEF ReadReminderToDelete, GoesOn, Request
<1>8. CASE ReadTaskForReminder(c)
  <2>1. PICK t \in TaskIds, r \in ReminderIds, at \in Times :
          /\ reminders[r].status = "unborn"
          /\ \A d \in Clients : req[d].reminder # r
          /\ req' = [req EXCEPT ![c] = Request("insertReminder", t, r, at, Keep)]
    BY <1>8 DEF ReadTaskForReminder
  <2>2. UNCHANGED storeVars
    BY <1>8 DEF ReadTaskForReminder
  <2>3. req'[c].reminder = r /\ \A d \in Clients \ {c} : req'[d] = req[d]
    BY <2>1 DEF Request, TypeOK, RequestsTypeOK
  <2>4. ASSUME NEW d \in Clients PROVE FreshId(d)'
    BY <2>1, <2>2, <2>3 DEF storeVars, Rows, FreshId
  <2>. QED
    BY <2>2, <2>4 DEF storeVars, Rows, NoOrphanReminder, ReminderExists, TaskExists
<1>. QED
  BY <1>1, <1>2, <1>4, <1>5, <1>6, <1>7, <1>8 DEF StartRequest

LEMMA ContinueKeepsRows ==
  ASSUME TypeOK, Shapes, Locks, Rows, NEW c \in Clients, Continue(c)
  PROVE  Rows'
<1> USE StoreAssumption DEF Finish
<1>1. ContinueRequest(c)
  BY DEF Continue
<1>2. ASSUME UNCHANGED <<tasks, reminders>>,
             req' = req \/ \E x : GoesOn(c, x)
      PROVE  Rows'
  <2>1. \A t \in TaskIds : TaskExists(t) => TaskExists(t)'
    BY <1>2 DEF TaskExists
  <2>. QED
    BY <1>2, <2>1, RowsKept DEF ReminderExists
<1>3. req' = [req EXCEPT ![c] = IdleRequest] => GoesOn(c, IdleRequest)
  BY IdleGoesOn DEF GoesOn
<1>4. CASE WriteTask(c)
  <2>1. \A t \in TaskIds : TaskExists(t) => TaskExists(t)'
    BY <1>4 DEF WriteTask, TaskExists, TypeOK, StoreTypeOK, TaskRow
  <2>. QED
    BY <1>3, <1>4, <2>1, RowsKept DEF WriteTask, ReminderExists
<1>5. CASE LockTask(c)
  <2> DEFINE x == [req[c] EXCEPT !.pc = "cascade"]
  <2>1. x.pc = "cascade" /\ x.reminder = req[c].reminder
    BY DEF TypeOK, RequestsTypeOK, RequestState
  <2>2. req' = [req EXCEPT ![c] = x]
    BY <1>5 DEF LockTask, TypeOK, RequestsTypeOK, RequestState
  <2> HIDE DEF x
  <2>. QED
    BY <1>2, <1>5, <2>1, <2>2 DEF LockTask, GoesOn
<1>6. CASE CascadeReminder(c)
  BY <1>2, <1>6 DEF CascadeReminder, reqVars
<1>7. CASE CheckReminderEdit(c)
  <2>1. PICK at, status :
          req' = [req EXCEPT ![c] = IdleRequest]
          \/ req' = [req EXCEPT ![c] = Request("writeReminder", req[c].task, req[c].reminder, at, status)]
    BY <1>7, Zenon DEF CheckReminderEdit
  <2>. QED
    BY <1>2, <1>3, <1>7, <2>1 DEF CheckReminderEdit, storeVars, GoesOn, Request
<1>8. CASE TargetVanished(c)
  BY <1>2, <1>3, <1>8 DEF TargetVanished, storeVars
<1>9. CASE CommitTaskDelete(c)
  <2> DEFINE t == req[c].task
  <2>1. \A r \in ReminderIds : ReminderExists(r)' =>
          reminders'[r] = reminders[r] /\ ReminderExists(r) /\ reminders[r].task # t
    BY <1>9, NoRowType DEF CommitTaskDelete, RemindersOf, ReminderExists, ReminderStatus
  <2>2. \A u \in TaskIds : TaskExists(u) /\ u # t => TaskExists(u)'
    BY <1>9 DEF CommitTaskDelete, TaskExists, TypeOK, StoreTypeOK
  <2>3. NoOrphanReminder' /\ \A r \in ReminderIds : ReminderExists(r)' => reminders'[r].task \in TaskIds
    BY <2>1, <2>2 DEF Rows, NoOrphanReminder
  <2>4. \A r \in ReminderIds : reminders[r].status = "unborn" => reminders'[r].status = "unborn"
    BY <1>9 DEF CommitTaskDelete, Locks, HeldByRequest, ReminderExists, ReminderStatus
  <2>5. req'[c] = IdleRequest /\ \A d \in Clients \ {c} : req'[d] = req[d]
    BY <1>9 DEF CommitTaskDelete, TypeOK, RequestsTypeOK
  <2>6. ASSUME NEW d \in Clients PROVE FreshId(d)'
    <3>1. CASE d # c
      <4> SUFFICES ASSUME req[d].pc = "insertReminder" PROVE FreshId(d)'
        BY <2>5, <3>1 DEF FreshId
      <4>1. req[d].reminder \in ReminderIds /\ req[d].reminder # None
        BY StoreAssumption DEF Shapes, RequestShape
      <4>2. FreshId(d) /\ req'[d] = req[d]
        BY <2>5, <3>1 DEF Rows
      <4>3. reminders'[req'[d].reminder].status = "unborn"
        BY <2>4, <4>1, <4>2 DEF FreshId
      <4>4. \A e \in Clients \ {d} : req'[e].reminder # req'[d].reminder
        BY <2>5, <4>1, <4>2, IdleGoesOn DEF FreshId
      <4>. QED
        BY <4>3, <4>4 DEF FreshId
    <3>2. CASE d = c
      BY <2>5, <3>2, IdleGoesOn DEF FreshId
    <3>. QED
      BY <3>1, <3>2
  <2>. QED
    BY <2>3, <2>6 DEF Rows
<1>10. CASE InsertReminder(c)
  <2> DEFINE q == req[c].reminder
  <2>1. q \in ReminderIds /\ req[c].task \in TaskIds /\ FreshId(c)
    BY <1>10 DEF InsertReminder, Shapes, RequestShape, Rows
  <2>2. reminders'[q].task = req[c].task /\ \A r \in ReminderIds \ {q} : reminders'[r] = reminders[r]
    BY <1>10, <2>1 DEF InsertReminder, TypeOK, StoreTypeOK
  <2>3. \A r \in ReminderIds : ReminderExists(r)' =>
          /\ reminders'[r].task \in TaskIds
          /\ TaskExists(reminders[r].task)'
    BY <1>10, <2>1, <2>2 DEF InsertReminder, ReminderExists, TaskExists, Rows, NoOrphanReminder
  <2>4. req'[c] = IdleRequest /\ \A d \in Clients \ {c} : req'[d] = req[d]
    BY <1>10 DEF InsertReminder, TypeOK, RequestsTypeOK
  <2>5. ASSUME NEW d \in Clients PROVE FreshId(d)'
    <3>1. CASE d # c
      BY <1>10, <2>1, <2>2, <2>4, <3>1, IdleGoesOn
      DEF InsertReminder, FreshId, Rows, Shapes, RequestShape
    <3>2. CASE d = c
      BY <2>4, <3>2, IdleGoesOn DEF FreshId
    <3>. QED
      BY <3>1, <3>2
  <2>. QED
    BY <2>3, <2>5 DEF Rows, NoOrphanReminder
<1>11. CASE WriteReminder(c) \/ DeleteReminder(c)
  <2>1. PICK q \in ReminderIds :
          q = req[c].reminder /\ ReminderExists(q) /\ req' = [req EXCEPT ![c] = IdleRequest]
    BY <1>11 DEF WriteReminder, DeleteReminder, Shapes, RequestShape
  <2>2. \A r \in ReminderIds \ {q} : reminders'[r] = reminders[r]
    BY <1>11, <2>1 DEF WriteReminder, DeleteReminder, TypeOK, StoreTypeOK
  <2>3. ReminderExists(q)' => reminders'[q].task = reminders[q].task
    <3>1. CASE WriteReminder(c)
      BY <2>1, <3>1, PatchedType DEF WriteReminder, TypeOK, StoreTypeOK, RequestsTypeOK
    <3>2. CASE DeleteReminder(c)
      <4>1. reminders'[q].status = "gone"
        BY <2>1, <3>2, NoRowType DEF DeleteReminder, TypeOK, StoreTypeOK
      <4>. QED
        BY <4>1 DEF ReminderExists, ReminderStatus
    <3>. QED
      BY <1>11, <3>1, <3>2
  <2>4. \A t \in TaskIds : TaskExists(t) => TaskExists(t)'
    BY <1>11 DEF WriteReminder, DeleteReminder, TaskExists
  <2>5. \A r \in ReminderIds : /\ ReminderExists(r)' => ReminderExists(r)
                               /\ ReminderExists(r)' => reminders'[r].task = reminders[r].task
                               /\ reminders[r].status = "unborn" => reminders'[r].status = "unborn"
    <3>1. ASSUME NEW r \in ReminderIds \ {q}
          PROVE  /\ ReminderExists(r)' <=> ReminderExists(r)
                 /\ reminders'[r] = reminders[r]
      BY <2>2 DEF ReminderExists
    <3>2. reminders[q].status # "unborn"
      BY <2>1 DEF ReminderExists, ReminderStatus
    <3>. QED
      BY <2>1, <2>3, <3>1, <3>2
  <2>. QED
    BY <1>3, <2>1, <2>4, <2>5, RowsKept
<1>. QED
  BY <1>1, <1>4, <1>5, <1>6, <1>7, <1>8, <1>9, <1>10, <1>11 DEF ContinueRequest

LEMMA RowsStep ==
  TypeOK /\ Shapes /\ Locks /\ Rows /\ [Next]_vars => Rows'
<1> SUFFICES ASSUME TypeOK, Shapes, Locks, Rows, [Next]_vars PROVE Rows'
  OBVIOUS
<1>1. ASSUME UNCHANGED <<tasks, reminders, req>> PROVE Rows'
  BY <1>1 DEF Rows, FreshId, NoOrphanReminder, ReminderExists, TaskExists
<1>2. CASE PassTime \/ UNCHANGED vars
  BY <1>1, <1>2 DEF PassTime, AdvanceClock, reqVars, vars
<1>3. ASSUME NEW c \in Clients, Start(c) \/ Continue(c) PROVE Rows'
  BY <1>3, StartKeepsRows, ContinueKeepsRows
<1>4. ASSUME NEW w \in Workers, Work(w) PROVE Rows'
  <2>1. CASE CommitTick(w)
    <3>1. \A r \in ReminderIds : /\ ReminderExists(r)' => ReminderExists(r)
                                 /\ ReminderExists(r)' => reminders'[r].task = reminders[r].task
                                 /\ reminders[r].status = "unborn" => reminders'[r].status = "unborn"
      BY <2>1 DEF CommitTick, Committed, Locks, HeldByWorker, Due, ReminderExists, ReminderStatus,
                  TypeOK, StoreTypeOK, ReminderRow
    <3>2. \A t \in TaskIds : TaskExists(t) => TaskExists(t)'
      BY <2>1 DEF CommitTick, TaskExists
    <3>. QED
      BY <1>4, <3>1, <3>2, RowsKept DEF Work, reqVars
  <2>2. CASE ~CommitTick(w)
    BY <1>1, <1>4, <2>2
    DEF Work, reqVars, TickStep, Wake, FindDue, ResolveTask, MarkSent, WaitForRow, SkipReminder,
        Notify, storeVars
  <2>. QED
    BY <2>1, <2>2
<1>5. ASSUME NEW p \in Processes, Fail(p) \/ AbortVictim(p) PROVE Rows'
  <2>1. Rollback(p)
    BY <1>5 DEF Fail, AbortVictim
  <2>2. CASE p \in Workers /\ RollbackTick(p) /\ UNCHANGED reqVars
    BY <1>1, <2>2 DEF RollbackTick, reqVars
  <2>3. CASE p \in Clients /\ RollbackRequest(p)
    <3>1. GoesOn(p, IdleRequest)
      BY <2>3, IdleGoesOn DEF RollbackRequest, Finish, GoesOn
    <3>2. \A t \in TaskIds : TaskExists(t) => TaskExists(t)'
      BY <2>3 DEF RollbackRequest, TaskExists
    <3>. QED
      BY <2>3, <3>1, <3>2, RowsKept DEF RollbackRequest, ReminderExists
  <2>. QED
    BY <2>1, <2>2, <2>3 DEF Rollback
<1>. QED
  BY <1>2, <1>3, <1>4, <1>5 DEF Next

-----------------------------------------------------------------------------
(***************************************************************************)
(* Notifications.  A step in which the provider is not called keeps the    *)
(* account when every reminder that is not accounted for any more was      *)
(* overwritten or had its tick rolled back.                                *)
(***************************************************************************)
LEMMA AccountKept ==
  ASSUME TypeOK, TypeOK', NotificationsAccounted, notified' = notified,
         \A r \in ReminderIds :
           /\ aborted[r] =< aborted'[r] /\ overwritten[r] =< overwritten'[r]
           /\ Accounted(r) => \/ Accounted(r)'
                             \/ aborted'[r] = aborted[r] + 1
                             \/ overwritten'[r] = overwritten[r] + 1
  PROVE  NotificationsAccounted'
<1> SUFFICES ASSUME NEW r \in ReminderIds
             PROVE  notified'[r] =< aborted'[r] + overwritten'[r] + (IF Accounted(r)' THEN 1 ELSE 0)
  BY DEF NotificationsAccounted
<1>1. /\ notified[r] \in Nat /\ aborted[r] \in Nat /\ overwritten[r] \in Nat
      /\ aborted'[r] \in Nat /\ overwritten'[r] \in Nat
  BY DEF TypeOK, RequestsTypeOK, TickTypeOK
<1>2. notified[r] =< aborted[r] + overwritten[r] + (IF Accounted(r) THEN 1 ELSE 0)
  BY DEF NotificationsAccounted
<1>. QED
  BY <1>1, <1>2

LEMMA CountedUp ==
  ASSUME NEW f \in [ReminderIds -> Nat], NEW r \in ReminderIds
  PROVE  /\ [f EXCEPT ![r] = f[r] + 1][r] = f[r] + 1
         /\ \A q \in ReminderIds : f[q] =< [f EXCEPT ![r] = f[r] + 1][q]
  OBVIOUS

(***************************************************************************)
(* A request neither notifies nor touches what a worker holds; it may      *)
(* replace status SENT, and then counts it.                                *)
(***************************************************************************)
LEMMA RequestKeepsAccount ==
  ASSUME TypeOK, TypeOK', Shapes, Locks, Rows, NotificationsAccounted, NEW c \in Clients,
         \/ Start(c) \/ Continue(c)
         \/ RollbackRequest(c) /\ UNCHANGED tickVars
  PROVE  NotificationsAccounted'
<1> USE StoreAssumption
<1>1. tick' = tick /\ notified' = notified /\ aborted' = aborted
  BY DEF Start, Continue, tickVars
<1>2. \A w \in Workers : Held(w)' = Held(w)
  <2>1. \A r \in ReminderIds : rowLock[r] \in Workers \/ rowLock'[r] \in Workers => rowLock'[r] = rowLock[r]
    <3>1. CASE rowLock' = rowLock
      BY <3>1
    <3>2. CASE rowLock' = ReleaseRows(c)
      BY <3>2 DEF ReleaseRows
    <3>3. CASE CascadeReminder(c)
      BY <3>3 DEF CascadeReminder, RemindersOf, TypeOK, StoreTypeOK
    <3>4. CASE Start(c)
      BY <3>1, <3>4 DEF Start, StartRequest, storeVars, CreateTask, ReadTaskToUpdate,
         ReadTaskToDelete, ReadTaskForReminder, ReadReminderToEdit, ReadReminderToDelete
    <3>5. CASE Continue(c)
      BY <3>1, <3>2, <3>3, <3>5 DEF Continue, ContinueRequest, storeVars, WriteTask, LockTask,
         CommitTaskDelete, InsertReminder, CheckReminderEdit, WriteReminder, DeleteReminder,
         TargetVanished
    <3>6. CASE RollbackRequest(c)
      BY <3>2, <3>6 DEF RollbackRequest
    <3>. QED
      BY <3>4, <3>5, <3>6
  <2>. QED
    BY <2>1 DEF Held
<1>3. \A w \in Workers : NotifiedInTick(w)' = NotifiedInTick(w)
  BY <1>1, <1>2 DEF NotifiedInTick
<1>4. ASSUME NEW r \in ReminderIds
      PROVE  /\ overwritten[r] =< overwritten'[r]
             /\ reminders[r].status \in {"SENT", "gone"} =>
                  reminders'[r].status \in {"SENT", "gone"} \/ overwritten'[r] = overwritten[r] + 1
  <2>1. overwritten[r] \in Nat
    BY DEF TypeOK, RequestsTypeOK
  <2>2. CASE overwritten' = overwritten /\ reminders' = reminders
    BY <2>1, <2>2
  <2>3. CASE Continue(c) /\ CommitTaskDelete(c)
    BY <2>1, <2>3, NoRowType DEF CommitTaskDelete
  <2>4. CASE Continue(c) /\ InsertReminder(c)
    <3>1. reminders[req[c].reminder].status = "unborn" /\ req[c].reminder \in ReminderIds
      BY <2>4 DEF InsertReminder, Rows, FreshId, Shapes, RequestShape
    <3>. QED
      BY <2>1, <2>4, <3>1 DEF InsertReminder, TypeOK, StoreTypeOK
  <2>5. CASE Continue(c) /\ DeleteReminder(c)
    BY <2>1, <2>5, NoRowType DEF DeleteReminder, TypeOK, StoreTypeOK
  <2>6. CASE Continue(c) /\ WriteReminder(c)
    <3>1. PICK q \in ReminderIds : q = req[c].reminder
      BY <2>6 DEF WriteReminder, Shapes, RequestShape
    <3>2. ReminderExists(q) /\ reminders'[q] = Patched(reminders[q], req[c])
      BY <2>6, <3>1 DEF WriteReminder, TypeOK, StoreTypeOK
    <3>3. CASE r # q
      BY <2>1, <2>6, <3>1, <3>3 DEF WriteReminder, TypeOK, StoreTypeOK, RequestsTypeOK
    <3>4. CASE r = q
      <4>1. reminders'[q].status = IF req[c].status = Keep THEN reminders[q].status ELSE req[c].status
        <5>1. reminders[q] \in ReminderRow /\ req[c] \in RequestState
          BY DEF TypeOK, StoreTypeOK, RequestsTypeOK
        <5>. QED
          BY <3>2, <5>1, PatchedType
      <4>2. CASE reminders[q].status = "SENT" /\ req[c].status # Keep
        <5>1. overwritten' = [overwritten EXCEPT ![q] = overwritten[q] + 1]
          BY <2>6, <3>1, <4>2 DEF WriteReminder
        <5>. QED
          BY <2>1, <3>4, <5>1, CountedUp DEF TypeOK, RequestsTypeOK
      <4>3. CASE ~(reminders[q].status = "SENT" /\ req[c].status # Keep)
        <5>1. overwritten' = overwritten
          BY <2>6, <3>1, <4>3 DEF WriteReminder
        <5>2. reminders[q].status # "gone"
          BY <3>2 DEF ReminderExists, ReminderStatus
        <5>. QED
          BY <2>1, <3>4, <4>1, <4>3, <5>1, <5>2
      <4>. QED
        BY <4>2, <4>3
    <3>. QED
      BY <3>3, <3>4
  <2>7. CASE ~(Continue(c) /\ (CommitTaskDelete(c) \/ InsertReminder(c) \/ DeleteReminder(c) \/ WriteReminder(c)))
    BY <2>2, <2>7
    DEF Start, StartRequest, Begin, CreateTask, ReadTaskToUpdate, ReadTaskToDelete,
        ReadTaskForReminder, ReadReminderToEdit, ReadReminderToDelete,
        Continue, ContinueRequest, storeVars, reqVars, WriteTask, LockTask, CascadeReminder,
        CheckReminderEdit, TargetVanished, RollbackRequest
  <2>. QED
    BY <2>3, <2>4, <2>5, <2>6, <2>7
<1>5. \A r \in ReminderIds : aborted[r] \in Nat
  BY DEF TypeOK, TickTypeOK
<1>6. ASSUME NEW r \in ReminderIds
      PROVE  Accounted(r) => Accounted(r)' \/ overwritten'[r] = overwritten[r] + 1
  BY <1>3, <1>4 DEF Accounted
<1>. QED
  BY <1>1, <1>4, <1>5, <1>6, AccountKept

(***************************************************************************)
(* A worker notifies only a reminder that it holds, that is PENDING and    *)
(* that it has not notified in this tick: one that no call accounts for.   *)
(***************************************************************************)
LEMMA WorkKeepsAccount ==
  ASSUME TypeOK, TypeOK', Shapes, Locks, NotificationsAccounted, NEW w \in Workers, Work(w)
  PROVE  NotificationsAccounted'
<1> USE StoreAssumption
<1>1. TickStep(w) /\ overwritten' = overwritten /\ aborted' = aborted
  BY DEF Work, reqVars, TickStep, Wake, FindDue, ResolveTask, MarkSent, WaitForRow, SkipReminder,
         Notify, CommitTick
<1>2. /\ \A r \in ReminderIds : overwritten[r] \in Nat /\ aborted[r] \in Nat /\ notified[r] \in Nat
      /\ \A v \in Workers \ {w} : tick'[v] = tick[v]
  BY <1>1 DEF TypeOK, RequestsTypeOK, TickTypeOK, TickStep, Wake, FindDue, ResolveTask, MarkSent,
              WaitForRow, SkipReminder, Notify, CommitTick
<1>3. ASSUME notified' = notified, \A r \in ReminderIds : Accounted(r) => Accounted(r)'
      PROVE  NotificationsAccounted'
  <2>1. \A r \in ReminderIds : /\ aborted[r] =< aborted'[r] /\ overwritten[r] =< overwritten'[r]
                               /\ Accounted(r) => Accounted(r)'
    BY <1>1, <1>2, <1>3
  <2>. QED
    BY ONLY TypeOK, TypeOK', NotificationsAccounted, <1>3, <2>1, AccountKept
<1>4. ASSUME UNCHANGED <<reminders, rowLock, notified>>,
             tick[w].pc # "notify", tick'[w].pc # "notify"
      PROVE  NotificationsAccounted'
  <2>1. \A v \in Workers : NotifiedInTick(v)' = NotifiedInTick(v)
    BY <1>2, <1>4 DEF NotifiedInTick, Held
  <2>. QED
    BY <1>3, <1>4, <2>1 DEF Accounted
<1>5. CASE Wake(w) \/ FindDue(w) \/ ResolveTask(w) \/ WaitForRow(w) \/ SkipReminder(w)
  <2>1. UNCHANGED <<reminders, rowLock, notified>> /\ tick[w].pc # "notify"
    BY <1>5 DEF Wake, FindDue, ResolveTask, WaitForRow, SkipReminder, storeVars
  <2>2. tick'[w].pc # "notify"
    <3> DEFINE due == Limited(DueAt(tick[w].now))
    <3>1. CASE FindDue(w)
      <4>1. tick' = [tick EXCEPT ![w] = IF due = {} THEN IdleTick
                                        ELSE [tick[w] EXCEPT !.pc = "next", !.todo = due]]
        BY <3>1 DEF FindDue
      <4> HIDE DEF due
      <4>. QED
        BY <4>1, IdleTickType DEF TypeOK, TickTypeOK, TickState
    <3>2. CASE ResolveTask(w)
      <4>1. tick[w].pc = "next" /\ w \in DOMAIN tick
        BY <3>2 DEF ResolveTask, TypeOK, TickTypeOK
      <4>2. PICK i : tick' = [tick EXCEPT ![w] =
              IF TaskExists(i.task) \/ tick[w].item.task = i.task
                THEN [tick[w] EXCEPT !.pc = "claim", !.todo = tick[w].todo \ {i}, !.item = i]
                ELSE [tick[w] EXCEPT !.todo = tick[w].todo \ {i}, !.item = NoItem]]
        BY <3>2 DEF ResolveTask
      <4>. QED
        BY <4>1, <4>2 DEF TypeOK, TickTypeOK, TickState
    <3>3. CASE Wake(w) \/ WaitForRow(w) \/ SkipReminder(w)
      BY <3>3 DEF Wake, WaitForRow, SkipReminder, TypeOK, TickTypeOK, TickState
    <3>. QED
      BY <1>5, <3>1, <3>2, <3>3
  <2>. QED
    BY <1>4, <2>1, <2>2
<1>6. CASE MarkSent(w)
  <2>1. PICK r \in ReminderIds : r = tick[w].item.id
    BY <1>6 DEF MarkSent, Shapes, TickShape, DueItem
  <2>2. rowLock[r] = None /\ rowLock' = [rowLock EXCEPT ![r] = w] /\ tick[w].pc # "notify"
    BY <1>6, <2>1 DEF MarkSent
  <2>3. NotifiedInTick(w) \subseteq NotifiedInTick(w)'
    <3>1. tick'[w].item = tick[w].item
      BY <1>6 DEF MarkSent, TypeOK, TickTypeOK, TickState
    <3>. QED
      BY <2>1, <2>2, <3>1 DEF NotifiedInTick, Held, TypeOK, StoreTypeOK
  <2>4. ASSUME NEW v \in Workers \ {w} PROVE NotifiedInTick(v) \subseteq NotifiedInTick(v)'
    BY <1>2, <2>2 DEF NotifiedInTick, Held, TypeOK, StoreTypeOK
  <2>5. \A q \in ReminderIds : Accounted(q) => Accounted(q)'
    BY <1>6, <2>3, <2>4 DEF MarkSent, Accounted
  <2>. QED
    BY <1>3, <1>6, <2>5 DEF MarkSent
<1>7. CASE Notify(w)
  <2>1. PICK r \in ReminderIds : r = tick[w].item.id
    BY <1>7 DEF Notify, Shapes, TickShape, DueItem
  <2>2. rowLock[r] = w /\ reminders[r].status = "PENDING"
    BY <1>7, <2>1 DEF Notify, Locks, HeldByWorker, Held, Due
  <2>3. ~Accounted(r)
    BY <1>7, <2>1, <2>2 DEF Notify, Accounted, NotifiedInTick, Held
  <2>4. tick'[w].pc = "next" /\ rowLock' = rowLock /\ reminders' = reminders
    BY <1>7 DEF Notify, storeVars, TypeOK, TickTypeOK, TickState
  <2>5. NotifiedInTick(w) \cup {r} \subseteq NotifiedInTick(w)'
    BY <2>2, <2>4 DEF NotifiedInTick, Held
  <2>6. \A v \in Workers \ {w} : NotifiedInTick(v)' = NotifiedInTick(v)
    BY <1>2, <2>4 DEF NotifiedInTick, Held
  <2>7. \A q \in ReminderIds : Accounted(q) \/ q = r => Accounted(q)'
    BY <2>4, <2>5, <2>6 DEF Accounted
  <2>8. notified' = [notified EXCEPT ![r] = notified[r] + 1]
    BY <1>7, <2>1 DEF Notify
  <2>9. ASSUME NEW q \in ReminderIds
        PROVE  notified'[q] =< aborted'[q] + overwritten'[q] + (IF Accounted(q)' THEN 1 ELSE 0)
    <3>1. notified[q] =< aborted[q] + overwritten[q] + (IF Accounted(q) THEN 1 ELSE 0)
      BY DEF NotificationsAccounted
    <3>2. CASE q = r
      <4>1. notified'[q] = notified[q] + 1
        BY <2>8, <3>2 DEF TypeOK, TickTypeOK
      <4>. QED
        BY <1>1, <1>2, <2>3, <2>7, <3>1, <3>2, <4>1
    <3>3. CASE q # r
      <4>1. notified'[q] = notified[q]
        BY <2>8, <3>3 DEF TypeOK, TickTypeOK
      <4>. QED
        BY <1>1, <1>2, <2>7, <3>1, <4>1
    <3>. QED
      BY <3>2, <3>3
  <2>. QED
    BY <2>9 DEF NotificationsAccounted
<1>8. CASE CommitTick(w)
  <2>1. ASSUME NEW v \in Workers \ {w} PROVE NotifiedInTick(v)' = NotifiedInTick(v)
    BY <1>2, <1>8 DEF CommitTick, ReleaseRows, NotifiedInTick, Held
  <2>2. \A r \in ReminderIds : r \in NotifiedInTick(w) => reminders'[r].status = "SENT"
    BY <1>8 DEF CommitTick, Committed, NotifiedInTick, Held, TypeOK, StoreTypeOK, ReminderRow
  <2>3. \A r \in ReminderIds :
          reminders[r].status \in {"SENT", "gone"} => reminders'[r].status \in {"SENT", "gone"}
    BY <1>8 DEF CommitTick, Committed, TypeOK, StoreTypeOK, ReminderRow
  <2>4. \A r \in ReminderIds : Accounted(r) => Accounted(r)'
    BY <2>1, <2>2, <2>3 DEF Accounted
  <2>. QED
    BY <1>3, <1>8, <2>4 DEF CommitTick
<1>. QED
  BY <1>1, <1>5, <1>6, <1>7, <1>8 DEF TickStep

LEMMA TickRollbackKeepsAccount ==
  ASSUME TypeOK, TypeOK', NotificationsAccounted, NEW w \in Workers,
         RollbackTick(w), UNCHANGED reqVars
  PROVE  NotificationsAccounted'
<1> USE StoreAssumption
<1>1. \A r \in ReminderIds : overwritten[r] \in Nat /\ aborted[r] \in Nat
  BY DEF TypeOK, RequestsTypeOK, TickTypeOK
<1>2. \A r \in ReminderIds :
        aborted'[r] = IF r \in NotifiedInTick(w) THEN aborted[r] + 1 ELSE aborted[r]
  BY DEF RollbackTick
<1>3. ASSUME NEW v \in Workers \ {w} PROVE NotifiedInTick(v)' = NotifiedInTick(v)
  BY DEF RollbackTick, ReleaseRows, NotifiedInTick, Held, TypeOK, TickTypeOK
<1>4. ASSUME NEW r \in ReminderIds, Accounted(r)
      PROVE  Accounted(r)' \/ aborted'[r] = aborted[r] + 1
  BY <1>2, <1>3, <1>4 DEF RollbackTick, Accounted
<1>. QED
  BY <1>1, <1>2, <1>4, AccountKept DEF RollbackTick, reqVars

LEMMA AccountStep ==
  TypeOK /\ TypeOK' /\ Shapes /\ Locks /\ Rows /\ NotificationsAccounted /\ [Next]_vars
    => NotificationsAccounted'
<1> SUFFICES ASSUME TypeOK, TypeOK', Shapes, Locks, Rows, NotificationsAccounted, [Next]_vars
             PROVE  NotificationsAccounted'
  OBVIOUS
<1>1. CASE PassTime \/ UNCHANGED vars
  BY <1>1 DEF PassTime, AdvanceClock, reqVars, tickVars, vars, NotificationsAccounted, Accounted,
              NotifiedInTick, Held
<1>2. ASSUME NEW c \in Clients, Start(c) \/ Continue(c) PROVE NotificationsAccounted'
  BY <1>2, RequestKeepsAccount
<1>3. ASSUME NEW w \in Workers, Work(w) PROVE NotificationsAccounted'
  BY <1>3, WorkKeepsAccount
<1>4. ASSUME NEW p \in Processes, Fail(p) \/ AbortVictim(p) PROVE NotificationsAccounted'
  <2>1. Rollback(p)
    BY <1>4 DEF Fail, AbortVictim
  <2>. QED
    BY <2>1, RequestKeepsAccount, TickRollbackKeepsAccount DEF Rollback
<1>. QED
  BY <1>1, <1>2, <1>3, <1>4 DEF Next

-----------------------------------------------------------------------------
(***************************************************************************)
(* The inductive invariant.                                                *)
(***************************************************************************)
LEMMA InvInit == Init => Inv
<1> SUFFICES ASSUME Init PROVE Inv
  OBVIOUS
<1>1. TypeOK /\ Shapes
  BY StoreAssumption, RequestsAssumption, SystemAssumption, IdleRequestType, IdleTickType, NoRowType
  DEF Init, StoreInit, RequestsInit, TickInit, TypeOK, StoreTypeOK, RequestsTypeOK, TickTypeOK,
      Times, Shapes, RequestShape, TickShape
<1>2. \A p \in Processes : Held(p) = {}
  BY StoreAssumption DEF Init, StoreInit, Held, Processes
<1>3. Locks
  BY <1>2, IdleTickType DEF Init, TickInit, Locks, HeldByRequest, HeldByWorker, Processes
<1>4. Rows
  BY NoRowType, IdleRequestType
  DEF Init, StoreInit, RequestsInit, Rows, FreshId, NoOrphanReminder, ReminderExists, ReminderStatus
<1>5. NotificationsAccounted
  BY DEF Init, RequestsInit, TickInit, NotificationsAccounted
<1>. QED
  BY <1>1, <1>3, <1>4, <1>5 DEF Inv

LEMMA Invariant == Spec => []Inv
<1>1. Inv /\ [Next]_vars => Inv'
  BY TypeStep, LocksStep, RowsStep, AccountStep DEF Inv
<1>. QED
  BY <1>1, InvInit, PTL DEF Spec

(***************************************************************************)
(* No committed reminder outlives its task.                                *)
(***************************************************************************)
THEOREM NoOrphans == Spec => []NoOrphanReminder
<1>1. Inv => NoOrphanReminder
  BY DEF Inv, Rows
<1>. QED
  BY <1>1, Invariant, PTL

(***************************************************************************)
(* What a claim's WHERE clause found true is true until the worker commits *)
(* or rolls back.                                                          *)
(***************************************************************************)
LEMMA ClaimsStand == Inv => ClaimStands
<1> SUFFICES ASSUME Inv, NEW w \in Workers, NEW r \in Held(w)
             PROVE  Due(reminders[r], clock) /\ TaskExists(reminders[r].task)
  BY DEF ClaimStands
<1>1. r \in ReminderIds /\ Due(reminders[r], tick[w].now) /\ tick[w].now =< clock
  BY DEF Inv, Locks, HeldByWorker, Shapes, TickShape, Held
<1>2. reminders[r].remind_at \in Int /\ tick[w].now \in Int /\ clock \in Int
  BY <1>1, StoreAssumption
  DEF Inv, TypeOK, StoreTypeOK, TickTypeOK, TickState, ReminderRow, Times
<1>3. Due(reminders[r], clock)
  BY <1>1, <1>2 DEF Due
<1>4. ReminderExists(r)
  BY <1>1 DEF Due, ReminderExists, ReminderStatus
<1>. QED
  BY <1>1, <1>3, <1>4 DEF Inv, Rows, NoOrphanReminder

THEOREM ClaimsAlwaysStand == Spec => []ClaimStands
  BY ClaimsStand, Invariant, PTL

(***************************************************************************)
(* The provider is only called for a reminder that is PENDING and due at   *)
(* that moment, and whose task exists.                                     *)
(***************************************************************************)
THEOREM OnlyDueNotified == Spec => NotifiesOnlyDue
<1>1. Inv /\ [Next]_vars =>
        [\A r \in ReminderIds :
           notified'[r] # notified[r] =>
             Due(reminders[r], clock) /\ TaskExists(reminders[r].task)]_vars
  <2> SUFFICES ASSUME Inv, [Next]_vars, NEW r \in ReminderIds, notified'[r] # notified[r]
               PROVE  Due(reminders[r], clock) /\ TaskExists(reminders[r].task)
    OBVIOUS
  <2>1. PICK w \in Workers : Notify(w)
    BY DEF Next, vars, PassTime, Start, Continue, Work, Fail, AbortVictim, Rollback, tickVars,
           RollbackTick, TickStep, Wake, FindDue, ResolveTask, MarkSent, WaitForRow, SkipReminder,
           CommitTick
  <2>2. r = tick[w].item.id
    BY <2>1 DEF Notify, Inv, TypeOK, TickTypeOK
  <2>3. r \in Held(w)
    BY <2>1, <2>2 DEF Notify, Inv, Locks, HeldByWorker, Held
  <2>. QED
    BY <2>3, ClaimsStand DEF ClaimStands
<1>. QED
  BY <1>1, Invariant, PTL DEF Spec, NotifiesOnlyDue

(***************************************************************************)
(* Every notification after the first is explained by a rollback or by an  *)
(* overwritten status.                                                     *)
(***************************************************************************)
THEOREM DuplicatesAreExplained == Spec => []DuplicatesExplained
<1>1. Inv => DuplicatesExplained
  <2> SUFFICES ASSUME Inv, NEW r \in ReminderIds
               PROVE  notified[r] =< 1 + aborted[r] + overwritten[r]
    BY DEF DuplicatesExplained
  <2>1. notified[r] \in Nat /\ aborted[r] \in Nat /\ overwritten[r] \in Nat
    BY DEF Inv, TypeOK, RequestsTypeOK, TickTypeOK
  <2>2. notified[r] =< aborted[r] + overwritten[r] + (IF Accounted(r) THEN 1 ELSE 0)
    BY DEF Inv, NotificationsAccounted
  <2>. QED
    BY <2>1, <2>2
<1>. QED
  BY <1>1, Invariant, PTL

-----------------------------------------------------------------------------
(***************************************************************************)
(* The committed rows implement the ledger.  An edit under way sets no     *)
(* status but those that a request may assign.                             *)
(***************************************************************************)
EditsAssign ==
  \A c \in Clients : req[c].pc = "writeReminder" => req[c].status \in Assignable \cup {Keep}

LEMMA EditsKept ==
  ASSUME EditsAssign, NEW c \in Clients, NEW x, req \in [Clients -> RequestState],
         req' = [req EXCEPT ![c] = x],
         x.pc = "writeReminder" => x.status \in Assignable \cup {Keep}
  PROVE  EditsAssign'
  BY DEF EditsAssign

LEMMA EditsStep ==
  ASSUME TypeOK, EditsAssign, [Next]_vars
  PROVE  EditsAssign'
<1>1. req \in [Clients -> RequestState]
  BY DEF TypeOK, RequestsTypeOK
<1>2. ASSUME UNCHANGED req PROVE EditsAssign'
  BY <1>2 DEF EditsAssign
<1>3. ASSUME NEW c \in Clients, req' = [req EXCEPT ![c] = IdleRequest] PROVE EditsAssign'
  BY <1>1, <1>3, IdleRequestType, EditsKept
<1>4. ASSUME NEW c \in Clients,
             NEW pc \in {"updateTask", "deleteTask", "insertReminder", "checkReminder", "deleteReminder"},
             NEW t, NEW r, NEW at, NEW status, req' = [req EXCEPT ![c] = Request(pc, t, r, at, status)]
      PROVE  EditsAssign'
  BY <1>1, <1>4, EditsKept DEF Request
<1>5. ASSUME NEW c \in Clients, Start(c) PROVE EditsAssign'
  <2>1. CASE CreateTask(c)
    BY <1>3, <2>1 DEF CreateTask, Begin
  <2>2. CASE ReadTaskToUpdate(c)
    <3>1. PICK t, at : req' = [req EXCEPT ![c] = Request("updateTask", t, None, at, Keep)]
      BY <2>2 DEF ReadTaskToUpdate, Begin
    <3>. QED
      BY <1>4, <3>1
  <2>3. CASE ReadTaskToDelete(c)
    <3>1. PICK t : req' = [req EXCEPT ![c] = Request("deleteTask", t, None, Unset, Keep)]
      BY <2>3 DEF ReadTaskToDelete, Begin
    <3>. QED
      BY <1>4, <3>1
  <2>4. CASE ReadTaskForReminder(c)
    <3>1. PICK t, r, at : req' = [req EXCEPT ![c] = Request("insertReminder", t, r, at, Keep)]
      BY <2>4 DEF ReadTaskForReminder, Begin
    <3>. QED
      BY <1>4, <3>1
  <2>5. CASE ReadReminderToEdit(c)
    <3>1. PICK r :
            req' = [req EXCEPT ![c] = Request("checkReminder", reminders[r].task, r,
                                        reminders[r].remind_at, reminders[r].status)]
      BY <2>5 DEF ReadReminderToEdit, Begin
    <3>. QED
      BY <1>4, <3>1
  <2>6. CASE ReadReminderToDelete(c)
    <3>1. PICK r : req' = [req EXCEPT ![c] = Request("deleteReminder", None, r, Unset, Keep)]
      BY <2>6 DEF ReadReminderToDelete, Begin
    <3>. QED
      BY <1>4, <3>1
  <2>. QED
    BY <1>5, <2>1, <2>2, <2>3, <2>4, <2>5, <2>6 DEF Start, StartRequest
<1>6. ASSUME NEW c \in Clients, Continue(c) PROVE EditsAssign'
  <2>1. CASE LockTask(c)
    BY <1>1, <2>1 DEF LockTask, EditsAssign, RequestState
  <2>2. CASE CascadeReminder(c)
    BY <1>2, <2>2 DEF CascadeReminder, reqVars
  <2>3. CASE CheckReminderEdit(c)
    <3>1. PICK at \in Times \cup {Unset}, status \in Assignable \cup {Keep} :
            \/ req' = [req EXCEPT ![c] = IdleRequest]
            \/ req' = [req EXCEPT ![c] = Request("writeReminder", req[c].task, req[c].reminder,
                         Changed(at, req[c].at, Unset), Changed(status, req[c].status, Keep))]
      BY <2>3 DEF CheckReminderEdit, AcceptsEdit
    <3>2. Changed(status, req[c].status, Keep) \in Assignable \cup {Keep}
      BY DEF Changed
    <3>. QED
      BY <1>1, <1>3, <3>1, <3>2, EditsKept DEF Request
  <2>4. CASE /\ ~LockTask(c) /\ ~CascadeReminder(c) /\ ~CheckReminderEdit(c)
    BY <1>3, <1>6, <2>4
    DEF Continue, ContinueRequest, WriteTask, CommitTaskDelete, InsertReminder, WriteReminder,
        DeleteReminder, TargetVanished, Finish
  <2>. QED
    BY <2>1, <2>2, <2>3, <2>4
<1>7. ASSUME NEW p \in Processes, Fail(p) \/ AbortVictim(p) PROVE EditsAssign'
  BY <1>2, <1>3, <1>7 DEF Fail, AbortVictim, Rollback, RollbackRequest, Finish, reqVars
<1>8. ASSUME NEW w \in Workers, Work(w) PROVE EditsAssign'
  BY <1>2, <1>8 DEF Work, reqVars
<1>9. CASE PassTime \/ UNCHANGED vars
  BY <1>2, <1>9 DEF PassTime, reqVars, vars
<1>. QED
  BY <1>5, <1>6, <1>7, <1>8, <1>9 DEF Next

LEMMA EditsInvariant == Spec => []EditsAssign
<1>1. Init => EditsAssign
  BY DEF Init, RequestsInit, EditsAssign, IdleRequest, Request
<1>2. EditsAssign /\ TypeOK /\ [Next]_vars => EditsAssign'
  BY EditsStep
<1>. QED
  BY <1>1, <1>2, TypeCorrect, PTL DEF Spec

(***************************************************************************)
(* Only five steps write reminders, and each is a step of the ledger; a    *)
(* tick fires all its claims at once because all of them stand.            *)
(***************************************************************************)
LedgerStep == Ledger!LedgerNext \/ UNCHANGED <<clock, reminders>>

LEMMA RequestImplements ==
  ASSUME Inv, EditsAssign, NEW c \in Clients, Continue(c)
  PROVE  LedgerStep
<1> USE DEF Inv
<1>1. CASE CommitTaskDelete(c)
  <2>1. Held(c) \in SUBSET ReminderIds /\ \A r \in Held(c) : ReminderExists(r)
    BY DEF Held, Locks, HeldByRequest
  <2>2. Ledger!Drop(Held(c))
    BY <1>1, <2>1
    DEF CommitTaskDelete, Ledger!Drop, Ledger!ReminderExists, Ledger!ReminderStatus,
        Ledger!NoReminderRow, ReminderExists, ReminderStatus, NoReminderRow
  <2>. QED
    BY <2>1, <2>2 DEF LedgerStep, Ledger!LedgerNext
<1>2. CASE InsertReminder(c)
  <2> DEFINE r == req[c].reminder
  <2>1. /\ r \in ReminderIds /\ req[c].task \in TaskIds /\ req[c].at \in Times
        /\ reminders[r].status = "unborn"
    BY <1>2 DEF InsertReminder, Shapes, RequestShape, Rows, FreshId
  <2>2. Ledger!Add(r)
    BY <1>2, <2>1 DEF InsertReminder, Ledger!Add, Ledger!Times, Times
  <2> HIDE DEF r
  <2>. QED
    BY <2>1, <2>2 DEF LedgerStep, Ledger!LedgerNext
<1>3. CASE WriteReminder(c)
  <2> DEFINE r == req[c].reminder
             row == Patched(reminders[r], req[c])
  <2>1. /\ r \in ReminderIds /\ ReminderExists(r) /\ UNCHANGED clock
        /\ reminders' = [reminders EXCEPT ![r] = row]
    BY <1>3 DEF WriteReminder, Shapes, RequestShape
  <2>2. reminders[r] \in ReminderRow /\ req[c] \in RequestState
    BY <2>1 DEF TypeOK, StoreTypeOK, RequestsTypeOK
  <2>3. row \in ReminderRow /\ row.task = reminders[r].task
    BY <2>2, PatchedType
  <2>4. row.status \in {"PENDING", "CANCELLED", reminders[r].status}
    BY <1>3, <2>2, PatchedType DEF WriteReminder, EditsAssign, Assignable
  <2>5. reminders' = [reminders EXCEPT ![r].status = row.status, ![r].remind_at = row.remind_at]
    <3> HIDE DEF row
    <3>1. row = [reminders[r] EXCEPT !.status = row.status, !.remind_at = row.remind_at]
      BY <2>2, <2>3 DEF ReminderRow
    <3>. QED
      BY <2>1, <3>1 DEF TypeOK, StoreTypeOK
  <2>6. row.remind_at \in Times
    BY <2>3 DEF ReminderRow
  <2> HIDE DEF r, row
  <2>7. Ledger!Edit(r)
    BY <2>1, <2>4, <2>5, <2>6
    DEF Ledger!Edit, Ledger!ReminderExists, Ledger!ReminderStatus, Ledger!Times, ReminderExists,
        ReminderStatus, Times
  <2>. QED
    BY <2>1, <2>7 DEF LedgerStep, Ledger!LedgerNext
<1>4. CASE DeleteReminder(c)
  <2> DEFINE r == req[c].reminder
  <2>1. r \in ReminderIds /\ ReminderExists(r) /\ {r} \in SUBSET ReminderIds
    BY <1>4 DEF DeleteReminder, Shapes, RequestShape
  <2>2. Ledger!Drop({r})
    BY <1>4, <2>1
    DEF DeleteReminder, Ledger!Drop, Ledger!ReminderExists, Ledger!ReminderStatus,
        Ledger!NoReminderRow, ReminderExists, ReminderStatus, NoReminderRow, TypeOK, StoreTypeOK
  <2> HIDE DEF r
  <2>. QED
    BY <2>1, <2>2 DEF LedgerStep, Ledger!LedgerNext
<1>5. CASE ~CommitTaskDelete(c) /\ ~InsertReminder(c) /\ ~WriteReminder(c) /\ ~DeleteReminder(c)
  BY <1>5
  DEF Continue, ContinueRequest, WriteTask, LockTask, CascadeReminder, CheckReminderEdit,
      TargetVanished, storeVars, LedgerStep
<1>. QED
  BY <1>1, <1>2, <1>3, <1>4, <1>5

LEMMA TickImplements ==
  ASSUME Inv, NEW w \in Workers, Work(w)
  PROVE  LedgerStep
<1>1. CASE CommitTick(w)
  <2>1. Held(w) \in SUBSET ReminderIds /\ \A r \in Held(w) : Due(reminders[r], clock)
    BY ClaimsStand DEF Held, ClaimStands
  <2>2. Ledger!Fire(Held(w))
    BY <1>1, <2>1 DEF CommitTick, Committed, Due, Ledger!Fire
  <2>. QED
    BY <2>1, <2>2 DEF LedgerStep, Ledger!LedgerNext
<1>2. CASE ~CommitTick(w)
  BY <1>2
  DEF Work, TickStep, Wake, FindDue, ResolveTask, MarkSent, WaitForRow, SkipReminder, Notify,
      storeVars, LedgerStep
<1>. QED
  BY <1>1, <1>2

LEMMA ImplementsStep ==
  ASSUME Inv, EditsAssign, [Next]_vars
  PROVE  LedgerStep
<1>1. CASE PassTime
  BY <1>1 DEF PassTime, AdvanceClock, LedgerStep, Ledger!LedgerNext, Ledger!Tick
<1>2. ASSUME NEW c \in Clients, Start(c) PROVE LedgerStep
  BY <1>2
  DEF Start, StartRequest, CreateTask, ReadTaskToUpdate, ReadTaskToDelete, ReadTaskForReminder,
      ReadReminderToEdit, ReadReminderToDelete, storeVars, LedgerStep
<1>3. ASSUME NEW p \in Processes, Fail(p) \/ AbortVictim(p) PROVE LedgerStep
  BY <1>3 DEF Fail, AbortVictim, Rollback, RollbackRequest, RollbackTick, LedgerStep
<1>4. CASE UNCHANGED vars
  BY <1>4 DEF vars, LedgerStep
<1>. QED
  BY <1>1, <1>2, <1>3, <1>4, RequestImplements, TickImplements DEF Next

(***************************************************************************)
(* However requests, ticks and failures interleave, an observer of the     *)
(* committed rows sees reminders added, edited, deleted, and fired in      *)
(* groups whose every member is PENDING and due when it is fired.          *)
(***************************************************************************)
THEOREM LedgerImplemented == Spec => ImplementsLedger
<1>1. Init => Ledger!LedgerInit
  BY DEF Init, StoreInit, Ledger!LedgerInit, Ledger!NoReminderRow, NoReminderRow
<1>2. Inv /\ EditsAssign /\ [Next]_vars => Ledger!LedgerNext \/ UNCHANGED <<clock, reminders>>
  BY ImplementsStep DEF LedgerStep
<1>3. Spec => [][Ledger!LedgerNext]_<<clock, reminders>>
  BY <1>2, Invariant, EditsInvariant, PTL DEF Spec
<1>. QED
  BY <1>1, <1>3, PTL DEF Spec, ImplementsLedger, Ledger!LedgerSpec, Ledger!ledgerVars
=============================================================================
