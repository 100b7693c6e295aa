--------------------------- MODULE DeadlineStore ---------------------------
(***************************************************************************)
(* The tables `tasks` and `reminders` (models.py) in the PostgreSQL        *)
(* database that the API server, the agent and the scheduler workers       *)
(* share, at the isolation level the code runs at (READ COMMITTED):        *)
(*                                                                         *)
(*   - a SELECT reads the last committed rows and takes no lock;           *)
(*   - a write first locks its row, waits while another transaction holds  *)
(*     the lock, and then works on the last committed version of the row;  *)
(*   - locks are kept until the transaction commits or rolls back.         *)
(*                                                                         *)
(* `tasks` and `reminders` hold committed rows only.  What a transaction   *)
(* has written and not committed follows from the locks it holds: a        *)
(* scheduler worker's locked rows are about to become SENT, the locked     *)
(* rows of a request are about to be deleted with their task.  A row that  *)
(* nobody inserted yet is "unborn", a deleted one is "gone"; ids are       *)
(* UUIDs, so they are never used twice.                                    *)
(***************************************************************************)
EXTENDS Integers, FiniteSets

CONSTANTS
  TaskIds,      \* ids of the tasks that can ever exist
  ReminderIds,  \* ids of the reminders that can ever exist, ordered as UUIDs are
  Clients,      \* API or agent requests that can be in progress together
  Workers,      \* scheduler processes
  None,         \* no lock owner, no task, no reminder
  MaxTime       \* the clock stops here (a bound, not in the code)

ASSUME StoreAssumption ==
  /\ ReminderIds \subseteq Nat
  /\ MaxTime \in Nat
  /\ None \notin TaskIds \cup ReminderIds \cup Clients \cup Workers
  /\ Clients \cap Workers = {}

VARIABLES
  clock,        \* datetime.now(timezone.utc), shared by all processes
  tasks,        \* committed rows of `tasks`
  reminders,    \* committed rows of `reminders`
  taskLock,     \* the request whose transaction holds the row lock of a task
  rowLock       \* the process whose transaction holds the row lock of a reminder

storeVars == <<clock, tasks, reminders, taskLock, rowLock>>

Times == 0..MaxTime
Processes == Clients \cup Workers

TaskRow == [state : {"unborn", "live", "gone"}, deadline : Times]

ReminderStatus == {"PENDING", "SENT", "CANCELLED"}

ReminderRow == [status    : ReminderStatus \cup {"unborn", "gone"},
                task      : TaskIds \cup {None},
                remind_at : Times]

NoTaskRow(state)      == [state |-> state, deadline |-> 0]
NoReminderRow(status) == [status |-> status, task |-> None, remind_at |-> 0]

TaskExists(t)     == tasks[t].state = "live"
ReminderExists(r) == reminders[r].status \in ReminderStatus

(***************************************************************************)
(* What the foreign key's ON DELETE CASCADE deletes with a task; and what  *)
(* a cascade would that forgot the reminders already sent or cancelled.    *)
(***************************************************************************)
PendingRemindersOf(t) == {r \in ReminderIds : reminders[r].status = "PENDING" /\ reminders[r].task = t}
RemindersOf(t) == {r \in ReminderIds : ReminderExists(r) /\ reminders[r].task = t}

(***************************************************************************)
(* The WHERE clause that find_due and mark_sent share.                     *)
(***************************************************************************)
Due(row, now) == row.status = "PENDING" /\ row.remind_at =< now

(***************************************************************************)
(* Rows held by a process, and what its COMMIT or ROLLBACK releases.       *)
(***************************************************************************)
Held(p) == {r \in ReminderIds : rowLock[r] = p}

ReleaseRows(p) == [r \in ReminderIds |-> IF rowLock[r] = p THEN None ELSE rowLock[r]]
ReleaseTasks(p) == [t \in TaskIds |-> IF taskLock[t] = p THEN None ELSE taskLock[t]]

StoreTypeOK ==
  /\ clock \in Times
  /\ tasks \in [TaskIds -> TaskRow]
  /\ reminders \in [ReminderIds -> ReminderRow]
  /\ taskLock \in [TaskIds -> Clients \cup {None}]
  /\ rowLock \in [ReminderIds -> Processes \cup {None}]

StoreInit ==
  /\ clock = 0
  /\ tasks = [t \in TaskIds |-> NoTaskRow("unborn")]
  /\ reminders = [r \in ReminderIds |-> NoReminderRow("unborn")]
  /\ taskLock = [t \in TaskIds |-> None]
  /\ rowLock = [r \in ReminderIds |-> None]

(***************************************************************************)
(* Time passes between any two steps of any process.                       *)
(***************************************************************************)
AdvanceClock ==
  /\ clock < MaxTime
  /\ clock' = clock + 1
  /\ UNCHANGED <<tasks, reminders, taskLock, rowLock>>
=============================================================================
