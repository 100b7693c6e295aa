-------------------------- MODULE MCReminderSystem --------------------------
(***************************************************************************)
(* Instances of ReminderSystem for TLC.  Reminder ids are numbers, because *)
(* find_due orders by id; clients and workers are interchangeable.         *)
(***************************************************************************)
EXTENDS ReminderSystem, TLC

Symmetry == Permutations(Clients) \cup Permutations(Workers)

(***************************************************************************)
(* The state after the requests that created one task and all reminders,   *)
(* with remind_at at the deadline, so that the whole budget of requests is *)
(* left for what competes with the workers.  Rows fall due together, and a *)
(* reschedule changes the order in which find_due returns them.            *)
(***************************************************************************)
Upcoming ==
  /\ clock = 0
  /\ tasks = [t \in TaskIds |-> [state |-> "live", deadline |-> MaxTime]]
  /\ reminders \in [ReminderIds ->
        {[status |-> "PENDING", task |-> t, remind_at |-> MaxTime] : t \in TaskIds}]
  /\ taskLock = [t \in TaskIds |-> None]
  /\ rowLock = [r \in ReminderIds |-> None]
  /\ RequestsInit
  /\ TickInit
  /\ failures = 0

UpcomingSpec == Upcoming /\ [][Next]_vars /\ Fairness
=============================================================================
