--------------------------- MODULE ReminderLedger ---------------------------
(***************************************************************************)
(* What the reminder subsystem promises to an observer of the committed    *)
(* rows: reminders are added PENDING, edited and deleted, and groups of    *)
(* them are fired.  A group is fired in one step, and only if every        *)
(* reminder in it is PENDING and due in that very step, whatever was read  *)
(* before and however the processes interleave.                            *)
(***************************************************************************)
EXTENDS DeadlineStore

ledgerVars == <<clock, reminders>>

LedgerInit ==
  /\ clock = 0
  /\ reminders = [r \in ReminderIds |-> NoReminderRow("unborn")]

Tick == clock' = clock + 1 /\ UNCHANGED reminders

Add(r) ==
  /\ reminders[r].status = "unborn"
  /\ \E t \in TaskIds, at \in Times :
       reminders' = [reminders EXCEPT
                       ![r] = [status |-> "PENDING", task |-> t, remind_at |-> at]]
  /\ UNCHANGED clock

(***************************************************************************)
(* An edit never makes a reminder SENT and never moves it to another task. *)
(* It may hit a row that is SENT already: see SentIsFinal in               *)
(* ReminderSystem.                                                         *)
(***************************************************************************)
Edit(r) ==
  /\ ReminderExists(r)
  /\ \E status \in {"PENDING", "CANCELLED", reminders[r].status}, at \in Times :
       reminders' = [reminders EXCEPT ![r].status = status, ![r].remind_at = at]
  /\ UNCHANGED clock

Drop(S) ==
  /\ \A r \in S : ReminderExists(r)
  /\ reminders' = [r \in ReminderIds |->
                     IF r \in S THEN NoReminderRow("gone") ELSE reminders[r]]
  /\ UNCHANGED clock

Fire(S) ==
  /\ \A r \in S : reminders[r].status = "PENDING" /\ reminders[r].remind_at =< clock
  /\ reminders' = [r \in ReminderIds |->
                     IF r \in S THEN [reminders[r] EXCEPT !.status = "SENT"] ELSE reminders[r]]
  /\ UNCHANGED clock

LedgerNext ==
  \/ Tick
  \/ \E r \in ReminderIds : Add(r) \/ Edit(r)
  \/ \E S \in SUBSET ReminderIds : Drop(S) \/ Fire(S)

LedgerSpec == LedgerInit /\ [][LedgerNext]_ledgerVars
=============================================================================
