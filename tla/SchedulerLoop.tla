---------------------------- MODULE SchedulerLoop ----------------------------
(***************************************************************************)
(* The life of a scheduler process: main and run_forever.  Python runs a   *)
(* signal handler between any two steps of the main thread, so SIGINT or   *)
(* SIGTERM may come at every point of the loop; the handler only sets a    *)
(* flag.  A sleep that a signal interrupts goes on to the end of its slice *)
(* (PEP 475).  What a tick does to the database is in SchedulerTick; here  *)
(* it succeeds or fails.                                                   *)
(***************************************************************************)
EXTENDS Integers

CONSTANT Slices   \* scheduler_tick_seconds in half seconds, the sleep slices

ASSUME LoopAssumption == Slices \in Nat \ {0}

VARIABLES
  pc,                  \* where the main thread is
  handled,             \* the handlers have been registered
  shutdown_requested,  \* the flag
  remaining,           \* of the sleep between ticks, in slices
  sessions,            \* database sessions that are open
  slept,               \* history: slices since the last tick, of which the first needs none
  lateTicks,           \* history: ticks started after the flag was set
  lateSlices           \* history: slices slept after the flag was set

vars == <<pc, handled, shutdown_requested, remaining, sessions, slept, lateTicks, lateSlices>>
historyVars == <<slept, lateTicks, lateSlices>>

TypeOK ==
  /\ pc \in {"setup", "while", "tick", "close", "after", "sleep", "dispose", "exited", "killed"}
  /\ handled \in BOOLEAN
  /\ shutdown_requested \in BOOLEAN
  /\ remaining \in 0..Slices
  /\ sessions \in Nat
  /\ slept \in 0..Slices
  /\ lateTicks \in Nat
  /\ lateSlices \in Nat

Init ==
  /\ pc = "setup"
  /\ handled = FALSE
  /\ shutdown_requested = FALSE
  /\ remaining = 0
  /\ sessions = 0
  /\ slept = Slices
  /\ lateTicks = 0
  /\ lateSlices = 0

Goto(from, to) == pc = from /\ pc' = to

Late(n) == IF shutdown_requested THEN n + 1 ELSE n

(***************************************************************************)
(* A signal: before the handlers are registered it kills the process,      *)
(* which has done nothing yet.                                             *)
(***************************************************************************)
Signal ==
  /\ pc \notin {"exited", "killed"}
  /\ IF handled
       THEN shutdown_requested' = TRUE /\ UNCHANGED pc
       ELSE pc' = "killed" /\ UNCHANGED shutdown_requested
  /\ UNCHANGED <<handled, remaining, sessions, historyVars>>

RegisterHandlers ==
  /\ Goto("setup", "while")
  /\ handled' = TRUE
  /\ UNCHANGED <<shutdown_requested, remaining, sessions, historyVars>>

(***************************************************************************)
(* while not shutdown_requested: the tick begins with run_once opening a   *)
(* session, which may fail.  A signal between the test of the flag and     *)
(* run_once comes too late for this tick.  (The variants do not look at    *)
(* the flag, and let the exception end the loop.)                          *)
(***************************************************************************)
IgnoreFlag ==
  /\ Goto("while", "tick")
  /\ UNCHANGED <<handled, shutdown_requested, remaining, sessions, historyVars>>

TestFlag ==
  /\ pc = "while"
  /\ pc' = IF shutdown_requested THEN "dispose" ELSE "tick"
  /\ UNCHANGED <<handled, shutdown_requested, remaining, sessions, historyVars>>

OpenSession ==
  /\ Goto("tick", "close")
  /\ sessions' = sessions + 1
  /\ slept' = 0
  /\ lateTicks' = Late(lateTicks)
  /\ UNCHANGED <<handled, shutdown_requested, remaining, lateSlices>>

OpenSessionEscapes ==
  /\ Goto("tick", "dispose")
  /\ slept' = 0
  /\ lateTicks' = Late(lateTicks)
  /\ UNCHANGED <<handled, shutdown_requested, remaining, sessions, lateSlices>>

OpenSessionFails ==
  /\ Goto("tick", "after")
  /\ slept' = 0
  /\ lateTicks' = Late(lateTicks)
  /\ UNCHANGED <<handled, shutdown_requested, remaining, sessions, lateSlices>>

(***************************************************************************)
(* The end of the tick: whether it returned or raised, run_once closes the *)
(* session and the loop goes on.  (The variant closes it after a tick that *)
(* succeeded only.)                                                        *)
(***************************************************************************)
CloseAfterSuccess ==
  /\ Goto("close", "after")
  /\ \/ sessions' = sessions - 1
     \/ UNCHANGED sessions
  /\ UNCHANGED <<handled, shutdown_requested, remaining, historyVars>>

CloseSession ==
  /\ Goto("close", "after")
  /\ sessions' = sessions - 1
  /\ UNCHANGED <<handled, shutdown_requested, remaining, historyVars>>

(***************************************************************************)
(* if shutdown_requested: break; else sleep for the tick interval.  (The   *)
(* variants forget to set `remaining` again, or clear the flag.)           *)
(***************************************************************************)
AfterTickNoReset ==
  /\ pc = "after"
  /\ pc' = IF shutdown_requested THEN "dispose" ELSE "sleep"
  /\ UNCHANGED <<handled, shutdown_requested, remaining, sessions, historyVars>>

AfterTickForgets ==
  /\ Goto("after", "sleep")
  /\ remaining' = Slices
  /\ shutdown_requested' = FALSE
  /\ UNCHANGED <<handled, sessions, historyVars>>

AfterTick ==
  /\ pc = "after"
  /\ IF shutdown_requested
       THEN pc' = "dispose" /\ UNCHANGED remaining
       ELSE pc' = "sleep" /\ remaining' = Slices
  /\ UNCHANGED <<handled, shutdown_requested, sessions, historyVars>>

(***************************************************************************)
(* One slice of the sleep, between two tests of the flag.  A signal that   *)
(* comes after the test comes before or during the slice, which is slept.  *)
(* (The variant does not look at the flag.)                                *)
(***************************************************************************)
SleepOn ==
  /\ pc = "sleep"
  /\ remaining > 0
  /\ remaining' = remaining - 1
  /\ slept' = slept + 1
  /\ lateSlices' = Late(lateSlices)
  /\ UNCHANGED <<pc, handled, shutdown_requested, sessions, lateTicks>>

SleepSlice ==
  /\ pc = "sleep"
  /\ remaining > 0
  /\ ~shutdown_requested
  /\ remaining' = remaining - 1
  /\ slept' = slept + 1
  /\ \E interrupted \in BOOLEAN :
       /\ shutdown_requested' = interrupted
       /\ lateSlices' = IF interrupted THEN lateSlices + 1 ELSE lateSlices
  /\ UNCHANGED <<pc, handled, sessions, lateTicks>>

WakeUp ==
  /\ Goto("sleep", "while")
  /\ remaining = 0 \/ shutdown_requested
  /\ UNCHANGED <<handled, shutdown_requested, remaining, sessions, historyVars>>

Dispose ==
  /\ Goto("dispose", "exited")
  /\ UNCHANGED <<handled, shutdown_requested, remaining, sessions, historyVars>>

Step ==
  \/ RegisterHandlers
  \/ TestFlag
  \/ OpenSession
  \/ OpenSessionFails
  \/ CloseSession
  \/ AfterTick
  \/ SleepSlice
  \/ WakeUp
  \/ Dispose

Next == Step \/ Signal

Spec == Init /\ [][Next]_vars

(***************************************************************************)
(* The process runs, and a tick ends: its database calls return or fail.   *)
(* Nobody has to send a signal.                                            *)
(***************************************************************************)
FairSpec == Spec /\ WF_vars(Step)

-----------------------------------------------------------------------------
(***************************************************************************)
(* run_forever "finishes current tick, stops scheduling new ticks": after  *)
(* a signal no tick starts but the one whose test of the flag had passed,  *)
(* and that only before anything is slept.                                 *)
(***************************************************************************)
StopsTicking == lateTicks =< 1 /\ (lateTicks = 1 => lateSlices = 0)

(***************************************************************************)
(* "Sleep in 0.5s slices to remain responsive": at most the slice under    *)
(* way is slept after a signal.                                            *)
(***************************************************************************)
Responsive == lateSlices =< 1

(***************************************************************************)
(* "total sleep equals tick interval": a tick that starts comes exactly    *)
(* one interval after the end of the one before; the first comes at once.  *)
(***************************************************************************)
FullInterval == pc = "tick" => slept = Slices

(***************************************************************************)
(* run_once "closes the session afterwards (including on exception)": no   *)
(* session is open between ticks or when the process is over.              *)
(***************************************************************************)
SessionsClosed == pc # "close" => sessions = 0

(***************************************************************************)
(* A process that got a signal exits.                                      *)
(***************************************************************************)
SignalStops == shutdown_requested ~> pc = "exited"

(***************************************************************************)
(* As long as there is no signal, there is always another tick, whatever   *)
(* became of the ones before.                                              *)
(***************************************************************************)
KeepsTicking == []<>(pc = "tick" \/ shutdown_requested \/ pc = "killed")
=============================================================================
