------------------------- MODULE SchedulerLoopProofs -------------------------
(***************************************************************************)
(* Proofs, for every tick interval, of what a signal can and cannot do to  *)
(* the scheduler loop.                                                     *)
(***************************************************************************)
EXTENDS SchedulerLoop, TLAPS

(***************************************************************************)
(* What has been counted after a signal tells where the loop can be.       *)
(***************************************************************************)
AfterSignal ==
  /\ ~handled <=> pc \in {"setup", "killed"}
  /\ shutdown_requested => handled
  /\ ~shutdown_requested => lateTicks = 0 /\ lateSlices = 0
  /\ lateTicks =< 1 /\ lateSlices =< 1
  /\ lateTicks = 1 => lateSlices = 0 /\ pc \in {"close", "after", "dispose", "exited"}
  /\ lateSlices = 1 => pc \in {"sleep", "while", "dispose", "exited"}

(***************************************************************************)
(* What has been slept and what remains make up the interval.              *)
(***************************************************************************)
Interval ==
  /\ pc \in {"setup", "tick"} => slept = Slices
  /\ pc = "while" => slept = Slices \/ shutdown_requested
  /\ pc \in {"close", "after"} => slept = 0
  /\ pc = "sleep" => slept + remaining = Slices

Sessions == sessions = IF pc = "close" THEN 1 ELSE 0

Inv == TypeOK /\ AfterSignal /\ Interval /\ Sessions

USE DEF TypeOK, AfterSignal, Interval, Sessions, historyVars, Goto, Late

LEMMA InitInv == Init => Inv
<1>1. Init => TypeOK
  <2>1. 0 \in 0..Slices /\ Slices \in 0..Slices /\ 0 \in Nat
    BY LoopAssumption
  <2>. QED
    BY <2>1, Zenon DEF Init
<1>2. Init => AfterSignal
  BY DEF Init
<1>3. Init => Interval /\ Sessions
  BY DEF Init
<1>. QED
  BY <1>1, <1>2, <1>3 DEF Inv

LEMMA StepInv == Inv /\ [Next]_vars => Inv'
<1> SUFFICES ASSUME Inv, [Next]_vars PROVE Inv'
  OBVIOUS
<1> USE DEF Inv
<1>1. CASE RegisterHandlers
  BY <1>1 DEF RegisterHandlers
<1>2. CASE TestFlag
  BY <1>2 DEF TestFlag
<1>3. CASE OpenSession
  BY <1>3 DEF OpenSession
<1>4. CASE OpenSessionFails
  BY <1>4 DEF OpenSessionFails
<1>5. CASE CloseSession
  BY <1>5 DEF CloseSession
<1>6. CASE AfterTick
  BY <1>6, LoopAssumption DEF AfterTick
<1>7. CASE SleepSlice
  BY <1>7 DEF SleepSlice
<1>8. CASE WakeUp
  BY <1>8 DEF WakeUp
<1>9. CASE Dispose
  BY <1>9 DEF Dispose
<1>10. CASE Signal
  BY <1>10 DEF Signal
<1>11. CASE UNCHANGED vars
  BY <1>11 DEF vars
<1>. QED
  BY <1>1, <1>2, <1>3, <1>4, <1>5, <1>6, <1>7, <1>8, <1>9, <1>10, <1>11 DEF Next, Step

LEMMA Invariance == Spec => []Inv
  BY InitInv, StepInv, PTL DEF Spec

(***************************************************************************)
(* Every variable keeps its type.                                          *)
(***************************************************************************)
THEOREM TypeCorrect == Spec => []TypeOK
<1>1. Inv => TypeOK
  BY DEF Inv
<1>. QED
  BY <1>1, Invariance, PTL

(***************************************************************************)
(* After a signal at most one tick starts, and only if nothing was slept.  *)
(***************************************************************************)
THEOREM SignalStopsTicking == Spec => []StopsTicking
<1>1. Inv => StopsTicking
  BY DEF Inv, StopsTicking
<1>. QED
  BY <1>1, Invariance, PTL

(***************************************************************************)
(* At most the slice under way is slept after a signal.                    *)
(***************************************************************************)
THEOREM SleepsAtMostASlice == Spec => []Responsive
<1>1. Inv => Responsive
  BY DEF Inv, Responsive
<1>. QED
  BY <1>1, Invariance, PTL

(***************************************************************************)
(* Ticks are one interval apart, unless a signal cuts the sleep short.     *)
(***************************************************************************)
THEOREM TicksApart == Spec => []FullInterval
<1>1. Inv => FullInterval
  BY DEF Inv, FullInterval
<1>. QED
  BY <1>1, Invariance, PTL

(***************************************************************************)
(* Each tick closes its session, however it ends.                          *)
(***************************************************************************)
THEOREM TicksClose == Spec => []SessionsClosed
<1>1. Inv => SessionsClosed
  BY DEF Inv, SessionsClosed
<1>. QED
  BY <1>1, Invariance, PTL
=============================================================================
