------------------------------ MODULE OneShot ------------------------------
(***************************************************************************)
(* What a stored confirmation promises: the command a user was asked to    *)
(* confirm runs at most once, only after it was accepted, and never when   *)
(* the offer had lapsed before it was accepted.                            *)
(***************************************************************************)
CONSTANT Commands

VARIABLE phase

PhaseInit == phase = [k \in Commands |-> "none"]

Step(k, from, to) == phase[k] = from /\ phase' = [phase EXCEPT ![k] = to]

(***************************************************************************)
(* Several offers may lapse together.                                      *)
(***************************************************************************)
Lapse(S) ==
  /\ \A k \in S : phase[k] = "offered"
  /\ phase' = [k \in Commands |-> IF k \in S THEN "lapsed" ELSE phase[k]]

PhaseNext ==
  \/ \E k \in Commands : \/ Step(k, "none", "offered")
                         \/ Step(k, "offered", "accepted")
                         \/ Step(k, "accepted", "done")
  \/ \E S \in SUBSET Commands : Lapse(S)

OneShotSpec == PhaseInit /\ [][PhaseNext]_phase
=============================================================================
