------------------------------ MODULE MCGasTank ------------------------------
(* Small instance of GasTank: two users, single-digit wei.                  *)
EXTENDS GasTank, TLC

CONSTANTS u1, u2

\* Two users compete for one reserve.
MCUsers == {u1, u2}
UserSymmetry == Permutations(MCUsers)
=============================================================================
