-------------------------- MODULE MCServiceDelivery ---------------------------
(***************************************************************************)
(* Values of the constants of ServiceDelivery for TLC.                     *)
(***************************************************************************)
EXTENDS ServiceDelivery, TLC

CONSTANTS k1, k2, k3

KeySymmetry == Permutations(Keys)
=============================================================================
