---------------------------- MODULE MCNaptanLoader ----------------------------
(***************************************************************************)
(* Two workers of NaptanLoader for TLC.                                    *)
(***************************************************************************)
EXTENDS NaptanLoader

CONSTANTS w1, w2
=============================================================================
