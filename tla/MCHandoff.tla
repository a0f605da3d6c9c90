----------------------------- MODULE MCHandoff ------------------------------
(***************************************************************************)
(* Instances of hinted handoff for TLC.                                    *)
(***************************************************************************)
EXTENDS Handoff

CONSTANTS t1, t2, k1, k2

=============================================================================
