------------------------------ MODULE MCQuorum ------------------------------
(***************************************************************************)
(* Instances of QuorumManager for TLC.                                     *)
(***************************************************************************)
EXTENDS QuorumManager, TLC

CONSTANTS w1, w2, w3

WorkerSymmetry == Permutations({w1, w2, w3})

=============================================================================
