----------------------------- MODULE MCHashRing -----------------------------
(***************************************************************************)
(* Instances of HashRing for TLC.                                          *)
(***************************************************************************)
EXTENDS HashRing

NodeSymmetry == Permutations(Nodes)

=============================================================================
