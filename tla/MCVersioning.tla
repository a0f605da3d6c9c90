---------------------------- MODULE MCVersioning ----------------------------
(***************************************************************************)
(* Instances of vector clocks and conflict resolution for TLC.             *)
(***************************************************************************)
EXTENDS Versioning, TLC

CONSTANTS n1, n2, n3

Symmetry == Permutations(Nodes)

=============================================================================
