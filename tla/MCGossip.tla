------------------------------ MODULE MCGossip ------------------------------
(***************************************************************************)
(* Instances of membership, failure detection and gossip for TLC.          *)
(***************************************************************************)
EXTENDS Gossip

CONSTANTS n1, n2, n3

\* n2 and n3 are given the address of n1.
Star == [n \in Nodes |-> IF n = n1 THEN {} ELSE {n1}]

=============================================================================
