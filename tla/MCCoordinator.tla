--------------------------- MODULE MCCoordinator ---------------------------
(***************************************************************************)
(* Instances of the replication coordinator for TLC.                       *)
(***************************************************************************)
EXTENDS Coordinator, TLC

CONSTANTS n1, n2, n3

\* The ring meets n1 first.
WalkOrder == [n \in Nodes |-> CASE n = n1 -> 1 [] n = n2 -> 2 [] OTHER -> 3]

\* Every node is registered with every coordinator.
FullMesh == [c \in Nodes |-> Nodes]

\* What main.go registers: the node itself.
SelfOnly == [c \in Nodes |-> {}]

\* n1 has not been registered yet.
Partial == [c \in Nodes |-> Nodes \ {n1}]

\* Requests of one kind are interchangeable.
RequestSymmetry == Permutations(Puts) \cup Permutations(Gets)

=============================================================================
