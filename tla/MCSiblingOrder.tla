---------------------------- MODULE MCSiblingOrder ----------------------------
(* A small instance of SiblingOrder for TLC. *)
EXTENDS SiblingOrder, TLC

\* Requests and children are interchangeable.
Symmetry == Permutations(Tx) \cup Permutations(Children)

=============================================================================
