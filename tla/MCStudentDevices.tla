-------------------------- MODULE MCStudentDevices --------------------------
(* A small instance of StudentDevices for TLC. *)
EXTENDS StudentDevices, TLC

\* API requests and installations are interchangeable.
Symmetry == Permutations(Tx) \cup Permutations(Installations) \cup Permutations(Requests)

=============================================================================
