---------------------------- MODULE MCEnrollments ----------------------------
(* Small instances of Enrollments for TLC. *)
EXTENDS Enrollments, TLC

MCCourseTenant == [c \in Courses |-> CHOOSE x \in Tenants : x = "academy"]

Symmetry == Permutations(Tokens) \cup Permutations(Txs) \cup Permutations(Enrollments)

=============================================================================
