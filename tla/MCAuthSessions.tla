---------------------------- MODULE MCAuthSessions ----------------------------
(* A small instance of AuthSessions for TLC. *)
EXTENDS AuthSessions, TLC

\* Requests, sessions, reset tokens and passwords are interchangeable.
Symmetry ==
  Permutations(Tx) \cup Permutations(Sessions) \cup Permutations(Resets)
    \cup Permutations(Passwords)

=============================================================================
