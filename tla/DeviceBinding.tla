---------------------------- MODULE DeviceBinding ----------------------------
(***************************************************************************)
(* What device authorization promises, whatever the tables look like: a    *)
(* student is bound to no installation until the first one is accepted,    *)
(* then always to exactly one; it moves only to the installation the       *)
(* student asked for, and only when an administrator approves.             *)
(***************************************************************************)

CONSTANTS
  Students, Installations,
  Unbound     \* no installation

VARIABLES
  bound,    \* the installation that may reach protected content
  wanted    \* the installation of the request under review

vars == <<bound, wanted>>

Init ==
  /\ bound = [s \in Students |-> Unbound]
  /\ wanted = [s \in Students |-> Unbound]

\* The first installation is accepted without review.
BindFirst(s, i) ==
  /\ bound[s] = Unbound
  /\ bound' = [bound EXCEPT ![s] = i]
  /\ UNCHANGED wanted

Ask(s, i) ==
  /\ bound[s] \notin {Unbound, i}
  /\ wanted[s] = Unbound
  /\ wanted' = [wanted EXCEPT ![s] = i]
  /\ UNCHANGED bound

Approve(s) ==
  /\ wanted[s] # Unbound
  /\ bound' = [bound EXCEPT ![s] = wanted[s]]
  /\ wanted' = [wanted EXCEPT ![s] = Unbound]

Reject(s) ==
  /\ wanted[s] # Unbound
  /\ wanted' = [wanted EXCEPT ![s] = Unbound]
  /\ UNCHANGED bound

Next ==
  \E s \in Students :
    \/ \E i \in Installations : BindFirst(s, i) \/ Ask(s, i)
    \/ Approve(s)
    \/ Reject(s)

Spec == Init /\ [][Next]_vars

=============================================================================
