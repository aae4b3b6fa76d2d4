------------------------------ MODULE ChildList ------------------------------
(***************************************************************************)
(* What a parent promises about its children, whatever the rows look like: *)
(* they are a list, without repetitions.  A child is added at the end and  *)
(* is never removed; archiving only hides it, where it stands.  A reorder  *)
(* rearranges the list in one step, and hides or shows nobody.             *)
(***************************************************************************)
EXTENDS Sequences

CONSTANT Children

VARIABLES
  list,     \* the children in order, archived ones included
  hidden    \* those that are archived

vars == <<list, hidden>>

Members == {list[i] : i \in DOMAIN list}

Init ==
  /\ list = <<>>
  /\ hidden = {}

Add(c) ==
  /\ c \notin Members
  /\ list' = Append(list, c)
  /\ UNCHANGED hidden

\* As many places as before, for the same children.
Rearrange ==
  /\ DOMAIN list' = DOMAIN list
  /\ Members' = Members
  /\ UNCHANGED hidden

Hide(c) ==
  /\ c \in Members \ hidden
  /\ hidden' = hidden \cup {c}
  /\ UNCHANGED list

Show(c) ==
  /\ c \in hidden
  /\ hidden' = hidden \ {c}
  /\ UNCHANGED list

Next ==
  \/ \E c \in Children : Add(c) \/ Hide(c) \/ Show(c)
  \/ Rearrange

Spec == Init /\ [][Next]_vars

=============================================================================
