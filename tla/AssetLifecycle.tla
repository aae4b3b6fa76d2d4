--------------------------- MODULE AssetLifecycle ---------------------------
(***************************************************************************)
(* What a media asset promises to the lessons that show it: it is being    *)
(* prepared until it is ready or has failed; a failure may still turn into *)
(* success, and ready is for ever.  CoursePublishing assumes no more of    *)
(* its assets (Progress there is Next here).                               *)
(***************************************************************************)

VARIABLE state

Init == state = "preparing"

Next ==
  \/ state = "preparing" /\ state' \in {"ready", "failed"}
  \/ state = "failed" /\ state' = "ready"

Spec == Init /\ [][Next]_state

=============================================================================
