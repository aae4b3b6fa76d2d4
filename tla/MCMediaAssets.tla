--------------------------- MODULE MCMediaAssets ---------------------------
(* Small instances of MediaAssets for TLC. *)
EXTENDS MediaAssets

\* Files of different sizes: only the chosen one matches what was declared for it.
MCSizeOf == [f \in Files |-> IF f = "other" THEN 2 ELSE 1]

=============================================================================
