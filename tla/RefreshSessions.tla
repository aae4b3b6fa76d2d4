---------------------------- MODULE RefreshSessions ----------------------------
(***************************************************************************)
(* The identifiers of refresh sessions that AuthSessions (the              *)
(* transactions of the server) and ClientSessions (the clients it answers) *)
(* share.                                                                  *)
(***************************************************************************)
CONSTANTS
  Sessions,    \* identifiers of rows of refresh_sessions
  None         \* an unset field

ASSUME SessionsAssumption == None \notin Sessions

=============================================================================
