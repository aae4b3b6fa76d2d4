--------------------------- MODULE SessionsProofs ---------------------------
(***************************************************************************)
(* The safety properties of AuthSessions hold for any number of requests,  *)
(* sessions, reset tokens and passwords, and those of ClientSessions for   *)
(* any number of clients, sessions and calls.  The two modules share       *)
(* nothing but the identifiers of sessions: the first part is about the    *)
(* transactions of the server, the second about its clients.               *)
(***************************************************************************)
EXTENDS AuthSessions, ClientSessions, TLAPS

-----------------------------------------------------------------------------
(* The transactions of the server *)

\* A request is of a kind that has the stage it is at; a login has verified a
\* password, and a refresh leaves room for one more token.
KindFits(t) ==
  /\ op[t].kind = "login" => seen[t].password \in Passwords
  /\ op[t].kind = "refresh" => op[t].token < MaxTokens
  /\ CASE pc[t] = "idle" -> op[t] = NoOp
       [] pc[t] = "token" -> op[t].kind \in {"reset", "issue"}
       [] pc[t] = "credential" -> op[t].kind \in {"login", "change", "reset"}
       [] pc[t] = "revoke" -> op[t].kind \in {"change", "reset", "logoutAll"}
       [] pc[t] = "rotate" -> op[t].kind \in {"refresh", "replay", "change"}
       [] OTHER -> op[t].kind # "none"

\* It holds the rows that it has written.
LocksHeld(t) ==
  /\ Replaces(op[t]) /\ pc[t] \in {"revoke", "rotate", "commit"} => credentialLock = t
  /\ pc[t] = "commit" /\ op[t].kind \in {"refresh", "replay", "change"} =>
       sessionLock[op[t].session] = t
  /\ \A s \in seen[t].gone : sessionLock[s] = t
  /\ op[t].kind = "reset" /\ pc[t] \in {"credential", "revoke", "commit"} =>
       resetLock[op[t].reset] = t
  /\ \A r \in seen[t].withdrawn : resetLock[r] = t

\* What it has found of these rows is still so; and since a replacement of the
\* password has found the sessions it revokes, only late logins have joined
\* those that it has revoked and those that it still has to reach.
RowsStand(t) ==
  /\ op[t].session \in Sessions => session[op[t].session].status # "absent"
  /\ pc[t] = "commit" /\ op[t].kind \in {"refresh", "change"} =>
       session[op[t].session].status = "ACTIVE" /\ session[op[t].session].token < MaxTokens
  /\ pc[t] = "commit" /\ op[t].kind = "refresh" => session[op[t].session].token = op[t].token
  /\ \A s \in seen[t].gone : session[s].status = "ACTIVE"
  /\ op[t].kind = "reset" /\ pc[t] \in {"credential", "revoke", "commit"} =>
       reset[op[t].reset] = "OUTSTANDING"
  /\ Replaces(op[t]) /\ pc[t] \in {"rotate", "commit"} =>
       \A s \in Active :
         s \in seen[t].due \cup seen[t].gone \/ s = op[t].session \/ session[s].late

Fits(t) == KindFits(t) /\ LocksHeld(t) /\ RowsStand(t)

IInv == TypeOK /\ StaleSessionsAreLate /\ \A t \in Tx : Fits(t)

\* The steps of a request: its beginning, its statements, its end.
Begins(t) == Login(t) \/ Refresh(t) \/ Change(t) \/ Reset(t) \/ Issue(t) \/ LogoutAll(t)

Reaches(t) ==
  (\E s \in Sessions : RevokeSession(t, s)) \/ (\E r \in Resets : WithdrawReset(t, r))

Executes(t) ==
  \/ WriteCredential(t) \/ WriteSession(t) \/ ConsumeReset(t)
  \/ RevokeSessions(t) \/ WithdrawResets(t) \/ Reaches(t)

Ends(t) ==
  \/ CommitLogin(t) \/ CommitRefresh(t) \/ CommitChange(t) \/ CommitReset(t)
  \/ CommitLogoutAll(t) \/ CommitIssue(t) \/ RefuseDuplicate(t) \/ Rollback(t)

LEMMA Steps ==
  ASSUME Next
  PROVE  \/ \E s \in Sessions : GraceEnds(s) \/ Logout(s)
         \/ \E t \in Tx : Begins(t) \/ Executes(t) \/ Ends(t)
  BY DEF Next, Begins, Reaches, Executes, Ends

LEMMA InitiallyFit == Init => IInv
<1> SUFFICES ASSUME Init PROVE IInv
    OBVIOUS
<1> USE TxAssumption, NoneAssumption, SessionsAssumption, MaxTokensAssumption DEF Init
<1>1. TypeOK
  <2>1. credential \in Credential BY DEF Credential
  <2>2. NoSession \in Session BY DEF Session, NoSession
  <2>3. session \in [Sessions -> Session] /\ \A s \in Sessions : session[s] = NoSession BY <2>2
  <2>4. NoSession.status = "absent" BY DEF NoSession
  <2>5. NothingSeen \in Seen BY DEF Seen, NothingSeen
  <2>6. seen \in [Tx -> Seen] BY <2>5
  <2> QED BY <2>1, <2>3, <2>4, <2>6 DEF TypeOK, ResetStatus, Stage
<1>2. StaleSessionsAreLate BY DEF StaleSessionsAreLate, Active, NoSession
<1>3. \A t \in Tx : Fits(t)
  BY DEF Fits, KindFits, LocksHeld, RowsStand, Replaces, NoOp, NothingSeen
<1> QED BY <1>1, <1>2, <1>3 DEF IInv

-----------------------------------------------------------------------------
(* Types *)

\* The request of a step has the type of its kind.
LEMMA Requests ==
  ASSUME NEW o \in Op \cup {NoOp}
  PROVE  /\ o.kind \in {"none", "login", "issue", "logoutAll", "refresh", "replay", "change", "reset"}
         /\ o.kind \in {"refresh", "replay", "change"} => o.session \in Sessions
         /\ o.kind = "refresh" => o.token \in 1..MaxTokens
         /\ o.kind \in {"change", "reset"} => o.new \in Passwords
         /\ o.kind = "reset" => o.reset \in Resets /\ o.session = None
         /\ o.kind = "none" <=> o = NoOp
  BY DEF Op, NoOp

LEMMA EndTypes ==
  ASSUME TypeOK, NEW t \in Tx, End(t)
  PROVE  /\ credentialLock' \in Tx \cup {NoTx}
         /\ sessionLock' \in [Sessions -> Tx \cup {NoTx}]
         /\ resetLock' \in [Resets -> Tx \cup {NoTx}]
         /\ pc' \in [Tx -> Stage]
         /\ op' \in [Tx -> Op \cup {NoOp}]
         /\ seen' \in [Tx -> Seen]
  BY DEF TypeOK, End, Stage, Seen, NothingSeen

\* What a step may do to the rows of sessions.
SessionTypes(f) ==
  /\ f \in [Sessions -> Session]
  /\ \A s \in Sessions : f[s].status = "absent" <=> f[s] = NoSession

\* A row after a rotation, a rehash after a login, a request that has seen more.
LEMMA RotatedType ==
  ASSUME NEW row \in Session, row.token < MaxTokens, row.status # "absent"
  PROVE  Rotated(row) \in Session /\ Rotated(row).status = row.status
<1>1. row.token + 1 \in 0..MaxTokens BY MaxTokensAssumption DEF Session
<1> QED BY <1>1 DEF Session, Rotated

LEMMA RehashedType ==
  ASSUME credential \in Credential, NEW p \in Passwords
  PROVE  [password |-> p, weak |-> FALSE, undone |-> credential.undone \/ credential.password # p] \in Credential
  BY DEF Credential

LEMMA VerifiedType ==
  ASSUME TypeOK, NEW t \in Tx
  PROVE  [seen EXCEPT ![t].password = credential.password] \in [Tx -> Seen]
<1>1. credential.password \in Passwords /\ seen \in [Tx -> Seen] BY DEF TypeOK, Credential
<1> QED BY <1>1 DEF Seen

\* Replacing the row of one session.
LEMMA ReplacedRow ==
  ASSUME NEW f, SessionTypes(f), NEW s \in Sessions, NEW row \in Session, row.status # "absent"
  PROVE  SessionTypes([f EXCEPT ![s] = row])
<1>1. row # NoSession BY DEF NoSession
<1>2. [f EXCEPT ![s] = row] \in [Sessions -> Session] BY DEF SessionTypes
<1>3. ASSUME NEW u \in Sessions
      PROVE  [f EXCEPT ![s] = row][u] = IF u = s THEN row ELSE f[u]
  BY DEF SessionTypes
<1> QED BY <1>1, <1>2, <1>3 DEF SessionTypes

\* What revoking some sessions leaves of the row of each.
LEMMA RevokedRow ==
  ASSUME session \in [Sessions -> Session], NEW gone, NEW s \in Sessions
  PROVE  /\ Revoked(gone)[s] \in Session /\ Revoked(gone)[s].token = session[s].token
         /\ IF s \in gone THEN Revoked(gone)[s].status = "REVOKED"
                         ELSE Revoked(gone)[s] = session[s]
<1>1. session[s] \in Session OBVIOUS
<1> DEFINE row == [session[s] EXCEPT !.status = "REVOKED", !.password = None, !.late = FALSE]
<1>2. row \in Session /\ row.token = session[s].token /\ row.status = "REVOKED"
  BY <1>1 DEF Session
<1>3. Revoked(gone)[s] = IF s \in gone THEN row ELSE session[s] BY DEF Revoked
<1> HIDE DEF row
<1> QED BY <1>1, <1>2, <1>3

LEMMA RevokedTypes ==
  ASSUME TypeOK, NEW gone \in SUBSET Sessions, \A s \in gone : session[s].status # "absent"
  PROVE  SessionTypes(Revoked(gone))
<1>1. session \in [Sessions -> Session] /\ \A s \in Sessions : session[s].status = "absent" <=> session[s] = NoSession
  BY DEF TypeOK
<1>2. Revoked(gone) \in [Sessions -> Session]
  <2>1. \A s \in Sessions : Revoked(gone)[s] \in Session BY <1>1, RevokedRow
  <2> QED BY <2>1 DEF Revoked
<1>3. ASSUME NEW s \in Sessions
      PROVE  IF s \in gone THEN Revoked(gone)[s].status = "REVOKED"
                           ELSE Revoked(gone)[s] = session[s]
  BY <1>1, RevokedRow
<1>4. NoSession.status = "absent" BY DEF NoSession
<1> QED BY <1>1, <1>2, <1>3, <1>4 DEF SessionTypes

LEMMA StartTypes ==
  ASSUME TypeOK, NEW t \in Tx, NEW o \in Op, NEW stage \in Stage, Start(t, o, stage),
         seen' \in [Tx -> Seen]
  PROVE  TypeOK'
  BY DEF TypeOK, Start, Rows, Locks

LEMMA BeginTypes ==
  ASSUME TypeOK, NEW t \in Tx, Begins(t)
  PROVE  TypeOK'
<1> USE DEF TypeOK
<1>1. CASE Login(t)
  <2>1. [NoOp EXCEPT !.kind = "login"] \in Op BY DEF NoOp, Op
  <2>2. seen' \in [Tx -> Seen] BY <1>1, VerifiedType DEF Login
  <2> QED BY <1>1, <2>1, <2>2, StartTypes DEF Login, Stage
<1>2. CASE Refresh(t)
  <2>1. PICK s \in Active : \E g \in 1..session[s].token : \E kind \in {"refresh", "replay"} :
          Start(t, [NoOp EXCEPT !.kind = kind, !.session = s, !.token = g], "rotate")
    BY <1>2 DEF Refresh
  <2>2. s \in Sessions /\ \A g \in 1..session[s].token : g \in 1..MaxTokens
    BY MaxTokensAssumption DEF Active, Session
  <2>3. \A g \in 1..session[s].token, kind \in {"refresh", "replay"} :
          [NoOp EXCEPT !.kind = kind, !.session = s, !.token = g] \in Op
    BY <2>2 DEF NoOp, Op
  <2> QED BY <1>2, <2>1, <2>3, StartTypes DEF Refresh, Stage
<1>3. CASE Change(t)
  <2>1. PICK s \in Sessions, new \in Passwords :
          Start(t, [NoOp EXCEPT !.kind = "change", !.session = s, !.new = new], "credential")
    BY <1>3 DEF Change
  <2>2. [NoOp EXCEPT !.kind = "change", !.session = s, !.new = new] \in Op BY DEF NoOp, Op
  <2> QED BY <1>3, <2>1, <2>2, StartTypes DEF Change, Stage
<1>4. CASE Reset(t)
  <2>1. PICK r \in Resets, new \in Passwords :
          Start(t, [NoOp EXCEPT !.kind = "reset", !.reset = r, !.new = new], "token")
    BY <1>4 DEF Reset, Outstanding
  <2>2. [NoOp EXCEPT !.kind = "reset", !.reset = r, !.new = new] \in Op BY DEF NoOp, Op
  <2> QED BY <1>4, <2>1, <2>2, StartTypes DEF Reset, Stage
<1>5. CASE Issue(t)
  <2>1. [NoOp EXCEPT !.kind = "issue"] \in Op BY DEF NoOp, Op
  <2> QED BY <1>5, <2>1, StartTypes DEF Issue, Stage
<1>6. CASE LogoutAll(t)
  <2>1. [NoOp EXCEPT !.kind = "logoutAll"] \in Op BY DEF NoOp, Op
  <2> QED BY <1>6, <2>1, StartTypes DEF LogoutAll, Stage
<1> QED BY <1>1, <1>2, <1>3, <1>4, <1>5, <1>6 DEF Begins

LEMMA NotedTypes ==
  ASSUME seen \in [Tx -> Seen], NEW t \in Tx, NEW noted \in Seen
  PROVE  [seen EXCEPT ![t] = noted] \in [Tx -> Seen]
  OBVIOUS

LEMMA StatementTypes ==
  ASSUME TypeOK, NEW t \in Tx,
         Executes(t)
  PROVE  TypeOK'
<1> USE DEF TypeOK, Rows
<1>1. CASE WriteCredential(t) BY <1>1 DEF WriteCredential, Stage
<1>2. CASE WriteSession(t)
  <2>1. sessionLock' \in [Sessions -> Tx \cup {NoTx}] BY <1>2 DEF WriteSession
  <2> QED BY <1>2, <2>1 DEF WriteSession, Stage
<1>3. CASE ConsumeReset(t) BY <1>3 DEF ConsumeReset, Stage
<1>4. CASE RevokeSessions(t)
  <2>1. Doomed(op[t]) \in SUBSET Sessions BY DEF Doomed, Active
  <2>2. [seen[t] EXCEPT !.due = Doomed(op[t])] \in Seen BY <2>1 DEF Seen
  <2>3. seen' = [seen EXCEPT ![t] = [seen[t] EXCEPT !.due = Doomed(op[t])]] BY <1>4 DEF RevokeSessions
  <2>4. seen' \in [Tx -> Seen] BY <2>2, <2>3, NotedTypes
  <2> QED BY <1>4, <2>4 DEF RevokeSessions, Stage, Locks
<1>5. CASE WithdrawResets(t)
  <2>1. Outstanding \in SUBSET Resets BY DEF Outstanding
  <2>2. [seen[t] EXCEPT !.overdue = Outstanding] \in Seen BY <2>1 DEF Seen
  <2>3. seen' = [seen EXCEPT ![t] = [seen[t] EXCEPT !.overdue = Outstanding]] BY <1>5 DEF WithdrawResets
  <2>4. seen' \in [Tx -> Seen] BY <2>2, <2>3, NotedTypes
  <2> QED BY <1>5, <2>4 DEF WithdrawResets, Stage, Locks
<1>6. ASSUME NEW s \in Sessions, RevokeSession(t, s) PROVE TypeOK'
  <2>1. /\ [seen[t] EXCEPT !.due = @ \ {s}, !.gone = @ \cup {s}] \in Seen
        /\ [seen[t] EXCEPT !.due = @ \ {s}] \in Seen
    BY DEF Seen
  <2>2. PICK noted \in Seen : seen' = [seen EXCEPT ![t] = noted] BY <1>6, <2>1 DEF RevokeSession
  <2>3. seen' \in [Tx -> Seen] BY <2>2, NotedTypes
  <2>4. sessionLock' \in [Sessions -> Tx \cup {NoTx}] BY <1>6 DEF RevokeSession
  <2> QED BY <1>6, <2>3, <2>4 DEF RevokeSession
<1>7. ASSUME NEW r \in Resets, WithdrawReset(t, r) PROVE TypeOK'
  <2>1. /\ [seen[t] EXCEPT !.overdue = @ \ {r}, !.withdrawn = @ \cup {r}] \in Seen
        /\ [seen[t] EXCEPT !.overdue = @ \ {r}] \in Seen
    BY DEF Seen
  <2>2. PICK noted \in Seen : seen' = [seen EXCEPT ![t] = noted] BY <1>7, <2>1 DEF WithdrawReset
  <2>3. seen' \in [Tx -> Seen] BY <2>2, NotedTypes
  <2>4. resetLock' \in [Resets -> Tx \cup {NoTx}] BY <1>7 DEF WithdrawReset
  <2> QED BY <1>7, <2>3, <2>4 DEF WithdrawReset
<1> QED BY <1>1, <1>2, <1>3, <1>4, <1>5, <1>6, <1>7 DEF Executes, Reaches

\* The rows that a commit leaves.
LEMMA CommitTypes ==
  ASSUME TypeOK, NEW t \in Tx, Fits(t),
         Ends(t)
  PROVE  TypeOK'
<1> DEFINE o == op[t]
<1>1. o \in Op \cup {NoOp} /\ seen[t] \in Seen /\ credential \in Credential
  BY DEF TypeOK
<1>2. SessionTypes(session) /\ reset \in [Resets -> ResetStatus]
  BY DEF TypeOK, SessionTypes
<1>3. SUFFICES credential' \in Credential /\ SessionTypes(session') /\ reset' \in [Resets -> ResetStatus]
  <2>1. End(t)
    BY DEF Ends, CommitLogin, CommitRefresh, CommitChange, CommitReset, CommitLogoutAll, CommitIssue,
       RefuseDuplicate, Rollback
  <2> QED BY <1>3, <2>1, EndTypes DEF TypeOK, SessionTypes
<1>4. CASE CommitLogin(t)
  <2>1. PICK s \in Sessions :
          session' = [session EXCEPT ![s] =
                        [status |-> "ACTIVE", token |-> 1, recent |-> FALSE, password |-> seen[t].password,
                         late |-> Replacing \/ credential.password # seen[t].password]]
    BY <1>4 DEF CommitLogin
  <2>2. [status |-> "ACTIVE", token |-> 1, recent |-> FALSE, password |-> seen[t].password,
         late |-> Replacing \/ credential.password # seen[t].password] \in Session
    BY <1>1, MaxTokensAssumption DEF Session, Seen, Replacing
  <2>3. SessionTypes(session') BY <1>2, <2>1, <2>2, ReplacedRow
  <2>4. credential' \in Credential
    <3>1. seen[t].password \in Passwords BY <1>4 DEF CommitLogin, Fits, KindFits
    <3> QED BY <1>1, <1>4, <3>1, RehashedType DEF CommitLogin
  <2> QED BY <1>2, <1>4, <2>3, <2>4 DEF CommitLogin
<1>5. CASE CommitRefresh(t)
  <2>1. o.session \in Sessions /\ session[o.session].status # "absent"
    BY <1>1, <1>5, Requests DEF CommitRefresh, Fits, RowsStand
  <2>2. CASE o.kind = "refresh"
    <3>1. session[o.session].token < MaxTokens BY <1>5, <2>2 DEF CommitRefresh, Fits, RowsStand
    <3>2. session[o.session] \in Session BY <1>2, <2>1 DEF SessionTypes
    <3>3. session' = [session EXCEPT ![o.session] = Rotated(session[o.session])]
      BY <1>5, <2>2 DEF CommitRefresh
    <3>4. SessionTypes(session') BY <1>2, <2>1, <3>1, <3>2, <3>3, RotatedType, ReplacedRow
    <3> QED BY <1>1, <1>2, <1>5, <3>4 DEF CommitRefresh
  <2>3. CASE o.kind # "refresh"
    <3>1. SessionTypes(Revoked({o.session})) BY <2>1, RevokedTypes
    <3> QED BY <1>1, <1>2, <1>5, <2>3, <3>1 DEF CommitRefresh
  <2> QED BY <2>2, <2>3
<1>6. CASE CommitChange(t)
  <2>1. /\ o.session \in Sessions /\ o.new \in Passwords
        /\ session[o.session].status = "ACTIVE" /\ session[o.session].token < MaxTokens
    BY <1>1, <1>6, Requests DEF CommitChange, Fits, RowsStand
  <2>2. seen[t].gone \in SUBSET Sessions /\ \A s \in seen[t].gone : session[s].status # "absent"
    BY <1>1 DEF Fits, RowsStand, Seen
  <2>3. SessionTypes(Revoked(seen[t].gone)) BY <2>2, RevokedTypes
  <2> DEFINE row == Revoked(seen[t].gone)[o.session]
  <2>4. row \in Session /\ row.token = session[o.session].token /\ row.status # "absent"
    BY <1>2, <2>1, RevokedRow DEF SessionTypes
  <2> DEFINE kept == [Rotated(row) EXCEPT !.password = o.new, !.late = FALSE]
  <2>5. Rotated(row) \in Session /\ Rotated(row).status # "absent"
    <3> HIDE DEF row
    <3> QED BY <2>1, <2>4, RotatedType
  <2>6. kept \in Session /\ kept.status # "absent"
    BY <2>1, <2>5 DEF Session
  <2>7. session' = [Revoked(seen[t].gone) EXCEPT ![o.session] = kept]
    BY <1>6 DEF CommitChange
  <2>8. SessionTypes(session')
    <3> HIDE DEF kept
    <3> QED BY <2>1, <2>3, <2>6, <2>7, ReplacedRow
  <2> QED BY <1>2, <1>6, <2>1, <2>8 DEF CommitChange, Credential
<1>7. CASE CommitReset(t)
  <2>1. o.new \in Passwords /\ o.reset \in Resets BY <1>1, <1>7, Requests DEF CommitReset
  <2>2. seen[t].gone \in SUBSET Sessions /\ \A s \in seen[t].gone : session[s].status # "absent"
    BY <1>1 DEF Fits, RowsStand, Seen
  <2> QED BY <1>2, <1>7, <2>1, <2>2, RevokedTypes DEF CommitReset, Credential, ResetStatus
<1>8. CASE CommitIssue(t)
  BY <1>1, <1>2, <1>8 DEF CommitIssue, ResetStatus
<1>9. CASE RefuseDuplicate(t) \/ Rollback(t)
  BY <1>1, <1>2, <1>9 DEF RefuseDuplicate, Rollback, Rows
<1>10. CASE CommitLogoutAll(t)
  <2>1. seen[t].gone \in SUBSET Sessions /\ \A s \in seen[t].gone : session[s].status # "absent"
    BY <1>1 DEF Fits, RowsStand, Seen
  <2> QED BY <1>1, <1>2, <1>10, <2>1, RevokedTypes DEF CommitLogoutAll
<1> QED BY <1>4, <1>5, <1>6, <1>7, <1>8, <1>9, <1>10 DEF Ends

LEMMA SingleTypes ==
  ASSUME TypeOK, \E s \in Sessions : GraceEnds(s) \/ Logout(s)
  PROVE  TypeOK'
<1>1. SUFFICES SessionTypes(session')
  BY <1>1 DEF TypeOK, SessionTypes, GraceEnds, Logout, Locks
<1>2. SessionTypes(session) BY DEF TypeOK, SessionTypes
<1>4. ASSUME NEW s \in Sessions, GraceEnds(s) PROVE SessionTypes(session')
  <2>1. session[s] \in Session /\ session[s].status # "absent"
    BY <1>2, <1>4 DEF SessionTypes, NoSession, GraceEnds, Active
  <2>2. [session[s] EXCEPT !.recent = FALSE] \in Session /\ [session[s] EXCEPT !.recent = FALSE].status # "absent"
    BY <2>1 DEF Session
  <2>3. session' = [session EXCEPT ![s] = [session[s] EXCEPT !.recent = FALSE]]
    BY <1>2, <1>4 DEF GraceEnds, SessionTypes
  <2> QED BY <1>2, <2>2, <2>3, ReplacedRow
<1>5. ASSUME NEW s \in Sessions, Logout(s) PROVE SessionTypes(session')
  BY <1>5, RevokedTypes DEF Logout
<1> QED BY <1>4, <1>5

-----------------------------------------------------------------------------
(* Requests beside each other *)

Chosen(u) == Replaces(op[u]) /\ pc[u] \in {"rotate", "commit"}

\* A step leaves request u alone, with all it relies on.
Spared(u) ==
  /\ pc'[u] = pc[u] /\ op'[u] = op[u] /\ seen'[u] = seen[u]
  /\ credentialLock = u => credentialLock' = u
  /\ \A s \in Sessions :
       /\ session[s].status # "absent" => session'[s].status # "absent"
       /\ sessionLock[s] = u => sessionLock'[s] = u
       /\ sessionLock[s] = u /\ session[s].status # "absent" =>
            session'[s].status = session[s].status /\ session'[s].token = session[s].token
       /\ Chosen(u) /\ session'[s].status = "ACTIVE" =>
            session'[s].late \/ (session[s].status = "ACTIVE" /\ ~session[s].late)
  /\ \A r \in Resets : /\ resetLock[r] = u => resetLock'[r] = u
                       /\ resetLock[r] = u /\ reset[r] # "absent" => reset'[r] = reset[r]

LEMMA Undisturbed ==
  ASSUME TypeOK, NEW u \in Tx, Fits(u), Spared(u)
  PROVE  Fits(u)'
<1>1. /\ op[u] \in Op \cup {NoOp} /\ seen[u].gone \subseteq Sessions
      /\ seen[u].withdrawn \subseteq Resets
  BY DEF TypeOK, Seen
<1>2. KindFits(u)' BY DEF Fits, KindFits, Spared
<1>3. /\ op[u].kind \in {"refresh", "replay", "change"} => op[u].session \in Sessions
      /\ op[u].kind = "reset" => op[u].reset \in Resets
  BY <1>1, Requests
<1>4. LocksHeld(u)'
  BY <1>1, <1>3 DEF Fits, LocksHeld, Spared, Replaces
<1>5. RowsStand(u)'
  <2>1. op[u].session \in Sessions => session'[op[u].session].status # "absent"
    BY DEF Fits, RowsStand, Spared
  <2>2. pc[u] = "commit" /\ op[u].kind \in {"refresh", "change"} =>
          /\ session'[op[u].session].status = session[op[u].session].status
          /\ session'[op[u].session].token = session[op[u].session].token
    BY <1>1, <1>3 DEF Fits, LocksHeld, RowsStand, Spared
  <2>3. \A s \in seen[u].gone : session'[s].status = session[s].status
    BY <1>1 DEF Fits, LocksHeld, RowsStand, Spared
  <2>4. op[u].kind = "reset" /\ pc[u] \in {"credential", "revoke", "commit"} =>
          reset'[op[u].reset] = reset[op[u].reset]
    BY <1>1, <1>3 DEF Fits, LocksHeld, RowsStand, Spared
  <2>5. Chosen(u) => \A s \in Active' :
          s \in seen[u].due \cup seen[u].gone \/ s = op[u].session \/ session'[s].late
    BY DEF Fits, RowsStand, Spared, Active, Chosen
  <2> QED BY <2>1, <2>2, <2>3, <2>4, <2>5 DEF Fits, RowsStand, Spared, Chosen, Replaces
<1> QED BY <1>2, <1>4, <1>5 DEF Fits

LEMMA StartSpares ==
  ASSUME TypeOK, NEW t \in Tx, NEW u \in Tx \ {t},
         Begins(t)
  PROVE  Spared(u)
<1>1. \E o, stage : Start(t, o, stage)
  BY DEF Begins, Login, Refresh, Change, Reset, Issue, LogoutAll
<1>2. seen'[u] = seen[u]
  BY DEF Begins, Login, Refresh, Change, Reset, Issue, LogoutAll, TypeOK
<1> QED BY <1>1, <1>2 DEF Start, TypeOK, Spared, Rows, Locks

LEMMA StatementSpares ==
  ASSUME TypeOK, NEW t \in Tx, NEW u \in Tx \ {t},
         Executes(t)
  PROVE  Spared(u)
<1>1. UNCHANGED Rows /\ pc'[u] = pc[u] /\ op'[u] = op[u] /\ seen'[u] = seen[u]
  BY DEF TypeOK, Executes, Reaches, WriteCredential, WriteSession, ConsumeReset, RevokeSessions,
     WithdrawResets, RevokeSession, WithdrawReset
<1>2. credentialLock = u => credentialLock' = u
  BY TxAssumption DEF Executes, Reaches, WriteCredential, WriteSession, ConsumeReset, RevokeSessions,
     WithdrawResets, RevokeSession, WithdrawReset, Locks
<1>3. \A s \in Sessions : sessionLock[s] = u => sessionLock'[s] = u
  BY TxAssumption DEF TypeOK, Executes, Reaches, WriteCredential, WriteSession, ConsumeReset,
     RevokeSessions, WithdrawResets, RevokeSession, WithdrawReset, Locks
<1>4. \A r \in Resets : resetLock[r] = u => resetLock'[r] = u
  BY TxAssumption DEF TypeOK, Executes, Reaches, WriteCredential, WriteSession, ConsumeReset,
     RevokeSessions, WithdrawResets, RevokeSession, WithdrawReset, Locks
<1> QED BY <1>1, <1>2, <1>3, <1>4 DEF Spared, Rows

\* The end of a request gives back what it held, and nothing else.
LEMMA EndSpares ==
  ASSUME TypeOK, NEW t \in Tx, NEW u \in Tx \ {t}, End(t)
  PROVE  /\ pc'[u] = pc[u] /\ op'[u] = op[u] /\ seen'[u] = seen[u]
         /\ credentialLock = u => credentialLock' = u
         /\ \A s \in Sessions : sessionLock[s] = u => sessionLock'[s] = u
         /\ \A r \in Resets : resetLock[r] = u => resetLock'[r] = u
  BY DEF TypeOK, End

LEMMA CommitSpares ==
  ASSUME TypeOK, NEW t \in Tx, NEW u \in Tx \ {t}, Fits(t), Fits(u),
         Ends(t)
  PROVE  Spared(u)
<1> DEFINE o == op[t]
           Sessions_ == \A s \in Sessions :
             /\ session[s].status # "absent" => session'[s].status # "absent"
             /\ sessionLock[s] = u /\ session[s].status # "absent" =>
                  session'[s].status = session[s].status /\ session'[s].token = session[s].token
             /\ Chosen(u) /\ session'[s].status = "ACTIVE" =>
                  session'[s].late \/ (session[s].status = "ACTIVE" /\ ~session[s].late)
           Resets_ == \A r \in Resets : resetLock[r] = u /\ reset[r] # "absent" => reset'[r] = reset[r]
<1>1. o \in Op \cup {NoOp} /\ seen[t].gone \subseteq Sessions /\ seen[t].withdrawn \subseteq Resets
  BY DEF TypeOK, Seen
<1>2. session \in [Sessions -> Session] /\ reset \in [Resets -> ResetStatus] /\ (Chosen(u) => credentialLock = u)
  BY DEF TypeOK, Fits, LocksHeld, Chosen
<1>3. SUFFICES Sessions_ /\ Resets_
  <2>1. End(t)
    BY DEF Ends, CommitLogin, CommitRefresh, CommitChange, CommitReset, CommitLogoutAll, CommitIssue,
       RefuseDuplicate, Rollback
  <2> QED BY <1>3, <2>1, EndSpares DEF Spared
<1>4. \A s \in seen[t].gone : sessionLock[s] = t /\ session[s].status = "ACTIVE"
  BY DEF Fits, LocksHeld, RowsStand
<1>5. CASE CommitLogin(t)
  <2>1. PICK s \in Sessions :
          /\ session[s].status = "absent"
          /\ session' = [session EXCEPT ![s] =
                           [status |-> "ACTIVE", token |-> 1, recent |-> FALSE, password |-> seen[t].password,
                            late |-> Replacing \/ credential.password # seen[t].password]]
    BY <1>5 DEF CommitLogin
  <2>2. Sessions_ BY <1>2, <2>1 DEF Chosen, Replacing
  <2> QED BY <1>5, <2>2 DEF CommitLogin
<1>6. CASE CommitRefresh(t)
  <2>1. sessionLock[o.session] = t /\ o.session \in Sessions
    BY <1>1, <1>6, Requests DEF CommitRefresh, Fits, LocksHeld
  <2>2. CASE o.kind = "refresh"
    <3>1. session' = [session EXCEPT ![o.session] = Rotated(session[o.session])] /\ reset' = reset
      BY <1>6, <2>2 DEF CommitRefresh
    <3>2. session[o.session] \in Session BY <1>2, <2>1
    <3>3. /\ Rotated(session[o.session]).status = session[o.session].status
          /\ Rotated(session[o.session]).late = session[o.session].late
      BY <3>2 DEF Session, Rotated
    <3> QED BY <1>2, <2>1, <3>1, <3>3
  <2>3. CASE o.kind # "refresh"
    <3>1. session' = Revoked({o.session}) /\ reset' = reset BY <1>6, <2>3 DEF CommitRefresh
    <3> QED BY <1>2, <2>1, <3>1, RevokedRow
  <2> QED BY <2>2, <2>3
<1>7. CASE CommitChange(t)
  <2>1. /\ sessionLock[o.session] = t /\ o.session \in Sessions /\ credentialLock = t
        /\ session[o.session].status = "ACTIVE"
    BY <1>1, <1>7, Requests DEF CommitChange, Fits, LocksHeld, RowsStand, Replaces
  <2>2. ~Chosen(u) BY <1>2, <2>1
  <2>3. ASSUME NEW s \in Sessions
        PROVE  /\ session'[s].status = IF s \in seen[t].gone THEN "REVOKED" ELSE session[s].status
               /\ s # o.session => session'[s].token = session[s].token
    <3> DEFINE f == Revoked(seen[t].gone)
    <3>1. /\ f \in [Sessions -> Session] /\ f[s].token = session[s].token
          /\ f[s].status = IF s \in seen[t].gone THEN "REVOKED" ELSE session[s].status
      BY <1>2 DEF Revoked, Session
    <3>2. session' = [f EXCEPT ![o.session] = [Rotated(f[o.session]) EXCEPT !.password = o.new, !.late = FALSE]]
      BY <1>7 DEF CommitChange
    <3> HIDE DEF f
    <3> QED BY <2>1, <3>1, <3>2, SMTT(30) DEF Session, Rotated
  <2>4. Sessions_ BY <1>4, <2>1, <2>2, <2>3
  <2> QED BY <1>7, <2>4 DEF CommitChange
<1>8. CASE CommitReset(t)
  <2>1. resetLock[o.reset] = t /\ o.reset \in Resets /\ credentialLock = t
    BY <1>1, <1>8, Requests DEF CommitReset, Fits, LocksHeld, Replaces
  <2>2. ~Chosen(u) BY <1>2, <2>1
  <2> QED BY <1>2, <1>4, <1>8, <2>1, <2>2 DEF CommitReset, Revoked, Session
<1>9. CASE CommitIssue(t)
  <2>1. \A r \in seen[t].withdrawn : resetLock[r] = t BY DEF Fits, LocksHeld
  <2>2. PICK new \in Resets :
          /\ reset[new] = "absent"
          /\ reset' = [r \in Resets |-> IF r = new THEN "OUTSTANDING"
                                        ELSE IF r \in seen[t].withdrawn THEN "REVOKED" ELSE reset[r]]
    BY <1>9 DEF CommitIssue
  <2> QED BY <1>2, <1>9, <2>1, <2>2 DEF CommitIssue
<1>10. CASE RefuseDuplicate(t) \/ Rollback(t)
  BY <1>2, <1>10 DEF RefuseDuplicate, Rollback, Rows
<1>11. CASE CommitLogoutAll(t)
  <2>1. session' = Revoked(seen[t].gone) /\ reset' = reset BY <1>11 DEF CommitLogoutAll
  <2>2. \A s \in seen[t].gone : sessionLock[s] # u BY <1>4
  <2>3. Sessions_ BY <1>2, <2>1, <2>2, RevokedRow
  <2> QED BY <2>1, <2>3
<1> QED BY <1>5, <1>6, <1>7, <1>8, <1>9, <1>10, <1>11 DEF Ends

LEMMA SingleSpares ==
  ASSUME TypeOK, NEW u \in Tx, \E s \in Sessions : GraceEnds(s) \/ Logout(s)
  PROVE  Spared(u)
<1> USE TxAssumption DEF TypeOK, Session, Spared, Locks
<1>2. ASSUME NEW s \in Sessions, GraceEnds(s) PROVE Spared(u)
  BY <1>2 DEF GraceEnds, Active
<1>3. ASSUME NEW s \in Sessions, Logout(s) PROVE Spared(u)
  <2>1. /\ session' = Revoked({s}) /\ sessionLock[s] = NoTx /\ session[s].status # "absent"
        /\ UNCHANGED <<credential, reset, Locks, pc, op, seen>>
    BY <1>3 DEF Logout
  <2>2. ASSUME NEW x \in Sessions
        PROVE  IF x = s THEN session'[x].status = "REVOKED" ELSE session'[x] = session[x]
    BY <2>1, RevokedRow
  <2>3. sessionLock[s] # u BY <2>1
  <2> QED BY <2>1, <2>2, <2>3
<1> QED BY <1>2, <1>3

-----------------------------------------------------------------------------
(* A request's own steps *)

\* A request that starts has nothing to rely on but the session that it names.
LEMMA StartFits ==
  ASSUME TypeOK, NEW t \in Tx, Fits(t), NEW o \in Op, NEW stage, Start(t, o, stage),
         seen' = seen \/ seen' = [seen EXCEPT ![t].password = credential.password],
         o.kind = "login" => seen' # seen \/ seen[t].password \in Passwords,
         o.kind = "refresh" => o.token < MaxTokens,
         \/ stage = "token" /\ o.kind \in {"reset", "issue"}
         \/ stage = "credential" /\ o.kind \in {"login", "change"}
         \/ stage = "rotate" /\ o.kind \in {"refresh", "replay"}
         \/ stage = "commit" /\ o.kind = "login"
         \/ stage = "revoke" /\ o.kind = "logoutAll",
         o.session \in Sessions => session[o.session].status # "absent"
  PROVE  Fits(t)'
<1>1. op'[t] = o /\ pc'[t] = stage /\ UNCHANGED Rows /\ UNCHANGED Locks BY DEF Start, TypeOK
<1>2. seen'[t].gone = seen[t].gone /\ seen'[t].withdrawn = seen[t].withdrawn BY DEF TypeOK, Seen
<1>3. seen' # seen => seen'[t].password \in Passwords BY DEF TypeOK, Seen, Credential
<1>4. KindFits(t)' BY <1>1, <1>3 DEF KindFits
<1>5. LocksHeld(t)' BY <1>1, <1>2 DEF Fits, LocksHeld, Replaces, Locks
<1>6. RowsStand(t)' BY <1>1, <1>2 DEF Fits, RowsStand, Replaces, Rows
<1> QED BY <1>4, <1>5, <1>6 DEF Fits

LEMMA BeginFits ==
  ASSUME TypeOK, NEW t \in Tx, Fits(t),
         Begins(t)
  PROVE  Fits(t)'
<1>1. CASE Login(t)
  <2> DEFINE o == [NoOp EXCEPT !.kind = "login"]
  <2>1. o \in Op /\ o.kind = "login" /\ o.session = None BY DEF NoOp, Op
  <2>2. seen' = [seen EXCEPT ![t].password = credential.password] BY <1>1 DEF Login
  <2>3. seen' = seen => seen[t].password \in Passwords
    BY <2>2 DEF TypeOK, Seen, Credential
  <2>4. Start(t, o, "credential") \/ Start(t, o, "commit") BY <1>1 DEF Login
  <2> HIDE DEF o
  <2> QED BY <2>1, <2>2, <2>3, <2>4, StartFits, NoneAssumption, SessionsAssumption
<1>2. CASE Refresh(t)
  <2>1. PICK s \in Active : \E g \in 1..session[s].token : \E kind \in {"refresh", "replay"} :
          /\ kind = "refresh" => g < MaxTokens
          /\ Start(t, [NoOp EXCEPT !.kind = kind, !.session = s, !.token = g], "rotate")
    BY <1>2 DEF Refresh
  <2>2. PICK g \in 1..session[s].token, kind \in {"refresh", "replay"} :
          /\ kind = "refresh" => g < MaxTokens
          /\ Start(t, [NoOp EXCEPT !.kind = kind, !.session = s, !.token = g], "rotate")
    BY <2>1
  <2> DEFINE o == [NoOp EXCEPT !.kind = kind, !.session = s, !.token = g]
  <2>3. s \in Sessions /\ g \in 1..MaxTokens /\ session[s].status = "ACTIVE"
    BY MaxTokensAssumption DEF Active, Session, TypeOK
  <2>4. o \in Op /\ o.kind = kind /\ o.session = s /\ o.token = g BY <2>3 DEF NoOp, Op
  <2>5. Start(t, o, "rotate") /\ seen' = seen BY <1>2, <2>2 DEF Refresh
  <2> HIDE DEF o
  <2> QED BY <2>2, <2>3, <2>4, <2>5, StartFits
<1>3. CASE Change(t)
  <2>1. PICK s \in Sessions, new \in Passwords :
          /\ session[s].status # "absent"
          /\ Start(t, [NoOp EXCEPT !.kind = "change", !.session = s, !.new = new], "credential")
    BY <1>3 DEF Change
  <2> DEFINE o == [NoOp EXCEPT !.kind = "change", !.session = s, !.new = new]
  <2>2. o \in Op /\ o.kind = "change" /\ o.session = s BY DEF NoOp, Op
  <2>3. Start(t, o, "credential") /\ seen' = seen BY <1>3, <2>1 DEF Change
  <2> HIDE DEF o
  <2> QED BY <2>1, <2>2, <2>3, StartFits
<1>4. CASE Reset(t)
  <2>1. PICK r \in Resets, new \in Passwords :
          Start(t, [NoOp EXCEPT !.kind = "reset", !.reset = r, !.new = new], "token")
    BY <1>4 DEF Reset, Outstanding
  <2> DEFINE o == [NoOp EXCEPT !.kind = "reset", !.reset = r, !.new = new]
  <2>2. o \in Op /\ o.kind = "reset" /\ o.session = None BY DEF NoOp, Op
  <2>3. Start(t, o, "token") /\ seen' = seen BY <1>4, <2>1 DEF Reset
  <2> HIDE DEF o
  <2> QED BY <2>2, <2>3, StartFits, NoneAssumption, SessionsAssumption
<1>5. CASE Issue(t)
  <2> DEFINE o == [NoOp EXCEPT !.kind = "issue"]
  <2>1. o \in Op /\ o.kind = "issue" /\ o.session = None BY DEF NoOp, Op
  <2>2. Start(t, o, "token") /\ seen' = seen BY <1>5 DEF Issue
  <2> HIDE DEF o
  <2> QED BY <2>1, <2>2, StartFits, NoneAssumption, SessionsAssumption
<1>6. CASE LogoutAll(t)
  <2> DEFINE o == [NoOp EXCEPT !.kind = "logoutAll"]
  <2>1. o \in Op /\ o.kind = "logoutAll" /\ o.session = None BY DEF NoOp, Op
  <2>2. Start(t, o, "revoke") /\ seen' = seen BY <1>6 DEF LogoutAll
  <2> HIDE DEF o
  <2> QED BY <2>1, <2>2, StartFits, NoneAssumption, SessionsAssumption
<1> QED BY <1>1, <1>2, <1>3, <1>4, <1>5, <1>6 DEF Begins

LEMMA StatementFits ==
  ASSUME TypeOK, NEW t \in Tx, Fits(t),
         Executes(t)
  PROVE  Fits(t)'
<1>1. op[t] \in Op \cup {NoOp} /\ seen[t].gone \subseteq Sessions /\ seen[t].withdrawn \subseteq Resets
  BY DEF TypeOK, Seen
<1>2. /\ op[t].kind \in {"none", "login", "issue", "logoutAll", "refresh", "replay", "change", "reset"}
      /\ op[t].kind \in {"refresh", "replay", "change"} => op[t].session \in Sessions
      /\ op[t].kind = "refresh" => op[t].token \in 1..MaxTokens
      /\ op[t].kind = "reset" => op[t].reset \in Resets /\ op[t].session = None
      /\ op[t].kind = "none" <=> op[t] = NoOp
  BY <1>1, Requests
<1> USE DEF TypeOK, Rows, Fits
<1>3. CASE WriteCredential(t)
  BY <1>1, <1>2, <1>3 DEF WriteCredential, KindFits, LocksHeld, RowsStand, Replaces
<1>4. CASE WriteSession(t)
  <2>1. KindFits(t)' BY <1>2, <1>4 DEF WriteSession, KindFits
  <2>2. LocksHeld(t)' BY <1>1, <1>2, <1>4 DEF WriteSession, KindFits, LocksHeld, Replaces
  <2>3. RowsStand(t)'
    BY <1>1, <1>2, <1>4 DEF WriteSession, KindFits, RowsStand, StillPresented, Usable, Replaces, Active, Session
  <2> QED BY <2>1, <2>2, <2>3
<1>5. CASE ConsumeReset(t)
  BY <1>1, <1>2, <1>5 DEF ConsumeReset, Consumable, KindFits, LocksHeld, RowsStand, Replaces
<1>6. CASE RevokeSessions(t)
  <2>1. KindFits(t)' BY <1>2, <1>6 DEF RevokeSessions, KindFits
  <2>2. /\ seen'[t].due = Doomed(op[t]) /\ seen'[t].gone = seen[t].gone
        /\ seen'[t].withdrawn = seen[t].withdrawn
    BY <1>6 DEF RevokeSessions, Seen
  <2>3. LocksHeld(t)' BY <1>1, <1>2, <1>6, <2>2 DEF RevokeSessions, KindFits, LocksHeld, Replaces, Locks
  <2>4. RowsStand(t)'
    BY <1>1, <1>2, <1>6, <2>2 DEF RevokeSessions, KindFits, RowsStand, Replaces, Doomed, Active
  <2> QED BY <2>1, <2>3, <2>4
<1>7. CASE WithdrawResets(t)
  <2>1. seen'[t].gone = seen[t].gone /\ seen'[t].withdrawn = seen[t].withdrawn
    BY <1>7 DEF WithdrawResets, Seen
  <2> QED BY <1>1, <1>2, <1>7, <2>1 DEF WithdrawResets, KindFits, LocksHeld, RowsStand, Replaces, Locks
<1>8. ASSUME NEW s \in Sessions, RevokeSession(t, s) PROVE Fits(t)'
  <2>1. /\ UNCHANGED <<Rows, credentialLock, resetLock>> /\ pc'[t] = pc[t] /\ op'[t] = op[t]
        /\ seen'[t].password = seen[t].password /\ seen'[t].withdrawn = seen[t].withdrawn
        /\ seen'[t].due = seen[t].due \ {s}
    BY <1>8 DEF RevokeSession, Seen
  <2>2. KindFits(t)' BY <2>1 DEF KindFits
  <2>3. CASE s \in Active
    <3>1. seen'[t].gone = seen[t].gone \cup {s} /\ sessionLock' = [sessionLock EXCEPT ![s] = t]
      BY <1>8, <2>3 DEF RevokeSession, Seen
    <3>2. LocksHeld(t)' BY <1>1, <1>2, <2>1, <3>1 DEF LocksHeld
    <3>3. RowsStand(t)' BY <1>1, <2>1, <2>3, <3>1 DEF RowsStand, Active
    <3> QED BY <2>2, <3>2, <3>3
  <2>4. CASE s \notin Active
    <3>1. seen'[t].gone = seen[t].gone /\ sessionLock' = sessionLock
      BY <1>8, <2>4 DEF RevokeSession, Seen
    <3>2. LocksHeld(t)' BY <2>1, <3>1 DEF LocksHeld
    <3>3. RowsStand(t)' BY <1>1, <2>1, <2>4, <3>1 DEF RowsStand, Active
    <3> QED BY <2>2, <3>2, <3>3
  <2> QED BY <2>3, <2>4
<1>9. ASSUME NEW r \in Resets, WithdrawReset(t, r) PROVE Fits(t)'
  <2>1. /\ UNCHANGED <<Rows, credentialLock, sessionLock>> /\ pc'[t] = pc[t] /\ op'[t] = op[t]
        /\ seen'[t].password = seen[t].password /\ seen'[t].gone = seen[t].gone
        /\ seen'[t].due = seen[t].due
        /\ seen'[t].withdrawn \subseteq seen[t].withdrawn \cup {r}
        /\ seen'[t].withdrawn = seen[t].withdrawn \/ resetLock'[r] = t
        /\ \A x \in Resets : resetLock[x] = t => resetLock'[x] = t
    BY <1>9 DEF WithdrawReset, Seen
  <2>2. KindFits(t)' BY <2>1 DEF KindFits
  <2>3. LocksHeld(t)' BY <1>1, <1>2, <2>1 DEF LocksHeld
  <2>4. RowsStand(t)' BY <2>1 DEF RowsStand, Active
  <2> QED BY <2>2, <2>3, <2>4
<1> QED BY <1>3, <1>4, <1>5, <1>6, <1>7, <1>8, <1>9 DEF Executes, Reaches

LEMMA EndFits ==
  ASSUME TypeOK, NEW t \in Tx, End(t)
  PROVE  Fits(t)'
<1>1. op'[t] = NoOp /\ pc'[t] = "idle" /\ seen'[t] = NothingSeen BY DEF TypeOK, End
<1> QED
  BY <1>1, NoneAssumption, SessionsAssumption DEF Fits, KindFits, LocksHeld, RowsStand, Replaces, NoOp, NothingSeen

-----------------------------------------------------------------------------
(* Sessions and the password *)

\* Only an end of a request writes to the sessions or the password.
LEMMA StepsWithoutRows ==
  ASSUME NEW t \in Tx, Begins(t) \/ Executes(t) \/ CommitIssue(t) \/ RefuseDuplicate(t) \/ Rollback(t)
  PROVE  UNCHANGED <<credential, session>>
<1>1. CASE Begins(t)
  <2>1. \E o, stage : Start(t, o, stage)
    BY <1>1 DEF Begins, Login, Refresh, Change, Reset, Issue, LogoutAll
  <2> QED BY <2>1 DEF Start, Rows
<1>2. CASE Executes(t)
  BY <1>2 DEF Executes, Reaches, WriteCredential, WriteSession, ConsumeReset, RevokeSessions,
     WithdrawResets, RevokeSession, WithdrawReset, Rows
<1>3. CASE CommitIssue(t) \/ RefuseDuplicate(t) \/ Rollback(t)
  BY <1>3 DEF CommitIssue, RefuseDuplicate, Rollback, Rows
<1> QED BY <1>1, <1>2, <1>3

LEMMA OnlyLateOnesStay ==
  ASSUME IInv, Next
  PROVE  StaleSessionsAreLate'
<1> DEFINE Unchanged == UNCHANGED credential /\
             \A s \in Active' : s \in Active /\ session'[s].late = session[s].late
                                             /\ session'[s].password = session[s].password
<1>1. Unchanged => StaleSessionsAreLate' BY DEF IInv, StaleSessionsAreLate
<1>2. TypeOK /\ StaleSessionsAreLate /\ \A t \in Tx : Fits(t) BY DEF IInv
<1>3. session \in [Sessions -> Session] /\ credential \in Credential BY <1>2 DEF TypeOK
<1>4. CASE \E s \in Sessions : GraceEnds(s) \/ Logout(s)
  <2>1. ASSUME NEW s \in Sessions, GraceEnds(s) PROVE Unchanged
    BY <1>3, <2>1 DEF GraceEnds, Active, Session
  <2>2. ASSUME NEW s \in Sessions, Logout(s) PROVE Unchanged
    BY <1>3, <2>2, RevokedRow DEF Logout, Active
  <2> QED BY <1>1, <1>4, <2>1, <2>2
<1>5. ASSUME NEW t \in Tx, CommitLogin(t) PROVE StaleSessionsAreLate'
  <2>1. PICK s \in Sessions :
          /\ session[s].status = "absent"
          /\ session' = [session EXCEPT ![s] =
                           [status |-> "ACTIVE", token |-> 1, recent |-> FALSE, password |-> seen[t].password,
                            late |-> Replacing \/ credential.password # seen[t].password]]
    BY <1>5 DEF CommitLogin
  <2>2. CASE credentialLock = t
    BY <1>2, <1>3, <1>5, <2>1, <2>2 DEF CommitLogin, StaleSessionsAreLate, Active, Credential
  <2>3. CASE credentialLock # t
    BY <1>2, <1>3, <1>5, <2>1, <2>3 DEF CommitLogin, StaleSessionsAreLate, Active
  <2> QED BY <2>2, <2>3
<1>6. ASSUME NEW t \in Tx, CommitRefresh(t) PROVE StaleSessionsAreLate'
  <2>1. op[t].session \in Sessions /\ (op[t].kind = "refresh" => session[op[t].session].status = "ACTIVE")
    BY <1>2, <1>6, Requests DEF CommitRefresh, TypeOK, Fits, RowsStand
  <2>2. CASE op[t].kind = "refresh"
    <3>1. session' = [session EXCEPT ![op[t].session] = Rotated(session[op[t].session])]
          /\ credential' = credential
      BY <1>6, <2>2 DEF CommitRefresh
    <3>2. session[op[t].session] \in Session BY <1>3, <2>1
    <3>3. LET row == session[op[t].session]
          IN  /\ Rotated(row).status = row.status /\ Rotated(row).late = row.late
              /\ Rotated(row).password = row.password
      BY <3>2 DEF Session, Rotated
    <3>4. Unchanged BY <1>3, <2>1, <3>1, <3>3 DEF Active
    <3> QED BY <1>1, <3>4
  <2>3. CASE op[t].kind # "refresh"
    <3>1. session' = Revoked({op[t].session}) /\ credential' = credential BY <1>6, <2>3 DEF CommitRefresh
    <3>2. Unchanged BY <1>3, <3>1, RevokedRow DEF Active
    <3> QED BY <1>1, <3>2
  <2> QED BY <2>2, <2>3
<1>7. ASSUME NEW t \in Tx, CommitChange(t) PROVE StaleSessionsAreLate'
  <2> DEFINE f == Revoked(seen[t].gone)
             o == op[t]
  <2>1. o.session \in Sessions
    BY <1>2, <1>7, Requests DEF CommitChange, TypeOK
  <2>2. \A s \in Active : s \in seen[t].gone \/ s = o.session \/ session[s].late
    BY <1>2, <1>7 DEF CommitChange, RevokedAll, Fits, RowsStand, Replaces
  <2>3. /\ f \in [Sessions -> Session]
        /\ \A s \in Sessions : /\ s \in seen[t].gone => f[s].status = "REVOKED"
                               /\ s \notin seen[t].gone => f[s] = session[s]
    <3>1. f \in [Sessions -> Session]
      <4>1. \A s \in Sessions : f[s] \in Session BY <1>3, RevokedRow
      <4> QED BY <4>1 DEF Revoked
    <3> QED BY <1>3, <3>1, RevokedRow
  <2>4. session' = [f EXCEPT ![o.session] = [Rotated(f[o.session]) EXCEPT !.password = o.new, !.late = FALSE]]
    BY <1>7 DEF CommitChange
  <2>5. credential' = [password |-> o.new, weak |-> FALSE, undone |-> FALSE] BY <1>7 DEF CommitChange
  <2>6. ASSUME NEW s \in Active' PROVE session'[s].late \/ session'[s].password = o.new
    <3> HIDE DEF f
    <3> QED BY <2>1, <2>2, <2>3, <2>4, <2>6, SMTT(30) DEF Active, Session, Rotated
  <2> QED BY <2>5, <2>6 DEF StaleSessionsAreLate
<1>8. ASSUME NEW t \in Tx, CommitReset(t) PROVE StaleSessionsAreLate'
  <2>1. \A s \in Active : s \in seen[t].gone \/ s = op[t].session \/ session[s].late
    BY <1>2, <1>8 DEF CommitReset, RevokedAll, Fits, RowsStand, Replaces
  <2>2. op[t].session = None BY <1>2, <1>8, Requests DEF CommitReset, TypeOK
  <2>3. \A s \in Active' : s \in Active \ seen[t].gone /\ session'[s] = session[s]
    BY <1>3, <1>8, RevokedRow DEF CommitReset, Active
  <2> QED BY <2>1, <2>2, <2>3, NoneAssumption, SessionsAssumption DEF StaleSessionsAreLate, Active
<1>9. ASSUME NEW t \in Tx, CommitLogoutAll(t) PROVE StaleSessionsAreLate'
  <2>1. Unchanged BY <1>3, <1>9, RevokedRow DEF CommitLogoutAll, Active
  <2> QED BY <1>1, <2>1
<1>10. ASSUME NEW t \in Tx, Begins(t) \/ Executes(t) \/ CommitIssue(t) \/ RefuseDuplicate(t) \/ Rollback(t)
       PROVE  StaleSessionsAreLate'
  <2>1. UNCHANGED <<credential, session>> BY <1>10, StepsWithoutRows
  <2> QED BY <1>1, <2>1 DEF Active
<1> QED BY <1>4, <1>5, <1>6, <1>7, <1>8, <1>9, <1>10, Steps DEF Ends

-----------------------------------------------------------------------------
(* The inductive invariant *)

LEMMA StepKeepsInvariant ==
  ASSUME IInv, Next
  PROVE  IInv'
<1>1. TypeOK /\ \A t \in Tx : Fits(t) BY DEF IInv
<1>2. StaleSessionsAreLate' BY OnlyLateOnesStay
<1>3. SUFFICES TypeOK' /\ \A u \in Tx : Fits(u)'
  BY <1>2, <1>3 DEF IInv
<1>4. CASE \E s \in Sessions : GraceEnds(s) \/ Logout(s)
  BY <1>1, <1>4, SingleTypes, SingleSpares, Undisturbed
<1>5. ASSUME NEW t \in Tx, Begins(t)
      PROVE  TypeOK' /\ \A u \in Tx : Fits(u)'
  <2>1. TypeOK' BY <1>1, <1>5, BeginTypes
  <2>2. \A u \in Tx \ {t} : Fits(u)' BY <1>1, <1>5, StartSpares, Undisturbed
  <2>3. Fits(t)' BY <1>1, <1>5, BeginFits
  <2> QED BY <2>1, <2>2, <2>3
<1>6. ASSUME NEW t \in Tx, Executes(t)
      PROVE  TypeOK' /\ \A u \in Tx : Fits(u)'
  <2>1. TypeOK' BY <1>1, <1>6, StatementTypes
  <2>2. \A u \in Tx \ {t} : Fits(u)' BY <1>1, <1>6, StatementSpares, Undisturbed
  <2>3. Fits(t)' BY <1>1, <1>6, StatementFits
  <2> QED BY <2>1, <2>2, <2>3
<1>7. ASSUME NEW t \in Tx, Ends(t)
      PROVE  TypeOK' /\ \A u \in Tx : Fits(u)'
  <2>1. TypeOK' BY <1>1, <1>7, CommitTypes
  <2>2. \A u \in Tx \ {t} : Fits(u)' BY <1>1, <1>7, CommitSpares, Undisturbed
  <2>3. End(t)
    BY <1>7 DEF Ends, CommitLogin, CommitRefresh, CommitChange, CommitReset, CommitLogoutAll, CommitIssue,
       RefuseDuplicate, Rollback
  <2>4. Fits(t)' BY <1>1, <2>3, EndFits
  <2> QED BY <2>1, <2>2, <2>4
<1> QED BY <1>4, <1>5, <1>6, <1>7, Steps

\* The inductive invariant of sessions and passwords: a request holds what it
\* has written, and finds it at its commit as it left it.
THEOREM SessionInvariance == Spec => []IInv
<1>1. IInv /\ [Next]_vars => IInv'
  <2> SUFFICES ASSUME IInv, [Next]_vars PROVE IInv'
      OBVIOUS
  <2>1. CASE Next BY <2>1, StepKeepsInvariant
  <2>2. CASE UNCHANGED vars
    BY <2>2 DEF vars, IInv, TypeOK, StaleSessionsAreLate, Fits, KindFits, LocksHeld, RowsStand, Active
  <2> QED BY <2>1, <2>2
<1> QED BY <1>1, InitiallyFit, PTL DEF Spec

-----------------------------------------------------------------------------
(* Theorems *)

\* Every reachable state is typed.
THEOREM TypeCorrect == Spec => []TypeOK
<1>1. IInv => TypeOK BY DEF IInv
<1> QED BY <1>1, SessionInvariance, PTL

\* A session that outlives the password it was opened with comes from a login
\* that overlapped the replacement, however many requests there are.
THEOREM StaleSessionsComeLate == Spec => []StaleSessionsAreLate
<1>1. IInv => StaleSessionsAreLate BY DEF IInv
<1> QED BY <1>1, SessionInvariance, PTL

\* A reset token replaces the password once, whoever presents it how often.
THEOREM ResetTokensAreUsedOnce == Spec => []ResetTokenIsSingleUse
<1>1. IInv => ResetTokenIsSingleUse
  BY DEF IInv, Fits, LocksHeld, RowsStand, ResetTokenIsSingleUse
<1> QED BY <1>1, SessionInvariance, PTL

\* What a step does to the status and the token of a session.
LEMMA SessionSteps ==
  ASSUME IInv, Next, NEW s \in Sessions
  PROVE  /\ session[s].status = "REVOKED" =>
              session'[s].status = "REVOKED" /\ session'[s].token = session[s].token
         /\ session[s].status = "ACTIVE" /\ session'[s].token # session[s].token =>
              \E t \in Tx : /\ pc[t] = "commit" /\ op[t].session = s
                            /\ op[t].kind = "refresh" => op[t].token = session[s].token
<1>1. session \in [Sessions -> Session] /\ \A t \in Tx : Fits(t) /\ op[t] \in Op \cup {NoOp}
  BY DEF IInv, TypeOK
<1>2. CASE \E x \in Sessions : GraceEnds(x) \/ Logout(x)
  <2>1. ASSUME NEW x \in Sessions, GraceEnds(x)
        PROVE  session'[s].status = session[s].status /\ session'[s].token = session[s].token
    BY <1>1, <2>1 DEF GraceEnds, Session
  <2>2. ASSUME NEW x \in Sessions, Logout(x)
        PROVE  session'[s].status \in {session[s].status, "REVOKED"} /\ session'[s].token = session[s].token
    BY <1>1, <2>2, RevokedRow DEF Logout
  <2> QED BY <1>2, <2>1, <2>2
<1>3. ASSUME NEW t \in Tx, CommitLogin(t)
      PROVE  session[s].status # "absent" => session'[s] = session[s]
  BY <1>1, <1>3 DEF CommitLogin
<1>4. ASSUME NEW t \in Tx, CommitRefresh(t)
      PROVE  /\ session[s].status = "REVOKED" =>
                  session'[s].status = "REVOKED" /\ session'[s].token = session[s].token
             /\ session'[s].token # session[s].token =>
                  /\ pc[t] = "commit" /\ op[t].session = s
                  /\ op[t].kind = "refresh" => op[t].token = session[s].token
  <2>1. /\ op[t].session \in Sessions
        /\ op[t].kind = "refresh" => /\ session[op[t].session].status = "ACTIVE"
                                     /\ session[op[t].session].token = op[t].token
    BY <1>1, <1>4, Requests DEF CommitRefresh, Fits, RowsStand
  <2>2. CASE op[t].kind = "refresh" BY <1>1, <1>4, <2>1, <2>2 DEF CommitRefresh, Session, Rotated
  <2>3. CASE op[t].kind # "refresh"
    <3>1. session' = Revoked({op[t].session}) BY <1>4, <2>3 DEF CommitRefresh
    <3> QED BY <1>1, <3>1, RevokedRow
  <2> QED BY <2>2, <2>3
<1>5. ASSUME NEW t \in Tx, CommitChange(t)
      PROVE  /\ session[s].status = "REVOKED" =>
                  session'[s].status = "REVOKED" /\ session'[s].token = session[s].token
             /\ session'[s].token # session[s].token =>
                  pc[t] = "commit" /\ op[t].session = s /\ op[t].kind = "change"
  <2> DEFINE f == Revoked(seen[t].gone)
             o == op[t]
  <2>1. o.session \in Sessions /\ session[o.session].status = "ACTIVE"
    BY <1>1, <1>5, Requests DEF CommitChange, Fits, RowsStand
  <2>2. /\ f \in [Sessions -> Session] /\ f[s].token = session[s].token
        /\ f[s].status \in {session[s].status, "REVOKED"}
    <3>1. f \in [Sessions -> Session]
      <4>1. \A x \in Sessions : f[x] \in Session BY <1>1, RevokedRow
      <4> QED BY <4>1 DEF Revoked
    <3> QED BY <1>1, <3>1, RevokedRow
  <2>3. session' = [f EXCEPT ![o.session] = [Rotated(f[o.session]) EXCEPT !.password = o.new, !.late = FALSE]]
    BY <1>5 DEF CommitChange
  <2>4. pc[t] = "commit" /\ o.kind = "change" BY <1>5 DEF CommitChange
  <2> HIDE DEF f
  <2> QED BY <2>1, <2>2, <2>3, <2>4, SMTT(30) DEF Session, Rotated
<1>6. ASSUME NEW t \in Tx, CommitReset(t)
      PROVE  session'[s].status \in {session[s].status, "REVOKED"} /\ session'[s].token = session[s].token
  BY <1>1, <1>6, RevokedRow DEF CommitReset
<1>7. ASSUME NEW t \in Tx, CommitLogoutAll(t)
      PROVE  session'[s].status \in {session[s].status, "REVOKED"} /\ session'[s].token = session[s].token
  BY <1>1, <1>7, RevokedRow DEF CommitLogoutAll
<1>8. ASSUME NEW t \in Tx, Begins(t) \/ Executes(t) \/ CommitIssue(t) \/ RefuseDuplicate(t) \/ Rollback(t)
      PROVE  session' = session
  BY <1>8, StepsWithoutRows
<1> QED BY <1>2, <1>3, <1>4, <1>5, <1>6, <1>7, <1>8, Steps DEF Ends

\* A revoked session stays revoked, and its chain of tokens has ended.
THEOREM RevocationsAreFinal == Spec => RevokedIsFinal
<1> DEFINE Final == \A s \in Sessions :
                      session[s].status = "REVOKED" =>
                        /\ session'[s].status = "REVOKED"
                        /\ session'[s].token = session[s].token
<1>1. IInv /\ [Next]_vars => [Final]_vars BY SessionSteps
<1> QED BY <1>1, SessionInvariance, PTL DEF Spec, RevokedIsFinal

\* A refresh never starts a second chain of tokens: it replaces the token that
\* it presented.
THEOREM ChainsDoNotFork == Spec => NewestTokenRotates
<1> DEFINE Newest == \A s \in Sessions :
                       session[s].status = "ACTIVE" /\ session'[s].token # session[s].token =>
                         \E t \in Tx : /\ pc[t] = "commit" /\ op[t].session = s
                                       /\ op[t].kind = "refresh" => op[t].token = session[s].token
<1>1. IInv /\ [Next]_vars => [Newest]_vars BY SessionSteps
<1> QED BY <1>1, SessionInvariance, PTL DEF Spec, NewestTokenRotates

-----------------------------------------------------------------------------
(* The clients *)

\* A call gives the token in its answer, and carries that or the one it shows.
Gives(k, s) == call[k].given # None /\ call[k].given.of = s

Carries(k, s) == call[k].shows.id = s \/ Gives(k, s)

Latest(s) == [of |-> s, current |-> TRUE]

\* A call carries what its kind and stage have: an answer reaches somebody, and
\* only an answer to a refresh or a login has a token.
MessageFits(m) ==
  /\ m.kind = "idle" => m = Idle
  /\ m.client = None => m.answer = "none"
  /\ m.given # None <=> m.kind \in {"refresh", "login"} /\ m.answer = "ok"
  /\ m.shows # Empty => m.kind = "refresh" /\ m.answer = "none"
  /\ m.kind = "logout" /\ m.answer = "none" => m.bearer # None

CallFits(k) == MessageFits(call[k])

\* Nobody has seen a session before its login is answered.
OpenedUnseen(s) ==
  /\ refreshSession[s].status = "unused" => store.id # s /\ \A k \in Calls : ~Carries(k, s)
  /\ \A k \in Calls : call[k].kind = "login" /\ Gives(k, s) =>
       store.id # s /\ \A j \in Calls \ {k} : ~Carries(j, s)

Unraced(s) == refreshSession[s].status = "active" /\ refreshSession[s].history # "raced"

\* While nothing raced, one call at most carries an ACTIVE session, somebody
\* waits for it, every token on its way is the current one, and the stored one
\* is too or is being exchanged.
HasOneToken(s) ==
  Unraced(s) =>
    /\ \A k \in Calls : Carries(k, s) => /\ call[k].client # None
                                         /\ \A j \in Calls : Carries(j, s) => j = k
    /\ \A k \in Calls : /\ Gives(k, s) => call[k].given = Latest(s)
                        /\ call[k].shows.id = s => call[k].shows.secret = Latest(s)
    /\ store.id = s => \/ store.secret = Latest(s)
                       \/ \E k \in Calls : call[k].kind = "refresh" /\ call[k].given = Latest(s)

\* InStep and ReplayedForCause, of one session.
StaysWithClient(s) ==
  /\ refreshSession[s].status = "active" /\ refreshSession[s].history = "clean" =>
       \/ store = [id |-> s, secret |-> Latest(s)]
       \/ \E k \in Calls : call[k].client # None /\ call[k].given = Latest(s)
  /\ refreshSession[s].status = "replayed" => refreshSession[s].history = "raced"

Follows(s) == OpenedUnseen(s) /\ HasOneToken(s) /\ StaysWithClient(s)

ClientInv ==
  /\ ClientTypeOK
  /\ \A k \in Calls : CallFits(k)
  /\ \A s \in Sessions : Follows(s)

\* A call, and a row with its history, as ClientTypeOK has them.
Message ==
  [kind : {"idle", "refresh", "login", "logout"}, client : Clients \cup {None},
   shows : Store, bearer : [of : Sessions, fresh : BOOLEAN] \cup {None},
   answer : {"none", "ok", "error"}, given : RefreshToken \cup {None}, clears : BOOLEAN]

Chain == [status : {"unused", "active", "replayed", "logged out"},
          history : {"clean", "dropped", "raced"}]

LEMMA ClientTypes ==
  ClientTypeOK <=>
    /\ platform \in {"web", "mobile"}
    /\ refreshSession \in [Sessions -> Chain]
    /\ store \in Store
    /\ token \in [Clients -> [of : Sessions, fresh : BOOLEAN] \cup {None}]
    /\ call \in [Calls -> Message]
BY DEF ClientTypeOK, Message, Chain

LEMMA Messages ==
  /\ Empty \in Store /\ Empty.id = None /\ Empty.secret = None
  /\ Idle \in Message
  /\ Idle.kind = "idle" /\ Idle.client = None /\ Idle.shows = Empty /\ Idle.given = None
  /\ Idle.answer = "none"
<1>1. Empty \in Store /\ Empty.id = None /\ Empty.secret = None BY DEF Empty, Store
<1> QED BY <1>1 DEF Idle, Message

LEMMA LatestIsAToken ==
  ASSUME NEW s \in Sessions
  PROVE  /\ Latest(s) \in RefreshToken /\ Latest(s) # None
         /\ Latest(s).of = s /\ Latest(s).current
<1>1. Latest(s) \in [of : Sessions, current : BOOLEAN] /\ Latest(s).of = s /\ Latest(s).current
    BY DEF Latest
<1>2. None \notin [of : Sessions, current : BOOLEAN] BY ClientsAssumption
<1> QED BY <1>1, <1>2 DEF RefreshToken

\* The row of one session replaced, or several marked.
LEMMA RowReplaced ==
  ASSUME refreshSession \in [Sessions -> Chain], NEW s \in Sessions, NEW r \in Chain,
         refreshSession' = [refreshSession EXCEPT ![s] = r]
  PROVE  /\ refreshSession' \in [Sessions -> Chain]
         /\ \A o \in Sessions : refreshSession'[o] = IF o = s THEN r ELSE refreshSession[o]
OBVIOUS

LEMMA RowsMarked ==
  ASSUME refreshSession \in [Sessions -> Chain], NEW S, NEW h \in {"clean", "dropped", "raced"},
         refreshSession' = Marked(S, h)
  PROVE  /\ refreshSession' \in [Sessions -> Chain]
         /\ \A o \in Sessions :
              /\ refreshSession'[o].status = refreshSession[o].status
              /\ o \notin S => refreshSession'[o] = refreshSession[o]
              /\ o \in S /\ Unraced(o) => refreshSession'[o].history = h
              /\ ~Unraced(o) => refreshSession'[o] = refreshSession[o]
<1> DEFINE New(o) == IF o \in S /\ refreshSession[o].status = "active" /\ refreshSession[o].history # "raced"
                     THEN [refreshSession[o] EXCEPT !.history = h]
                     ELSE refreshSession[o]
<1>1. refreshSession' = [o \in Sessions |-> New(o)] BY DEF Marked
<1>2. ASSUME NEW o \in Sessions
      PROVE  /\ New(o) \in Chain
             /\ New(o).status = refreshSession[o].status
             /\ o \in S /\ Unraced(o) => New(o).history = h
             /\ o \notin S \/ ~Unraced(o) => New(o) = refreshSession[o]
  <2>1. refreshSession[o] \in Chain OBVIOUS
  <2>2. [refreshSession[o] EXCEPT !.history = h] \in Chain
        /\ [refreshSession[o] EXCEPT !.history = h].status = refreshSession[o].status
        /\ [refreshSession[o] EXCEPT !.history = h].history = h
      BY <2>1 DEF Chain
  <2> QED BY <2>1, <2>2 DEF Unraced
<1> QED BY <1>1, <1>2

-----------------------------------------------------------------------------
(* A session that a step does not hand on to anybody stays with its client *)

Alike(k, s) ==
  /\ call'[k].kind = call[k].kind
  /\ call'[k].shows.id = call[k].shows.id
  /\ Gives(k, s)' <=> Gives(k, s)

Firm(k, s) ==
  /\ call'[k].client = call[k].client
  /\ call[k].given = Latest(s) => call'[k].given = Latest(s)
  /\ call[k].shows.secret = Latest(s) => call'[k].shows.secret = Latest(s)

\* What a step may do to session s and what carries it: a row may age, a call
\* may let go of it; the client may only lose it when the history says so.
Spares(s) ==
  /\ \A k \in Calls : Alike(k, s) \/ ~Carries(k, s)'
  /\ refreshSession'[s].status = "unused" => refreshSession[s].status = "unused"
  /\ refreshSession'[s].status = "replayed" => refreshSession'[s].history = "raced"
  /\ store'.id = s => store.id = s
  /\ Unraced(s)' =>
       /\ Unraced(s)
       /\ refreshSession'[s].history = "clean" =>
            refreshSession[s].history = "clean" /\ (store.id = s => store'.id = s)
       /\ store'.id = s /\ store.secret = Latest(s) => store'.secret = Latest(s)
       /\ \A k \in Calls : \/ Alike(k, s) /\ Firm(k, s)
                           \/ ~Carries(k, s)' /\ ~Gives(k, s)

LEMMA SparedFollows ==
  ASSUME NEW s \in Sessions, Follows(s), ClientTypeOK', Spares(s)
  PROVE  Follows(s)'
<1>1. ASSUME NEW k \in Calls, Carries(k, s)' PROVE Alike(k, s) /\ Carries(k, s)
    BY <1>1 DEF Spares, Alike, Carries
<1>2. OpenedUnseen(s)'
  <2>1. refreshSession'[s].status = "unused" => store'.id # s /\ \A k \in Calls : ~Carries(k, s)'
      BY <1>1 DEF Spares, Follows, OpenedUnseen
  <2>2. ASSUME NEW k \in Calls, call'[k].kind = "login", Gives(k, s)'
        PROVE  store'.id # s /\ \A j \in Calls \ {k} : ~Carries(j, s)'
    <3>1. Alike(k, s) BY <2>2, <1>1 DEF Carries
    <3>2. call[k].kind = "login" /\ Gives(k, s) BY <3>1, <2>2 DEF Alike
    <3> QED BY <3>2, <1>1 DEF Follows, OpenedUnseen, Spares
  <2> QED BY <2>1, <2>2 DEF OpenedUnseen
<1>3. HasOneToken(s)'
  <2> SUFFICES ASSUME Unraced(s)' PROVE HasOneToken(s)'
      BY DEF HasOneToken
  <2>1. Unraced(s) BY DEF Spares
  <2>2. ASSUME NEW k \in Calls, Carries(k, s)'
        PROVE  /\ Alike(k, s) /\ Firm(k, s) /\ Carries(k, s)
               /\ call'[k].client # None
               /\ \A j \in Calls : Carries(j, s)' => j = k
    <3>1. Alike(k, s) /\ Firm(k, s) /\ Carries(k, s) BY <2>2, <1>1 DEF Spares
    <3>2. call[k].client # None /\ \A j \in Calls : Carries(j, s) => j = k
        BY <2>1, <3>1 DEF Follows, HasOneToken
    <3> QED BY <3>1, <3>2, <1>1 DEF Firm
  <2>3. ASSUME NEW k \in Calls
        PROVE  /\ Gives(k, s)' => call'[k].given = Latest(s)
               /\ call'[k].shows.id = s => call'[k].shows.secret = Latest(s)
    <3>1. CASE Gives(k, s)'
      <4>1. Alike(k, s) /\ Firm(k, s) BY <2>2, <3>1 DEF Carries
      <4>2. call[k].given = Latest(s) BY <4>1, <3>1, <2>1 DEF Alike, Follows, HasOneToken
      <4>3. call'[k].shows.id = s => call[k].shows.secret = Latest(s)
          BY <4>1, <2>1 DEF Alike, Follows, HasOneToken
      <4> QED BY <4>1, <4>2, <4>3 DEF Firm
    <3>2. CASE call'[k].shows.id = s
      <4>1. Alike(k, s) /\ Firm(k, s) BY <2>2, <3>2 DEF Carries
      <4>2. call[k].shows.secret = Latest(s) BY <4>1, <3>2, <2>1 DEF Alike, Follows, HasOneToken
      <4>3. Gives(k, s)' => call[k].given = Latest(s)
          BY <4>1, <2>1 DEF Alike, Follows, HasOneToken
      <4> QED BY <4>1, <4>2, <4>3 DEF Firm
    <3> QED BY <3>1, <3>2
  <2>4. ASSUME store'.id = s
        PROVE  \/ store'.secret = Latest(s)
               \/ \E k \in Calls : call'[k].kind = "refresh" /\ call'[k].given = Latest(s)
    <3>1. store.id = s /\ (store.secret = Latest(s) => store'.secret = Latest(s)) BY <2>4 DEF Spares
    <3>2. ASSUME NEW k \in Calls, call[k].kind = "refresh", call[k].given = Latest(s)
          PROVE  call'[k].kind = "refresh" /\ call'[k].given = Latest(s)
      <4>1. Gives(k, s) BY <3>2, LatestIsAToken DEF Gives
      <4>2. Alike(k, s) /\ Firm(k, s) BY <4>1 DEF Spares
      <4> QED BY <4>2, <3>2 DEF Alike, Firm
    <3> QED BY <2>1, <3>1, <3>2 DEF Follows, HasOneToken
  <2> QED BY <2>2, <2>3, <2>4 DEF HasOneToken
<1>4. StaysWithClient(s)'
  <2> SUFFICES ASSUME refreshSession'[s].status = "active", refreshSession'[s].history = "clean"
               PROVE  \/ store' = [id |-> s, secret |-> Latest(s)]
                      \/ \E k \in Calls : call'[k].client # None /\ call'[k].given = Latest(s)
      BY DEF StaysWithClient, Spares
  <2>1. Unraced(s)' /\ Unraced(s) BY DEF Spares, Unraced
  <2>2. refreshSession[s].status = "active" /\ refreshSession[s].history = "clean"
      BY <2>1 DEF Spares, Unraced
  <2>3. CASE store = [id |-> s, secret |-> Latest(s)]
    <3>1. store'.id = s /\ store'.secret = Latest(s) BY <2>1, <2>3 DEF Spares
    <3>2. store' \in [id : Sessions \cup {None}, secret : RefreshToken \cup {None}]
        BY DEF ClientTypeOK, Store
    <3>3. store' = [id |-> s, secret |-> Latest(s)] BY <3>1, <3>2
    <3> QED BY <3>3
  <2>4. CASE \E k \in Calls : call[k].client # None /\ call[k].given = Latest(s)
    <3>1. PICK k \in Calls : call[k].client # None /\ call[k].given = Latest(s) BY <2>4
    <3>2. Gives(k, s) BY <3>1, LatestIsAToken DEF Gives
    <3>3. Firm(k, s) BY <2>1, <3>2 DEF Spares
    <3> QED BY <3>1, <3>3 DEF Firm
  <2> QED BY <2>2, <2>3, <2>4 DEF Follows, StaysWithClient
<1> QED BY <1>2, <1>3, <1>4 DEF Follows

LEMMA SparingStep ==
  ASSUME ClientInv, ClientTypeOK', \A k \in Calls : CallFits(k)', \A s \in Sessions : Spares(s)
  PROVE  ClientInv'
BY SparedFollows DEF ClientInv

-----------------------------------------------------------------------------
(* Requests *)

\* A new request, in place of an idle call.
LEMMA Sent ==
  ASSUME ClientInv, NEW c \in Clients, NEW kind \in {"refresh", "login", "logout"},
         Send(c, kind), kind = "logout" => token[c] # None
  PROVE  \E k \in Calls :
           /\ call[k] = Idle
           /\ \A j \in Calls \ {k} : call'[j] = call[j]
           /\ call'[k].kind = kind /\ call'[k].client = c /\ call'[k].answer = "none"
           /\ call'[k].given = None
           /\ call'[k].shows = IF kind = "refresh" THEN store ELSE Empty
           /\ call' \in [Calls -> Message]
           /\ \A j \in Calls : CallFits(j)'
<1> USE ClientTypes, Messages, ClientsAssumption
<1>1. PICK k \in Calls :
        /\ call[k] = Idle
        /\ call' = [call EXCEPT ![k] =
             CASE kind = "refresh" -> [Idle EXCEPT !.kind = kind, !.client = c, !.shows = store]
               [] kind = "logout" -> [Idle EXCEPT !.kind = kind, !.client = c, !.bearer = token[c],
                                                  !.clears = platform = "web" /\ store # Empty]
               [] OTHER -> [Idle EXCEPT !.kind = kind, !.client = c]]
    BY DEF Send
<1>2. call \in [Calls -> Message] /\ store \in Store
      /\ token[c] \in [of : Sessions, fresh : BOOLEAN] \cup {None}
    BY DEF ClientInv
<1> DEFINE new == call'[k]
<1>3. /\ new \in Message /\ new.kind = kind /\ new.client = c /\ new.answer = "none" /\ new.given = None
      /\ new.shows = IF kind = "refresh" THEN store ELSE Empty
      /\ kind = "logout" => new.bearer # None
  <2>1. CASE kind = "refresh"
    <3>1. new = [Idle EXCEPT !.kind = kind, !.client = c, !.shows = store] BY <1>1, <1>2, <2>1
    <3> QED BY <3>1, <1>2, <2>1, ZenonT(30) DEF Message, Idle
  <2>2. CASE kind = "logout"
    <3> DEFINE b == platform = "web" /\ store # Empty
    <3>1. new = [Idle EXCEPT !.kind = kind, !.client = c, !.bearer = token[c], !.clears = b]
        BY <1>1, <1>2, <2>2
    <3>2. b \in BOOLEAN OBVIOUS
    <3> HIDE DEF b
    <3> QED BY <3>1, <3>2, <1>2, <2>2, ZenonT(30) DEF Message, Idle
  <2>3. CASE kind = "login"
    <3>1. new = [Idle EXCEPT !.kind = kind, !.client = c] BY <1>1, <1>2, <2>3
    <3> QED BY <3>1, <1>2, <2>3 DEF Message, Idle
  <2> QED BY <2>1, <2>2, <2>3
<1>4. call' \in [Calls -> Message] /\ \A j \in Calls \ {k} : call'[j] = call[j]
    BY <1>1, <1>2, <1>3
<1>5. ASSUME NEW j \in Calls PROVE CallFits(j)'
  <2>1. CASE j = k BY <2>1, <1>3 DEF CallFits, MessageFits
  <2>2. CASE j # k BY <2>2, <1>4 DEF CallFits, MessageFits, ClientInv
  <2> QED BY <2>1, <2>2
<1> QED BY <1>1, <1>3, <1>4, <1>5

\* What an unraced session is carried by.
LEMMA Carriers ==
  ASSUME ClientInv, NEW s \in Sessions, NEW k \in Calls, Carries(k, s)
  PROVE  /\ call[k].kind \in {"refresh", "login"}
         /\ store.id = s => call[k].kind = "refresh"
         /\ Unraced(s) => call[k].client \in Clients
<1>1. CallFits(k) /\ Follows(s) /\ call[k] \in Message BY ClientTypes DEF ClientInv
<1>2. CASE call[k].shows.id = s
  <2>1. call[k].shows # Empty BY <1>2, Messages, SessionsAssumption
  <2> QED BY <2>1, <1>1, <1>2 DEF CallFits, MessageFits, Carries, Follows, HasOneToken, Message
<1>3. CASE Gives(k, s) BY <1>1, <1>3 DEF CallFits, MessageFits, Gives, Carries, Follows, OpenedUnseen, HasOneToken, Message
<1> QED BY <1>2, <1>3 DEF Carries

LEMMA RivalsOfAClient ==
  ASSUME NEW c \in Clients, NEW k \in Calls, call[k].kind = "refresh",
         call[k].client \in Clients \ {c}, Carries(k, store.id)
  PROVE  store.id \in Rivals(c)
<1>1. k \in Awaits(call[k].client, "refresh") BY DEF Awaits
<1>2. store.id \in Carried(k) BY DEF Carried, Carries, Gives
<1> QED BY <1>1, <1>2 DEF Rivals

LEMMA RefreshBegins ==
  ASSUME ClientInv, NEW c \in Clients, BeginRefresh(c)
  PROVE  ClientInv'
<1>1. PICK k \in Calls :
        /\ call[k] = Idle
        /\ \A j \in Calls \ {k} : call'[j] = call[j]
        /\ call'[k].kind = "refresh" /\ call'[k].client = c /\ call'[k].answer = "none"
        /\ call'[k].given = None /\ call'[k].shows = store
        /\ call' \in [Calls -> Message]
        /\ \A j \in Calls : CallFits(j)'
    BY Sent DEF BeginRefresh
<1>2. /\ platform' = platform /\ store' = store /\ token' = token
      /\ refreshSession' = Marked(Rivals(c), "raced")
    BY DEF BeginRefresh
<1>3. ClientTypeOK BY DEF ClientInv
<1>4. /\ refreshSession' \in [Sessions -> Chain]
      /\ \A o \in Sessions :
           /\ refreshSession'[o].status = refreshSession[o].status
           /\ o \notin Rivals(c) => refreshSession'[o] = refreshSession[o]
           /\ o \in Rivals(c) /\ Unraced(o) => refreshSession'[o].history = "raced"
           /\ ~Unraced(o) => refreshSession'[o] = refreshSession[o]
    BY <1>2, <1>3, RowsMarked, ClientTypes
<1>5. ClientTypeOK' BY <1>1, <1>2, <1>3, <1>4, ClientTypes DEF ClientTypeOK, Message, Chain
<1>6. ASSUME NEW s \in Sessions, store.id # s PROVE Follows(s)'
  <2>1. s \notin Rivals(c) BY <1>6 DEF Rivals
  <2>2. ~Carries(k, s)' BY <1>1, <1>6 DEF Carries, Gives
  <2>3. ~Gives(k, s) BY <1>1, Messages DEF Gives
  <2>4. \A j \in Calls \ {k} : Alike(j, s) /\ Firm(j, s) BY <1>1 DEF Alike, Firm, Gives
  <2>5. Follows(s) BY DEF ClientInv
  <2>6. Spares(s) BY <2>1, <2>2, <2>3, <2>4, <2>5, <1>2, <1>4 DEF Spares, Unraced, Follows, StaysWithClient
  <2> QED BY <2>5, <2>6, <1>5, SparedFollows
<1>7. ASSUME NEW s \in Sessions, store.id = s PROVE Follows(s)'
  <2>1. Follows(s) BY DEF ClientInv
  <2>2. refreshSession[s].status # "unused" /\ \A j \in Calls : ~(call[j].kind = "login" /\ Gives(j, s))
      BY <2>1, <1>7 DEF Follows, OpenedUnseen
  <2>3. OpenedUnseen(s)'
      BY <2>2, <1>1, <1>4 DEF OpenedUnseen, Gives
  <2>4. ASSUME Unraced(s)'
        PROVE  /\ Unraced(s) /\ refreshSession'[s] = refreshSession[s]
               /\ \A j \in Calls : ~Carries(j, s)
    <3>1. Unraced(s) /\ s \notin Rivals(c) BY <2>4, <1>4 DEF Unraced
    <3>2. ASSUME NEW j \in Calls, Carries(j, s) PROVE FALSE
      <4>1. call[j].kind = "refresh" /\ call[j].client \in Clients BY <3>1, <3>2, <1>7, Carriers
      <4>2. call[j].client # c BY <4>1 DEF BeginRefresh, MayRefresh, Awaits
      <4> QED BY <4>1, <4>2, <3>1, <3>2, <1>7, RivalsOfAClient
    <3> QED BY <3>1, <3>2, <1>4
  <2>5. ASSUME Unraced(s)', NEW j \in Calls \ {k} PROVE ~Carries(j, s)'
      BY <2>4, <2>5, <1>1 DEF Carries, Gives
  <2>6. ASSUME Unraced(s)' PROVE store.secret = Latest(s)
      BY <2>6, <2>4, <2>1, <1>7, LatestIsAToken DEF Follows, HasOneToken, Carries, Gives
  <2>7. HasOneToken(s)'
    <3> SUFFICES ASSUME Unraced(s)' PROVE HasOneToken(s)' BY DEF HasOneToken
    <3>1. ~Gives(k, s)' BY <1>1 DEF Gives
    <3>2. \A j \in Calls : Gives(j, s)' => Carries(j, s)' BY DEF Carries
    <3>3. \A j \in Calls : call'[j].shows.id = s => Carries(j, s)' BY DEF Carries
    <3>4. \A j \in Calls : Carries(j, s)' => j = k BY <2>5
    <3>5. call'[k].client # None /\ call'[k].shows.secret = Latest(s) /\ store'.secret = Latest(s)
        BY <1>1, <1>2, <2>6, ClientsAssumption
    <3> QED BY <3>1, <3>2, <3>3, <3>4, <3>5 DEF HasOneToken
  <2>8. StaysWithClient(s)'
    <3>1. refreshSession'[s].status = "replayed" => refreshSession'[s].history = "raced"
        BY <2>1, <1>4 DEF Follows, StaysWithClient, Unraced
    <3>2. ASSUME refreshSession'[s].status = "active", refreshSession'[s].history = "clean"
          PROVE  store' = [id |-> s, secret |-> Latest(s)]
      <4>1. Unraced(s)' BY <3>2 DEF Unraced
      <4>2. store.secret = Latest(s) BY <4>1, <2>6
      <4>3. store \in [id : Sessions \cup {None}, secret : RefreshToken \cup {None}]
          BY <1>3 DEF ClientTypeOK, Store
      <4> QED BY <4>2, <4>3, <1>2, <1>7
    <3> QED BY <3>1, <3>2 DEF StaysWithClient
  <2> QED BY <2>3, <2>7, <2>8 DEF Follows
<1> QED BY <1>1, <1>5, <1>6, <1>7 DEF ClientInv

\* A login and a logout show no token.
LEMMA OthersBegin ==
  ASSUME ClientInv, NEW c \in Clients, NEW kind \in {"login", "logout"}, Send(c, kind),
         kind = "logout" => token[c] # None, UNCHANGED <<platform, refreshSession, store, token>>
  PROVE  ClientInv'
<1>1. PICK k \in Calls :
        /\ call[k] = Idle
        /\ \A j \in Calls \ {k} : call'[j] = call[j]
        /\ call'[k].given = None /\ call'[k].shows = Empty
        /\ call' \in [Calls -> Message]
        /\ \A j \in Calls : CallFits(j)'
    BY Sent
<1>2. ClientTypeOK' BY <1>1, ClientTypes DEF ClientInv, ClientTypeOK, Message, Chain
<1>3. ASSUME NEW s \in Sessions PROVE Spares(s)
  <2>1. ~Carries(k, s)' BY <1>1, Messages, SessionsAssumption DEF Carries, Gives
  <2>2. ~Gives(k, s) BY <1>1, Messages DEF Gives
  <2>3. \A j \in Calls \ {k} : Alike(j, s) /\ Firm(j, s) BY <1>1 DEF Alike, Firm, Gives
  <2>4. Follows(s) BY DEF ClientInv
  <2> QED BY <2>1, <2>2, <2>3, <2>4 DEF Spares, Unraced, Follows, StaysWithClient
<1> QED BY <1>1, <1>2, <1>3, SparingStep

-----------------------------------------------------------------------------
(* The server *)

\* A call that is answered: nobody gets the answer of a call that was given up.
LEMMA Answered ==
  ASSUME ClientInv, NEW k \in Calls, NEW answer \in {"ok", "error"},
         NEW given \in RefreshToken \cup {None}, NEW clears \in BOOLEAN,
         call[k].kind # "idle",
         given # None <=> call[k].kind \in {"refresh", "login"} /\ answer = "ok"
  PROVE  /\ Answer(k, answer, given, clears) \in [Calls -> Message]
         /\ \A j \in Calls \ {k} : Answer(k, answer, given, clears)[j] = call[j]
         /\ call[k].client = None => Answer(k, answer, given, clears)[k] = Idle
         /\ call[k].client # None =>
              /\ Answer(k, answer, given, clears)[k].kind = call[k].kind
              /\ Answer(k, answer, given, clears)[k].client = call[k].client
              /\ Answer(k, answer, given, clears)[k].shows = Empty
              /\ Answer(k, answer, given, clears)[k].given = given
              /\ Answer(k, answer, given, clears)[k].answer = answer
         /\ \A j \in Calls : MessageFits(Answer(k, answer, given, clears)[j])
<1> DEFINE A == Answer(k, answer, given, clears)
           b == clears /\ platform = "web"
           m == [call[k] EXCEPT !.shows = Empty, !.bearer = None, !.answer = answer,
                                !.given = given, !.clears = b]
<1>1. call \in [Calls -> Message] /\ \A j \in Calls : MessageFits(call[j])
    BY ClientTypes DEF ClientInv, CallFits
<1>2. A = [call EXCEPT ![k] = IF call[k].client = None THEN Idle ELSE m] BY DEF Answer
<1>3. /\ m \in Message /\ m.kind = call[k].kind /\ m.client = call[k].client
      /\ m.shows = Empty /\ m.answer = answer /\ m.given = given
  <2>1. call[k] \in Message BY <1>1
  <2>2. b \in BOOLEAN OBVIOUS
  <2> HIDE DEF b
  <2> QED BY <2>1, <2>2, Messages DEF Message
<1> HIDE DEF m
<1>4. A \in [Calls -> Message] BY <1>1, <1>2, <1>3, Messages
<1>5. (\A j \in Calls \ {k} : A[j] = call[j]) /\ A[k] = IF call[k].client = None THEN Idle ELSE m
    BY <1>1, <1>2
<1>6. MessageFits(Idle) BY Messages DEF MessageFits
<1>7. call[k].client # None => MessageFits(m) BY <1>3 DEF MessageFits
<1>8. \A j \in Calls : MessageFits(A[j]) BY <1>1, <1>5, <1>6, <1>7
<1> QED BY <1>3, <1>4, <1>5, <1>8

\* An answer with a token, and one without.
LEMMA AnsweredWithToken ==
  ASSUME ClientInv, NEW k \in Calls, call[k].kind \in {"refresh", "login"}, NEW s \in Sessions
  PROVE  LET calls == Answer(k, "ok", Latest(s), FALSE)
         IN  /\ calls \in [Calls -> Message]
             /\ \A j \in Calls \ {k} : calls[j] = call[j]
             /\ call[k].client = None => calls[k] = Idle
             /\ call[k].client # None =>
                  /\ calls[k].kind = call[k].kind /\ calls[k].client = call[k].client
                  /\ calls[k].shows = Empty /\ calls[k].given = Latest(s) /\ calls[k].answer = "ok"
             /\ \A j \in Calls : MessageFits(calls[j])
<1> DEFINE t == Latest(s)
           ok == "ok"
           no == FALSE
           calls == Answer(k, ok, t, no)
<1>1. /\ call[k].kind # "idle" /\ no \in BOOLEAN /\ ok \in {"ok", "error"} /\ t \in RefreshToken \cup {None}
      /\ t # None <=> call[k].kind \in {"refresh", "login"} /\ ok = "ok"
    BY LatestIsAToken
<1> SUFFICES /\ calls \in [Calls -> Message]
             /\ \A j \in Calls \ {k} : calls[j] = call[j]
             /\ call[k].client = None => calls[k] = Idle
             /\ call[k].client # None =>
                  /\ calls[k].kind = call[k].kind /\ calls[k].client = call[k].client
                  /\ calls[k].shows = Empty /\ calls[k].given = t /\ calls[k].answer = ok
             /\ \A j \in Calls : MessageFits(calls[j])
    OBVIOUS
<1> HIDE DEF t, ok, no
<1> QED BY <1>1, Answered

LEMMA AnsweredWithout ==
  ASSUME ClientInv, NEW k \in Calls, call[k].kind # "idle", NEW answer \in {"ok", "error"},
         answer = "ok" => call[k].kind = "logout", NEW clears \in BOOLEAN
  PROVE  LET calls == Answer(k, answer, None, clears)
         IN  /\ calls \in [Calls -> Message]
             /\ \A j \in Calls \ {k} : calls[j] = call[j]
             /\ call[k].client = None => calls[k] = Idle
             /\ call[k].client # None =>
                  /\ calls[k].kind = call[k].kind /\ calls[k].client = call[k].client
                  /\ calls[k].shows = Empty /\ calls[k].given = None /\ calls[k].answer = answer
             /\ \A j \in Calls : MessageFits(calls[j])
<1> DEFINE n == None
<1>1. n \in RefreshToken \cup {None} /\ (n # None <=> call[k].kind \in {"refresh", "login"} /\ answer = "ok")
    OBVIOUS
<1> DEFINE calls == Answer(k, answer, n, clears)
<1> SUFFICES /\ calls \in [Calls -> Message]
             /\ \A j \in Calls \ {k} : calls[j] = call[j]
             /\ call[k].client = None => calls[k] = Idle
             /\ call[k].client # None =>
                  /\ calls[k].kind = call[k].kind /\ calls[k].client = call[k].client
                  /\ calls[k].shows = Empty /\ calls[k].given = n /\ calls[k].answer = answer
             /\ \A j \in Calls : MessageFits(calls[j])
    OBVIOUS
<1> HIDE DEF n
<1> QED BY <1>1, Answered

\* The tokens of a session that are out, after it has got a new one.
LEMMA TokensAge ==
  ASSUME NEW o \in Sessions, NEW secret \in RefreshToken \cup {None}
  PROVE  /\ Aged(secret, o) \in RefreshToken \cup {None}
         /\ Aged(secret, o) = None <=> secret = None
         /\ secret # None => Aged(secret, o).of = secret.of
         /\ secret # None /\ secret.of # o => Aged(secret, o) = secret
<1>1. CASE secret # None /\ secret.of = o
  <2>1. secret \in [of : Sessions, current : BOOLEAN] BY <1>1 DEF RefreshToken
  <2>2. [secret EXCEPT !.current = FALSE] \in [of : Sessions, current : BOOLEAN]
        /\ [secret EXCEPT !.current = FALSE].of = secret.of
      BY <2>1
  <2>3. None \notin [of : Sessions, current : BOOLEAN] BY ClientsAssumption
  <2> QED BY <1>1, <2>2, <2>3 DEF Aged, RefreshToken
<1>2. CASE ~(secret # None /\ secret.of = o) BY <1>2 DEF Aged
<1> QED BY <1>1, <1>2

LEMMA Outdated ==
  ASSUME ClientInv, NEW o \in Sessions, NEW calls \in [Calls -> Message],
         \A j \in Calls : MessageFits(calls[j]), Outdate(o, calls)
  PROVE  /\ store' \in Store /\ store'.id = store.id
         /\ call' \in [Calls -> Message]
         /\ \A j \in Calls : CallFits(j)'
         /\ \A j \in Calls : calls[j] # call[j] => call'[j] = calls[j]
         /\ \A s \in Sessions :
              /\ s # o /\ store.secret = Latest(s) => store'.secret = Latest(s)
              /\ \A j \in Calls : calls[j] = call[j] => Alike(j, s) /\ (s # o => Firm(j, s))
<1>1. call \in [Calls -> Message] /\ store \in Store BY ClientTypes DEF ClientInv
<1>2. /\ store' \in Store /\ store'.id = store.id
      /\ store'.secret = Aged(store.secret, o)
  <2>1. store' = [store EXCEPT !.secret = Aged(@, o)] BY DEF Outdate
  <2>2. Aged(store.secret, o) \in RefreshToken \cup {None} BY <1>1, TokensAge DEF Store
  <2> QED BY <1>1, <2>1, <2>2 DEF Store
<1> DEFINE old(j) == [call[j] EXCEPT !.shows = [call[j].shows EXCEPT !.secret = Aged(@, o)],
                                     !.given = Aged(@, o)]
<1>3. call' = [j \in Calls |-> IF calls[j] # call[j] THEN calls[j] ELSE old(j)] BY DEF Outdate
<1>4. ASSUME NEW j \in Calls
      PROVE  /\ old(j) \in Message
             /\ old(j).kind = call[j].kind /\ old(j).client = call[j].client
             /\ old(j).bearer = call[j].bearer /\ old(j).answer = call[j].answer
             /\ old(j).clears = call[j].clears
             /\ old(j).shows \in Store /\ old(j).shows.id = call[j].shows.id
             /\ old(j).shows.secret = Aged(call[j].shows.secret, o)
             /\ old(j).given = Aged(call[j].given, o)
  <2>1. call[j] \in Message /\ call[j].shows \in Store BY <1>1 DEF Message
  <2>2. Aged(call[j].given, o) \in RefreshToken \cup {None} BY <2>1, TokensAge DEF Message
  <2>3. Aged(call[j].shows.secret, o) \in RefreshToken \cup {None} BY <2>1, TokensAge DEF Store
  <2> DEFINE shown == [call[j].shows EXCEPT !.secret = Aged(@, o)]
  <2>4. shown \in Store /\ shown.id = call[j].shows.id /\ shown.secret = Aged(call[j].shows.secret, o)
      BY <2>1, <2>3 DEF Store
  <2>5. old(j) = [call[j] EXCEPT !.shows = shown, !.given = Aged(@, o)] OBVIOUS
  <2> HIDE DEF shown
  <2> QED BY <2>1, <2>2, <2>4, <2>5 DEF Message
<1> HIDE DEF old
<1>5. call' \in [Calls -> Message] BY <1>3, <1>4
<1>6. ASSUME NEW j \in Calls PROVE CallFits(j)'
  <2>1. CASE calls[j] # call[j] BY <2>1, <1>3 DEF CallFits
  <2>2. CASE calls[j] = call[j]
    <3>1. call'[j] = old(j) BY <2>2, <1>3
    <3>2. MessageFits(call[j]) /\ call[j] \in Message BY <1>1 DEF ClientInv, CallFits
    <3>3. call[j].kind # "idle" \/ old(j) = Idle
      <4> SUFFICES ASSUME call[j] = Idle PROVE old(j) = Idle BY <3>2 DEF MessageFits
      <4>1. Aged(None, o) = None BY DEF Aged
      <4>2. old(j).shows = Empty BY <4>1, <1>4, Messages DEF Store, Empty
      <4>3. old(j).given = None BY <4>1, <1>4, Messages
      <4> QED BY <4>2, <4>3, <1>4 DEF Message, Idle
    <3>4. call[j].shows = Empty => old(j).shows = Empty
      <4>1. Aged(None, o) = None BY DEF Aged
      <4> QED BY <4>1, <1>4, Messages DEF Store, Empty
    <3>5. old(j).given = None <=> call[j].given = None BY <3>2, <1>4, TokensAge DEF Message
    <3> QED BY <3>1, <3>2, <3>3, <3>4, <3>5, <1>4 DEF CallFits, MessageFits
  <2> QED BY <2>1, <2>2
<1>7. ASSUME NEW s \in Sessions, NEW j \in Calls, calls[j] = call[j]
      PROVE  Alike(j, s) /\ (s # o => Firm(j, s))
  <2>1. call'[j] = old(j) /\ call[j] \in Message /\ call[j].shows \in Store BY <1>1, <1>3, <1>7 DEF Message
  <2>2. Gives(j, s)' <=> Gives(j, s) BY <2>1, <1>4, TokensAge DEF Gives, Message
  <2>3. s # o => Aged(Latest(s), o) = Latest(s) BY LatestIsAToken, TokensAge
  <2> QED BY <2>1, <2>2, <2>3, <1>4 DEF Alike, Firm
<1>8. \A s \in Sessions : s # o /\ store.secret = Latest(s) => store'.secret = Latest(s)
    BY <1>2, LatestIsAToken, TokensAge
<1> QED BY <1>2, <1>3, <1>5, <1>6, <1>7, <1>8

\* A call that is answered, with a token of another session or none, spares s.
LEMMA AnswerSpares ==
  ASSUME ClientInv, NEW k \in Calls, call[k].answer = "none", NEW s \in Sessions,
         \A j \in Calls \ {k} : Alike(j, s) /\ (Unraced(s)' => Firm(j, s)),
         ~Carries(k, s)',
         store'.id = store.id,
         Unraced(s)' => /\ refreshSession'[s] = refreshSession[s]
                        /\ store.secret = Latest(s) => store'.secret = Latest(s),
         refreshSession'[s].status = "unused" => refreshSession[s].status = "unused",
         refreshSession'[s].status = "replayed" => refreshSession'[s].history = "raced"
  PROVE  Spares(s)
<1>1. ~Gives(k, s) BY DEF ClientInv, CallFits, MessageFits, Gives
<1> QED BY <1>1 DEF Spares, Unraced

\* Answers without a token, and without any effect on rows and store.
LEMMA AnsweredInVain ==
  ASSUME ClientInv, NEW k \in Calls, call[k].kind # "idle", call[k].answer = "none",
         NEW answer \in {"ok", "error"}, NEW clears \in BOOLEAN,
         answer = "ok" => call[k].kind = "logout",
         call' = Answer(k, answer, None, clears),
         UNCHANGED <<platform, refreshSession, store, token>>
  PROVE  ClientInv'
<1>2. /\ call' \in [Calls -> Message]
      /\ \A j \in Calls \ {k} : call'[j] = call[j]
      /\ call'[k] = Idle \/ (call'[k].shows = Empty /\ call'[k].given = None)
      /\ \A j \in Calls : CallFits(j)'
    BY AnsweredWithout DEF CallFits
<1>3. ClientTypeOK' BY <1>2, ClientTypes DEF ClientInv, ClientTypeOK, Message, Chain
<1>4. ASSUME NEW s \in Sessions PROVE Spares(s)
  <2>1. ~Carries(k, s)' BY <1>2, Messages, SessionsAssumption DEF Carries, Gives
  <2>2. \A j \in Calls \ {k} : Alike(j, s) /\ Firm(j, s) BY <1>2 DEF Alike, Firm, Gives
  <2>3. Follows(s) BY DEF ClientInv
  <2> QED BY <2>1, <2>2, <2>3, AnswerSpares DEF Follows, StaysWithClient
<1> QED BY <1>2, <1>3, <1>4, SparingStep

LEMMA Rotates ==
  ASSUME ClientInv, NEW k \in Calls, call[k].kind = "refresh", call[k].answer = "none",
         NEW s \in Sessions, call[k].shows.id = s, Rotate(k, s), UNCHANGED <<platform, token>>
  PROVE  ClientInv'
<1>1. PICK fails \in BOOLEAN :
        /\ refreshSession' = [refreshSession EXCEPT ![s] =
             [refreshSession[s] EXCEPT !.history = IF fails THEN "raced" ELSE @]]
        /\ Outdate(s, IF fails THEN Answer(k, "error", None, TRUE)
                      ELSE Answer(k, "ok", [of |-> s, current |-> TRUE], FALSE))
    BY DEF Rotate
<1> DEFINE calls == IF fails THEN Answer(k, "error", None, TRUE) ELSE Answer(k, "ok", Latest(s), FALSE)
           row == [refreshSession[s] EXCEPT !.history = IF fails THEN "raced" ELSE @]
<1>2. Outdate(s, calls) BY <1>1 DEF Latest
<1>3. /\ calls \in [Calls -> Message]
      /\ \A j \in Calls \ {k} : calls[j] = call[j]
      /\ call[k].client = None => calls[k] = Idle
      /\ call[k].client # None => /\ calls[k].kind = "refresh" /\ calls[k].client = call[k].client
                                  /\ calls[k].shows = Empty
                                  /\ calls[k].given = IF fails THEN None ELSE Latest(s)
      /\ \A j \in Calls : MessageFits(calls[j])
  <2>1. CASE fails
    <3>1. calls = Answer(k, "error", None, TRUE) BY <2>1
    <3> HIDE DEF calls
    <3>2. /\ calls \in [Calls -> Message]
          /\ \A j \in Calls \ {k} : calls[j] = call[j]
          /\ call[k].client = None => calls[k] = Idle
          /\ call[k].client # None =>
               /\ calls[k].kind = call[k].kind /\ calls[k].client = call[k].client
               /\ calls[k].shows = Empty /\ calls[k].given = None
          /\ \A j \in Calls : MessageFits(calls[j])
        BY <3>1, AnsweredWithout
    <3> QED BY <2>1, <3>2
  <2>2. CASE ~fails
    <3>1. calls = Answer(k, "ok", Latest(s), FALSE) BY <2>2
    <3> HIDE DEF calls
    <3>2. /\ calls \in [Calls -> Message]
          /\ \A j \in Calls \ {k} : calls[j] = call[j]
          /\ call[k].client = None => calls[k] = Idle
          /\ call[k].client # None =>
               /\ calls[k].kind = call[k].kind /\ calls[k].client = call[k].client
               /\ calls[k].shows = Empty /\ calls[k].given = Latest(s)
          /\ \A j \in Calls : MessageFits(calls[j])
        BY <3>1, AnsweredWithToken
    <3> QED BY <2>2, <3>2
  <2> QED BY <2>1, <2>2
<1> HIDE DEF calls
<1>4. calls[k] # call[k]
  <2>1. call[k].shows # Empty BY Messages, SessionsAssumption
  <2> QED BY <2>1, <1>3, Messages
<1>5. /\ store' \in Store /\ store'.id = store.id /\ call' \in [Calls -> Message]
      /\ \A j \in Calls : CallFits(j)'
      /\ call'[k] = calls[k]
      /\ \A o \in Sessions :
           /\ o # s /\ store.secret = Latest(o) => store'.secret = Latest(o)
           /\ \A j \in Calls \ {k} : Alike(j, o) /\ (o # s => Firm(j, o))
    BY <1>2, <1>3, <1>4, Outdated
<1>6. refreshSession[s] \in Chain /\ refreshSession \in [Sessions -> Chain] BY ClientTypes DEF ClientInv
<1>7. /\ row \in Chain /\ row.status = refreshSession[s].status
      /\ row.history = IF fails THEN "raced" ELSE refreshSession[s].history
    BY <1>6 DEF Chain
<1>8. /\ refreshSession' \in [Sessions -> Chain]
      /\ \A o \in Sessions : refreshSession'[o] = IF o = s THEN row ELSE refreshSession[o]
  <2>1. refreshSession' = [refreshSession EXCEPT ![s] = row] BY <1>1
  <2> HIDE DEF row
  <2> QED BY <2>1, <1>6, <1>7, RowReplaced
<1>9. ClientTypeOK' BY <1>5, <1>8, ClientTypes DEF ClientInv, ClientTypeOK, Message, Chain
<1>10. Carries(k, s) /\ Follows(s) BY DEF Carries, ClientInv
<1>11. call'[k].shows = Empty BY <1>3, <1>5, Messages
<1>12. ASSUME NEW o \in Sessions \ {s} PROVE Follows(o)'
  <2>1. ~Carries(k, o)' BY <1>3, <1>5, <1>11, Messages, SessionsAssumption, LatestIsAToken DEF Carries, Gives
  <2>2. Follows(o) BY DEF ClientInv
  <2>3. Spares(o) BY <2>1, <2>2, <1>5, <1>8, AnswerSpares DEF Follows, StaysWithClient
  <2> QED BY <2>2, <2>3, <1>9, SparedFollows
<1>13. OpenedUnseen(s)'
  <2>1. row.status # "unused" BY <1>10, <1>7 DEF Follows, OpenedUnseen
  <2>2. call'[k].kind # "login" BY <1>3, <1>5, Messages
  <2>3. \A j \in Calls \ {k} : ~(call'[j].kind = "login" /\ Gives(j, s)')
      BY <1>5, <1>10 DEF Alike, Follows, OpenedUnseen
  <2> QED BY <2>1, <2>2, <2>3, <1>8 DEF OpenedUnseen
<1>14. ASSUME Unraced(s)'
       PROVE  /\ refreshSession'[s] = refreshSession[s] /\ ~fails /\ call[k].client # None
              /\ call'[k].client # None /\ call'[k].given = Latest(s) /\ call'[k].kind = "refresh"
              /\ \A j \in Calls \ {k} : ~Carries(j, s)'
  <2>1. ~fails /\ Unraced(s) BY <1>14, <1>7, <1>8 DEF Unraced
  <2>2. call[k].client # None /\ \A j \in Calls : Carries(j, s) => j = k
      BY <2>1, <1>10 DEF Follows, HasOneToken
  <2>3. \A j \in Calls \ {k} : Carries(j, s)' => Carries(j, s) BY <1>5 DEF Alike, Carries
  <2>4. row = refreshSession[s]
    <3>1. row = [refreshSession[s] EXCEPT !.history = @] BY <2>1
    <3> QED BY <3>1, <1>6 DEF Chain
  <2> HIDE DEF row
  <2> QED BY <2>1, <2>2, <2>3, <2>4, <1>3, <1>5, <1>8
<1> HIDE DEF row
<1>15. HasOneToken(s)'
  <2> SUFFICES ASSUME Unraced(s)' PROVE HasOneToken(s)' BY DEF HasOneToken
  <2>1. call'[k].shows.id # s BY <1>11, Messages, SessionsAssumption
  <2>2. \A j \in Calls : /\ Gives(j, s)' => Carries(j, s)'
                         /\ call'[j].shows.id = s => Carries(j, s)'
      BY DEF Carries
  <2> QED BY <2>1, <2>2, <1>14 DEF HasOneToken
<1>16. StaysWithClient(s)'
  <2>1. refreshSession'[s].status = "replayed" => refreshSession'[s].history = "raced"
      BY <1>7, <1>8, <1>10 DEF Follows, StaysWithClient
  <2>2. refreshSession'[s].status = "active" /\ refreshSession'[s].history = "clean" => Unraced(s)'
      BY DEF Unraced
  <2> QED BY <2>1, <2>2, <1>14 DEF StaysWithClient
<1>17. \A o \in Sessions : Follows(o)' BY <1>12, <1>13, <1>15, <1>16 DEF Follows
<1> QED BY <1>5, <1>9, <1>17 DEF ClientInv

\* An answer with all tokens of s made old, and s no longer ACTIVE.
LEMMA EndsSession ==
  ASSUME ClientInv, NEW k \in Calls, call[k].kind \in {"refresh", "logout"}, call[k].answer = "none",
         NEW answer \in {"ok", "error"}, NEW clears \in BOOLEAN,
         answer = "ok" => call[k].kind = "logout",
         NEW s \in Sessions, NEW status \in {"replayed", "logged out"},
         status = "replayed" => refreshSession[s].history = "raced",
         refreshSession' = [refreshSession EXCEPT ![s] = [refreshSession[s] EXCEPT !.status = status]],
         Outdate(s, Answer(k, answer, None, clears)), UNCHANGED <<platform, token>>
  PROVE  ClientInv'
<1> DEFINE calls == Answer(k, answer, None, clears)
           row == [refreshSession[s] EXCEPT !.status = status]
<1>1. /\ calls \in [Calls -> Message]
      /\ \A j \in Calls \ {k} : calls[j] = call[j]
      /\ calls[k] = Idle \/ (calls[k].shows = Empty /\ calls[k].given = None)
      /\ \A j \in Calls : MessageFits(calls[j])
      /\ call[k].client = None => calls[k] = Idle
      /\ call[k].client # None => calls[k].answer = answer
  <2>1. call[k].kind # "idle" OBVIOUS
  <2>2. /\ calls \in [Calls -> Message]
        /\ \A j \in Calls \ {k} : calls[j] = call[j]
        /\ call[k].client = None => calls[k] = Idle
        /\ call[k].client # None => calls[k].shows = Empty /\ calls[k].given = None /\ calls[k].answer = answer
        /\ \A j \in Calls : MessageFits(calls[j])
      BY <2>1, AnsweredWithout, ZenonT(30)
  <2> HIDE DEF calls
  <2> QED BY <2>2
<1> HIDE DEF calls
<1>2. calls[k] # call[k] /\ Outdate(s, calls) BY <1>1, Messages DEF calls
<1>3. /\ store' \in Store /\ store'.id = store.id /\ call' \in [Calls -> Message]
      /\ \A j \in Calls : CallFits(j)'
      /\ call'[k] = calls[k]
      /\ \A o \in Sessions :
           /\ o # s /\ store.secret = Latest(o) => store'.secret = Latest(o)
           /\ \A j \in Calls \ {k} : Alike(j, o) /\ (o # s => Firm(j, o))
  <2>1. /\ store' \in Store /\ store'.id = store.id
        /\ call' \in [Calls -> Message]
        /\ \A j \in Calls : CallFits(j)'
        /\ \A j \in Calls : calls[j] # call[j] => call'[j] = calls[j]
        /\ \A o \in Sessions :
             /\ o # s /\ store.secret = Latest(o) => store'.secret = Latest(o)
             /\ \A j \in Calls : calls[j] = call[j] => Alike(j, o) /\ (o # s => Firm(j, o))
      BY <1>1, <1>2, Outdated
  <2> QED BY <2>1, <1>1, <1>2
<1>4. refreshSession[s] \in Chain /\ refreshSession \in [Sessions -> Chain] BY ClientTypes DEF ClientInv
<1>5. row \in Chain /\ row.status = status /\ row.history = refreshSession[s].history BY <1>4 DEF Chain
<1> HIDE DEF row
<1>6. /\ refreshSession' \in [Sessions -> Chain]
      /\ \A o \in Sessions : refreshSession'[o] = IF o = s THEN row ELSE refreshSession[o]
    BY <1>4, <1>5, RowReplaced DEF row
<1>7. ClientTypeOK' BY <1>3, <1>6, ClientTypes DEF ClientInv, ClientTypeOK, Message, Chain
<1>8. ASSUME NEW o \in Sessions PROVE Spares(o)
  <2>1. ~Carries(k, o)'
    <3>1. call'[k].shows = Empty /\ call'[k].given = None BY <1>1, <1>3, Messages
    <3> QED BY <3>1, Messages, SessionsAssumption DEF Carries, Gives
  <2>2. Unraced(o)' => o # s BY <1>5, <1>6 DEF Unraced
  <2>3. Follows(o) BY DEF ClientInv
  <2> QED BY <2>1, <2>2, <2>3, <1>3, <1>5, <1>6, AnswerSpares DEF Follows, StaysWithClient
<1> QED BY <1>3, <1>7, <1>8, SparingStep

\* A current token is not refused; whoever presents an old one has raced.
LEMMA RefreshIsServed ==
  ASSUME ClientInv, NEW k \in Calls, ServeRefresh(k)
  PROVE  ClientInv'
<1>1. /\ call[k].kind = "refresh" /\ call[k].answer = "none"
      /\ UNCHANGED <<platform, token>>
    BY DEF ServeRefresh
<1>2. call[k].shows \in Store BY ClientTypes DEF ClientInv, Message
<1>3. CASE Complete(call[k].shows)
  <2>1. PICK s \in Sessions : s = call[k].shows.id BY <1>2, <1>3 DEF Store, Complete
  <2>2. CASE Rotate(k, s) BY <2>1, <2>2, <1>1, Rotates
  <2>3. CASE Refuse(k, s)
    <3>1. CASE call' = Answer(k, "error", None, TRUE) /\ UNCHANGED <<refreshSession, store>>
        BY <3>1, <1>1, AnsweredInVain
    <3>2. CASE /\ refreshSession[s].status = "active"
               /\ refreshSession' = [refreshSession EXCEPT ![s].status = "replayed"]
               /\ Outdate(s, Answer(k, "error", None, TRUE))
      <4>1. call[k].shows.secret # Latest(s) BY <2>3 DEF Refuse, Latest
      <4>2. ~Unraced(s) BY <4>1, <2>1 DEF ClientInv, Follows, HasOneToken
      <4>3. refreshSession[s].history = "raced" BY <4>2, <3>2 DEF Unraced
      <4>4. refreshSession' = [refreshSession EXCEPT ![s] = [refreshSession[s] EXCEPT !.status = "replayed"]]
          BY <3>2
      <4> QED BY <4>3, <4>4, <3>2, <1>1, EndsSession
    <3> QED BY <2>3, <3>1, <3>2 DEF Refuse
  <2> QED BY <1>3, <2>1, <2>2, <2>3 DEF ServeRefresh
<1>4. CASE ~Complete(call[k].shows)
    BY <1>1, <1>4, AnsweredInVain DEF ServeRefresh, RefuseBare
<1> QED BY <1>3, <1>4

LEMMA LogoutIsServed ==
  ASSUME ClientInv, NEW k \in Calls, ServeLogout(k)
  PROVE  ClientInv'
<1>1. call[k].kind = "logout" /\ call[k].answer = "none" /\ UNCHANGED <<platform, token>>
    BY DEF ServeLogout
<1>2. call[k] \in Message /\ call[k].bearer # None
    BY <1>1, ClientTypes DEF ClientInv, CallFits, MessageFits
<1>3. call[k].bearer.of \in Sessions /\ call[k].clears \in BOOLEAN BY <1>2 DEF Message
<1>4. CASE call[k].bearer.fresh
  <2> PICK s \in Sessions : s = call[k].bearer.of BY <1>3
  <2>1. /\ refreshSession' = [refreshSession EXCEPT ![s] = [refreshSession[s] EXCEPT !.status = "logged out"]]
        /\ Outdate(s, Answer(k, "ok", None, call[k].clears))
      BY <1>4 DEF ServeLogout
  <2> QED BY <2>1, <1>1, <1>3, EndsSession
<1>5. CASE ~call[k].bearer.fresh BY <1>1, <1>5, AnsweredInVain DEF ServeLogout
<1> QED BY <1>4, <1>5

LEMMA LoginIsServed ==
  ASSUME ClientInv, NEW k \in Calls, ServeLogin(k)
  PROVE  ClientInv'
<1>1. PICK s \in Sessions :
        /\ refreshSession[s].status = "unused"
        /\ refreshSession' = [refreshSession EXCEPT ![s] =
             [refreshSession[s] EXCEPT !.status = "active",
                                       !.history = IF call[k].client = None THEN "dropped" ELSE @]]
        /\ call' = Answer(k, "ok", [of |-> s, current |-> TRUE], FALSE)
    BY DEF ServeLogin
<1>2. /\ call[k].kind = "login" /\ call[k].answer = "none"
      /\ UNCHANGED <<platform, store, token>>
    BY DEF ServeLogin
<1> DEFINE row == [refreshSession[s] EXCEPT !.status = "active",
                                            !.history = IF call[k].client = None THEN "dropped" ELSE @]
<1>3. /\ call' \in [Calls -> Message]
      /\ \A j \in Calls \ {k} : call'[j] = call[j]
      /\ call[k].client = None => call'[k] = Idle
      /\ call[k].client # None => /\ call'[k].client = call[k].client
                                  /\ call'[k].shows = Empty /\ call'[k].given = Latest(s)
      /\ \A j \in Calls : CallFits(j)'
  <2>1. call' = Answer(k, "ok", Latest(s), FALSE) BY <1>1 DEF Latest
  <2> QED BY <2>1, <1>2, AnsweredWithToken DEF CallFits
<1>4. refreshSession[s] \in Chain /\ refreshSession \in [Sessions -> Chain] BY ClientTypes DEF ClientInv
<1>5. /\ row \in Chain /\ row.status = "active"
      /\ row.history = IF call[k].client = None THEN "dropped" ELSE refreshSession[s].history
    BY <1>4 DEF Chain
<1>6. refreshSession' = [refreshSession EXCEPT ![s] = row] BY <1>1
<1> HIDE DEF row
<1>7. /\ refreshSession' \in [Sessions -> Chain]
      /\ \A o \in Sessions : refreshSession'[o] = IF o = s THEN row ELSE refreshSession[o]
    BY <1>4, <1>5, <1>6, RowReplaced
<1>8. ClientTypeOK' BY <1>2, <1>3, <1>7, ClientTypes DEF ClientInv, ClientTypeOK, Message, Chain
<1>9. call'[k].shows = Empty BY <1>3, Messages
<1>10. ASSUME NEW o \in Sessions \ {s} PROVE Follows(o)'
  <2>1. ~Carries(k, o)' BY <1>3, <1>9, Messages, SessionsAssumption, LatestIsAToken DEF Carries, Gives
  <2>2. \A j \in Calls \ {k} : Alike(j, o) /\ Firm(j, o) BY <1>3 DEF Alike, Firm, Gives
  <2>3. Follows(o) BY DEF ClientInv
  <2>4. Spares(o) BY <2>1, <2>2, <2>3, <1>2, <1>7, AnswerSpares DEF Follows, StaysWithClient
  <2> QED BY <2>3, <2>4, <1>8, SparedFollows
<1>11. store'.id # s /\ \A j \in Calls \ {k} : ~Carries(j, s)'
  <2>1. store.id # s /\ \A j \in Calls : ~Carries(j, s) BY <1>1 DEF ClientInv, Follows, OpenedUnseen
  <2> QED BY <2>1, <1>2, <1>3 DEF Carries, Gives
<1>12. \A j \in Calls : Gives(j, s)' => j = k BY <1>11 DEF Carries
<1>13. OpenedUnseen(s)' BY <1>5, <1>7, <1>11, <1>12 DEF OpenedUnseen
<1>14. Carries(k, s)' => call'[k].client # None /\ call'[k].given = Latest(s)
    BY <1>3, Messages, SessionsAssumption DEF Carries, Gives
<1>15. HasOneToken(s)'
  <2>1. call'[k].shows.id # s BY <1>9, Messages, SessionsAssumption
  <2>2. \A j \in Calls : /\ Gives(j, s)' => Carries(j, s)'
                         /\ call'[j].shows.id = s => Carries(j, s)'
      BY DEF Carries
  <2> QED BY <2>1, <2>2, <1>11, <1>14 DEF HasOneToken
<1>16. StaysWithClient(s)' BY <1>3, <1>5, <1>7 DEF StaysWithClient
<1>17. \A o \in Sessions : Follows(o)' BY <1>10, <1>13, <1>15, <1>16 DEF Follows
<1> QED BY <1>3, <1>8, <1>17 DEF ClientInv

-----------------------------------------------------------------------------
(* The clients, and what goes wrong *)

LEMMA CarriedAre ==
  ASSUME NEW k \in Calls, NEW s \in Sessions
  PROVE  s \in Carried(k) <=> Carries(k, s)
BY DEF Carried, Carries, Gives

LEMMA CallDropped ==
  ASSUME ClientInv, NEW k \in Calls, call' = [call EXCEPT ![k] = Idle]
  PROVE  /\ call' \in [Calls -> Message]
         /\ \A j \in Calls : CallFits(j)'
         /\ \A s \in Sessions : /\ ~Carries(k, s)'
                                /\ \A j \in Calls \ {k} : Alike(j, s) /\ Firm(j, s)
<1>1. call \in [Calls -> Message] BY ClientTypes DEF ClientInv
<1>2. call' \in [Calls -> Message] /\ call'[k] = Idle /\ \A j \in Calls \ {k} : call'[j] = call[j]
    BY <1>1, Messages
<1>3. MessageFits(Idle) BY Messages DEF MessageFits
<1>4. \A j \in Calls : CallFits(j)' BY <1>2, <1>3 DEF ClientInv, CallFits
<1>5. ASSUME NEW s \in Sessions
      PROVE  ~Carries(k, s)' /\ \A j \in Calls \ {k} : Alike(j, s) /\ Firm(j, s)
  <2>1. ~Carries(k, s)' BY <1>2, Messages, SessionsAssumption DEF Carries, Gives
  <2> QED BY <2>1, <1>2 DEF Alike, Firm, Gives
<1> QED BY <1>2, <1>4, <1>5

\* A call that carried no token is gone.
LEMMA DroppedInVain ==
  ASSUME ClientInv, NEW k \in Calls, call' = [call EXCEPT ![k] = Idle], call[k].given = None,
         UNCHANGED <<platform, refreshSession, store, token>>
  PROVE  ClientInv'
<1>1. ClientTypeOK' BY CallDropped, ClientTypes DEF ClientInv, ClientTypeOK, Message, Chain
<1>2. ASSUME NEW s \in Sessions PROVE Spares(s)
  <2>1. ~Gives(k, s) BY DEF Gives
  <2>2. Follows(s) BY DEF ClientInv
  <2> QED BY <2>1, <2>2, CallDropped DEF Spares, Unraced, Follows, StaysWithClient
<1> QED BY <1>1, <1>2, CallDropped, SparingStep

LEMMA BadlyServed ==
  ASSUME ClientInv, NEW k \in Calls, ServeBadly(k)
  PROVE  ClientInv'
<1>1. /\ call[k].kind # "idle" /\ call[k].answer = "none"
      /\ UNCHANGED <<platform, refreshSession, store, token>>
    BY DEF ServeBadly
<1>2. CASE call[k].kind = "login"
  <2>1. call[k].given = None BY <1>1 DEF ClientInv, CallFits, MessageFits
  <2> QED BY <1>1, <1>2, <2>1, DroppedInVain DEF ServeBadly
<1>3. CASE call[k].kind # "login"
  <2>1. PICK clears \in {FALSE, call[k].kind = "refresh"} : call' = Answer(k, "error", None, clears)
      BY <1>3 DEF ServeBadly
  <2>2. clears \in BOOLEAN BY <2>1
  <2> QED BY <1>1, <2>1, <2>2, AnsweredInVain
<1> QED BY <1>2, <1>3

LEMMA VanishedCall ==
  ASSUME ClientInv, NEW k \in Calls, Vanish(k)
  PROVE  ClientInv'
<1>1. call[k].given = None BY DEF Vanish, ClientInv, CallFits, MessageFits
<1> QED BY <1>1, DroppedInVain DEF Vanish

LEMMA ExpiredToken ==
  ASSUME ClientInv, NEW c \in Clients, Expire(c)
  PROVE  ClientInv'
<1>1. token' = [token EXCEPT ![c] = [token[c] EXCEPT !.fresh = FALSE]]
      /\ UNCHANGED <<platform, refreshSession, store, call>> /\ token[c] # None
    BY DEF Expire, Fresh
<1>2. token' \in [Clients -> [of : Sessions, fresh : BOOLEAN] \cup {None}]
  <2>1. token \in [Clients -> [of : Sessions, fresh : BOOLEAN] \cup {None}] BY DEF ClientInv, ClientTypeOK
  <2>2. token[c] \in [of : Sessions, fresh : BOOLEAN] BY <1>1, <2>1
  <2>3. [token[c] EXCEPT !.fresh = FALSE] \in [of : Sessions, fresh : BOOLEAN] BY <2>2
  <2> QED BY <1>1, <2>1, <2>3
<1>3. ClientTypeOK' BY <1>1, <1>2, ClientTypes DEF ClientInv, ClientTypeOK, Message, Chain
<1>4. \A k \in Calls : CallFits(k)' BY <1>1 DEF ClientInv, CallFits
<1>5. ASSUME NEW s \in Sessions PROVE Spares(s)
  <2>1. \A k \in Calls : Alike(k, s) /\ Firm(k, s) BY <1>1 DEF Alike, Firm, Gives
  <2>2. Follows(s) BY DEF ClientInv
  <2> QED BY <2>1, <2>2, <1>1 DEF Spares, Unraced, Follows, StaysWithClient
<1> QED BY <1>3, <1>4, <1>5, SparingStep

\* New contents of the store.
LEMMA StorePut ==
  ASSUME ClientInv, NEW new \in Store, Put(new)
  PROVE  /\ store' = new
         /\ refreshSession' \in [Sessions -> Chain]
         /\ \A s \in Sessions :
              /\ refreshSession'[s].status = refreshSession[s].status
              /\ refreshSession'[s] = refreshSession[s] \/ (s = store.id /\ s # new.id)
              /\ Unraced(s)' => Unraced(s)
              /\ refreshSession'[s].history = "clean" =>
                   \/ refreshSession[s].history = "clean" /\ s \notin {store.id} \ {new.id}
                   \/ ~Unraced(s)
              /\ refreshSession'[s].status = "replayed" => refreshSession'[s].history = "raced"
<1>1. refreshSession \in [Sessions -> Chain] BY ClientTypes DEF ClientInv
<1>2. refreshSession' = Marked({store.id} \ {new.id}, "dropped") BY DEF Put
<1>3. /\ refreshSession' \in [Sessions -> Chain]
      /\ \A o \in Sessions :
           /\ refreshSession'[o].status = refreshSession[o].status
           /\ o \notin {store.id} \ {new.id} => refreshSession'[o] = refreshSession[o]
           /\ o \in {store.id} \ {new.id} /\ Unraced(o) => refreshSession'[o].history = "dropped"
           /\ ~Unraced(o) => refreshSession'[o] = refreshSession[o]
    BY <1>1, <1>2, RowsMarked
<1>4. \A s \in Sessions : Unraced(s)' => Unraced(s) BY <1>3 DEF Unraced
<1>5. \A s \in Sessions : refreshSession[s].status = "replayed" => ~Unraced(s) /\ refreshSession[s].history = "raced"
    BY DEF ClientInv, Follows, StaysWithClient, Unraced
<1> QED BY <1>3, <1>4, <1>5 DEF Put

LEMMA SessionReceived ==
  ASSUME ClientInv, NEW k \in Calls, ReceiveSession(k)
  PROVE  ClientInv'
<1>1. /\ SignsIn(k) /\ call[k].client # None
      /\ Put(Saved(k))
      /\ token' = [token EXCEPT ![call[k].client] = [of |-> call[k].given.of, fresh |-> TRUE]]
      /\ call' = [call EXCEPT ![k] = Idle]
      /\ platform' = platform
    BY DEF ReceiveSession
<1>2. call[k] \in Message /\ call[k].given # None /\ ClientTypeOK /\ call[k].shows = Empty
    BY <1>1, ClientTypes DEF ClientInv, CallFits, MessageFits, SignsIn
<1>3. call[k].given \in RefreshToken /\ call[k].given.of \in Sessions /\ call[k].client \in Clients
    BY <1>1, <1>2 DEF Message, RefreshToken
<1> PICK n \in Sessions : n = call[k].given.of
    BY <1>3
<1>4. Saved(k) \in Store /\ Saved(k).id = n /\ Saved(k).secret = call[k].given
    BY <1>3 DEF Saved, Store
<1>5. /\ store' = Saved(k)
      /\ refreshSession' \in [Sessions -> Chain]
      /\ \A s \in Sessions :
           /\ refreshSession'[s].status = refreshSession[s].status
           /\ refreshSession'[s] = refreshSession[s] \/ (s = store.id /\ s # n)
           /\ Unraced(s)' => Unraced(s)
           /\ refreshSession'[s].history = "clean" =>
                \/ refreshSession[s].history = "clean" /\ s \notin {store.id} \ {n}
                \/ ~Unraced(s)
           /\ refreshSession'[s].status = "replayed" => refreshSession'[s].history = "raced"
    BY <1>1, <1>4, StorePut
<1>6. token' \in [Clients -> [of : Sessions, fresh : BOOLEAN] \cup {None}]
    BY <1>1, <1>2, <1>3 DEF ClientTypeOK
<1>7. ClientTypeOK'
    BY <1>1, <1>2, <1>4, <1>5, <1>6, CallDropped, ClientTypes DEF ClientTypeOK, Message, Chain
<1>8. ASSUME NEW s \in Sessions \ {n} PROVE Follows(s)'
  <2>1. Follows(s) BY DEF ClientInv
  <2>2. ~Gives(k, s) BY DEF Gives
  <2>3. store'.id # s BY <1>4, <1>5
  <2>4. refreshSession'[s].history = "clean" /\ Unraced(s)' =>
          refreshSession[s].history = "clean" /\ store.id # s
      BY <1>5
  <2>5. Spares(s) BY <2>2, <2>3, <2>4, <1>1, <1>5, CallDropped DEF Spares
  <2> QED BY <2>1, <2>5, <1>7, SparedFollows
<1>9. /\ Carries(k, n) /\ Follows(n) /\ refreshSession'[n] = refreshSession[n]
      /\ Gives(k, n)
    BY <1>2, <1>3, <1>5 DEF Carries, Gives, ClientInv
<1>10. \A j \in Calls \ {k} : (Carries(j, n)' => Carries(j, n)) /\ Alike(j, n)
    BY <1>1, <1>3, CallDropped, ZenonT(30) DEF Carries, Alike
<1>11. ~Carries(k, n)' BY <1>1, <1>3, CallDropped
<1>12. OpenedUnseen(n)'
  <2>1. refreshSession[n].status # "unused" BY <1>9 DEF Follows, OpenedUnseen
  <2>2. \A j \in Calls \ {k} : ~(call[j].kind = "login" /\ Gives(j, n))
      BY <1>9 DEF Follows, OpenedUnseen
  <2>3. \A j \in Calls : ~(call'[j].kind = "login" /\ Gives(j, n)')
      BY <2>2, <1>10, <1>11 DEF Alike, Carries
  <2> QED BY <2>1, <2>3, <1>9 DEF OpenedUnseen
<1>13. ASSUME Unraced(n)'
       PROVE  store' = [id |-> n, secret |-> Latest(n)] /\ \A j \in Calls : ~Carries(j, n)'
  <2>1. Unraced(n) BY <1>13, <1>3, <1>5
  <2>2. call[k].given = Latest(n) /\ \A j \in Calls : Carries(j, n) => j = k
      BY <2>1, <1>9 DEF Follows, HasOneToken
  <2>3. store' = [id |-> n, secret |-> Latest(n)] BY <2>2, <1>5 DEF Saved
  <2> QED BY <2>2, <2>3, <1>10, <1>11
<1>14. HasOneToken(n)'
  <2>1. \A j \in Calls : Gives(j, n)' \/ call'[j].shows.id = n => Carries(j, n)' BY DEF Carries
  <2> QED BY <2>1, <1>13 DEF HasOneToken
<1>15. StaysWithClient(n)'
  <2>1. refreshSession'[n].status = "active" /\ refreshSession'[n].history = "clean" => Unraced(n)'
      BY DEF Unraced
  <2> QED BY <2>1, <1>3, <1>5, <1>13 DEF StaysWithClient
<1>16. \A s \in Sessions : Follows(s)' BY <1>8, <1>12, <1>14, <1>15 DEF Follows
<1> QED BY <1>1, <1>7, <1>16, CallDropped DEF ClientInv

\* What is put in a store that is cleared.
LEMMA ClearedOrKept ==
  ASSUME ClientInv, Put(Empty) \/ UNCHANGED <<refreshSession, store>>
  PROVE  /\ store' \in Store /\ refreshSession' \in [Sessions -> Chain]
         /\ \A s \in Sessions :
              /\ refreshSession'[s].status = refreshSession[s].status
              /\ store'.id = s => store' = store
              /\ Unraced(s)' => Unraced(s)
              /\ Unraced(s)' /\ refreshSession'[s].history = "clean" =>
                   refreshSession[s].history = "clean" /\ (store.id = s => store'.id = s)
              /\ refreshSession'[s].status = "replayed" => refreshSession'[s].history = "raced"
<1>1. CASE Put(Empty) BY <1>1, StorePut, Messages, SessionsAssumption
<1>2. CASE UNCHANGED <<refreshSession, store>>
  <2>1. \A s \in Sessions : Unraced(s)' <=> Unraced(s) BY <1>2 DEF Unraced
  <2>2. \A s \in Sessions : Follows(s) BY DEF ClientInv
  <2> QED BY <2>1, <2>2, <1>2, ClientTypes DEF ClientInv, Follows, StaysWithClient
<1> QED BY <1>1, <1>2

LEMMA EndReceived ==
  ASSUME ClientInv, NEW k \in Calls, ReceiveEnd(k)
  PROVE  ClientInv'
<1>1. /\ call[k].client # None
      /\ \/ call[k].kind = "refresh" /\ call[k].answer = "error"
         \/ call[k].kind = "logout" /\ call[k].answer # "none"
      /\ Put(Empty) \/ UNCHANGED <<refreshSession, store>>
      /\ token' = [token EXCEPT ![call[k].client] = None]
      /\ call' = [call EXCEPT ![k] = Idle]
      /\ platform' = platform
    BY DEF ReceiveEnd
<1>2. call[k].given = None BY <1>1 DEF ClientInv, CallFits, MessageFits
<1>3. ClientTypeOK BY DEF ClientInv
<1>4. token' \in [Clients -> [of : Sessions, fresh : BOOLEAN] \cup {None}] BY <1>1, <1>3 DEF ClientTypeOK
<1>5. ClientTypeOK'
    BY <1>1, <1>3, <1>4, ClearedOrKept, CallDropped, ClientTypes DEF ClientTypeOK, Message, Chain
<1>6. ASSUME NEW s \in Sessions PROVE Spares(s)
  <2>1. ~Gives(k, s) BY <1>2 DEF Gives
  <2> QED BY <2>1, <1>1, ClearedOrKept, CallDropped DEF Spares
<1> QED BY <1>1, <1>5, <1>6, CallDropped, SparingStep

\* Calls that nobody waits for any more.
LEMMA ReleasedCall ==
  ASSUME ClientInv, NEW k \in Calls
  PROVE  /\ Released(k) \in Message /\ MessageFits(Released(k))
         /\ \/ Released(k) = Idle
            \/ /\ Released(k).kind = call[k].kind
               /\ Released(k).shows = call[k].shows /\ Released(k).given = call[k].given
<1>1. call[k] \in Message /\ MessageFits(call[k]) BY ClientTypes DEF ClientInv, CallFits
<1>2. CASE call[k].answer # "none" BY <1>2, Messages DEF Released, MessageFits
<1>3. CASE call[k].answer = "none"
  <2>1. Released(k) = [call[k] EXCEPT !.client = None] BY <1>3 DEF Released
  <2>2. CASE call[k].kind = "idle"
    <3>1. call[k] = Idle BY <1>1, <2>2 DEF MessageFits
    <3>2. [Idle EXCEPT !.client = None] = Idle
      <4> DEFINE i == Idle
      <4>1. i \in Message /\ i.client = None BY Messages
      <4> HIDE DEF i
      <4>2. [i EXCEPT !.client = None] = i BY <4>1 DEF Message
      <4> QED BY <4>2 DEF i
    <3>3. Released(k) = Idle BY <2>1, <3>1, <3>2
    <3> QED BY <3>3, Messages DEF MessageFits
  <2>3. CASE call[k].kind # "idle"
    <3> DEFINE r == [call[k] EXCEPT !.client = None]
    <3>1. /\ r \in Message /\ r.kind = call[k].kind /\ r.client = None /\ r.shows = call[k].shows
          /\ r.bearer = call[k].bearer /\ r.answer = call[k].answer /\ r.given = call[k].given
        BY <1>1 DEF Message
    <3> HIDE DEF r
    <3>2. MessageFits(r) BY <3>1, <1>1, <1>3, <2>3 DEF MessageFits
    <3> QED BY <3>1, <3>2, <2>1 DEF r
  <2> QED BY <2>2, <2>3
<1> QED BY <1>2, <1>3

LEMMA CallsReleased ==
  ASSUME ClientInv, NEW K \in SUBSET Calls,
         call' = [k \in Calls |-> IF k \in K THEN call'[k] ELSE call[k]],
         \A k \in K : call'[k] \in {Released(k), Idle}
  PROVE  /\ call' \in [Calls -> Message]
         /\ \A k \in Calls : CallFits(k)'
         /\ \A s \in Sessions, k \in Calls :
              /\ Alike(k, s) \/ ~Carries(k, s)'
              /\ Carries(k, s)' => Carries(k, s)
              /\ k \notin K => Firm(k, s)
<1>1. ASSUME NEW k \in Calls
      PROVE  /\ call'[k] \in Message /\ MessageFits(call'[k])
             /\ k \notin K => call'[k] = call[k]
             /\ \/ call'[k] = Idle
                \/ /\ call'[k].kind = call[k].kind
                   /\ call'[k].shows = call[k].shows /\ call'[k].given = call[k].given
  <2>1. call[k] \in Message /\ MessageFits(call[k]) BY ClientTypes DEF ClientInv, CallFits
  <2>2. MessageFits(Idle) /\ Idle \in Message BY Messages DEF MessageFits
  <2>3. CASE k \in K BY <2>2, <2>3, ReleasedCall
  <2>4. CASE k \notin K
    <3>1. call'[k] = call[k] BY <2>4
    <3> QED BY <3>1, <2>1, <2>4
  <2> QED BY <2>3, <2>4
<1>2. ASSUME NEW s \in Sessions, NEW k \in Calls
      PROVE  /\ Alike(k, s) \/ ~Carries(k, s)'
             /\ Carries(k, s)' => Carries(k, s)
             /\ k \notin K => Firm(k, s)
  <2>1. CASE call'[k] = Idle
    <3>1. ~Carries(k, s)' BY <2>1, Messages, SessionsAssumption DEF Carries, Gives
    <3> QED BY <3>1, <1>1 DEF Firm
  <2>2. CASE /\ call'[k].kind = call[k].kind
             /\ call'[k].shows = call[k].shows /\ call'[k].given = call[k].given
      BY <2>2, <1>1 DEF Alike, Carries, Gives, Firm
  <2> QED BY <1>1, <2>1, <2>2
<1>3. call' \in [Calls -> Message] BY <1>1
<1> QED BY <1>1, <1>2, <1>3 DEF CallFits

\* The sessions that the calls of K carry, and maybe others, have raced.
LEMMA RacedOnes ==
  ASSUME ClientInv, NEW S, refreshSession' = Marked(S, "raced")
  PROVE  /\ refreshSession' \in [Sessions -> Chain]
         /\ \A s \in Sessions :
              /\ refreshSession'[s].status = refreshSession[s].status
              /\ Unraced(s)' => /\ Unraced(s) /\ s \notin S
                                /\ refreshSession'[s] = refreshSession[s]
              /\ refreshSession'[s].status = "replayed" => refreshSession'[s].history = "raced"
<1>1. refreshSession \in [Sessions -> Chain] BY ClientTypes DEF ClientInv
<1>2. /\ refreshSession' \in [Sessions -> Chain]
      /\ \A o \in Sessions :
           /\ refreshSession'[o].status = refreshSession[o].status
           /\ o \notin S => refreshSession'[o] = refreshSession[o]
           /\ o \in S /\ Unraced(o) => refreshSession'[o].history = "raced"
           /\ ~Unraced(o) => refreshSession'[o] = refreshSession[o]
    BY <1>1, RowsMarked
<1>3. \A s \in Sessions : refreshSession[s].status = "replayed" => ~Unraced(s) /\ refreshSession[s].history = "raced"
    BY DEF ClientInv, Follows, StaysWithClient, Unraced
<1> QED BY <1>2, <1>3 DEF Unraced

LEMMA LostCall ==
  ASSUME ClientInv, NEW k \in Calls, Lose(k)
  PROVE  ClientInv'
<1>1. /\ call[k].client # None
      /\ call' = [call EXCEPT ![k] = Released(k)]
      /\ platform' = platform
    BY DEF Lose
<1>2. ClientTypeOK /\ call \in [Calls -> Message] /\ call[k].client \in Clients
    BY <1>1, ClientTypes DEF ClientInv, Message
<1>3. /\ call' \in [Calls -> Message]
      /\ \A j \in Calls : CallFits(j)'
      /\ \A s \in Sessions, j \in Calls :
           /\ Alike(j, s) \/ ~Carries(j, s)'
           /\ Carries(j, s)' => Carries(j, s)
           /\ j # k => Firm(j, s)
  <2>1. call' = [j \in Calls |-> IF j \in {k} THEN call'[j] ELSE call[j]] /\ call'[k] = Released(k)
      BY <1>1, <1>2
  <2> QED BY <2>1, CallsReleased
<1>4. token' \in [Clients -> [of : Sessions, fresh : BOOLEAN] \cup {None}]
    BY <1>2 DEF Lose, ClientTypeOK
<1>5. CASE call[k].kind = "logout" /\ platform = "mobile"
  <2>1. Put(Empty) BY <1>5 DEF Lose
  <2>2. ClientTypeOK'
      BY <2>1, <1>1, <1>2, <1>3, <1>4, ClearedOrKept, ClientTypes DEF ClientTypeOK, Message, Chain
  <2>3. ASSUME NEW s \in Sessions PROVE Spares(s)
    <3>1. ~Carries(k, s) BY <1>5, Carriers
    <3>2. ~Gives(k, s) BY <3>1 DEF Carries
    <3>3. \A j \in Calls \ {k} : \/ Alike(j, s) /\ Firm(j, s)
                                 \/ ~Carries(j, s)' /\ ~Gives(j, s)
        BY <1>1, <1>2 DEF Alike, Firm, Gives
    <3> QED BY <3>1, <3>2, <3>3, <2>1, <1>3, ClearedOrKept DEF Spares
  <2> QED BY <2>2, <2>3, <1>3, SparingStep
<1>6. CASE ~(call[k].kind = "logout" /\ platform = "mobile")
  <2>1. refreshSession' = Marked(Carried(k), "raced") /\ store' = store BY <1>6 DEF Lose
  <2>2. /\ refreshSession' \in [Sessions -> Chain]
        /\ \A s \in Sessions :
             /\ refreshSession'[s].status = refreshSession[s].status
             /\ Unraced(s)' => /\ Unraced(s) /\ s \notin Carried(k)
                               /\ refreshSession'[s] = refreshSession[s]
             /\ refreshSession'[s].status = "replayed" => refreshSession'[s].history = "raced"
      BY <2>1, RacedOnes
  <2>3. ClientTypeOK'
      BY <2>1, <2>2, <1>1, <1>2, <1>3, <1>4, ClientTypes DEF ClientTypeOK, Message, Chain
  <2>4. ASSUME NEW s \in Sessions PROVE Spares(s)
    <3>1. Unraced(s)' => ~Carries(k, s) BY <2>2, CarriedAre
    <3>2. ~Carries(k, s) => ~Gives(k, s) BY DEF Carries
    <3>3. \A j \in Calls \ {k} : Alike(j, s) /\ Firm(j, s) BY <1>1, <1>2 DEF Alike, Firm, Gives
    <3> QED BY <3>1, <3>2, <3>3, <2>1, <2>2, <1>3 DEF Spares
  <2> QED BY <2>3, <2>4, <1>3, SparingStep
<1> QED BY <1>5, <1>6

LEMMA ClientRestarted ==
  ASSUME ClientInv, NEW c \in Clients, Restart(c)
  PROVE  ClientInv'
<1> DEFINE K == {k \in Calls : call[k].client = c}
<1>1. /\ token' = [token EXCEPT ![c] = None]
      /\ call' = [k \in Calls |-> IF k \in K THEN Released(k) ELSE call[k]]
      /\ refreshSession' = Marked(UNION {Carried(k) : k \in K}, "raced")
      /\ UNCHANGED <<platform, store>>
    BY DEF Restart
<1>2. ClientTypeOK /\ K \in SUBSET Calls /\ call \in [Calls -> Message] BY ClientTypes DEF ClientInv
<1>3. /\ \A k \in K : call'[k] = Released(k)
      /\ \A k \in Calls \ K : call'[k] = call[k]
      /\ call' = [k \in Calls |-> IF k \in K THEN call'[k] ELSE call[k]]
    BY <1>1
<1> PICK R \in SUBSET Calls : R = K
    BY <1>2
<1>4. /\ call' \in [Calls -> Message]
      /\ \A k \in Calls : CallFits(k)'
      /\ \A s \in Sessions, k \in Calls :
           /\ Alike(k, s) \/ ~Carries(k, s)'
           /\ Carries(k, s)' => Carries(k, s)
           /\ k \notin R => Firm(k, s)
    BY <1>3, CallsReleased
<1>5. /\ refreshSession' \in [Sessions -> Chain]
      /\ \A s \in Sessions :
           /\ refreshSession'[s].status = refreshSession[s].status
           /\ Unraced(s)' => /\ Unraced(s) /\ s \notin UNION {Carried(k) : k \in K}
                             /\ refreshSession'[s] = refreshSession[s]
           /\ refreshSession'[s].status = "replayed" => refreshSession'[s].history = "raced"
    BY <1>1, RacedOnes
<1>6. token' \in [Clients -> [of : Sessions, fresh : BOOLEAN] \cup {None}] BY <1>1, <1>2 DEF ClientTypeOK
<1>7. ClientTypeOK' BY <1>1, <1>2, <1>4, <1>5, <1>6, ClientTypes DEF ClientTypeOK, Message, Chain
<1>8. ASSUME NEW s \in Sessions PROVE Spares(s)
  <2>1. ASSUME Unraced(s)', NEW k \in R PROVE ~Carries(k, s)
    <3>1. s \notin Carried(k) BY <2>1, <1>5
    <3> QED BY <3>1, CarriedAre
  <2>2. \A k \in Calls : ~Carries(k, s) => ~Gives(k, s) BY DEF Carries
  <2>3. \A k \in Calls \ R : Alike(k, s) /\ Firm(k, s) BY <1>3 DEF Alike, Firm, Gives
  <2> QED BY <2>1, <2>2, <2>3, <1>1, <1>4, <1>5 DEF Spares
<1> QED BY <1>4, <1>7, <1>8, SparingStep

LEMMA SavingStopped ==
  ASSUME ClientInv, NEW k \in Calls, StopWhileSaving(k)
  PROVE  ClientInv'
<1> DEFINE K == {j \in Calls : call[j].client = call[k].client}
           S == {store.id} \cup UNION {Carried(j) : j \in K}
<1>1. /\ SignsIn(k) /\ call[k].client # None
      /\ store' \in {[store EXCEPT !.id = call[k].given.of], [store EXCEPT !.secret = call[k].given]}
      /\ refreshSession' = Marked(S, "raced")
      /\ token' = [token EXCEPT ![call[k].client] = None]
      /\ call' = [j \in Calls |-> IF j = k THEN Idle
                                  ELSE IF j \in K THEN Released(j) ELSE call[j]]
      /\ platform' = platform
    BY DEF StopWhileSaving
<1>2. ClientTypeOK /\ store \in Store /\ call \in [Calls -> Message] /\ call[k].client \in Clients
    BY <1>1, ClientTypes DEF ClientInv, Message
<1>3. call[k].given # None /\ call[k].given \in RefreshToken
    BY <1>1, <1>2 DEF ClientInv, CallFits, MessageFits, SignsIn, Message
<1> PICK n \in Sessions : n = call[k].given.of
    BY <1>3 DEF RefreshToken
<1>4. /\ store' \in Store /\ store'.id \in {store.id, n}
    BY <1>1, <1>2, <1>3 DEF Store
<1> PICK R \in SUBSET Calls : R = K
    OBVIOUS
<1>5. /\ k \in R
      /\ \A j \in R : call'[j] \in {Released(j), Idle}
      /\ \A j \in Calls \ R : call'[j] = call[j]
      /\ call' = [j \in Calls |-> IF j \in R THEN call'[j] ELSE call[j]]
    BY <1>1
<1>6. /\ call' \in [Calls -> Message]
      /\ \A j \in Calls : CallFits(j)'
      /\ \A s \in Sessions, j \in Calls :
           /\ Alike(j, s) \/ ~Carries(j, s)'
           /\ Carries(j, s)' => Carries(j, s)
           /\ j \notin R => Firm(j, s)
    BY <1>5, CallsReleased
<1>7. /\ refreshSession' \in [Sessions -> Chain]
      /\ \A s \in Sessions :
           /\ refreshSession'[s].status = refreshSession[s].status
           /\ Unraced(s)' => /\ Unraced(s) /\ s \notin S
                             /\ refreshSession'[s] = refreshSession[s]
           /\ refreshSession'[s].status = "replayed" => refreshSession'[s].history = "raced"
    BY <1>1, RacedOnes
<1>8. token' \in [Clients -> [of : Sessions, fresh : BOOLEAN] \cup {None}] BY <1>1, <1>2 DEF ClientTypeOK
<1>9. ClientTypeOK' BY <1>1, <1>2, <1>4, <1>6, <1>7, <1>8, ClientTypes DEF ClientTypeOK, Message, Chain
<1>10. ASSUME NEW s \in Sessions, Unraced(s)' PROVE store.id # s /\ \A j \in R : ~Carries(j, s)
  <2>1. store.id # s /\ \A j \in R : s \notin Carried(j) BY <1>10, <1>7
  <2> QED BY <2>1, CarriedAre
<1>11. ASSUME NEW s \in Sessions \ {n} PROVE Follows(s)'
  <2>1. \A j \in Calls : ~Carries(j, s) => ~Gives(j, s) BY DEF Carries
  <2>2. \A j \in Calls \ R : Alike(j, s) /\ Firm(j, s) BY <1>5 DEF Alike, Firm, Gives
  <2>3. store'.id = s => store.id = s BY <1>4
  <2>4. Spares(s) BY <2>1, <2>2, <2>3, <1>6, <1>7, <1>10 DEF Spares
  <2> QED BY <2>4, <1>9, SparedFollows DEF ClientInv
<1>12. Follows(n)'
  <2>1. Gives(k, n) /\ Carries(k, n) /\ Follows(n) BY <1>3 DEF Gives, Carries, ClientInv
  <2>2. ~Unraced(n)' BY <2>1, <1>5, <1>10
  <2>3. refreshSession'[n].status # "unused" BY <2>1, <1>7 DEF Follows, OpenedUnseen
  <2>4. ~Carries(k, n)' BY <1>1, Messages, SessionsAssumption DEF Carries, Gives
  <2>5. ASSUME NEW j \in Calls, call'[j].kind = "login", Gives(j, n)' PROVE FALSE
    <3>1. Carries(j, n)' /\ Alike(j, n) BY <2>5, <1>6 DEF Carries
    <3>2. call[j].kind = "login" /\ Gives(j, n) /\ j # k BY <3>1, <2>4, <2>5 DEF Alike
    <3> QED BY <3>2, <2>1 DEF Follows, OpenedUnseen
  <2> QED BY <2>2, <2>3, <2>5, <1>7 DEF Follows, OpenedUnseen, HasOneToken, StaysWithClient, Unraced
<1> QED BY <1>6, <1>9, <1>11, <1>12 DEF ClientInv

LEMMA ClientInitially == ClientInit => ClientInv
<1> SUFFICES ASSUME ClientInit PROVE ClientInv
    OBVIOUS
<1> USE Messages, SessionsAssumption DEF ClientInit
<1>1. ClientTypeOK BY ClientTypes DEF Chain
<1>2. \A k \in Calls : CallFits(k) BY DEF CallFits, MessageFits
<1>3. ASSUME NEW s \in Sessions PROVE Follows(s)
  <2>1. \A k \in Calls : ~Carries(k, s) /\ ~Gives(k, s) BY DEF Carries, Gives
  <2> QED BY <2>1 DEF Follows, OpenedUnseen, HasOneToken, StaysWithClient, Unraced
<1> QED BY <1>1, <1>2, <1>3 DEF ClientInv

LEMMA ClientsStutter == ASSUME ClientInv, UNCHANGED clientVars PROVE ClientInv'
<1>1. /\ platform' = platform /\ refreshSession' = refreshSession /\ store' = store
      /\ token' = token /\ call' = call
    BY DEF clientVars
<1>2. ClientTypeOK' BY <1>1, ClientTypes DEF ClientInv, ClientTypeOK, Message, Chain
<1>3. \A k \in Calls : CallFits(k)' BY <1>1 DEF ClientInv, CallFits
<1>4. ASSUME NEW s \in Sessions PROVE Spares(s)
  <2>1. \A k \in Calls : Alike(k, s) /\ Firm(k, s) BY <1>1 DEF Alike, Firm, Gives
  <2>2. Follows(s) BY DEF ClientInv
  <2> QED BY <2>1, <2>2, <1>1 DEF Spares, Unraced, Follows, StaysWithClient
<1> QED BY <1>2, <1>3, <1>4, SparingStep

\* The inductive invariant of the clients, whatever is lost, delayed or stopped.
THEOREM ClientInvariance == ClientSpec => []ClientInv
<1>1. ClientInv /\ [ClientNext]_clientVars => ClientInv'
  <2> SUFFICES ASSUME ClientInv, [ClientNext]_clientVars PROVE ClientInv'
      OBVIOUS
  <2>1. ASSUME NEW c \in Clients, BeginRefresh(c) \/ BeginLogin(c) \/ BeginLogout(c) \/ Expire(c) \/ Restart(c)
        PROVE  ClientInv'
    <3>1. CASE BeginLogin(c) BY <3>1, OthersBegin DEF BeginLogin
    <3>2. CASE BeginLogout(c) BY <3>2, OthersBegin DEF BeginLogout
    <3> QED BY <2>1, <3>1, <3>2, RefreshBegins, ExpiredToken, ClientRestarted
  <2>2. ASSUME NEW k \in Calls, Serve(k) \/ Receive(k) \/ Lose(k) \/ Vanish(k) \/ StopWhileSaving(k)
        PROVE  ClientInv'
    <3>1. CASE Serve(k)
        BY <3>1, RefreshIsServed, LoginIsServed, LogoutIsServed, BadlyServed DEF Serve
    <3>2. CASE Receive(k) BY <3>2, SessionReceived, EndReceived DEF Receive
    <3> QED BY <2>2, <3>1, <3>2, LostCall, VanishedCall, SavingStopped
  <2> QED BY <2>1, <2>2, ClientsStutter DEF ClientNext
<1> QED BY <1>1, ClientInitially, PTL DEF ClientSpec

\* Whatever is in a client's store and on its way is typed.
THEOREM ClientsAreTyped == ClientSpec => []ClientTypeOK
<1>1. ClientInv => ClientTypeOK BY DEF ClientInv
<1> QED BY <1>1, ClientInvariance, PTL

\* A client whose session nothing befell has the token that the server accepts,
\* or is about to.
THEOREM ClientsStayInStep == ClientSpec => []InStep
<1>1. ClientInv => InStep BY DEF ClientInv, Follows, StaysWithClient, InStep, Latest
<1> QED BY <1>1, ClientInvariance, PTL

\* Only a client that lost an answer or had a rival is taken for a thief.
THEOREM ReplaysHaveACause == ClientSpec => []ReplayedForCause
<1>1. ClientInv => ReplayedForCause BY DEF ClientInv, Follows, StaysWithClient, ReplayedForCause
<1> QED BY <1>1, ClientInvariance, PTL

=============================================================================
