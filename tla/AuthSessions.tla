----------------------------- MODULE AuthSessions -----------------------------
(***************************************************************************)
(* The password and the refresh sessions of one account                    *)
(* (auth-orchestration.service.ts, refresh-session.service.ts,             *)
(* password-reset-token.service.ts).  No row is shared between accounts,   *)
(* so one account is the whole system.  There are no advisory locks here:  *)
(* a transaction keeps the row locks of its UPDATEs until it commits, and  *)
(* an UPDATE that waited re-evaluates its WHERE clause on the row as it is *)
(* then (READ COMMITTED).  An UPDATE of many rows finds them in the        *)
(* snapshot of its start and reaches them one by one: a row that is        *)
(* committed after that start is not among them.  The writes are staged    *)
(* and appear at the commit.                                               *)
(* Expiry only ever disables a row, which nobody is obliged to use, so it  *)
(* has no action.  Accounts stay ACTIVE: no code under src/ deactivates    *)
(* one.                                                                    *)
(***************************************************************************)
EXTENDS RefreshSessions, Naturals

CONSTANTS
  Tx,             \* API requests being served
  Resets,         \* identifiers of password reset tokens
  Passwords,
  MaxTokens,      \* bound: refresh tokens a session ever has
  NoTx            \* a free row lock

ASSUME TxAssumption == NoTx \notin Tx
ASSUME NoneAssumption == None \notin Resets \cup Passwords
ASSUME MaxTokensAssumption == MaxTokens \in Nat \ {0}

VARIABLES
  credential,      \* the stored password and whether its hash is outdated
  session,         \* rows of refresh_sessions
  reset,           \* status of the rows of password_reset_tokens
  credentialLock,  \* row locks, by the transaction that has written the row
  sessionLock, resetLock,
  pc, op,          \* stage and operation of each request
  seen             \* the password a login verified, the rows an UPDATE finds and revokes

vars == <<credential, session, reset, credentialLock, sessionLock, resetLock, pc, op, seen>>

Rows == <<credential, session, reset>>
Locks == <<credentialLock, sessionLock, resetLock>>

-----------------------------------------------------------------------------
(* Rows *)

\* undone is a history variable: a rehash has brought a replaced password back.
Credential == [password : Passwords, weak : BOOLEAN, undone : BOOLEAN]

\* token counts the refresh tokens issued: only the hash of the last one is
\* stored.  recent: lastUsedAt is within the grace window for retries.
\* password and late are history variables: the password the session was
\* opened with, and whether that login overlapped a replacement of it.
Session ==
  [status : {"absent", "ACTIVE", "REVOKED"}, token : 0..MaxTokens, recent : BOOLEAN,
   password : Passwords \cup {None}, late : BOOLEAN]

NoSession == [status |-> "absent", token |-> 0, recent |-> FALSE, password |-> None,
              late |-> FALSE]

ResetStatus == {"absent", "OUTSTANDING", "CONSUMED", "REVOKED"}

Active == {s \in Sessions : session[s].status = "ACTIVE"}

Outstanding == {r \in Resets : reset[r] = "OUTSTANDING"}

\* Mutant of Revoked: the rows are marked as deleted and keep their tokens.
RevokedByDeletion(gone) ==
  [s \in Sessions |-> IF s \in gone THEN [session[s] EXCEPT !.status = "absent"] ELSE session[s]]

\* The rows of sessions after the UPDATE that revokes those in gone; what is
\* remembered of a login ends with its session.
Revoked(gone) ==
  [s \in Sessions |->
     IF s \in gone
     THEN [session[s] EXCEPT !.status = "REVOKED", !.password = None, !.late = FALSE]
     ELSE session[s]]

-----------------------------------------------------------------------------
(* Requests *)

Op ==
  [kind : {"login", "issue", "logoutAll"}, session : {None}, token : {0}, reset : {None}, new : {None}]
  \cup [kind : {"refresh", "replay"}, session : Sessions, token : 1..MaxTokens, reset : {None},
        new : {None}]
  \cup [kind : {"change"}, session : Sessions, token : {0}, reset : {None}, new : Passwords]
  \cup [kind : {"reset"}, session : {None}, token : {0}, reset : Resets, new : Passwords]

NoOp == [kind |-> "none", session |-> None, token |-> 0, reset |-> None, new |-> None]

Replaces(o) == o.kind \in {"change", "reset"}

Stage == {"idle", "token", "credential", "revoke", "rotate", "commit"}

\* due, overdue: the sessions and the reset tokens that its UPDATE has found and
\* not reached yet; gone, withdrawn: those that it has revoked.
Seen == [password : Passwords \cup {None}, due : SUBSET Sessions, gone : SUBSET Sessions,
         overdue : SUBSET Resets, withdrawn : SUBSET Resets]

NothingSeen == [password |-> None, due |-> {}, gone |-> {}, overdue |-> {}, withdrawn |-> {}]

\* The UPDATE that revokes many rows has reached them all.
RevokedAll(t) == seen[t].due = {} /\ seen[t].overdue = {}

TypeOK ==
  /\ credential \in Credential
  /\ session \in [Sessions -> Session]
  /\ \A s \in Sessions : session[s].status = "absent" <=> session[s] = NoSession
  /\ reset \in [Resets -> ResetStatus]
  /\ credentialLock \in Tx \cup {NoTx}
  /\ sessionLock \in [Sessions -> Tx \cup {NoTx}]
  /\ resetLock \in [Resets -> Tx \cup {NoTx}]
  /\ pc \in [Tx -> Stage]
  /\ op \in [Tx -> Op \cup {NoOp}]
  /\ seen \in [Tx -> Seen]

\* An activated account, its hash possibly made with outdated parameters.
Init ==
  /\ credential \in [password : Passwords, weak : BOOLEAN, undone : {FALSE}]
  /\ session = [s \in Sessions |-> NoSession]
  /\ reset = [r \in Resets |-> "absent"]
  /\ credentialLock = NoTx
  /\ sessionLock = [s \in Sessions |-> NoTx]
  /\ resetLock = [r \in Resets |-> NoTx]
  /\ pc = [t \in Tx |-> "idle"]
  /\ op = [t \in Tx |-> NoOp]
  /\ seen = [t \in Tx |-> NothingSeen]

Start(t, o, stage) ==
  /\ pc[t] = "idle"
  /\ pc' = [pc EXCEPT ![t] = stage]
  /\ op' = [op EXCEPT ![t] = o]
  /\ UNCHANGED <<Rows, Locks>>

End(t) ==
  /\ pc' = [pc EXCEPT ![t] = "idle"]
  /\ op' = [op EXCEPT ![t] = NoOp]
  /\ seen' = [seen EXCEPT ![t] = NothingSeen]
  /\ credentialLock' = IF credentialLock = t THEN NoTx ELSE credentialLock
  /\ sessionLock' = [s \in Sessions |-> IF sessionLock[s] = t THEN NoTx ELSE sessionLock[s]]
  /\ resetLock' = [r \in Resets |-> IF resetLock[r] = t THEN NoTx ELSE resetLock[r]]

-----------------------------------------------------------------------------
(* login *)

\* Outside any transaction: the password matches the hash that is read.  An
\* outdated hash is written anew, with the password as it was typed.
Login(t) ==
  /\ Start(t, [NoOp EXCEPT !.kind = "login"], IF credential.weak THEN "credential" ELSE "commit")
  /\ seen' = [seen EXCEPT ![t].password = credential.password]

\* The UPDATE of the credential, by id and without looking at what it holds.
WriteCredential(t) ==
  /\ pc[t] = "credential"
  /\ credentialLock = NoTx
  /\ credentialLock' = t
  /\ pc' = [pc EXCEPT ![t] = IF Replaces(op[t]) THEN "revoke" ELSE "commit"]
  /\ UNCHANGED <<Rows, sessionLock, resetLock, op, seen>>

\* Some replacement of the password has already found the sessions it revokes,
\* reached or not: a login that commits from now on is not among them.
Replacing == \E u \in Tx : Replaces(op[u]) /\ pc[u] \in {"rotate", "commit"}

\* createSessionWithinTransaction, with the rehash if there is one.
CommitLogin(t) ==
  LET verified == seen[t].password
  IN /\ pc[t] = "commit" /\ op[t].kind = "login"
     /\ \E s \in Sessions :
          /\ session[s].status = "absent"
          /\ session' = [session EXCEPT ![s] =
                           [status |-> "ACTIVE", token |-> 1, recent |-> FALSE,
                            password |-> verified,
                            late |-> Replacing \/ credential.password # verified]]
     /\ credential' = IF credentialLock = t
                      THEN [password |-> verified, weak |-> FALSE,
                            undone |-> credential.undone \/ credential.password # verified]
                      ELSE credential
     /\ End(t)
     /\ UNCHANGED reset

-----------------------------------------------------------------------------
(* refresh *)

\* rotateSession reads the session and compares hashes.  Any token the
\* session ever had may be presented: clients retry and tokens are copied.  A
\* stale one within the grace window is refused and nothing happens.
Refresh(t) ==
  \E s \in Active : \E g \in 1..session[s].token :
    /\ \/ /\ g = session[s].token
          /\ g < MaxTokens
          /\ Start(t, [NoOp EXCEPT !.kind = "refresh", !.session = s, !.token = g], "rotate")
       \/ /\ g # session[s].token
          /\ ~session[s].recent
          /\ Start(t, [NoOp EXCEPT !.kind = "replay", !.session = s, !.token = g], "rotate")
    /\ UNCHANGED seen

\* Mutant of StillPresented: the UPDATE names the session but not the token.
StillPresentedWithoutHash(t) == session[op[t].session].status = "ACTIVE"

\* The WHERE clause of the rotation, on the row as the UPDATE finds it.
StillPresented(t) ==
  /\ session[op[t].session].status = "ACTIVE"
  /\ session[op[t].session].token = op[t].token

\* Mutant of Usable: the rotation forgets the status of the session.
UsableWhateverStatus(s) == session[s].status # "absent"

\* What a password change requires of the session that asks for it.
Usable(s) == session[s].status = "ACTIVE"

\* The UPDATE that rotates the token, or that revokes the session of a
\* replayed one, which is by id alone.
WriteSession(t) ==
  LET s == op[t].session
  IN /\ pc[t] = "rotate" /\ RevokedAll(t)
     /\ sessionLock[s] = NoTx
     /\ op[t].kind = "refresh" => StillPresented(t)
     /\ op[t].kind = "change" => Usable(s)
     /\ op[t].kind = "change" => session[s].token < MaxTokens
     /\ sessionLock' = [sessionLock EXCEPT ![s] = t]
     /\ pc' = [pc EXCEPT ![t] = "commit"]
     /\ UNCHANGED <<Rows, credentialLock, resetLock, op, seen>>

\* The duplicate of a refresh finds its token rotated since it read the row:
\* lastUsedAt is within the grace window (no transaction lasts longer), or the
\* session is no longer ACTIVE.  Either way it is refused without a write.
RefuseDuplicate(t) ==
  /\ pc[t] = "rotate" /\ op[t].kind = "refresh"
  /\ sessionLock[op[t].session] = NoTx
  /\ ~StillPresented(t)
  /\ End(t)
  /\ UNCHANGED Rows

\* The row with a new token.
Rotated(row) == [row EXCEPT !.token = @ + 1, !.recent = TRUE]

CommitRefresh(t) ==
  /\ pc[t] = "commit"
  /\ \/ /\ op[t].kind = "refresh"
        /\ session' = [session EXCEPT ![op[t].session] = Rotated(@)]
     \/ /\ op[t].kind = "replay"
        /\ session' = Revoked({op[t].session})
  /\ End(t)
  /\ UNCHANGED <<credential, reset>>

\* Five seconds have passed since the last rotation; only an ACTIVE session is
\* asked.
GraceEnds(s) ==
  /\ s \in Active /\ session[s].recent
  /\ session' = [session EXCEPT ![s].recent = FALSE]
  /\ UNCHANGED <<credential, reset, Locks, pc, op, seen>>

-----------------------------------------------------------------------------
(* logout *)

\* One statement of its own, which waits for the row.
Logout(s) ==
  /\ session[s].status # "absent"
  /\ sessionLock[s] = NoTx
  /\ session' = Revoked({s})
  /\ UNCHANGED <<credential, reset, Locks, pc, op, seen>>

\* revokeAllUserSessions: the same UPDATE as below, in a transaction of its own.
LogoutAll(t) == Start(t, [NoOp EXCEPT !.kind = "logoutAll"], "revoke") /\ UNCHANGED seen

CommitLogoutAll(t) ==
  /\ pc[t] = "commit" /\ op[t].kind = "logoutAll" /\ RevokedAll(t)
  /\ session' = Revoked(seen[t].gone)
  /\ End(t)
  /\ UNCHANGED <<credential, reset>>

-----------------------------------------------------------------------------
(* changePassword, completePasswordReset *)

\* Outside any transaction: the current password matches the hash that is
\* read.  The access token that asks may outlive its session.
Change(t) ==
  /\ \E s \in Sessions, new \in Passwords :
       /\ session[s].status # "absent"
       /\ new # credential.password
       /\ Start(t, [NoOp EXCEPT !.kind = "change", !.session = s, !.new = new], "credential")
  /\ UNCHANGED seen

Reset(t) ==
  /\ \E r \in Outstanding, new \in Passwords :
       Start(t, [NoOp EXCEPT !.kind = "reset", !.reset = r, !.new = new], "token")
  /\ UNCHANGED seen

\* Mutant of Consumable: the UPDATE names the token but not consumedAt.
ConsumableAgain(r) == reset[r] # "REVOKED"

\* The WHERE clause that consumes a reset token.
Consumable(r) == reset[r] = "OUTSTANDING"

ConsumeReset(t) ==
  LET r == op[t].reset
  IN /\ pc[t] = "token" /\ op[t].kind = "reset"
     /\ resetLock[r] = NoTx
     /\ Consumable(r)
     /\ resetLock' = [resetLock EXCEPT ![r] = t]
     /\ pc' = [pc EXCEPT ![t] = "credential"]
     /\ UNCHANGED <<Rows, credentialLock, sessionLock, op, seen>>

\* Mutant of Doomed: a reset spares the sessions that were refreshed lately.
DoomedUnlessRecent(o) == {s \in Active : s # o.session /\ ~session[s].recent}

\* Every ACTIVE session but the one that asks for the change.
Doomed(o) == Active \ {o.session}

\* The UPDATE that revokes them starts: it finds its rows.
RevokeSessions(t) ==
  /\ pc[t] = "revoke"
  /\ seen' = [seen EXCEPT ![t].due = Doomed(op[t])]
  /\ pc' = [pc EXCEPT ![t] = IF op[t].kind = "change" THEN "rotate" ELSE "commit"]
  /\ UNCHANGED <<Rows, Locks, op>>

\* It reaches one of them, waits for it, and leaves it alone if it has been
\* revoked meanwhile.
RevokeSession(t, s) ==
  /\ s \in seen[t].due
  /\ sessionLock[s] = NoTx
  /\ \/ /\ s \in Active
        /\ sessionLock' = [sessionLock EXCEPT ![s] = t]
        /\ seen' = [seen EXCEPT ![t].due = @ \ {s}, ![t].gone = @ \cup {s}]
     \/ /\ s \notin Active
        /\ seen' = [seen EXCEPT ![t].due = @ \ {s}]
        /\ UNCHANGED sessionLock
  /\ UNCHANGED <<Rows, credentialLock, resetLock, pc, op>>

CommitChange(t) ==
  LET o == op[t]
  IN /\ pc[t] = "commit" /\ o.kind = "change" /\ RevokedAll(t)
     /\ credential' = [password |-> o.new, weak |-> FALSE, undone |-> FALSE]
     /\ session' = [Revoked(seen[t].gone) EXCEPT
                      ![o.session] = [Rotated(@) EXCEPT !.password = o.new, !.late = FALSE]]
     /\ End(t)
     /\ UNCHANGED reset

CommitReset(t) ==
  LET o == op[t]
  IN /\ pc[t] = "commit" /\ o.kind = "reset" /\ RevokedAll(t)
     /\ credential' = [password |-> o.new, weak |-> FALSE, undone |-> FALSE]
     /\ session' = Revoked(seen[t].gone)
     /\ reset' = [reset EXCEPT ![o.reset] = "CONSUMED"]
     /\ End(t)

\* PasswordResetTokenService.issue: outstanding tokens are withdrawn first.
Issue(t) == Start(t, [NoOp EXCEPT !.kind = "issue"], "token") /\ UNCHANGED seen

WithdrawResets(t) ==
  /\ pc[t] = "token" /\ op[t].kind = "issue"
  /\ seen' = [seen EXCEPT ![t].overdue = Outstanding]
  /\ pc' = [pc EXCEPT ![t] = "commit"]
  /\ UNCHANGED <<Rows, Locks, op>>

WithdrawReset(t, r) ==
  /\ r \in seen[t].overdue
  /\ resetLock[r] = NoTx
  /\ \/ /\ r \in Outstanding
        /\ resetLock' = [resetLock EXCEPT ![r] = t]
        /\ seen' = [seen EXCEPT ![t].overdue = @ \ {r}, ![t].withdrawn = @ \cup {r}]
     \/ /\ r \notin Outstanding
        /\ seen' = [seen EXCEPT ![t].overdue = @ \ {r}]
        /\ UNCHANGED resetLock
  /\ UNCHANGED <<Rows, credentialLock, sessionLock, pc, op>>

CommitIssue(t) ==
  /\ pc[t] = "commit" /\ op[t].kind = "issue" /\ RevokedAll(t)
  /\ \E new \in Resets :
       /\ reset[new] = "absent"
       /\ reset' = [r \in Resets |-> IF r = new THEN "OUTSTANDING"
                                     ELSE IF r \in seen[t].withdrawn THEN "REVOKED" ELSE reset[r]]
  /\ End(t)
  /\ UNCHANGED <<credential, session>>

\* An error, a refusal, a timeout, a deadlock PostgreSQL breaks, or a crash.
Rollback(t) ==
  /\ pc[t] # "idle"
  /\ End(t)
  /\ UNCHANGED Rows

Next ==
  \/ \E s \in Sessions : GraceEnds(s) \/ Logout(s)
  \/ \E t \in Tx :
       \/ Login(t) \/ WriteCredential(t) \/ CommitLogin(t)
       \/ Refresh(t) \/ WriteSession(t) \/ RefuseDuplicate(t) \/ CommitRefresh(t)
       \/ LogoutAll(t) \/ RevokeSessions(t) \/ CommitLogoutAll(t)
       \/ Change(t) \/ Reset(t) \/ ConsumeReset(t) \/ CommitChange(t) \/ CommitReset(t)
       \/ Issue(t) \/ WithdrawResets(t) \/ CommitIssue(t) \/ Rollback(t)
       \/ \E s \in Sessions : RevokeSession(t, s)
       \/ \E r \in Resets : WithdrawReset(t, r)

Spec == Init /\ [][Next]_vars

-----------------------------------------------------------------------------
(* Properties *)

\* A refresh only succeeds with the newest token of its session, so two
\* requests that present the same token never start two chains of tokens: the
\* token changes by a password change of that session or by a refresh that
\* presented the token being replaced.
NewestTokenRotates ==
  [][\A s \in Sessions :
       session[s].status = "ACTIVE" /\ session'[s].token # session[s].token =>
         \E t \in Tx :
           /\ pc[t] = "commit" /\ op[t].session = s
           /\ op[t].kind = "refresh" => op[t].token = session[s].token]_vars

\* A revoked session stays as it was revoked, whatever refresh or password
\* change had read it before.
RevokedIsFinal ==
  [][\A s \in Sessions :
       session[s].status = "REVOKED" =>
         /\ session'[s].status = "REVOKED"
         /\ session'[s].token = session[s].token]_vars

\* A reset token replaces the password once: of the requests that hold it, one
\* at most is past its consumption, and none after another has committed.
ResetTokenIsSingleUse ==
  \A t, u \in Tx :
    /\ op[t].kind = "reset" /\ pc[t] \in {"credential", "revoke", "commit"}
    /\ op[u].kind = "reset" /\ pc[u] \in {"credential", "revoke", "commit"}
    /\ op[t].reset = op[u].reset
    => t = u /\ reset[op[t].reset] = "OUTSTANDING"

\* A session opened with a replaced password is only ever ACTIVE when its
\* login overlapped the replacement: one that was there before is revoked in
\* the same step, refreshed or not, and the session that asked is kept.
StaleSessionsAreLate ==
  ~credential.undone =>
    \A s \in Active : session[s].late \/ session[s].password = credential.password

\* The replacement of the password and the revocation of the sessions opened
\* with the old one are one ("Preserve invariant: password hash update and
\* session revocation are consistent").
SessionsMatchPassword ==
  ~credential.undone => \A s \in Active : session[s].password = credential.password

\* Rehashing keeps the password ("check whether the stored hash uses outdated
\* parameters. If so, rehash with current parameters in the same authenticated
\* flow"): it never brings back one that was replaced.  The code does not keep
\* this; see "Divergences" in the README.
RehashKeepsPassword == ~credential.undone

=============================================================================
