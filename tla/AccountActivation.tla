--------------------------- MODULE AccountActivation ---------------------------
(***************************************************************************)
(* How accounts come to exist and get their password: an administrator     *)
(* creates an instructor with a tenant or issues the activation code anew  *)
(* (instructor-onboarding.service.ts), an instructor adds a student to a   *)
(* tenant (student-association.service.ts), and the owner of the account   *)
(* uses the code (account-activation-token.service.ts, activateAccount).   *)
(* An account is known by its address, which is unique.  Transactions run  *)
(* at READ COMMITTED: what they write is seen at their commit, a row they  *)
(* write stays locked and an index entry they insert stays in doubt until  *)
(* then.  Accounts stay ACTIVE and nobody leaves a tenant: no code under   *)
(* src/ suspends an account or removes an association.                     *)
(***************************************************************************)
CONSTANTS
  Emails,      \* normalized addresses
  Tenants,     \* slugs of tenants
  Tokens,      \* rows of account_activation_tokens
  Txs,         \* requests being served
  Others,      \* instructors that are there already
  None

ASSUME OthersAssumption == Others \notin Emails /\ Others # None
ASSUME NoneAssumption == None \notin Emails \cup Tenants \cup Tokens

VARIABLES
  account,     \* role of each address; the code that its password came with
  owner,       \* of each tenant
  member,      \* rows of tenant_students
  token,       \* rows of account_activation_tokens
  tx           \* the transactions in flight

accountVars == <<account, owner, member, token, tx>>

Rows == <<account, owner, member, token>>

-----------------------------------------------------------------------------
Roles == {"student", "instructor"}

Account == [role : Roles \cup {"none"}, opened : Tokens \cup {None}]

Token == [of : Emails \cup {None}, status : {"unused", "outstanding", "revoked", "consumed"},
          expired : BOOLEAN]

Stages == {"read", "account", "tenant", "association", "member", "lock", "check", "consume",
           "password", "issue", "revoke", "commit"}

\* makes: the rows it has inserted.  seen: the outstanding codes that its UPDATE
\* found, ends: those it has revoked or consumed.  late: its code had expired
\* when it began.
Transaction ==
  [op : {"add", "create", "reissue", "activate"}, stage : Stages, email : Emails, tenant : Tenants \cup {None},
   code : Tokens \cup {None}, purpose : Roles, late : BOOLEAN, retried : BOOLEAN, issues : BOOLEAN,
   makes : SUBSET {"account", "member", "tenant"}, seen : SUBSET Tokens, ends : SUBSET Tokens]

AccountTypeOK ==
  /\ account \in [Emails -> Account]
  /\ owner \in [Tenants -> Emails \cup {Others, None}]
  /\ member \in SUBSET (Emails \X Tenants)
  /\ token \in [Tokens -> Token]
  /\ tx \in [Txs -> Transaction \cup {None}]

AccountInit ==
  /\ account = [e \in Emails |-> [role |-> "none", opened |-> None]]
  /\ owner \in [Tenants -> {Others, None}]
  /\ member = {}
  /\ token = [k \in Tokens |-> [of |-> None, status |-> "unused", expired |-> FALSE]]
  /\ tx = [t \in Txs |-> None]

-----------------------------------------------------------------------------
(* Requests *)

Exists(e) == account[e].role # "none"

Activated(e) == account[e].opened # None

\* assertInstructorTenantAccess: the tenant's owner has signed in.
Managed(x) == owner[x] = Others \/ owner[x] \in {e \in Emails : Activated(e)}

Fresh(op, stage, e, x, k, purpose) ==
  [op |-> op, stage |-> stage, email |-> e, tenant |-> x, code |-> k, purpose |-> purpose,
   late |-> (k # None /\ token[k].expired), retried |-> FALSE, issues |-> TRUE,
   makes |-> {}, seen |-> {}, ends |-> {}]

Start(t, request) ==
  /\ tx[t] = None
  /\ tx' = [tx EXCEPT ![t] = request]
  /\ UNCHANGED Rows

AddStudent(t) ==
  \E e \in Emails, x \in Tenants :
    Managed(x) /\ Start(t, Fresh("add", "read", e, x, None, "student"))

CreateInstructor(t) ==
  \E e \in Emails, x \in Tenants :
    Start(t, Fresh("create", "account", e, x, None, "instructor"))

ReissueActivation(t) ==
  \E e \in Emails : Exists(e) /\ Start(t, Fresh("reissue", "lock", e, None, None, "instructor"))

\* The unlocked lookup tells whose code it is; the web and the mobile form each
\* send their own purpose.
ActivateAccount(t) ==
  \E k \in Tokens, purpose \in Roles :
    /\ token[k].of # None
    /\ Start(t, Fresh("activate", "lock", token[k].of, None, k, purpose))

-----------------------------------------------------------------------------
(* Statements *)

At(t, stage) == tx[t] # None /\ tx[t].stage = stage

Rivals(t) == {u \in Txs \ {t} : tx[u] # None}

Goto(t, stage) ==
  /\ tx' = [tx EXCEPT ![t] = [tx[t] EXCEPT !.stage = stage]]
  /\ UNCHANGED Rows

End(t) ==
  /\ tx' = [tx EXCEPT ![t] = None]
  /\ UNCHANGED Rows

\* A unique index refused an INSERT: addStudentAttempt starts over, once.
UniqueViolation(t) ==
  IF tx[t].op = "add" /\ ~tx[t].retried
  THEN /\ tx' = [tx EXCEPT ![t] = [Fresh("add", "read", tx[t].email, tx[t].tenant, None, "student")
                                     EXCEPT !.retried = TRUE]]
       /\ UNCHANGED Rows
  ELSE End(t)

Insert(t, row, stage) ==
  /\ tx' = [tx EXCEPT ![t] = [tx[t] EXCEPT !.makes = @ \cup {row}, !.stage = stage]]
  /\ UNCHANGED Rows

\* The upsert of addStudentAttempt looks before it inserts.
ReadStudent(t) ==
  /\ At(t, "read")
  /\ LET e == tx[t].email IN
     CASE account[e].role = "none" -> Goto(t, "account")
       [] account[e].role = "instructor" -> End(t)
       [] OTHER -> /\ tx' = [tx EXCEPT ![t] = [tx[t] EXCEPT !.stage = "association",
                                                            !.issues = ~Activated(e)]]
                   /\ UNCHANGED Rows

\* createInstructor looks first too, but a row that it finds ends it like one
\* that refuses the INSERT.
InsertAccount(t) ==
  /\ At(t, "account")
  /\ \A u \in Rivals(t) : tx[u].email = tx[t].email => "account" \notin tx[u].makes
  /\ IF Exists(tx[t].email) THEN UniqueViolation(t)
     ELSE Insert(t, "account", IF tx[t].op = "add" THEN "association" ELSE "tenant")

InsertTenant(t) ==
  /\ At(t, "tenant")
  /\ \A u \in Rivals(t) : tx[u].tenant = tx[t].tenant => "tenant" \notin tx[u].makes
  /\ IF owner[tx[t].tenant] # None THEN UniqueViolation(t) ELSE Insert(t, "tenant", "issue")

Issues(t) == IF tx[t].issues THEN "issue" ELSE "commit"

FindAssociation(t) ==
  /\ At(t, "association")
  /\ Goto(t, IF <<tx[t].email, tx[t].tenant>> \in member THEN Issues(t) ELSE "member")

InsertAssociation(t) ==
  /\ At(t, "member")
  /\ \A u \in Rivals(t) : <<tx[u].email, tx[u].tenant>> = <<tx[t].email, tx[t].tenant>> =>
                            "member" \notin tx[u].makes
  /\ IF <<tx[t].email, tx[t].tenant>> \in member THEN UniqueViolation(t) ELSE Insert(t, "member", Issues(t))

\* Mutant of LockFree: nobody takes the lock.
LockFreeAlways(t) == TRUE

\* The advisory lock that reissue and consumption share.
LockFree(t) ==
  \A u \in Rivals(t) : ~ (/\ tx[u].op \in {"reissue", "activate"}
                          /\ tx[u].email = tx[t].email /\ tx[u].stage # "lock")

Lock(t) ==
  /\ At(t, "lock")
  /\ LockFree(t)
  /\ Goto(t, "check")

CheckReissue(t) ==
  /\ At(t, "check") /\ tx[t].op = "reissue"
  /\ IF account[tx[t].email].role = "instructor" /\ ~Activated(tx[t].email) THEN Goto(t, "issue") ELSE End(t)

Usable(k) == token[k].status = "outstanding" /\ ~token[k].expired

Codes(e) == {k \in Tokens : token[k].of = e /\ Usable(k)}

FindOutstanding(t) ==
  /\ At(t, "issue")
  /\ tx' = [tx EXCEPT ![t] = [tx[t] EXCEPT !.seen = Codes(tx[t].email), !.stage = "revoke"]]
  /\ UNCHANGED Rows

\* The UPDATE waits for rows that others have written, and then looks again.
Close(t, K, stage) ==
  /\ \A u \in Rivals(t) : tx[u].ends \cap K = {}
  /\ tx' = [tx EXCEPT ![t] = [tx[t] EXCEPT !.ends = {k \in K : token[k].status = "outstanding"},
                                           !.seen = {}, !.stage = stage]]
  /\ UNCHANGED Rows

RevokeOutstanding(t) == At(t, "revoke") /\ Close(t, tx[t].seen, "commit")

\* assertConsumable, with the time at which the request began.
CheckCode(t) ==
  /\ At(t, "check") /\ tx[t].op = "activate"
  /\ LET k == tx[t].code IN
     IF token[k].status = "outstanding" /\ ~tx[t].late /\ account[tx[t].email].role = tx[t].purpose
     THEN Goto(t, "consume") ELSE End(t)

ConsumeCode(t) == At(t, "consume") /\ Close(t, {tx[t].code}, "password")

CheckPassword(t) ==
  /\ At(t, "password")
  /\ IF tx[t].ends = {} \/ Activated(tx[t].email) THEN End(t) ELSE Goto(t, "commit")

-----------------------------------------------------------------------------
(* Ends *)

\* Mutant of TokensAfter: the new code is there when the older ones are revoked.
TokensAfterInsertion(t, new) ==
  [k \in Tokens |->
     IF k \in tx[t].ends \cup {new}
     THEN [token[k] EXCEPT !.of = tx[t].email, !.status = IF tx[t].op = "activate" THEN "consumed" ELSE "revoked"]
     ELSE token[k]]

TokensAfter(t, new) ==
  [k \in Tokens |->
     IF k = new THEN [of |-> tx[t].email, status |-> "outstanding", expired |-> FALSE]
     ELSE IF k \in tx[t].ends
     THEN [token[k] EXCEPT !.status = IF tx[t].op = "activate" THEN "consumed" ELSE "revoked"]
     ELSE token[k]]

AccountAfter(t) ==
  CASE "account" \in tx[t].makes -> [role |-> tx[t].purpose, opened |-> None]
    [] tx[t].op = "activate" -> [account[tx[t].email] EXCEPT !.opened = tx[t].code]
    [] OTHER -> account[tx[t].email]

Commit(t) ==
  /\ At(t, "commit")
  /\ account' = [account EXCEPT ![tx[t].email] = AccountAfter(t)]
  /\ owner' = IF "tenant" \in tx[t].makes THEN [owner EXCEPT ![tx[t].tenant] = tx[t].email] ELSE owner
  /\ member' = IF "member" \in tx[t].makes THEN member \cup {<<tx[t].email, tx[t].tenant>>} ELSE member
  /\ IF tx[t].op = "activate" \/ ~tx[t].issues
     THEN token' = TokensAfter(t, None)
     ELSE \E new \in Tokens : token[new].status = "unused" /\ token' = TokensAfter(t, new)
  /\ tx' = [tx EXCEPT ![t] = None]

\* A lost connection, a timeout, a crash.
Rollback(t) == tx[t] # None /\ End(t)

Expire(k) ==
  /\ Usable(k)
  /\ token' = [token EXCEPT ![k] = [token[k] EXCEPT !.expired = TRUE]]
  /\ UNCHANGED <<account, owner, member, tx>>

-----------------------------------------------------------------------------
Request(t) == AddStudent(t) \/ CreateInstructor(t) \/ ReissueActivation(t) \/ ActivateAccount(t)

Statement(t) ==
  \/ ReadStudent(t) \/ InsertAccount(t) \/ InsertTenant(t)
  \/ FindAssociation(t) \/ InsertAssociation(t)
  \/ Lock(t) \/ CheckReissue(t) \/ FindOutstanding(t) \/ RevokeOutstanding(t)
  \/ CheckCode(t) \/ ConsumeCode(t) \/ CheckPassword(t)
  \/ Commit(t) \/ Rollback(t)

AccountNext == (\E t \in Txs : Request(t) \/ Statement(t)) \/ \E k \in Tokens : Expire(k)

AccountSpec == AccountInit /\ [][AccountNext]_accountVars

-----------------------------------------------------------------------------
(* Properties *)

\* Reissues and activations of one instructor may overlap in any way, failures
\* included: there is never a second code that works, and none at all once the
\* password is set.  The lock leaves one gap: an activation looks at the clock
\* before it waits, and a code that expires meanwhile is not revoked by the
\* reissue it waits for.
InstructorHasOneWayIn ==
  \A e \in Emails : account[e].role = "instructor" =>
    /\ \A j, k \in Codes(e) : j = k
    /\ Activated(e) /\ ~token[account[e].opened].expired => Codes(e) = {}

\* Whatever additions, activations and failures overlap, an account has its
\* password or a code that nobody revoked or used up: a student is not left on a
\* roster without a way in.
EveryoneHasAWayIn ==
  /\ \A e \in Emails : Exists(e) =>
       Activated(e) \/ \E k \in Tokens : token[k].of = e /\ token[k].status = "outstanding"
  /\ \A m \in member : account[m[1]].role = "student"

=============================================================================
