--------------------------- MODULE EnrollmentsProofs ---------------------------
(***************************************************************************)
(* What holds of accounts and their activation codes, and of enrollments,  *)
(* for any number of addresses, tenants, codes, courses, rows and          *)
(* requests.  A request is sound when what it has seen and written still   *)
(* fits the rows; two requests are compatible when no row, index entry or  *)
(* lock is held by both.  The first part is about AccountActivation; the   *)
(* second adds enrollments, and what the first says holds beside them.     *)
(***************************************************************************)
EXTENDS Enrollments, TLAPS

-----------------------------------------------------------------------------
(* Accounts and activation codes *)

Outstanding(k) == token[k].status = "outstanding"

\* A code belongs to an account that exists; the code that opened an account is
\* used up; a roster has students only.
RowsInv ==
  /\ \A k \in Tokens : /\ token[k].status = "unused" => token[k].of = None
                       /\ token[k].of # None => Exists(token[k].of)
  /\ \A e \in Emails : Activated(e) => Exists(e) /\ token[account[e].opened].status = "consumed"

\* What r has written is not there yet, and what it ends is as it found it.
Pending(r) ==
  /\ "account" \in r.makes => ~Exists(r.email)
  /\ \A k \in r.seen : token[k].of = r.email
  /\ \A k \in r.ends : token[k].of = r.email /\ Outstanding(k)
  /\ r.stage \notin {"password", "commit"} => r.ends = {}

SoundAdd(r) ==
  r.op = "add" =>
    /\ r.stage \in {"read", "account", "association", "member", "issue", "revoke", "commit"}
    /\ r.purpose = "student" /\ r.tenant \in Tenants
    /\ r.stage \in {"read", "account"} => r.makes = {}
    /\ r.stage \notin {"read", "account"} => "account" \in r.makes \/ account[r.email].role = "student"
    /\ "account" \in r.makes \/ r.ends # {} \/ r.stage \in {"read", "account", "issue", "revoke"} => r.issues

SoundCreate(r) ==
  r.op = "create" =>
    /\ r.stage \in {"account", "tenant", "issue", "revoke", "commit"}
    /\ r.purpose = "instructor" /\ r.issues /\ "member" \notin r.makes
    /\ r.stage = "account" => r.makes = {}
    /\ r.stage # "account" => "account" \in r.makes

\* Under the lock, a reissue has seen all the codes that may still be used.
SoundReissue(r) ==
  r.op = "reissue" =>
    /\ r.stage \in {"lock", "check", "issue", "revoke", "commit"}
    /\ r.issues /\ r.makes = {}
    /\ r.stage \in {"issue", "revoke", "commit"} =>
         account[r.email].role = "instructor" /\ ~Activated(r.email)
    /\ r.stage = "revoke" => Codes(r.email) \subseteq r.seen
    /\ r.stage = "commit" => Codes(r.email) \subseteq r.ends

SoundActivate(r) ==
  r.op = "activate" =>
    /\ r.stage \in {"lock", "check", "consume", "password", "commit"}
    /\ r.makes = {} /\ r.code \in Tokens /\ token[r.code].of = r.email
    /\ r.ends \subseteq {r.code}
    /\ r.stage = "commit" => r.ends = {r.code} /\ ~Activated(r.email)

Sound(r) == Pending(r) /\ SoundAdd(r) /\ SoundCreate(r) /\ SoundReissue(r) /\ SoundActivate(r)

Locked(r) == r.op \in {"reissue", "activate"} /\ r.stage # "lock"

Compatible(r, s) ==
  /\ r.ends \cap s.ends = {}
  /\ r.email = s.email => /\ ~("account" \in r.makes /\ "account" \in s.makes)
                          /\ ~(Locked(r) /\ Locked(s))

AccountInv ==
  /\ AccountTypeOK /\ RowsInv
  /\ \A t \in Txs : tx[t] # None => Sound(tx[t])
  /\ \A t, u \in Txs : (t # u /\ tx[t] # None /\ tx[u] # None) => Compatible(tx[t], tx[u])
  /\ InstructorHasOneWayIn /\ EveryoneHasAWayIn

LEMMA AccountInitially == AccountInit => AccountInv
<1> SUFFICES ASSUME AccountInit PROVE AccountInv
    OBVIOUS
<1> USE NoneAssumption DEF AccountInit
<1>1. AccountTypeOK BY DEF AccountTypeOK, Account, Token, Roles
<1>2. RowsInv BY DEF RowsInv, Exists, Activated
<1>3. InstructorHasOneWayIn /\ EveryoneHasAWayIn
    BY DEF InstructorHasOneWayIn, EveryoneHasAWayIn, Exists, Activated
<1> QED BY <1>1, <1>2, <1>3 DEF AccountInv

\* A request moves: the rows are as they were.
LEMMA Moves ==
  ASSUME AccountInv, NEW t \in Txs, NEW r \in Transaction, Sound(r),
         \A u \in Txs \ {t} : tx[u] # None => Compatible(r, tx[u]),
         tx' = [tx EXCEPT ![t] = r], UNCHANGED Rows
  PROVE  AccountInv'
<1>1. UNCHANGED <<account, owner, member, token>> BY DEF Rows
<1>2. AccountTypeOK' /\ RowsInv' /\ InstructorHasOneWayIn' /\ EveryoneHasAWayIn'
    BY <1>1 DEF AccountInv, AccountTypeOK, RowsInv, InstructorHasOneWayIn, EveryoneHasAWayIn, Exists,
       Activated, Codes, Usable
<1>3. \A u \in Txs : (tx[u] # None => Sound(tx[u]))'
  <2> SUFFICES ASSUME NEW u \in Txs, tx'[u] # None PROVE Sound(tx[u])'
      OBVIOUS
  <2>1. PICK s : s = tx'[u] /\ Sound(s) BY DEF AccountInv, AccountTypeOK
  <2>2. Sound(s)'
      BY <1>1, <2>1 DEF Sound, Pending, SoundAdd, SoundCreate, SoundReissue, SoundActivate, Exists, Activated,
         Codes, Usable, Outstanding
  <2> QED
      BY <2>1, <2>2 DEF Sound, Pending, SoundAdd, SoundCreate, SoundReissue, SoundActivate, Exists, Activated,
         Codes, Usable, Outstanding
<1>4. \A u, v \in Txs : ((u # v /\ tx[u] # None /\ tx[v] # None) => Compatible(tx[u], tx[v]))'
  <2>1. \A u \in Txs \ {t} : tx[u] # None => Compatible(tx[u], r)
      BY DEF Compatible
  <2> QED BY <2>1 DEF AccountInv, AccountTypeOK, Compatible, Locked
<1> QED BY <1>2, <1>3, <1>4 DEF AccountInv

\* A request ends without effect.
LEMMA Ends == ASSUME AccountInv, NEW t \in Txs, End(t) PROVE AccountInv'
<1>1. UNCHANGED <<account, owner, member, token>> /\ tx' = [tx EXCEPT ![t] = None] BY DEF End, Rows
<1>2. AccountTypeOK' /\ RowsInv' /\ InstructorHasOneWayIn' /\ EveryoneHasAWayIn'
    BY <1>1 DEF AccountInv, AccountTypeOK, RowsInv, InstructorHasOneWayIn, EveryoneHasAWayIn, Exists,
       Activated, Codes, Usable
<1>3. \A u \in Txs : (tx[u] # None => Sound(tx[u]))'
  <2> SUFFICES ASSUME NEW u \in Txs, tx'[u] # None PROVE Sound(tx[u])'
      OBVIOUS
  <2>1. tx'[u] = tx[u] /\ Sound(tx[u]) BY <1>1 DEF AccountInv, AccountTypeOK
  <2> QED
      BY <1>1, <2>1 DEF Sound, Pending, SoundAdd, SoundCreate, SoundReissue, SoundActivate, Exists, Activated,
         Codes, Usable, Outstanding
<1>4. \A u, v \in Txs : ((u # v /\ tx[u] # None /\ tx[v] # None) => Compatible(tx[u], tx[v]))'
    BY <1>1 DEF AccountInv, AccountTypeOK, Compatible, Locked
<1> QED BY <1>2, <1>3, <1>4 DEF AccountInv

\* A request begins, with nothing seen and nothing written.
LEMMA Begins ==
  ASSUME AccountInv, NEW t \in Txs, Request(t)
  PROVE  AccountInv'
<1> USE DEF AccountInv, AccountTypeOK
<1>1. ASSUME NEW r \in Transaction, Start(t, r), r.makes = {}, r.seen = {}, r.ends = {}, Sound(r), ~Locked(r)
      PROVE  AccountInv'
  <2>1. tx' = [tx EXCEPT ![t] = r] /\ UNCHANGED Rows BY <1>1 DEF Start
  <2>2. \A u \in Txs \ {t} : tx[u] # None => Compatible(r, tx[u]) BY <1>1 DEF Compatible
  <2> QED BY <1>1, <2>1, <2>2, Moves
<1>2. \A op, stage, e, x, k, purpose :
        LET r == Fresh(op, stage, e, x, k, purpose)
        IN (/\ op \in {"add", "create", "reissue", "activate"} /\ stage \in Stages /\ e \in Emails
            /\ x \in Tenants \cup {None} /\ k \in Tokens \cup {None} /\ purpose \in Roles) => r \in Transaction
    BY DEF Fresh, Transaction, Token
<1>3. CASE AddStudent(t)
  <2>1. PICK e \in Emails, x \in Tenants : Start(t, Fresh("add", "read", e, x, None, "student"))
      BY <1>3 DEF AddStudent
  <2> DEFINE r == Fresh("add", "read", e, x, None, "student")
  <2>2. r \in Transaction BY <1>2 DEF Stages, Roles
  <2>3. Sound(r) /\ ~Locked(r) /\ r.makes = {} /\ r.seen = {} /\ r.ends = {}
      BY DEF Sound, Pending, SoundAdd, SoundCreate, SoundReissue, SoundActivate, Locked, Fresh
  <2> QED BY <1>1, <2>1, <2>2, <2>3
<1>4. CASE CreateInstructor(t)
  <2>1. PICK e \in Emails, x \in Tenants : Start(t, Fresh("create", "account", e, x, None, "instructor"))
      BY <1>4 DEF CreateInstructor
  <2> DEFINE r == Fresh("create", "account", e, x, None, "instructor")
  <2>2. r \in Transaction BY <1>2 DEF Stages, Roles
  <2>3. Sound(r) /\ ~Locked(r) /\ r.makes = {} /\ r.seen = {} /\ r.ends = {}
      BY DEF Sound, Pending, SoundAdd, SoundCreate, SoundReissue, SoundActivate, Locked, Fresh
  <2> QED BY <1>1, <2>1, <2>2, <2>3
<1>5. CASE ReissueActivation(t)
  <2>1. PICK e \in Emails : Start(t, Fresh("reissue", "lock", e, None, None, "instructor"))
      BY <1>5 DEF ReissueActivation
  <2> DEFINE r == Fresh("reissue", "lock", e, None, None, "instructor")
  <2>2. r \in Transaction BY <1>2 DEF Stages, Roles
  <2>3. Sound(r) /\ ~Locked(r) /\ r.makes = {} /\ r.seen = {} /\ r.ends = {}
      BY DEF Sound, Pending, SoundAdd, SoundCreate, SoundReissue, SoundActivate, Locked, Fresh
  <2> QED BY <1>1, <2>1, <2>2, <2>3
<1>6. CASE ActivateAccount(t)
  <2>1. PICK k \in Tokens, purpose \in Roles :
          token[k].of # None /\ Start(t, Fresh("activate", "lock", token[k].of, None, k, purpose))
      BY <1>6 DEF ActivateAccount
  <2> DEFINE r == Fresh("activate", "lock", token[k].of, None, k, purpose)
  <2>2. token[k].of \in Emails BY <2>1 DEF Token
  <2>3. r \in Transaction BY <1>2, <2>2 DEF Stages
  <2>4. Sound(r) /\ ~Locked(r) /\ r.makes = {} /\ r.seen = {} /\ r.ends = {}
      BY DEF Sound, Pending, SoundAdd, SoundCreate, SoundReissue, SoundActivate, Locked, Fresh
  <2> QED BY <1>1, <2>1, <2>3, <2>4
<1> QED BY <1>3, <1>4, <1>5, <1>6 DEF Request

\* What is known of a request that is served.
LEMMA Served ==
  ASSUME AccountInv, NEW t \in Txs, tx[t] # None
  PROVE  /\ tx[t] \in Transaction /\ Sound(tx[t])
         /\ \A u \in Txs \ {t} : tx[u] # None => /\ tx[u] \in Transaction /\ Sound(tx[u])
                                               /\ Compatible(tx[t], tx[u]) /\ Compatible(tx[u], tx[t])
  BY DEF AccountInv, AccountTypeOK

\* A statement that only reads, and then goes on.
LEMMA Goes ==
  ASSUME AccountInv, NEW t \in Txs, tx[t] # None, NEW stage \in Stages, Goto(t, stage),
         NEW r, r = [tx[t] EXCEPT !.stage = stage], Sound(r), Locked(r) => Locked(tx[t])
  PROVE  AccountInv'
<1>1. tx[t] \in Transaction /\ \A u \in Txs \ {t} : tx[u] # None => Compatible(tx[t], tx[u])
    BY Served
<1>2. r \in Transaction BY <1>1 DEF Transaction
<1>3. r.email = tx[t].email /\ r.makes = tx[t].makes /\ r.ends = tx[t].ends BY <1>1 DEF Transaction
<1>4. \A u \in Txs \ {t} : tx[u] # None => Compatible(r, tx[u])
    BY <1>1, <1>3 DEF Compatible
<1>5. tx' = [tx EXCEPT ![t] = r] /\ UNCHANGED Rows BY DEF Goto
<1> QED BY <1>2, <1>4, <1>5, Moves

\* addStudentAttempt starts over, or the request ends.
LEMMA Violates == ASSUME AccountInv, NEW t \in Txs, tx[t] # None, UniqueViolation(t) PROVE AccountInv'
<1>1. CASE tx[t].op = "add" /\ ~tx[t].retried
  <2>1. tx[t] \in Transaction /\ Sound(tx[t]) BY Served
  <2> DEFINE r == [Fresh("add", "read", tx[t].email, tx[t].tenant, None, "student") EXCEPT !.retried = TRUE]
  <2>2. /\ r.op = "add" /\ r.stage = "read" /\ r.purpose = "student" /\ r.issues = TRUE
        /\ r.makes = {} /\ r.seen = {} /\ r.ends = {} /\ r \in Transaction
        /\ r.tenant = tx[t].tenant
    <3>1. PICK f : f = Fresh("add", "read", tx[t].email, tx[t].tenant, None, "student")
        OBVIOUS
    <3>2. /\ f \in Transaction
          /\ f.op = "add" /\ f.stage = "read" /\ f.purpose = "student" /\ f.issues = TRUE
          /\ f.makes = {} /\ f.seen = {} /\ f.ends = {} /\ f.tenant = tx[t].tenant
        BY <2>1, <3>1 DEF Fresh, Transaction, Stages, Roles
    <3>3. r = [f EXCEPT !.retried = TRUE] BY <3>1
    <3> HIDE DEF r
    <3> QED BY <3>2, <3>3 DEF Transaction
  <2>3. tx' = [tx EXCEPT ![t] = r] /\ UNCHANGED Rows BY <1>1 DEF UniqueViolation
  <2> HIDE DEF r
  <2>4. r \in Transaction BY <2>2
  <2>5. Sound(r) BY <1>1, <2>1, <2>2 DEF Sound, Pending, SoundAdd, SoundCreate, SoundReissue, SoundActivate
  <2>6. \A u \in Txs \ {t} : tx[u] # None => Compatible(r, tx[u]) BY <2>2 DEF Compatible, Locked
  <2> QED BY <2>3, <2>4, <2>5, <2>6, Moves
<1>2. CASE ~(tx[t].op = "add" /\ ~tx[t].retried) BY <1>2, Ends DEF UniqueViolation
<1> QED BY <1>1, <1>2

\* A statement that inserts a row whose index entry is free.
LEMMA Inserts ==
  ASSUME AccountInv, NEW t \in Txs, tx[t] # None, NEW row \in {"account", "member", "tenant"},
         NEW stage \in Stages, Insert(t, row, stage),
         row = "account" => \A u \in Rivals(t) : tx[u].email = tx[t].email => "account" \notin tx[u].makes,
         NEW r, r = [tx[t] EXCEPT !.makes = @ \cup {row}, !.stage = stage], Sound(r),
         tx[t].op \in {"add", "create"}
  PROVE  AccountInv'
<1>1. tx[t] \in Transaction /\ \A u \in Txs \ {t} : tx[u] # None => Compatible(tx[t], tx[u])
    BY Served
<1>2. r = [op |-> tx[t].op, stage |-> stage, email |-> tx[t].email, tenant |-> tx[t].tenant, code |-> tx[t].code,
           purpose |-> tx[t].purpose, late |-> tx[t].late, retried |-> tx[t].retried, issues |-> tx[t].issues,
           makes |-> tx[t].makes \cup {row}, seen |-> tx[t].seen, ends |-> tx[t].ends]
    BY <1>1 DEF Transaction
<1>3. r \in Transaction
  <2>1. tx[t].makes \cup {row} \in SUBSET {"account", "member", "tenant"} BY <1>1 DEF Transaction
  <2> QED BY <1>1, <1>2, <2>1, ZenonT(30) DEF Transaction
<1>4. \A u \in Txs \ {t} : tx[u] # None => Compatible(r, tx[u])
    BY <1>1, <1>2 DEF Compatible, Locked, Rivals
<1>5. tx' = [tx EXCEPT ![t] = r] /\ UNCHANGED Rows BY DEF Insert
<1> QED BY <1>3, <1>4, <1>5, Moves

\* Two requests that hold something in common are not served at once.
LEMMA Writes ==
  ASSUME AccountInv, NEW t \in Txs, tx[t] # None, NEW r \in Transaction, Sound(r),
         r.email = tx[t].email, r.makes = tx[t].makes, Locked(r) => Locked(tx[t]),
         \A u \in Rivals(t) : r.ends \cap tx[u].ends = {},
         tx' = [tx EXCEPT ![t] = r], UNCHANGED Rows
  PROVE  AccountInv'
<1>1. \A u \in Txs \ {t} : tx[u] # None => Compatible(tx[t], tx[u]) BY Served
<1>2. \A u \in Txs \ {t} : tx[u] # None => Compatible(r, tx[u])
    BY <1>1 DEF Compatible, Rivals
<1> QED BY <1>2, Moves

LEMMA Reads == ASSUME AccountInv, NEW t \in Txs, ReadStudent(t) PROVE AccountInv'
<1>0. tx[t] # None /\ tx[t].stage = "read" BY DEF ReadStudent, At
<1>1. tx[t] \in Transaction /\ Sound(tx[t]) BY <1>0, Served
<1>2. tx[t].op = "add" /\ tx[t].makes = {} /\ tx[t].ends = {} /\ tx[t].issues = TRUE /\ tx[t].purpose = "student"
    BY <1>0, <1>1 DEF Transaction, Sound, Pending, SoundAdd, SoundCreate, SoundReissue, SoundActivate
<1>3. tx[t].email \in Emails /\ account[tx[t].email].role \in Roles \cup {"none"}
    BY <1>1 DEF AccountInv, AccountTypeOK, Transaction, Account
<1>4. CASE account[tx[t].email].role = "none"
  <2>1. Goto(t, "account") BY <1>4 DEF ReadStudent
  <2>2. PICK r : r = [tx[t] EXCEPT !.stage = "account"] OBVIOUS
  <2>3. /\ r.op = "add" /\ r.stage = "account" /\ r.makes = {} /\ r.ends = {} /\ r.issues = TRUE
        /\ r.purpose = "student" /\ r.seen = tx[t].seen /\ r.email = tx[t].email /\ r.tenant = tx[t].tenant
      BY <1>1, <1>2, <2>2 DEF Transaction
  <2>4. Sound(r) /\ ~Locked(r)
      BY <1>1, <1>2, <2>3 DEF Sound, Pending, SoundAdd, SoundCreate, SoundReissue, SoundActivate, Locked
  <2> QED BY <1>0, <2>1, <2>2, <2>4, Goes DEF Stages
<1>5. CASE account[tx[t].email].role = "instructor" BY <1>5, Ends DEF ReadStudent
<1>6. CASE account[tx[t].email].role = "student"
  <2>1. PICK r : r = [tx[t] EXCEPT !.stage = "association", !.issues = ~Activated(tx[t].email)] OBVIOUS
  <2>2. tx' = [tx EXCEPT ![t] = r] /\ UNCHANGED Rows BY <1>6, <2>1 DEF ReadStudent
  <2>3. r = [op |-> tx[t].op, stage |-> "association", email |-> tx[t].email, tenant |-> tx[t].tenant,
             code |-> tx[t].code, purpose |-> tx[t].purpose, late |-> tx[t].late, retried |-> tx[t].retried,
             issues |-> ~Activated(tx[t].email), makes |-> tx[t].makes, seen |-> tx[t].seen, ends |-> tx[t].ends]
      BY <1>1, <2>1 DEF Transaction
  <2>4. (~Activated(tx[t].email)) \in BOOLEAN OBVIOUS
  <2>5. r \in Transaction BY <1>1, <2>3, <2>4 DEF Transaction, Stages
  <2>6. /\ r.op = "add" /\ r.stage = "association" /\ r.makes = {} /\ r.ends = {}
        /\ r.purpose = "student" /\ r.seen = tx[t].seen /\ r.email = tx[t].email /\ r.tenant = tx[t].tenant
      BY <1>2, <2>3
  <2>7. Sound(r) /\ ~Locked(r)
      BY <1>1, <1>2, <1>6, <2>6 DEF Sound, Pending, SoundAdd, SoundCreate, SoundReissue, SoundActivate, Locked
  <2> QED BY <1>0, <1>2, <2>2, <2>5, <2>6, <2>7, Writes
<1> QED BY <1>3, <1>4, <1>5, <1>6 DEF Roles

LEMMA InsertsRows ==
  ASSUME AccountInv, NEW t \in Txs, InsertAccount(t) \/ InsertTenant(t) \/ InsertAssociation(t)
  PROVE  AccountInv'
<1>0. tx[t] # None /\ tx[t].stage \in {"account", "tenant", "member"}
    BY DEF InsertAccount, InsertTenant, InsertAssociation, At
<1>1. tx[t] \in Transaction /\ Sound(tx[t]) BY <1>0, Served
<1>2. tx[t].op \in {"add", "create"} /\ tx[t].ends = {}
    BY <1>0, <1>1 DEF Transaction, Sound, Pending, SoundAdd, SoundCreate, SoundReissue, SoundActivate
<1> DEFINE Inserted(row, stage) == [tx[t] EXCEPT !.makes = @ \cup {row}, !.stage = stage]
<1>3. ASSUME NEW row, NEW stage, NEW r, r = Inserted(row, stage)
      PROVE  /\ r.op = tx[t].op /\ r.stage = stage /\ r.email = tx[t].email /\ r.purpose = tx[t].purpose /\ r.tenant = tx[t].tenant
             /\ r.issues = tx[t].issues /\ r.makes = tx[t].makes \cup {row} /\ r.seen = tx[t].seen
             /\ r.ends = {}
  <2>1. r = [op |-> tx[t].op, stage |-> stage, email |-> tx[t].email, tenant |-> tx[t].tenant,
             code |-> tx[t].code, purpose |-> tx[t].purpose, late |-> tx[t].late, retried |-> tx[t].retried,
             issues |-> tx[t].issues, makes |-> tx[t].makes \cup {row}, seen |-> tx[t].seen, ends |-> tx[t].ends]
      BY <1>1, <1>3 DEF Transaction
  <2> QED BY <1>2, <2>1
<1> HIDE DEF Inserted
<1>4. CASE InsertAccount(t)
  <2>1. tx[t].stage = "account" BY <1>4 DEF InsertAccount, At
  <2>2. CASE Exists(tx[t].email) BY <1>0, <1>4, <2>2, Violates DEF InsertAccount
  <2>3. CASE ~Exists(tx[t].email)
    <3>1. PICK stage : stage = IF tx[t].op = "add" THEN "association" ELSE "tenant" OBVIOUS
    <3>2. Insert(t, "account", stage) /\ stage \in Stages BY <1>4, <2>3, <3>1 DEF InsertAccount, Stages
    <3>3. PICK r : r = Inserted("account", stage) OBVIOUS
    <3>a. /\ r.op = tx[t].op /\ r.stage = stage /\ r.email = tx[t].email /\ r.purpose = tx[t].purpose /\ r.tenant = tx[t].tenant
          /\ r.issues = tx[t].issues /\ r.makes = {"account"} /\ r.seen = tx[t].seen /\ r.ends = {}
      <4>1. tx[t].makes = {} BY <1>1, <1>2, <2>1 DEF Sound, SoundAdd, SoundCreate
      <4> QED BY <1>3, <3>3, <4>1
    <3>4. Sound(r)
        BY <1>1, <1>2, <2>1, <2>3, <3>1, <3>a
           DEF Sound, Pending, SoundAdd, SoundCreate, SoundReissue, SoundActivate
    <3>5. \A u \in Rivals(t) : tx[u].email = tx[t].email => "account" \notin tx[u].makes
        BY <1>4 DEF InsertAccount
    <3> QED BY <1>0, <1>2, <3>2, <3>3, <3>4, <3>5, Inserts DEF Inserted
  <2> QED BY <2>2, <2>3
<1>5. CASE InsertTenant(t)
  <2>1. tx[t].stage = "tenant" BY <1>5 DEF InsertTenant, At
  <2>2. CASE owner[tx[t].tenant] # None BY <1>0, <1>5, <2>2, Violates DEF InsertTenant
  <2>3. CASE owner[tx[t].tenant] = None
    <3>2. Insert(t, "tenant", "issue") BY <1>5, <2>3 DEF InsertTenant
    <3>3. PICK r : r = Inserted("tenant", "issue") OBVIOUS
    <3>4. Sound(r)
        BY <1>1, <1>2, <1>3, <2>1, <3>3
           DEF Sound, Pending, SoundAdd, SoundCreate, SoundReissue, SoundActivate, Stages
    <3> QED BY <1>0, <1>2, <3>2, <3>3, <3>4, Inserts DEF Inserted, Stages
  <2> QED BY <2>2, <2>3
<1>6. CASE InsertAssociation(t)
  <2>1. tx[t].stage = "member" BY <1>6 DEF InsertAssociation, At
  <2>2. CASE <<tx[t].email, tx[t].tenant>> \in member BY <1>0, <1>6, <2>2, Violates DEF InsertAssociation
  <2>3. CASE <<tx[t].email, tx[t].tenant>> \notin member
    <3>1. PICK stage : stage = Issues(t) OBVIOUS
    <3>2. Insert(t, "member", stage) /\ stage \in Stages BY <1>6, <2>3, <3>1 DEF InsertAssociation, Stages, Issues
    <3>3. PICK r : r = Inserted("member", stage) OBVIOUS
    <3>a. /\ r.op = tx[t].op /\ r.stage = stage /\ r.email = tx[t].email /\ r.purpose = tx[t].purpose /\ r.tenant = tx[t].tenant
          /\ r.issues = tx[t].issues /\ r.makes = tx[t].makes \cup {"member"} /\ r.seen = tx[t].seen
          /\ r.ends = {}
        BY <1>3, <3>3
    <3>b. stage = (IF tx[t].issues = TRUE THEN "issue" ELSE "commit") BY <1>1, <3>1 DEF Issues, Transaction
    <3>4. Sound(r)
      <4>1. r.op = "add" BY <1>1, <1>2, <2>1, <3>a DEF Sound, SoundCreate
      <4>2. Pending(r) BY <1>1, <3>a DEF Sound, Pending
      <4>3. SoundAdd(r) BY <1>1, <2>1, <3>a, <3>b, <4>1 DEF Sound, SoundAdd
      <4> QED BY <4>1, <4>2, <4>3 DEF Sound, SoundCreate, SoundReissue, SoundActivate
    <3> QED BY <1>0, <1>2, <3>2, <3>3, <3>4, Inserts DEF Inserted
  <2> QED BY <2>2, <2>3
<1> QED BY <1>4, <1>5, <1>6

\* The statements that look and go on, or end.
LEMMA Looks ==
  ASSUME AccountInv, NEW t \in Txs,
         FindAssociation(t) \/ CheckReissue(t) \/ CheckCode(t) \/ CheckPassword(t)
  PROVE  AccountInv'
<1>0. tx[t] # None /\ tx[t].stage \in {"association", "check", "password"}
    BY DEF FindAssociation, CheckReissue, CheckCode, CheckPassword, At
<1>1. tx[t] \in Transaction /\ Sound(tx[t]) BY <1>0, Served
<1> DEFINE Moved(stage) == [tx[t] EXCEPT !.stage = stage]
<1>2. ASSUME NEW stage, NEW r, r = Moved(stage)
      PROVE  /\ r.op = tx[t].op /\ r.stage = stage /\ r.email = tx[t].email /\ r.purpose = tx[t].purpose /\ r.tenant = tx[t].tenant
             /\ r.issues = tx[t].issues /\ r.makes = tx[t].makes /\ r.seen = tx[t].seen
             /\ r.ends = tx[t].ends /\ r.code = tx[t].code
  BY <1>1, <1>2 DEF Transaction
<1> HIDE DEF Moved
<1>3. CASE FindAssociation(t)
  <2>1. tx[t].stage = "association" BY <1>3 DEF FindAssociation, At
  <2>2. tx[t].op = "add" BY <1>1, <2>1 DEF Sound, SoundCreate, SoundReissue, SoundActivate, Transaction
  <2>3. PICK stage : stage = IF <<tx[t].email, tx[t].tenant>> \in member THEN Issues(t) ELSE "member"
      OBVIOUS
  <2>4. /\ Goto(t, stage)
        /\ \/ stage = "member"
           \/ stage = "issue" /\ tx[t].issues = TRUE
           \/ stage = "commit" /\ tx[t].issues = FALSE
      BY <1>1, <1>3, <2>3 DEF FindAssociation, Issues, Transaction
  <2>5. PICK r : r = Moved(stage) OBVIOUS
  <2>6. Pending(r) /\ SoundAdd(r) BY <1>1, <1>2, <2>1, <2>2, <2>4, <2>5 DEF Sound, Pending, SoundAdd
  <2>7. Sound(r) /\ ~Locked(r)
      BY <1>2, <2>2, <2>5, <2>6 DEF Sound, SoundCreate, SoundReissue, SoundActivate, Locked
  <2> QED BY <1>0, <2>4, <2>5, <2>7, Goes DEF Moved, Stages
<1>4. CASE CheckReissue(t)
  <2>1. tx[t].stage = "check" /\ tx[t].op = "reissue" BY <1>4 DEF CheckReissue, At
  <2>2. CASE account[tx[t].email].role = "instructor" /\ ~Activated(tx[t].email)
    <3>1. Goto(t, "issue") BY <1>4, <2>2 DEF CheckReissue
    <3>2. PICK r : r = Moved("issue") OBVIOUS
    <3>3. Pending(r) /\ SoundReissue(r) BY <1>1, <1>2, <2>1, <2>2, <3>2 DEF Sound, Pending, SoundReissue
    <3>4. Sound(r) BY <1>2, <2>1, <3>2, <3>3 DEF Sound, SoundAdd, SoundCreate, SoundActivate
    <3>5. Locked(tx[t]) BY <2>1 DEF Locked
    <3> QED BY <1>0, <3>1, <3>2, <3>4, <3>5, Goes DEF Moved, Stages
  <2>3. CASE ~(account[tx[t].email].role = "instructor" /\ ~Activated(tx[t].email))
      BY <1>4, <2>3, Ends DEF CheckReissue
  <2> QED BY <2>2, <2>3
<1>5. CASE CheckCode(t)
  <2>1. tx[t].stage = "check" /\ tx[t].op = "activate" BY <1>5 DEF CheckCode, At
  <2>2. CASE Goto(t, "consume")
    <3>1. PICK r : r = Moved("consume") OBVIOUS
    <3>2. Pending(r) /\ SoundActivate(r) BY <1>1, <1>2, <2>1, <3>1 DEF Sound, Pending, SoundActivate
    <3>3. Sound(r) BY <1>2, <2>1, <3>1, <3>2 DEF Sound, SoundAdd, SoundCreate, SoundReissue
    <3>4. Locked(tx[t]) BY <2>1 DEF Locked
    <3> QED BY <1>0, <2>2, <3>1, <3>3, <3>4, Goes DEF Moved, Stages
  <2>3. CASE End(t) BY <2>3, Ends
  <2> QED BY <1>5, <2>2, <2>3 DEF CheckCode
<1>6. CASE CheckPassword(t)
  <2>1. tx[t].stage = "password" BY <1>6 DEF CheckPassword, At
  <2>2. tx[t].op = "activate" BY <1>1, <2>1 DEF Sound, SoundCreate, SoundReissue, SoundAdd, Transaction
  <2>3. CASE ~(tx[t].ends = {} \/ Activated(tx[t].email))
    <3>1. Goto(t, "commit") BY <1>6, <2>3 DEF CheckPassword
    <3>2. PICK r : r = Moved("commit") OBVIOUS
    <3>3. tx[t].ends = {tx[t].code} BY <1>1, <2>2, <2>3 DEF Sound, SoundActivate
    <3>4. Pending(r) /\ SoundActivate(r)
        BY <1>1, <1>2, <2>1, <2>2, <2>3, <3>2, <3>3 DEF Sound, Pending, SoundActivate
    <3>5. Sound(r) BY <1>2, <2>2, <3>2, <3>4 DEF Sound, SoundAdd, SoundCreate, SoundReissue
    <3>6. Locked(tx[t]) BY <2>1, <2>2 DEF Locked
    <3> QED BY <1>0, <3>1, <3>2, <3>5, <3>6, Goes DEF Moved, Stages
  <2>4. CASE tx[t].ends = {} \/ Activated(tx[t].email) BY <1>6, <2>4, Ends DEF CheckPassword
  <2> QED BY <2>3, <2>4
<1> QED BY <1>3, <1>4, <1>5, <1>6

\* The advisory lock has one holder for an account.
LEMMA Locks == ASSUME AccountInv, NEW t \in Txs, Lock(t) PROVE AccountInv'
<1>0. tx[t] # None /\ tx[t].stage = "lock" BY DEF Lock, At
<1>1. tx[t] \in Transaction /\ Sound(tx[t]) BY <1>0, Served
<1>2. PICK r : r = [tx[t] EXCEPT !.stage = "check"] OBVIOUS
<1>3. /\ r.op = tx[t].op /\ r.stage = "check" /\ r.email = tx[t].email /\ r.purpose = tx[t].purpose /\ r.tenant = tx[t].tenant
      /\ r.issues = tx[t].issues /\ r.makes = tx[t].makes /\ r.seen = tx[t].seen
      /\ r.ends = tx[t].ends /\ r.code = tx[t].code /\ r \in Transaction
    BY <1>1, <1>2 DEF Transaction, Stages
<1>4. r.op \in {"reissue", "activate"}
    BY <1>0, <1>1, <1>3 DEF Sound, SoundAdd, SoundCreate, Transaction
<1>5. Sound(r)
    BY <1>0, <1>1, <1>3, <1>4 DEF Sound, Pending, SoundAdd, SoundCreate, SoundReissue, SoundActivate
<1>6. \A u \in Txs \ {t} : tx[u] # None => Compatible(r, tx[u])
  <2> TAKE u \in Txs \ {t}
  <2> HAVE tx[u] # None
  <2>1. Compatible(tx[t], tx[u]) BY <1>0, Served
  <2>2. ~(r.email = tx[u].email /\ Locked(tx[u])) BY <1>3 DEF Lock, LockFree, Rivals, Locked
  <2> QED BY <1>3, <2>1, <2>2 DEF Compatible
<1>7. tx' = [tx EXCEPT ![t] = r] /\ UNCHANGED Rows BY <1>2 DEF Lock, Goto
<1> QED BY <1>3, <1>5, <1>6, <1>7, Moves

\* A request sees the codes of its account that may still be used.
LEMMA Finds == ASSUME AccountInv, NEW t \in Txs, FindOutstanding(t) PROVE AccountInv'
<1>0. tx[t] # None /\ tx[t].stage = "issue" BY DEF FindOutstanding, At
<1>1. tx[t] \in Transaction /\ Sound(tx[t]) BY <1>0, Served
<1>2. PICK r : r = [tx[t] EXCEPT !.seen = Codes(tx[t].email), !.stage = "revoke"] OBVIOUS
<1>3. r = [op |-> tx[t].op, stage |-> "revoke", email |-> tx[t].email, tenant |-> tx[t].tenant,
           code |-> tx[t].code, purpose |-> tx[t].purpose, late |-> tx[t].late, retried |-> tx[t].retried,
           issues |-> tx[t].issues, makes |-> tx[t].makes, seen |-> Codes(tx[t].email), ends |-> tx[t].ends]
    BY <1>1, <1>2 DEF Transaction
<1>4. r \in Transaction
  <2>1. Codes(tx[t].email) \in SUBSET Tokens BY DEF Codes
  <2> QED BY <1>1, <1>3, <2>1 DEF Transaction, Stages
<1>5. tx[t].op # "activate" /\ tx[t].ends = {} BY <1>0, <1>1 DEF Sound, SoundActivate, Pending
<1>6. Pending(r)
  <2>1. \A k \in Codes(tx[t].email) : token[k].of = tx[t].email BY DEF Codes
  <2> QED BY <1>1, <1>3, <1>5, <2>1 DEF Sound, Pending
<1>7. SoundAdd(r) /\ SoundCreate(r) /\ SoundReissue(r)
    BY <1>0, <1>1, <1>3, <1>5 DEF Sound, SoundAdd, SoundCreate, SoundReissue
<1>8. Sound(r) BY <1>3, <1>5, <1>6, <1>7 DEF Sound, SoundActivate
<1>9. r.email = tx[t].email /\ r.makes = tx[t].makes /\ (Locked(r) => Locked(tx[t])) /\ r.ends = {}
    BY <1>0, <1>3, <1>5 DEF Locked
<1>10. tx' = [tx EXCEPT ![t] = r] /\ UNCHANGED Rows BY <1>2 DEF FindOutstanding
<1> QED BY <1>0, <1>4, <1>8, <1>9, <1>10, Writes

\* A request revokes or consumes codes that nobody else has written.
LEMMA Closes ==
  ASSUME AccountInv, NEW t \in Txs, RevokeOutstanding(t) \/ ConsumeCode(t)
  PROVE  AccountInv'
<1>0. tx[t] # None BY DEF RevokeOutstanding, ConsumeCode, At
<1>1. tx[t] \in Transaction /\ Sound(tx[t]) BY <1>0, Served
<1> DEFINE Open(K) == {k \in K : token[k].status = "outstanding"}
           Closed(K, stage) == [tx[t] EXCEPT !.ends = Open(K), !.seen = {}, !.stage = stage]
<1>2. ASSUME NEW K \in SUBSET Tokens, NEW stage \in Stages, Close(t, K, stage),
             NEW r, r = Closed(K, stage)
      PROVE  /\ r.op = tx[t].op /\ r.stage = stage /\ r.email = tx[t].email /\ r.purpose = tx[t].purpose /\ r.tenant = tx[t].tenant
             /\ r.issues = tx[t].issues /\ r.makes = tx[t].makes /\ r.seen = {} /\ r.code = tx[t].code
             /\ r.ends = Open(K)
             /\ (Sound(r) /\ (Locked(r) => Locked(tx[t]))) => AccountInv'
  <2>1. PICK E \in SUBSET Tokens : E = Open(K) OBVIOUS
  <2>2. r = [op |-> tx[t].op, stage |-> stage, email |-> tx[t].email, tenant |-> tx[t].tenant,
             code |-> tx[t].code, purpose |-> tx[t].purpose, late |-> tx[t].late, retried |-> tx[t].retried,
             issues |-> tx[t].issues, makes |-> tx[t].makes, seen |-> {}, ends |-> E]
      BY <1>1, <1>2, <2>1 DEF Transaction
  <2>3. r \in Transaction BY <1>1, <2>2 DEF Transaction
  <2>4. \A u \in Rivals(t) : r.ends \cap tx[u].ends = {} BY <1>2, <2>1, <2>2 DEF Close
  <2>5. tx' = [tx EXCEPT ![t] = r] /\ UNCHANGED Rows BY <1>2 DEF Close
  <2>6. r.email = tx[t].email /\ r.makes = tx[t].makes BY <2>2
  <2>7. (Sound(r) /\ (Locked(r) => Locked(tx[t]))) => AccountInv'
      BY <1>0, <2>3, <2>4, <2>5, <2>6, Writes
  <2> QED BY <2>1, <2>2, <2>7
<1> HIDE DEF Closed, Open
<1>3. CASE RevokeOutstanding(t)
  <2>1. tx[t].stage = "revoke" /\ Close(t, tx[t].seen, "commit") /\ tx[t].seen \in SUBSET Tokens
      BY <1>1, <1>3 DEF RevokeOutstanding, At, Transaction
  <2>2. tx[t].op # "activate" BY <1>1, <2>1 DEF Sound, SoundActivate
  <2>3. PICK r : r = Closed(tx[t].seen, "commit") OBVIOUS
  <2>4. /\ r.op = tx[t].op /\ r.stage = "commit" /\ r.email = tx[t].email /\ r.purpose = tx[t].purpose /\ r.tenant = tx[t].tenant
        /\ r.issues = tx[t].issues /\ r.makes = tx[t].makes /\ r.seen = {}
        /\ r.ends = Open(tx[t].seen)
        /\ (Sound(r) /\ (Locked(r) => Locked(tx[t]))) => AccountInv'
    <3>1. "commit" \in Stages BY DEF Stages
    <3> QED BY <1>2, <2>1, <2>3, <3>1
  <2>5. Pending(r) BY <1>1, <2>4 DEF Sound, Pending, Outstanding, Open
  <2>6. SoundAdd(r) /\ SoundCreate(r) BY <1>1, <2>1, <2>4 DEF Sound, SoundAdd, SoundCreate
  <2>7. SoundReissue(r) BY <1>1, <2>1, <2>4 DEF Sound, SoundReissue, Codes, Usable, Open
  <2> QED BY <2>1, <2>2, <2>4, <2>5, <2>6, <2>7 DEF Sound, SoundActivate, Locked
<1>4. CASE ConsumeCode(t)
  <2>1. tx[t].stage = "consume" /\ Close(t, {tx[t].code}, "password") BY <1>4 DEF ConsumeCode, At
  <2>2. tx[t].op = "activate" BY <1>1, <2>1 DEF Sound, SoundAdd, SoundCreate, SoundReissue, Transaction
  <2>3. PICK K \in SUBSET Tokens : K = {tx[t].code} BY <1>1, <2>2 DEF Sound, SoundActivate
  <2>4. PICK r : r = Closed(K, "password") OBVIOUS
  <2>5. /\ r.op = tx[t].op /\ r.stage = "password" /\ r.email = tx[t].email
        /\ r.makes = tx[t].makes /\ r.seen = {} /\ r.code = tx[t].code
        /\ r.ends = Open(K)
        /\ (Sound(r) /\ (Locked(r) => Locked(tx[t]))) => AccountInv'
    <3>1. "password" \in Stages BY DEF Stages
    <3>2. Close(t, K, "password") BY <2>1, <2>3
    <3> QED BY <1>2, <2>4, <3>1, <3>2
  <2>6. Pending(r) BY <1>1, <2>2, <2>3, <2>5 DEF Sound, SoundActivate, Pending, Outstanding, Open
  <2>7. SoundActivate(r) BY <1>1, <2>2, <2>3, <2>5 DEF Sound, SoundActivate, Open
  <2> QED BY <2>1, <2>2, <2>5, <2>6, <2>7 DEF Sound, SoundAdd, SoundCreate, SoundReissue, Locked
<1> QED BY <1>3, <1>4

-----------------------------------------------------------------------------
(* The commit *)

\* What a commit does to the codes: new is the one it issues.
Committed(t, new) ==
  /\ \/ new = None /\ (tx[t].op = "activate" \/ ~tx[t].issues)
     \/ new \in Tokens /\ token[new].status = "unused" /\ ~(tx[t].op = "activate" \/ ~tx[t].issues)
  /\ token' = TokensAfter(t, new)
  /\ account' = [account EXCEPT ![tx[t].email] = AccountAfter(t)]
  /\ tx[t] \in Transaction /\ Sound(tx[t]) /\ tx[t].stage = "commit"

LEMMA Codings ==
  ASSUME AccountInv, NEW t \in Txs, NEW new, Committed(t, new)
  PROVE  /\ \A k \in tx[t].ends : /\ token'[k].of = tx[t].email /\ token'[k].expired = token[k].expired
                                  /\ token'[k].status = IF tx[t].op = "activate" THEN "consumed" ELSE "revoked"
         /\ \A k \in Tokens \ tx[t].ends : k # new => token'[k] = token[k]
         /\ new # None => /\ token'[new].of = tx[t].email /\ token'[new].status = "outstanding"
                          /\ token[new].of = None /\ new \in Tokens \ tx[t].ends
         /\ token' \in [Tokens -> Token]
<1> USE NoneAssumption
<1>1. /\ token \in [Tokens -> Token] /\ tx[t].ends \subseteq Tokens /\ tx[t].email \in Emails
      /\ \A k \in Tokens : token[k].status = "unused" => token[k].of = None
      /\ \A k \in tx[t].ends : token[k].of = tx[t].email /\ token[k].status = "outstanding"
    BY DEF AccountInv, AccountTypeOK, RowsInv, Committed, Transaction, Sound, Pending, Outstanding
<1>2. \A k \in tx[t].ends : k # new BY <1>1 DEF Committed
<1>3. \A k \in Tokens : token'[k] =
        IF k = new THEN [of |-> tx[t].email, status |-> "outstanding", expired |-> FALSE]
        ELSE IF k \in tx[t].ends
        THEN [token[k] EXCEPT !.status = IF tx[t].op = "activate" THEN "consumed" ELSE "revoked"]
        ELSE token[k]
    BY DEF Committed, TokensAfter
<1>4. ASSUME NEW k \in tx[t].ends
      PROVE  /\ token'[k].of = tx[t].email /\ token'[k].expired = token[k].expired
             /\ token'[k].status = IF tx[t].op = "activate" THEN "consumed" ELSE "revoked"
             /\ token'[k] \in Token
  <2>1. PICK s \in {"consumed", "revoked"} : s = IF tx[t].op = "activate" THEN "consumed" ELSE "revoked"
      OBVIOUS
  <2>2. token'[k] = [token[k] EXCEPT !.status = s] BY <1>1, <1>2, <1>3, <2>1
  <2>3. token[k] \in Token BY <1>1
  <2> QED BY <1>1, <2>1, <2>2, <2>3 DEF Token
<1>5. \A k \in Tokens \ tx[t].ends : k # new => token'[k] = token[k] BY <1>3
<1>6. ASSUME new # None
      PROVE  /\ token'[new].of = tx[t].email /\ token'[new].status = "outstanding"
             /\ token[new].of = None /\ new \in Tokens \ tx[t].ends /\ token'[new] \in Token
  <2>1. new \in Tokens /\ token[new].status = "unused" BY <1>6 DEF Committed
  <2>2. token'[new] = [of |-> tx[t].email, status |-> "outstanding", expired |-> FALSE] BY <1>3, <2>1
  <2> QED BY <1>1, <1>2, <2>1, <2>2 DEF Token
<1>7. token' \in [Tokens -> Token]
  <2>1. DOMAIN token' = Tokens /\ token' = [k \in Tokens |-> token'[k]] BY DEF Committed, TokensAfter
  <2>2. \A k \in Tokens : token'[k] \in Token
    <3> TAKE k \in Tokens
    <3>1. CASE k = new BY <1>6, <3>1
    <3>2. CASE k \in tx[t].ends BY <1>4, <3>2
    <3>3. CASE k \notin tx[t].ends /\ k # new BY <1>1, <1>5, <3>3
    <3> QED BY <3>1, <3>2, <3>3
  <2> QED BY <2>1, <2>2
<1> QED BY <1>4, <1>5, <1>6, <1>7

\* What a commit does to the accounts.
LEMMA Accountings ==
  ASSUME AccountInv, NEW t \in Txs, NEW new, Committed(t, new)
  PROVE  /\ account' \in [Emails -> Account] /\ tx[t].email \in Emails
         /\ \A e \in Emails \ {tx[t].email} : account'[e] = account[e]
         /\ \A e \in Emails : Exists(e) => /\ Exists(e)' /\ account'[e].role = account[e].role
                                           /\ Activated(e) => account'[e].opened = account[e].opened
         /\ "account" \in tx[t].makes => /\ ~Exists(tx[t].email) /\ account'[tx[t].email].opened = None
                                         /\ account'[tx[t].email].role = tx[t].purpose
         /\ tx[t].op # "activate" /\ "account" \notin tx[t].makes => account' = account
         /\ tx[t].op = "activate" => /\ account'[tx[t].email].opened = tx[t].code /\ tx[t].code \in Tokens
                                     /\ ~Activated(tx[t].email) /\ "account" \notin tx[t].makes
                                     /\ tx[t].ends = {tx[t].code}
         /\ account'[tx[t].email].role # "none"
<1> USE NoneAssumption
<1>1. /\ account \in [Emails -> Account] /\ tx[t].email \in Emails
      /\ tx[t].purpose \in Roles /\ tx[t] \in Transaction /\ Sound(tx[t]) /\ tx[t].stage = "commit"
      /\ account'[tx[t].email] = AccountAfter(t)
      /\ \A e \in Emails : Activated(e) => Exists(e)
      /\ account' = [account EXCEPT ![tx[t].email] = AccountAfter(t)]
    BY DEF AccountInv, AccountTypeOK, RowsInv, Committed, Transaction
<1>2. \A e \in Emails \ {tx[t].email} : account'[e] = account[e] BY <1>1
<1>3. CASE "account" \in tx[t].makes
  <2>0. ~Exists(tx[t].email) /\ tx[t].op # "activate" BY <1>1, <1>3 DEF Sound, Pending, SoundActivate
  <2>1. account'[tx[t].email] = [role |-> tx[t].purpose, opened |-> None]
      BY <1>1, <1>3, <2>0 DEF AccountAfter
  <2>2. account'[tx[t].email] \in Account BY <1>1, <2>1 DEF Account
  <2>4. account'[tx[t].email].role # "none" BY <1>1, <2>1 DEF Roles
  <2>5. account' \in [Emails -> Account] BY <1>1, <2>1, <2>2
  <2> QED BY <1>1, <1>2, <1>3, <2>0, <2>1, <2>4, <2>5 DEF Exists
<1>4. CASE tx[t].op = "activate"
  <2>0. tx[t].makes = {} /\ tx[t].code \in Tokens /\ tx[t].ends = {tx[t].code} /\ ~Activated(tx[t].email)
        /\ token[tx[t].code].of = tx[t].email
      BY <1>1, <1>4 DEF Sound, SoundActivate
  <2>1. account'[tx[t].email] = [account[tx[t].email] EXCEPT !.opened = tx[t].code]
      BY <1>1, <1>4, <2>0 DEF AccountAfter
  <2>2. account[tx[t].email] \in Account BY <1>1
  <2>3. /\ account'[tx[t].email] \in Account /\ account'[tx[t].email].opened = tx[t].code
        /\ account'[tx[t].email].role = account[tx[t].email].role
      BY <2>0, <2>1, <2>2 DEF Account
  <2>4. Exists(tx[t].email) BY <1>1, <2>0 DEF AccountInv, RowsInv
  <2>5. account' \in [Emails -> Account] BY <1>1, <2>3
  <2> QED BY <1>1, <1>2, <1>4, <2>0, <2>3, <2>4, <2>5 DEF Exists
<1>5. CASE "account" \notin tx[t].makes /\ tx[t].op # "activate"
  <2>1. account'[tx[t].email] = account[tx[t].email] BY <1>1, <1>5 DEF AccountAfter
  <2>2. account' = account BY <1>1, <2>1
  <2>3. Exists(tx[t].email)
      BY <1>1, <1>5 DEF Sound, SoundAdd, SoundCreate, SoundReissue, Exists, Transaction
  <2> QED BY <1>1, <1>5, <2>2, <2>3 DEF Exists
<1> QED BY <1>3, <1>4, <1>5

\* What another request has seen and written still fits.
LEMMA OthersStaySound ==
  ASSUME AccountInv, NEW t \in Txs, NEW new, Committed(t, new), tx[t] # None,
         NEW u \in Txs \ {t}, tx[u] # None, NEW s, s = tx[u], tx' = [tx EXCEPT ![t] = None]
  PROVE  Sound(tx[u])'
<1> USE NoneAssumption
<1>0. tx'[u] = s BY DEF AccountInv, AccountTypeOK
<1>1. /\ s \in Transaction /\ Sound(s) /\ tx[t] \in Transaction /\ Sound(tx[t]) /\ tx[t].stage = "commit"
      /\ Compatible(tx[t], s)
    BY Served DEF Committed
<1>2. s.email \in Emails /\ tx[t].email \in Emails /\ tx[t].email # None BY <1>1 DEF Transaction
<1>3. /\ \A e \in Emails \ {tx[t].email} : account'[e] = account[e]
      /\ \A e \in Emails : Exists(e) => /\ Exists(e)' /\ account'[e].role = account[e].role
                                        /\ Activated(e) => account'[e].opened = account[e].opened
      /\ "account" \in tx[t].makes => ~Exists(tx[t].email)
      /\ tx[t].op # "activate" /\ "account" \notin tx[t].makes => account' = account
    BY Accountings
<1>4. /\ \A k \in tx[t].ends : token'[k].of = tx[t].email /\ token[k].of = tx[t].email
      /\ \A k \in tx[t].ends : token'[k].status # "outstanding"
      /\ \A k \in Tokens \ tx[t].ends : k # new => token'[k] = token[k]
      /\ new # None => token'[new].of = tx[t].email /\ token[new].of = None /\ token[new].status = "unused"
    BY <1>1, Codings, ZenonT(30) DEF Committed, Sound, Pending
<1>5. \A k \in Tokens : token[k].of # None => Exists(token[k].of) BY DEF AccountInv, RowsInv
<1>6. tx[t].op = "activate" => Exists(tx[t].email) BY <1>1, <1>2, <1>5 DEF Sound, SoundActivate
<1>7. \A k \in Tokens : token[k].of # None => token'[k].of = token[k].of
    BY <1>4
<1>8. s.seen \subseteq Tokens /\ s.ends \subseteq Tokens BY <1>1 DEF Transaction
<1>9. Pending(tx[u])'
  <2>1. "account" \in s.makes => ~Exists(s.email)
      BY <1>1 DEF Sound, Pending
  <2>2. "account" \in s.makes => account'[s.email] = account[s.email]
      BY <1>1, <1>2, <1>3, <1>6, <2>1 DEF Compatible
  <2>3. \A k \in s.seen : token'[k].of = s.email
      BY <1>1, <1>2, <1>7, <1>8 DEF Sound, Pending
  <2>4. ASSUME NEW k \in s.ends PROVE token'[k].of = s.email /\ token'[k].status = "outstanding"
    <3>1. token[k].of = s.email /\ token[k].status = "outstanding" BY <1>1 DEF Sound, Pending, Outstanding
    <3>2. k \notin tx[t].ends /\ k # new /\ k \in Tokens BY <1>1, <1>2, <1>4, <1>8, <3>1 DEF Compatible, Committed
    <3> QED BY <1>4, <3>1, <3>2
  <2>5. s.stage \notin {"password", "commit"} => s.ends = {} BY <1>1 DEF Sound, Pending
  <2> QED BY <1>0, <2>1, <2>2, <2>3, <2>4, <2>5 DEF Pending, Exists, Outstanding
<1>10. account[s.email].role = "student" => account'[s.email].role = "student"
    BY <1>2, <1>3 DEF Exists
<1>11. SoundAdd(tx[u])' /\ SoundCreate(tx[u])'
    BY <1>0, <1>1, <1>10 DEF Sound, SoundAdd, SoundCreate
<1>12. ASSUME s.op = "reissue", s.stage \in {"issue", "revoke", "commit"}
       PROVE  /\ account'[s.email] = account[s.email]
              /\ (Codes(s.email))' \subseteq Tokens
              /\ \A k \in Tokens : token'[k].of = s.email => token'[k] = token[k]
  <2>1. account[s.email].role = "instructor" BY <1>1, <1>12 DEF Sound, SoundReissue
  <2>2. tx[t].email # s.email
    <3> SUFFICES ASSUME tx[t].email = s.email PROVE FALSE
        OBVIOUS
    <3>1. tx[t].op \in {"add", "create"}
        BY <1>1, <1>12 DEF Compatible, Locked, Transaction
    <3>2. "account" \in tx[t].makes \/ account[tx[t].email].role = "student"
        BY <1>1, <3>1 DEF Sound, SoundAdd, SoundCreate
    <3> QED BY <1>3, <2>1, <3>2 DEF Exists
  <2>3. account'[s.email] = account[s.email] BY <1>2, <1>3, <2>2
  <2>4. \A k \in Tokens : token'[k].of = s.email => token'[k] = token[k]
      BY <1>4, <2>2
  <2> QED BY <2>3, <2>4 DEF Codes
<1>13. SoundReissue(tx[u])'
  <2>1. s.op = "reissue" /\ s.stage \in {"issue", "revoke", "commit"} =>
          {k \in Tokens : token'[k].of = s.email /\ token'[k].status = "outstanding" /\ ~token'[k].expired}
            \subseteq Codes(s.email)
      BY <1>12 DEF Codes, Usable
  <2>2. s.op = "reissue" => /\ s.stage \in {"lock", "check", "issue", "revoke", "commit"}
                            /\ s.issues /\ s.makes = {}
      BY <1>1 DEF Sound, SoundReissue
  <2>3. s.op = "reissue" /\ s.stage \in {"issue", "revoke", "commit"} =>
          account'[s.email].role = "instructor" /\ account'[s.email].opened = None
      BY <1>1, <1>12 DEF Sound, SoundReissue, Activated
  <2>4. s.op = "reissue" => /\ s.stage = "revoke" => Codes(s.email) \subseteq s.seen
                            /\ s.stage = "commit" => Codes(s.email) \subseteq s.ends
      BY <1>1 DEF Sound, SoundReissue
  <2> QED BY <1>0, <2>1, <2>2, <2>3, <2>4 DEF SoundReissue, Codes, Usable, Activated
<1>14. SoundActivate(tx[u])'
  <2> SUFFICES ASSUME s.op = "activate" PROVE SoundActivate(tx[u])'
      BY <1>0 DEF SoundActivate
  <2>1. s.code \in Tokens /\ token[s.code].of = s.email /\ token'[s.code].of = s.email
      BY <1>1, <1>2, <1>7 DEF Sound, SoundActivate
  <2>2. Exists(s.email) BY <1>2, <1>5, <2>1
  <2>3. s.stage = "commit" => account'[s.email].opened = None
    <3> SUFFICES ASSUME s.stage = "commit" PROVE account'[s.email].opened = None
        OBVIOUS
    <3>1. account[s.email].opened = None BY <1>1 DEF Sound, SoundActivate, Activated
    <3>2. ~(tx[t].op = "activate" /\ tx[t].email = s.email) BY <1>1 DEF Compatible, Locked
    <3> QED BY <1>2, <1>3, <2>2, <3>1, <3>2
  <2> QED BY <1>0, <1>1, <2>1, <2>3 DEF Sound, SoundActivate, Activated
<1> QED BY <1>9, <1>11, <1>13, <1>14 DEF Sound

LEMMA Commits == ASSUME AccountInv, NEW t \in Txs, Commit(t) PROVE AccountInv'
<1> USE NoneAssumption
<1>0. tx[t] # None /\ tx[t].stage = "commit" /\ tx' = [tx EXCEPT ![t] = None] BY DEF Commit, At
<1>1. tx[t] \in Transaction /\ Sound(tx[t]) BY <1>0, Served
<1>2. PICK new : Committed(t, new)
  <2>1. CASE tx[t].op = "activate" \/ ~tx[t].issues
    <3>1. Committed(t, None) BY <1>0, <1>1, <2>1 DEF Commit, Committed
    <3> QED BY <3>1
  <2>2. CASE ~(tx[t].op = "activate" \/ ~tx[t].issues)
    <3>1. PICK new \in Tokens : token[new].status = "unused" /\ token' = TokensAfter(t, new)
        BY <2>2 DEF Commit
    <3>2. Committed(t, new) BY <1>0, <1>1, <2>2, <3>1 DEF Commit, Committed
    <3> QED BY <3>2
  <2> QED BY <2>1, <2>2
<1>3. \A u \in Txs : (tx[u] # None => Sound(tx[u]))'
    BY <1>0, <1>2, OthersStaySound DEF AccountInv, AccountTypeOK
<1>4. \A u, v \in Txs : ((u # v /\ tx[u] # None /\ tx[v] # None) => Compatible(tx[u], tx[v]))'
    BY <1>0 DEF AccountInv, AccountTypeOK, Compatible, Locked
<1>5. PICK r : r = tx[t] OBVIOUS
<1>6. /\ r \in Transaction /\ Sound(r) /\ r.stage = "commit" /\ r.email \in Emails
      /\ account' \in [Emails -> Account]
      /\ \A e \in Emails \ {r.email} : account'[e] = account[e]
      /\ \A e \in Emails : Exists(e) => /\ Exists(e)' /\ account'[e].role = account[e].role
                                        /\ Activated(e) => account'[e].opened = account[e].opened
      /\ "account" \in r.makes => /\ ~Exists(r.email) /\ account'[r.email].opened = None
                                  /\ account'[r.email].role = r.purpose
      /\ r.op # "activate" /\ "account" \notin r.makes => account' = account
      /\ r.op = "activate" => /\ account'[r.email].opened = r.code /\ r.code \in Tokens
                              /\ ~Activated(r.email) /\ "account" \notin r.makes /\ r.ends = {r.code}
      /\ account'[r.email].role # "none"
    BY <1>0, <1>1, <1>2, <1>5, Accountings
<1>7. /\ \A k \in r.ends : /\ token'[k].of = r.email /\ token'[k].expired = token[k].expired
                           /\ token'[k].status = IF r.op = "activate" THEN "consumed" ELSE "revoked"
                           /\ token[k].of = r.email /\ token[k].status = "outstanding" /\ k \in Tokens
      /\ \A k \in Tokens \ r.ends : k # new => token'[k] = token[k]
      /\ new # None => /\ token'[new].of = r.email /\ token'[new].status = "outstanding"
                       /\ token[new].of = None /\ token[new].status = "unused" /\ new \in Tokens \ r.ends
      /\ token' \in [Tokens -> Token]
  <2>1. r.ends \subseteq Tokens BY <1>6 DEF Transaction
  <2>2. \A k \in r.ends : token[k].of = r.email /\ token[k].status = "outstanding"
      BY <1>6 DEF Sound, Pending, Outstanding
  <2>3. new # None => new \in Tokens /\ token[new].status = "unused" BY <1>2 DEF Committed
  <2>4. /\ \A k \in r.ends : /\ token'[k].of = r.email /\ token'[k].expired = token[k].expired
                             /\ token'[k].status = IF r.op = "activate" THEN "consumed" ELSE "revoked"
        /\ \A k \in Tokens \ r.ends : k # new => token'[k] = token[k]
        /\ new # None => /\ token'[new].of = r.email /\ token'[new].status = "outstanding"
                         /\ token[new].of = None /\ new \in Tokens \ r.ends
        /\ token' \in [Tokens -> Token]
      BY <1>2, <1>5, Codings
  <2> QED BY <2>1, <2>2, <2>3, <2>4
<1>8. /\ r.op = "activate" \/ r.issues # TRUE => new = None
      /\ r.op # "activate" /\ r.issues = TRUE => new # None
      /\ new = None => new \notin Tokens
    BY <1>1, <1>2, <1>5 DEF Committed, Transaction
<1>9. /\ \A k \in Tokens : token[k].status = "unused" => token[k].of = None
      /\ \A k \in Tokens : token[k].of # None => Exists(token[k].of) /\ token[k].of \in Emails
      /\ \A e \in Emails : Activated(e) => /\ Exists(e) /\ account[e].opened \in Tokens
                                           /\ token[account[e].opened].status = "consumed"
    BY DEF AccountInv, RowsInv, AccountTypeOK, Token, Account, Activated
<1>10. AccountTypeOK'
  <2>1. owner' \in [Tenants -> Emails \cup {Others, None}]
      BY <1>1 DEF Commit, AccountInv, AccountTypeOK, Transaction
  <2>2. member' \in SUBSET (Emails \X Tenants)
    <3>1. "member" \in tx[t].makes => tx[t].tenant \in Tenants
        BY <1>1 DEF Sound, SoundAdd, SoundCreate, SoundReissue, SoundActivate, Transaction
    <3> QED BY <1>1, <3>1 DEF Commit, AccountInv, AccountTypeOK, Transaction
  <2>3. tx' \in [Txs -> Transaction \cup {None}] BY <1>0 DEF AccountInv, AccountTypeOK
  <2> QED BY <1>6, <1>7, <2>1, <2>2, <2>3 DEF AccountTypeOK
<1>11. RowsInv'
  <2>1. ASSUME NEW k \in Tokens
        PROVE  /\ token'[k].status = "unused" => token'[k].of = None
               /\ token'[k].of # None => account'[token'[k].of].role # "none"
    <3>1. CASE k \in r.ends BY <1>6, <1>7, <3>1 DEF Exists
    <3>2. CASE k = new /\ new # None BY <1>6, <1>7, <3>2 DEF Exists
    <3>3. CASE k \notin r.ends /\ k # new BY <1>6, <1>7, <1>9, <3>3 DEF Exists
    <3> QED BY <3>1, <3>2, <3>3
  <2>2. ASSUME NEW e \in Emails, account'[e].opened # None
        PROVE  account'[e].role # "none" /\ token'[account'[e].opened].status = "consumed"
    <3>1. CASE e = r.email /\ r.op = "activate" BY <1>6, <1>7, <3>1
    <3>2. CASE ~(e = r.email /\ r.op = "activate")
      <4>1. account'[e] = account[e] BY <1>6, <2>2, <3>2
      <4>2. Activated(e) BY <2>2, <4>1 DEF Activated
      <4>3. token'[account[e].opened] = token[account[e].opened] BY <1>7, <1>9, <4>2
      <4> QED BY <1>9, <4>1, <4>2, <4>3 DEF Exists
    <3> QED BY <3>1, <3>2
  <2> QED BY <2>1, <2>2 DEF RowsInv, Exists, Activated
<1>12. InstructorHasOneWayIn'
  <2>1. ASSUME NEW e \in Emails, account'[e].role = "instructor"
        PROVE  /\ \A j, k \in Codes(e)' : j = k
               /\ account'[e].opened # None /\ ~token'[account'[e].opened].expired => Codes(e)' = {}
    <3>p. PICK C : C = Codes(e)' OBVIOUS
    <3>q. C = {k \in Tokens : token'[k].of = e /\ token'[k].status = "outstanding" /\ ~token'[k].expired}
        BY <3>p DEF Codes, Usable
    <3>0. account[e].role = "instructor" =>
            /\ \A j, k \in Codes(e) : j = k
            /\ account[e].opened # None /\ ~token[account[e].opened].expired => Codes(e) = {}
        BY DEF AccountInv, InstructorHasOneWayIn, Activated
    <3>1. CASE e # r.email
      <4>1. account'[e] = account[e] BY <1>6, <3>1
      <4>2. C = Codes(e)
        <5>1. \A k \in Tokens : token[k].of = e \/ token'[k].of = e => token'[k] = token[k]
          <6> TAKE k \in Tokens
          <6>1. CASE k \in r.ends BY <1>7, <3>1, <6>1
          <6>2. CASE k = new BY <1>6, <1>7, <3>1, <6>2
          <6>3. CASE k \notin r.ends /\ k # new BY <1>7, <6>3
          <6> QED BY <6>1, <6>2, <6>3
        <5> QED BY <3>q, <5>1 DEF Codes, Usable
      <4>3. account[e].opened # None => token'[account[e].opened] = token[account[e].opened]
          BY <1>7, <1>9 DEF Activated
      <4> QED BY <2>1, <3>p, <3>0, <4>1, <4>2, <4>3
    <3>2. CASE e = r.email /\ r.op = "activate"
      <4>1. new = None /\ new \notin Tokens BY <1>8, <3>2
      <4>2. account[e].role = "instructor" BY <1>1, <1>5, <1>6, <1>9, <2>1, <3>2 DEF Sound, SoundActivate
      <4>3. C = Codes(e) \ {r.code}
          BY <1>6, <1>7, <3>q, <3>2, <4>1 DEF Codes, Usable
      <4>4. account'[e].opened = r.code /\ token'[r.code].expired = token[r.code].expired
          BY <1>6, <1>7, <3>2
      <4>5. ~token[r.code].expired => r.code \in Codes(e) BY <1>6, <1>7, <3>2 DEF Codes, Usable
      <4> QED BY <3>p, <3>0, <4>2, <4>3, <4>4, <4>5
    <3>3. CASE e = r.email /\ r.op # "activate"
      <4>1. Codes(e) \subseteq r.ends /\ account'[e].opened = None
        <5>1. CASE "account" \in r.makes
          <6>1. Codes(e) = {} BY <1>6, <1>9, <3>3, <5>1 DEF Codes
          <6> QED BY <1>6, <3>3, <5>1, <6>1
        <5>2. CASE "account" \notin r.makes
          <6>1. account[e].role = "instructor" BY <1>6, <2>1, <3>3, <5>2
          <6>2. r.op = "reissue" BY <1>6, <3>3, <5>2, <6>1 DEF Sound, SoundAdd, SoundCreate, Transaction
          <6> QED BY <1>6, <3>3, <5>2, <6>2 DEF Sound, SoundReissue, Activated
        <5> QED BY <5>1, <5>2
      <4>2. C \subseteq {new}
        <5> SUFFICES ASSUME NEW k \in C, k # new PROVE FALSE
            OBVIOUS
        <5>1. k \in Tokens /\ k \notin r.ends BY <1>7, <3>q, <3>3
        <5>2. token'[k] = token[k] BY <1>7, <5>1
        <5> QED BY <3>q, <4>1, <5>1, <5>2 DEF Codes, Usable
      <4> QED BY <3>p, <4>1, <4>2
    <3> QED BY <3>1, <3>2, <3>3
  <2> QED BY <2>1 DEF InstructorHasOneWayIn, Activated
<1>13. EveryoneHasAWayIn'
  <2>1. ASSUME NEW e \in Emails, account'[e].role # "none"
        PROVE  account'[e].opened # None
                 \/ \E k \in Tokens : token'[k].of = e /\ token'[k].status = "outstanding"
    <3>1. CASE e = r.email /\ new # None BY <1>7, <3>1
    <3>2. CASE e = r.email /\ r.op = "activate" BY <1>6, <3>2
    <3>3. CASE e # r.email \/ (new = None /\ r.op # "activate")
      <4>1. account'[e] = account[e] /\ \A k \in r.ends : e # r.email
        <5>1. CASE e # r.email BY <1>6, <5>1
        <5>2. CASE new = None /\ r.op # "activate"
          <6>1. r.issues # TRUE BY <1>8, <5>2
          <6>2. r.ends = {} /\ "account" \notin r.makes
              BY <1>6, <5>2, <6>1 DEF Sound, SoundAdd, SoundCreate, SoundReissue, Transaction
          <6> QED BY <1>6, <5>2, <6>2
        <5> QED BY <3>3, <5>1, <5>2
      <4>2. \/ account[e].opened # None
            \/ \E k \in Tokens : token[k].of = e /\ token[k].status = "outstanding"
          BY <2>1, <4>1 DEF AccountInv, EveryoneHasAWayIn, Exists, Activated
      <4>3. \A k \in Tokens : token[k].of = e /\ token[k].status = "outstanding" => token'[k] = token[k]
          BY <1>7, <4>1
      <4> QED BY <4>1, <4>2, <4>3
    <3> QED BY <1>8, <3>1, <3>2, <3>3
  <2>2. ASSUME NEW m \in member' PROVE account'[m[1]].role = "student"
    <3>1. CASE m \in member
      <4>1. m[1] \in Emails /\ account[m[1]].role = "student"
          BY <3>1 DEF AccountInv, AccountTypeOK, EveryoneHasAWayIn
      <4> QED BY <1>6, <4>1 DEF Exists
    <3>2. CASE m \notin member
      <4>1. m = <<r.email, r.tenant>> /\ "member" \in r.makes BY <1>5, <2>2, <3>2 DEF Commit
      <4>2. r.op = "add" BY <1>6, <4>1 DEF Sound, SoundCreate, SoundReissue, SoundActivate, Transaction
      <4>3. r.purpose = "student" /\ ("account" \in r.makes \/ account[r.email].role = "student")
          BY <1>6, <4>2 DEF Sound, SoundAdd
      <4> QED BY <1>6, <4>1, <4>2, <4>3 DEF Exists
    <3> QED BY <3>1, <3>2
  <2> QED BY <2>1, <2>2 DEF EveryoneHasAWayIn, Exists, Activated
<1> QED BY <1>3, <1>4, <1>10, <1>11, <1>12, <1>13 DEF AccountInv

\* A code runs out: every set of codes that work only loses it.
LEMMA Expires == ASSUME AccountInv, NEW k \in Tokens, Expire(k) PROVE AccountInv'
<1> USE NoneAssumption
<1>1. /\ Usable(k) /\ token' = [token EXCEPT ![k] = [token[k] EXCEPT !.expired = TRUE]]
      /\ account' = account /\ owner' = owner /\ member' = member /\ tx' = tx
    BY DEF Expire
<1>2. token \in [Tokens -> Token] BY DEF AccountInv, AccountTypeOK
<1>3. token'[k] = [token[k] EXCEPT !.expired = TRUE] /\ \A j \in Tokens \ {k} : token'[j] = token[j]
    BY <1>1, <1>2
<1>4. /\ \A j \in Tokens : token'[j].of = token[j].of /\ token'[j].status = token[j].status
      /\ \A j \in Tokens \ {k} : token'[j].expired = token[j].expired
      /\ token'[k].expired = TRUE /\ token'[k] \in Token
  <2>1. token[k] \in Token BY <1>2
  <2> QED BY <1>3, <2>1 DEF Token
<1>5. AccountTypeOK'
  <2>1. token' \in [Tokens -> Token] BY <1>1, <1>2, <1>4
  <2> QED BY <1>1, <2>1 DEF AccountInv, AccountTypeOK
<1>6. account' = account /\ \A e \in Emails : account[e].opened # None => account[e].opened \in Tokens
    BY <1>1 DEF AccountInv, AccountTypeOK, Account
<1>7. RowsInv' BY <1>4, <1>6 DEF AccountInv, RowsInv, Exists, Activated
<1>8. \A e : Codes(e)' \subseteq Codes(e) BY <1>4 DEF Codes, Usable
<1>9. InstructorHasOneWayIn'
  <2>1. \A e \in Emails : account[e].opened # None /\ ~token'[account[e].opened].expired =>
                            ~token[account[e].opened].expired
      BY <1>4, <1>6
  <2> QED BY <1>6, <1>8, <2>1 DEF AccountInv, InstructorHasOneWayIn, Activated
<1>10. EveryoneHasAWayIn' BY <1>1, <1>4 DEF AccountInv, EveryoneHasAWayIn, Exists, Activated
<1>11. \A u \in Txs : (tx[u] # None => Sound(tx[u]))'
  <2> SUFFICES ASSUME NEW u \in Txs, tx[u] # None PROVE Sound(tx[u])'
      BY <1>1
  <2>1. PICK s : s = tx[u] /\ s \in Transaction /\ Sound(s) BY DEF AccountInv, AccountTypeOK
  <2>2. s.seen \subseteq Tokens /\ s.ends \subseteq Tokens BY <2>1 DEF Transaction
  <2>3. Pending(tx[u])' BY <1>1, <1>4, <2>1, <2>2 DEF Sound, Pending, Exists, Outstanding
  <2>4. SoundAdd(tx[u])' /\ SoundCreate(tx[u])' BY <1>1, <2>1 DEF Sound, SoundAdd, SoundCreate
  <2>5. SoundReissue(tx[u])'
    <3>1. (Codes(s.email))' \subseteq Codes(s.email) BY <1>8
    <3> QED BY <1>1, <2>1, <3>1 DEF Sound, SoundReissue, Activated
  <2>6. SoundActivate(tx[u])' BY <1>1, <1>4, <2>1 DEF Sound, SoundActivate, Activated
  <2> QED BY <2>3, <2>4, <2>5, <2>6 DEF Sound
<1>12. \A u, v \in Txs : ((u # v /\ tx[u] # None /\ tx[v] # None) => Compatible(tx[u], tx[v]))'
    BY <1>1 DEF AccountInv, Compatible, Locked
<1> QED BY <1>5, <1>7, <1>9, <1>10, <1>11, <1>12 DEF AccountInv

-----------------------------------------------------------------------------
\* Every request, statement and passing of time keeps rows, requests and locks
\* in order.
THEOREM AccountInvariance == AccountSpec => []AccountInv
<1>1. AccountInv /\ [AccountNext]_accountVars => AccountInv'
  <2> SUFFICES ASSUME AccountInv, [AccountNext]_accountVars PROVE AccountInv'
      OBVIOUS
  <2>1. ASSUME NEW t \in Txs, Request(t) PROVE AccountInv' BY <2>1, Begins
  <2>2. ASSUME NEW t \in Txs, Statement(t) PROVE AccountInv'
    <3>1. CASE ReadStudent(t) BY <3>1, Reads
    <3>2. CASE InsertAccount(t) \/ InsertTenant(t) \/ InsertAssociation(t) BY <3>2, InsertsRows
    <3>3. CASE FindAssociation(t) \/ CheckReissue(t) \/ CheckCode(t) \/ CheckPassword(t) BY <3>3, Looks
    <3>4. CASE Lock(t) BY <3>4, Locks
    <3>5. CASE FindOutstanding(t) BY <3>5, Finds
    <3>6. CASE RevokeOutstanding(t) \/ ConsumeCode(t) BY <3>6, Closes
    <3>7. CASE Commit(t) BY <3>7, Commits
    <3>8. CASE Rollback(t) BY <3>8, Ends DEF Rollback
    <3> QED BY <2>2, <3>1, <3>2, <3>3, <3>4, <3>5, <3>6, <3>7, <3>8 DEF Statement
  <2>3. ASSUME NEW k \in Tokens, Expire(k) PROVE AccountInv' BY <2>3, Expires
  <2>4. CASE UNCHANGED accountVars
    <3>1. account' = account /\ owner' = owner /\ member' = member /\ token' = token /\ tx' = tx
        BY <2>4 DEF accountVars
    <3> QED BY <3>1 DEF AccountInv, AccountTypeOK, RowsInv, InstructorHasOneWayIn, EveryoneHasAWayIn, Sound,
               Pending, SoundAdd, SoundCreate, SoundReissue, SoundActivate, Compatible, Locked, Exists,
               Activated, Codes, Usable, Outstanding
  <2> QED BY <2>1, <2>2, <2>3, <2>4 DEF AccountNext
<1> QED BY <1>1, AccountInitially, PTL DEF AccountSpec

\* Accounts, codes and requests keep their shape (AccountTypeOK).
THEOREM AccountTypeCorrect == AccountSpec => []AccountTypeOK
<1>1. AccountInv => AccountTypeOK BY DEF AccountInv
<1> QED BY <1>1, AccountInvariance, PTL

\* However reissues and activations of an instructor overlap, one code works at
\* most, and none once the password is set with a code that has not expired.
THEOREM InstructorsHaveOneWayIn == AccountSpec => []InstructorHasOneWayIn
<1>1. AccountInv => InstructorHasOneWayIn BY DEF AccountInv
<1> QED BY <1>1, AccountInvariance, PTL

\* An account always has its password or a code that nobody revoked or used up,
\* and a roster holds accounts of students only.
THEOREM NobodyIsLockedOut == AccountSpec => []EveryoneHasAWayIn
<1>1. AccountInv => EveryoneHasAWayIn BY DEF AccountInv
<1> QED BY <1>1, AccountInvariance, PTL

-----------------------------------------------------------------------------
(* Enrollments *)

Row(n) == enrollment[n]

\* A row that is in use belongs to a student of the course's tenant.
RowsStand ==
  \A n \in Enrollments :
    Row(n).status # "unused" => /\ Row(n).student \in Emails /\ Row(n).course \in Courses
                                /\ <<Row(n).student, CourseTenant[Row(n).course]>> \in member

\* A creation has ended ACTIVE rows of its student in its course only; the row it
\* has inserted is nobody's yet, and no other stays ACTIVE beside it.
CreationStands(r) ==
  r.op = "enroll" =>
    /\ r.student \in Emails /\ r.course \in Courses /\ <<r.student, CourseTenant[r.course]>> \in member
    /\ \A n \in r.seen \cup r.ends : /\ Row(n).student = r.student /\ Row(n).course = r.course
                                     /\ Row(n).status # "unused"
    /\ \A n \in r.ends : Row(n).status = "ACTIVE"
    /\ r.stage \in {"expire", "expiring", "look", "insert", "commit"}
    /\ r.stage \in {"expire", "expiring"} => r.ends = {}
    /\ r.row # None <=> r.stage = "commit"
    /\ r.row # None => /\ Row(r.row).status = "unused"
                       /\ ActiveRows(r.student, r.course) \subseteq r.ends

RevocationStands(r) ==
  r.op = "revoke" =>
    /\ r.row \in Enrollments /\ Row(r.row).status # "unused"
    /\ r.stage \in {"revoke", "commit"}
    /\ r.ends = IF r.stage = "commit" THEN {r.row} ELSE {}

Stands(r) == CreationStands(r) /\ RevocationStands(r)

Inserted(r) == r.op = "enroll" /\ r.row # None

\* No row and no entry of the unique index is written by two requests.
Apart(r, s) ==
  /\ r.ends \cap s.ends = {}
  /\ Inserted(r) /\ Inserted(s) => r.row # s.row /\ <<r.student, r.course>> # <<s.student, s.course>>

EnrollmentInv ==
  /\ EnrollmentTypeOK /\ RowsStand
  /\ \A t \in Txs : request[t] # None => Stands(request[t])
  /\ \A t, u \in Txs : (t # u /\ request[t] # None /\ request[u] # None) => Apart(request[t], request[u])
  /\ OneEnrollmentAtATime /\ Announced

LEMMA EnrollmentInitially == EnrollmentInit => EnrollmentInv
<1> SUFFICES ASSUME EnrollmentInit PROVE EnrollmentInv
    OBVIOUS
<1>1. \A n \in Enrollments : enrollment[n] = Unused BY DEF EnrollmentInit
<1>2. EnrollmentTypeOK BY DEF EnrollmentInit, EnrollmentTypeOK, Unused, Enrollment, Terms
<1>3. RowsStand /\ OneEnrollmentAtATime /\ Announced
    BY <1>1 DEF EnrollmentInit, RowsStand, Row, OneEnrollmentAtATime, Announced, Unused
<1> QED BY <1>2, <1>3 DEF EnrollmentInv, EnrollmentInit

\* A request moves and the rows stay.
LEMMA RequestMoves ==
  ASSUME EnrollmentInv, NEW t \in Txs, NEW r \in EnrollmentRequest, Stands(r),
         \A u \in Txs \ {t} : request[u] # None => Apart(r, request[u]),
         request' = [request EXCEPT ![t] = r], UNCHANGED <<enrollment, notified, member>>
  PROVE  EnrollmentInv'
<1>1. EnrollmentTypeOK' /\ RowsStand' /\ OneEnrollmentAtATime' /\ Announced'
    BY DEF EnrollmentInv, EnrollmentTypeOK, RowsStand, Row, OneEnrollmentAtATime, Announced, ActiveRows
<1>2. \A u \in Txs : (request[u] # None => Stands(request[u]))'
  <2> SUFFICES ASSUME NEW u \in Txs, request'[u] # None PROVE Stands(request[u])'
      OBVIOUS
  <2>1. PICK s : s = request'[u] /\ Stands(s) BY DEF EnrollmentInv, EnrollmentTypeOK
  <2> QED BY <2>1 DEF Stands, CreationStands, RevocationStands, Row, ActiveRows
<1>3. \A u, v \in Txs : ((u # v /\ request[u] # None /\ request[v] # None) => Apart(request[u], request[v]))'
  <2>1. \A u \in Txs \ {t} : request[u] # None => Apart(request[u], r) BY DEF Apart
  <2> QED BY <2>1 DEF EnrollmentInv, EnrollmentTypeOK, Apart, Inserted
<1> QED BY <1>1, <1>2, <1>3 DEF EnrollmentInv

LEMMA RequestEnds ==
  ASSUME EnrollmentInv, NEW t \in Txs, Finish(t), UNCHANGED <<enrollment, notified, member>>
  PROVE  EnrollmentInv'
<1>0. request' = [request EXCEPT ![t] = None] BY DEF Finish
<1>1. EnrollmentTypeOK' /\ RowsStand' /\ OneEnrollmentAtATime' /\ Announced'
    BY <1>0 DEF EnrollmentInv, EnrollmentTypeOK, RowsStand, Row, OneEnrollmentAtATime, Announced, ActiveRows
<1>2. \A u \in Txs : (request[u] # None => Stands(request[u]))'
  <2> SUFFICES ASSUME NEW u \in Txs, request'[u] # None PROVE Stands(request[u])'
      OBVIOUS
  <2>1. PICK s : s = request'[u] /\ Stands(s) BY <1>0 DEF EnrollmentInv, EnrollmentTypeOK
  <2> QED BY <2>1 DEF Stands, CreationStands, RevocationStands, Row, ActiveRows
<1>3. \A u, v \in Txs : ((u # v /\ request[u] # None /\ request[v] # None) => Apart(request[u], request[v]))'
    BY <1>0 DEF EnrollmentInv, EnrollmentTypeOK, Apart, Inserted
<1> QED BY <1>1, <1>2, <1>3 DEF EnrollmentInv

\* Rosters only grow, whatever happens to accounts.
LEMMA RosterGrows == ASSUME AccountNext PROVE member \subseteq member'
<1>1. ASSUME NEW t \in Txs, Request(t) PROVE member' = member
    BY <1>1 DEF Request, AddStudent, CreateInstructor, ReissueActivation, ActivateAccount, Start, Rows
<1>2. ASSUME NEW t \in Txs, Statement(t), ~Commit(t) PROVE member' = member
    BY <1>2 DEF Statement, ReadStudent, InsertAccount, InsertTenant, FindAssociation, InsertAssociation, Lock,
       CheckReissue, FindOutstanding, RevokeOutstanding, CheckCode, ConsumeCode, CheckPassword, Rollback,
       Goto, End, UniqueViolation, Insert, Close, Rows
<1>3. ASSUME NEW t \in Txs, Commit(t) PROVE member \subseteq member' BY <1>3 DEF Commit
<1>4. ASSUME NEW k \in Tokens, Expire(k) PROVE member' = member BY <1>4 DEF Expire
<1> QED BY <1>1, <1>2, <1>3, <1>4 DEF AccountNext

LEMMA AccountStep ==
  ASSUME EnrollmentInv, member \subseteq member', UNCHANGED enrollmentVars
  PROVE  EnrollmentInv'
<1>1. enrollment' = enrollment /\ notified' = notified /\ request' = request BY DEF enrollmentVars
<1>2. EnrollmentTypeOK' /\ RowsStand' /\ OneEnrollmentAtATime' /\ Announced'
    BY <1>1 DEF EnrollmentInv, EnrollmentTypeOK, RowsStand, Row, OneEnrollmentAtATime, Announced, ActiveRows
<1>3. \A u \in Txs : (request[u] # None => Stands(request[u]))'
  <2> SUFFICES ASSUME NEW u \in Txs, request'[u] # None PROVE Stands(request[u])'
      OBVIOUS
  <2>1. PICK s : s = request'[u] /\ Stands(s) BY <1>1 DEF EnrollmentInv
  <2> QED BY <1>1, <2>1 DEF Stands, CreationStands, RevocationStands, Row, ActiveRows
<1>4. \A u, v \in Txs : ((u # v /\ request[u] # None /\ request[v] # None) => Apart(request[u], request[v]))'
    BY <1>1 DEF EnrollmentInv, Apart, Inserted
<1> QED BY <1>2, <1>3, <1>4 DEF EnrollmentInv

\* What is known of a request that is served.
LEMMA Known ==
  ASSUME EnrollmentInv, NEW t \in Txs, request[t] # None
  PROVE  /\ request[t] \in EnrollmentRequest /\ Stands(request[t])
         /\ \A u \in Txs \ {t} : request[u] # None =>
              /\ request[u] \in EnrollmentRequest /\ Stands(request[u])
              /\ Apart(request[t], request[u]) /\ Apart(request[u], request[t])
  BY DEF EnrollmentInv, EnrollmentTypeOK

LEMMA RequestBegins ==
  ASSUME EnrollmentInv, NEW t \in Txs, CreateEnrollment(t) \/ RevokeEnrollment(t)
  PROVE  EnrollmentInv'
<1>1. ASSUME NEW r \in EnrollmentRequest, Begin(t, r), Stands(r), r.ends = {}, ~Inserted(r)
      PROVE  EnrollmentInv'
  <2>1. \A u \in Txs \ {t} : request[u] # None => Apart(r, request[u]) BY <1>1 DEF Apart
  <2>2. request' = [request EXCEPT ![t] = r] /\ UNCHANGED <<enrollment, notified, member>>
      BY <1>1 DEF Begin, accountVars
  <2> QED BY <1>1, <2>1, <2>2, RequestMoves
<1>2. CASE CreateEnrollment(t)
  <2>1. PICK e \in Emails, c \in Courses, term \in Terms :
          /\ <<e, CourseTenant[c]>> \in member
          /\ Begin(t, [op |-> "enroll", stage |-> "expire", student |-> e, course |-> c, term |-> term,
                       row |-> None, seen |-> {}, ends |-> {}])
      BY <1>2 DEF CreateEnrollment
  <2>2. PICK r : r = [op |-> "enroll", stage |-> "expire", student |-> e, course |-> c, term |-> term,
                      row |-> None, seen |-> {}, ends |-> {}]
      OBVIOUS
  <2>3. r \in EnrollmentRequest BY <2>2 DEF EnrollmentRequest, EnrollmentStages
  <2>4. Stands(r) /\ r.ends = {} /\ ~Inserted(r)
      BY <2>1, <2>2 DEF Stands, CreationStands, RevocationStands, Inserted
  <2> QED BY <1>1, <2>1, <2>2, <2>3, <2>4
<1>3. CASE RevokeEnrollment(t)
  <2>1. PICK n \in Enrollments :
          /\ enrollment[n].status = "ACTIVE"
          /\ Begin(t, [op |-> "revoke", stage |-> "revoke", student |-> None, course |-> None, term |-> "open",
                       row |-> n, seen |-> {}, ends |-> {}])
      BY <1>3 DEF RevokeEnrollment
  <2>2. PICK r : r = [op |-> "revoke", stage |-> "revoke", student |-> None, course |-> None, term |-> "open",
                      row |-> n, seen |-> {}, ends |-> {}]
      OBVIOUS
  <2>3. r \in EnrollmentRequest BY <2>2 DEF EnrollmentRequest, EnrollmentStages, Terms
  <2>4. Stands(r) /\ r.ends = {} /\ ~Inserted(r)
      BY <2>1, <2>2 DEF Stands, CreationStands, RevocationStands, Inserted, Row
  <2> QED BY <1>1, <2>1, <2>2, <2>3, <2>4
<1> QED BY <1>2, <1>3

\* The statements of a creation before its commit.
LEMMA CreationMoves ==
  ASSUME EnrollmentInv, NEW t \in Txs, UNCHANGED <<enrollment, notified, member>>,
         FindOverdue(t) \/ ExpireOverdue(t) \/ LookForActive(t) \/ InsertEnrollment(t)
  PROVE  EnrollmentInv'
<1> USE RowsAssumption
<1>0. request[t] # None /\ request[t].stage \in {"expire", "expiring", "look", "insert"}
    BY DEF FindOverdue, ExpireOverdue, LookForActive, InsertEnrollment, Reached
<1> PICK q : q = request[t]
    OBVIOUS
<1>1. /\ q \in EnrollmentRequest /\ Stands(q) /\ q.op = "enroll" /\ q.row = None /\ q.stage = request[t].stage
      /\ \A u \in Txs \ {t} : request[u] # None => Apart(q, request[u])
      /\ q.seen \subseteq Enrollments /\ q.ends \subseteq Enrollments
  <2>1. q \in EnrollmentRequest /\ Stands(q)
        /\ \A u \in Txs \ {t} : request[u] # None => Apart(q, request[u])
      BY <1>0, Known
  <2>2. q.op = "enroll"
      BY <1>0, <2>1 DEF Stands, RevocationStands, EnrollmentRequest
  <2> QED BY <1>0, <2>1, <2>2 DEF Stands, CreationStands, EnrollmentRequest
<1>3. CASE FindOverdue(t)
  <2>1. PICK seen \in SUBSET Enrollments :
          /\ seen = {n \in ActiveRows(q.student, q.course) : enrollment[n].term = "over"}
          /\ request' = [request EXCEPT ![t] = [q EXCEPT !.seen = seen, !.stage = "expiring"]]
      BY <1>3 DEF FindOverdue, ActiveRows
  <2>2. q.ends = {} BY <1>1, <1>3 DEF FindOverdue, Reached, Stands, CreationStands
  <2>3. PICK r : r = [q EXCEPT !.seen = seen, !.stage = "expiring"]
      OBVIOUS
  <2>4. r = [op |-> q.op, stage |-> "expiring", student |-> q.student, course |-> q.course,
                      term |-> q.term, row |-> q.row, seen |-> seen, ends |-> q.ends]
      BY <1>1, <2>3 DEF EnrollmentRequest
  <2>5. /\ r \in EnrollmentRequest /\ r.op = "enroll" /\ r.stage = "expiring" /\ r.student = q.student
        /\ r.course = q.course /\ r.row = None /\ r.seen = seen /\ r.ends = {}
      BY <1>1, <2>2, <2>4 DEF EnrollmentRequest, EnrollmentStages
  <2>6. \A n \in seen : enrollment[n].student = q.student /\ enrollment[n].course = q.course
                        /\ enrollment[n].status = "ACTIVE"
      BY <2>1 DEF ActiveRows
  <2>7. Stands(r) BY <1>1, <2>5, <2>6 DEF Stands, CreationStands, RevocationStands, Row
  <2>8. \A u \in Txs \ {t} : request[u] # None => Apart(r, request[u]) BY <2>5 DEF Apart, Inserted
  <2> QED BY <2>1, <2>3, <2>5, <2>7, <2>8, RequestMoves
<1>4. CASE ExpireOverdue(t)
  <2>1. PICK ends \in SUBSET Enrollments : ends = StillActive(q.seen)
      BY <1>1 DEF StillActive
  <2>2. /\ request' = [request EXCEPT ![t] = [q EXCEPT !.ends = ends, !.seen = {}, !.stage = "look"]]
        /\ \A u \in Opponents(t) : request[u].ends \cap q.seen = {}
      BY <1>4, <2>1 DEF ExpireOverdue, RowsFree
  <2>3. PICK r : r = [q EXCEPT !.ends = ends, !.seen = {}, !.stage = "look"]
      OBVIOUS
  <2>4. r = [op |-> q.op, stage |-> "look", student |-> q.student, course |-> q.course,
                      term |-> q.term, row |-> q.row, seen |-> {}, ends |-> ends]
      BY <1>1, <2>3 DEF EnrollmentRequest
  <2>5. /\ r \in EnrollmentRequest /\ r.op = "enroll" /\ r.stage = "look" /\ r.student = q.student
        /\ r.course = q.course /\ r.row = None /\ r.seen = {} /\ r.ends = ends
      BY <1>1, <2>4 DEF EnrollmentRequest, EnrollmentStages
  <2>6. ends \subseteq q.seen /\ \A n \in ends : enrollment[n].status = "ACTIVE" BY <2>1 DEF StillActive
  <2>7. Stands(r) BY <1>1, <2>5, <2>6 DEF Stands, CreationStands, RevocationStands, Row
  <2>8. \A u \in Txs \ {t} : request[u] # None => Apart(r, request[u])
      BY <2>2, <2>5, <2>6 DEF Apart, Inserted, Opponents
  <2> QED BY <2>2, <2>3, <2>5, <2>7, <2>8, RequestMoves
<1>5. CASE LookForActive(t)
  <2>1. CASE Proceed(t, "insert")
    <3>1. PICK r : r = [q EXCEPT !.stage = "insert"]
        OBVIOUS
    <3>2. r = [op |-> q.op, stage |-> "insert", student |-> q.student, course |-> q.course,
                        term |-> q.term, row |-> q.row, seen |-> q.seen, ends |-> q.ends]
        BY <1>1, <3>1 DEF EnrollmentRequest
    <3>3. /\ r \in EnrollmentRequest /\ r.op = "enroll" /\ r.stage = "insert" /\ r.student = q.student
          /\ r.course = q.course /\ r.row = None /\ r.seen = q.seen /\ r.ends = q.ends
        BY <1>1, <3>2 DEF EnrollmentRequest, EnrollmentStages
    <3>4. Stands(r) BY <1>1, <3>3 DEF Stands, CreationStands, RevocationStands
    <3>5. \A u \in Txs \ {t} : request[u] # None => Apart(r, request[u]) BY <1>1, <3>3 DEF Apart, Inserted
    <3> QED BY <2>1, <3>1, <3>3, <3>4, <3>5, RequestMoves DEF Proceed
  <2>2. CASE Finish(t) BY <2>2, RequestEnds
  <2> QED BY <1>5, <2>1, <2>2 DEF LookForActive
<1>6. CASE InsertEnrollment(t)
  <2>1. CASE Accepted(t)
    <3>1. PICK n \in Enrollments :
            /\ enrollment[n].status = "unused"
            /\ \A u \in Opponents(t) : request[u].row # n
            /\ request' = [request EXCEPT ![t] = [q EXCEPT !.row = n, !.stage = "commit"]]
        BY <1>6, <2>1 DEF InsertEnrollment
    <3>2. PICK r : r = [q EXCEPT !.row = n, !.stage = "commit"]
        OBVIOUS
    <3>3. r = [op |-> q.op, stage |-> "commit", student |-> q.student, course |-> q.course,
                        term |-> q.term, row |-> n, seen |-> q.seen, ends |-> q.ends]
        BY <1>1, <3>2 DEF EnrollmentRequest
    <3>4. /\ r \in EnrollmentRequest /\ r.op = "enroll" /\ r.stage = "commit" /\ r.student = q.student
          /\ r.course = q.course /\ r.row = n /\ r.seen = q.seen /\ r.ends = q.ends
        BY <1>1, <3>3 DEF EnrollmentRequest, EnrollmentStages
    <3>5. ActiveRows(q.student, q.course) \subseteq q.ends BY <2>1 DEF Accepted
    <3>6. Stands(r) BY <1>1, <3>1, <3>4, <3>5 DEF Stands, CreationStands, RevocationStands, Row
    <3>7. ASSUME NEW u \in Txs \ {t}, request[u] # None PROVE Apart(r, request[u])
      <4>1. u \in Opponents(t) BY <3>7 DEF Opponents
      <4>2. ~(Inserted(request[u]) /\ request[u].student = q.student /\ request[u].course = q.course)
          BY <1>6, <4>1 DEF InsertEnrollment, InDoubt, Inserted
      <4> QED BY <1>1, <3>1, <3>4, <3>7, <4>1, <4>2 DEF Apart
    <3> QED BY <3>1, <3>2, <3>4, <3>6, <3>7, RequestMoves
  <2>2. CASE ~Accepted(t) BY <1>6, <2>2, RequestEnds DEF InsertEnrollment
  <2> QED BY <2>1, <2>2
<1> QED BY <1>3, <1>4, <1>5, <1>6

LEMMA Revokes ==
  ASSUME EnrollmentInv, NEW t \in Txs, UNCHANGED <<enrollment, notified, member>>, Revoke(t)
  PROVE  EnrollmentInv'
<1>0. request[t] # None /\ request[t].stage = "revoke" BY DEF Revoke, Reached
<1> PICK q : q = request[t]
    OBVIOUS
<1>1. /\ q \in EnrollmentRequest /\ Stands(q) /\ q.stage = "revoke"
      /\ \A u \in Txs \ {t} : request[u] # None => Apart(q, request[u])
    BY <1>0, Known
<1>2. q.op = "revoke" /\ q.row \in Enrollments BY <1>1 DEF Stands, CreationStands, RevocationStands, EnrollmentRequest
<1>3. PICK r : r = [q EXCEPT !.ends = {q.row}, !.stage = "commit"]
    OBVIOUS
<1>4. r = [op |-> q.op, stage |-> "commit", student |-> q.student, course |-> q.course,
                    term |-> q.term, row |-> q.row, seen |-> q.seen, ends |-> {q.row}]
    BY <1>1, <1>3 DEF EnrollmentRequest
<1>5. {q.row} \in SUBSET Enrollments BY <1>2
<1>6. /\ r \in EnrollmentRequest /\ r.op = "revoke" /\ r.stage = "commit" /\ r.row = q.row /\ r.ends = {q.row}
    BY <1>1, <1>2, <1>4, <1>5 DEF EnrollmentRequest, EnrollmentStages
<1>7. Stands(r) BY <1>1, <1>2, <1>6 DEF Stands, CreationStands, RevocationStands
<1>8. \A u \in Txs \ {t} : request[u] # None => Apart(r, request[u])
    BY <1>1, <1>6 DEF Apart, Inserted, Revoke, RowsFree, Opponents
<1> QED BY <1>3, <1>6, <1>7, <1>8, RequestMoves DEF Revoke

-----------------------------------------------------------------------------
(* The commit *)

\* What a commit does to the rows.
LEMMA RowsAfter ==
  ASSUME EnrollmentInv, NEW t \in Txs, CommitEnrollment(t), NEW q, q = request[t]
  PROVE  /\ q \in EnrollmentRequest /\ Stands(q) /\ q.stage = "commit" /\ q.row \in Enrollments
         /\ q.ends \subseteq Enrollments /\ (q.op = "enroll" => q.row \notin q.ends)
         /\ \A n \in q.ends : /\ Row(n).status # "unused" /\ enrollment'[n].status \in {"EXPIRED", "REVOKED"}
                              /\ enrollment'[n].status = EndedAs(t)
                              /\ enrollment'[n].student = Row(n).student
                              /\ enrollment'[n].course = Row(n).course
         /\ q.op = "enroll" => /\ Row(q.row).status = "unused" /\ enrollment'[q.row].status = "ACTIVE"
                               /\ enrollment'[q.row].student = q.student
                               /\ enrollment'[q.row].course = q.course
         /\ \A n \in Enrollments : n \notin q.ends /\ ~(q.op = "enroll" /\ n = q.row) => enrollment'[n] = Row(n)
         /\ enrollment' \in [Enrollments -> Enrollment]
<1> USE RowsAssumption
<1>0. request[t] # None /\ request[t].stage = "commit" BY DEF CommitEnrollment, Reached
<1>1. /\ q \in EnrollmentRequest /\ Stands(q) /\ q.stage = "commit" /\ enrollment \in [Enrollments -> Enrollment]
    BY <1>0, Known DEF EnrollmentInv, EnrollmentTypeOK
<1>2. /\ q.ends \subseteq Enrollments /\ q.row \in Enrollments
      /\ q.op = "enroll" => q.row \notin q.ends /\ Row(q.row).status = "unused"
      /\ \A n \in q.ends : Row(n).status # "unused"
  <2>1. q.row \in Enrollments \cup {None} /\ q.ends \subseteq Enrollments /\ q.op \in {"enroll", "revoke"}
      BY <1>1 DEF EnrollmentRequest
  <2> QED BY <1>1, <2>1 DEF Stands, CreationStands, RevocationStands
<1>3. \A n \in Enrollments : enrollment'[n] =
        IF n \in q.ends THEN [enrollment[n] EXCEPT !.status = EndedAs(t)]
        ELSE IF q.op = "enroll" /\ n = q.row
        THEN [student |-> q.student, course |-> q.course, status |-> "ACTIVE", term |-> q.term]
        ELSE enrollment[n]
    BY DEF CommitEnrollment, EnrollmentAfter
<1>4. ASSUME NEW n \in q.ends
      PROVE  /\ enrollment'[n].status = EndedAs(t) /\ enrollment'[n].student = Row(n).student
             /\ enrollment'[n].course = Row(n).course /\ enrollment'[n] \in Enrollment
  <2>1. PICK ended \in {"REVOKED", "EXPIRED"} : ended = EndedAs(t) BY DEF EndedAs
  <2>2. enrollment[n] \in Enrollment /\ enrollment'[n] = [enrollment[n] EXCEPT !.status = ended]
      BY <1>1, <1>2, <1>3, <2>1
  <2> QED BY <2>1, <2>2 DEF Enrollment, Row
<1>5. ASSUME q.op = "enroll"
      PROVE  /\ enrollment'[q.row].status = "ACTIVE" /\ enrollment'[q.row].student = q.student
             /\ enrollment'[q.row].course = q.course /\ enrollment'[q.row] \in Enrollment
  <2>1. enrollment'[q.row] = [student |-> q.student, course |-> q.course, status |-> "ACTIVE", term |-> q.term]
      BY <1>2, <1>3, <1>5
  <2>2. q.student \in Emails \cup {None} /\ q.course \in Courses \cup {None} /\ q.term \in Terms
      BY <1>1 DEF EnrollmentRequest
  <2> QED BY <2>1, <2>2 DEF Enrollment
<1>6. \A n \in Enrollments : n \notin q.ends /\ ~(q.op = "enroll" /\ n = q.row) => enrollment'[n] = Row(n)
    BY <1>3 DEF Row
<1>7. enrollment' \in [Enrollments -> Enrollment]
  <2>1. DOMAIN enrollment' = Enrollments /\ enrollment' = [n \in Enrollments |-> enrollment'[n]]
      BY DEF CommitEnrollment, EnrollmentAfter
  <2>2. \A n \in Enrollments : enrollment'[n] \in Enrollment BY <1>1, <1>4, <1>5, <1>6 DEF Row
  <2> QED BY <2>1, <2>2
<1>8. EndedAs(t) \in {"EXPIRED", "REVOKED"} BY DEF EndedAs
<1> QED BY <1>1, <1>2, <1>4, <1>5, <1>6, <1>7, <1>8

\* What another request has seen and written still stands.
LEMMA OthersStand ==
  ASSUME EnrollmentInv, NEW t \in Txs, CommitEnrollment(t), UNCHANGED member,
         NEW u \in Txs \ {t}, request[u] # None
  PROVE  Stands(request[u])'
<1> USE RowsAssumption
<1> PICK q, s : q = request[t] /\ s = request[u]
    OBVIOUS
<1>0. request[t] # None /\ request' = [request EXCEPT ![t] = None]
    BY DEF CommitEnrollment, Reached, Finish
<1>1. request'[u] = s /\ s \in EnrollmentRequest /\ Stands(s) /\ Apart(q, s)
    BY <1>0, Known DEF EnrollmentInv, EnrollmentTypeOK
<1>2. /\ q \in EnrollmentRequest /\ Stands(q) /\ q.stage = "commit" /\ q.row \in Enrollments
      /\ q.ends \subseteq Enrollments
      /\ \A n \in q.ends : /\ Row(n).status # "unused" /\ enrollment'[n].status \in {"EXPIRED", "REVOKED"}
                           /\ enrollment'[n].student = Row(n).student
                           /\ enrollment'[n].course = Row(n).course
      /\ q.op = "enroll" => /\ Row(q.row).status = "unused" /\ enrollment'[q.row].status = "ACTIVE"
                            /\ enrollment'[q.row].student = q.student
                            /\ enrollment'[q.row].course = q.course
      /\ \A n \in Enrollments : n \notin q.ends /\ ~(q.op = "enroll" /\ n = q.row) => enrollment'[n] = Row(n)
  BY RowsAfter
<1>3. s.seen \subseteq Enrollments /\ s.ends \subseteq Enrollments /\ s.row \in Enrollments \cup {None}
    BY <1>1 DEF EnrollmentRequest
<1>4. \A n \in Enrollments : Row(n).status # "unused" =>
        /\ enrollment'[n].status # "unused"
        /\ enrollment'[n].student = Row(n).student /\ enrollment'[n].course = Row(n).course
        /\ n \notin q.ends => enrollment'[n].status = Row(n).status
    BY <1>2
<1>5. q.op = "enroll" => Inserted(q) BY <1>2 DEF Inserted
<1>6. ASSUME s.op = "enroll" PROVE CreationStands(request[u])'
  <2>1. \A n \in s.seen \cup s.ends : /\ enrollment'[n].student = s.student /\ enrollment'[n].course = s.course
                                      /\ enrollment'[n].status # "unused"
      BY <1>1, <1>3, <1>4, <1>6 DEF Stands, CreationStands
  <2>2. \A n \in s.ends : enrollment'[n].status = "ACTIVE"
      BY <1>1, <1>3, <1>4, <1>6 DEF Stands, CreationStands, Apart
  <2>3. ASSUME s.row # None
        PROVE  /\ enrollment'[s.row].status = "unused"
               /\ \A n \in Enrollments : enrollment'[n].student = s.student /\ enrollment'[n].course = s.course
                                         /\ enrollment'[n].status = "ACTIVE" => n \in s.ends
    <3>1. Inserted(s) /\ s.row \in Enrollments /\ Row(s.row).status = "unused"
          /\ ActiveRows(s.student, s.course) \subseteq s.ends
        BY <1>1, <1>3, <1>6, <2>3 DEF Inserted, Stands, CreationStands
    <3>2. q.op = "enroll" => q.row # s.row /\ ~(q.student = s.student /\ q.course = s.course)
        BY <1>1, <1>5, <3>1 DEF Apart
    <3>3. enrollment'[s.row].status = "unused" BY <1>2, <3>1, <3>2
    <3>4. \A n \in Enrollments : enrollment'[n].student = s.student /\ enrollment'[n].course = s.course
                                   /\ enrollment'[n].status = "ACTIVE" => n \in ActiveRows(s.student, s.course)
        BY <1>2, <3>2 DEF ActiveRows, Row
    <3> QED BY <3>1, <3>3, <3>4
  <2>4. /\ s.student \in Emails /\ s.course \in Courses /\ <<s.student, CourseTenant[s.course]>> \in member
        /\ s.stage \in {"expire", "expiring", "look", "insert", "commit"}
        /\ s.stage \in {"expire", "expiring"} => s.ends = {}
        /\ s.row # None <=> s.stage = "commit"
      BY <1>1, <1>6 DEF Stands, CreationStands
  <2> QED BY <1>1, <2>1, <2>2, <2>3, <2>4 DEF CreationStands, Row, ActiveRows
<1>7. ASSUME s.op = "revoke" PROVE RevocationStands(request[u])'
    BY <1>1, <1>4, <1>7 DEF Stands, RevocationStands, Row
<1> QED BY <1>1, <1>6, <1>7 DEF Stands, CreationStands, RevocationStands

LEMMA EnrollmentCommits ==
  ASSUME EnrollmentInv, NEW t \in Txs, CommitEnrollment(t), UNCHANGED member
  PROVE  EnrollmentInv'
<1> USE RowsAssumption
<1> PICK q : q = request[t]
    OBVIOUS
<1>0. request[t] # None /\ request' = [request EXCEPT ![t] = None]
    BY DEF CommitEnrollment, Reached, Finish
<1>1. /\ q \in EnrollmentRequest /\ Stands(q) /\ q.stage = "commit" /\ q.row \in Enrollments
      /\ q.ends \subseteq Enrollments
      /\ \A n \in q.ends : /\ Row(n).status # "unused" /\ enrollment'[n].status \in {"EXPIRED", "REVOKED"}
                           /\ enrollment'[n].student = Row(n).student
                           /\ enrollment'[n].course = Row(n).course
      /\ q.op = "enroll" => /\ Row(q.row).status = "unused" /\ enrollment'[q.row].status = "ACTIVE"
                            /\ enrollment'[q.row].student = q.student
                            /\ enrollment'[q.row].course = q.course
      /\ \A n \in Enrollments : n \notin q.ends /\ ~(q.op = "enroll" /\ n = q.row) => enrollment'[n] = Row(n)
      /\ enrollment' \in [Enrollments -> Enrollment]
  BY RowsAfter
<1>2. q.op \in {"enroll", "revoke"} BY <1>1 DEF EnrollmentRequest
<1>3. q.op = "enroll" => /\ q.student \in Emails /\ q.course \in Courses
                         /\ <<q.student, CourseTenant[q.course]>> \in member
                         /\ ActiveRows(q.student, q.course) \subseteq q.ends
    BY <1>1 DEF Stands, CreationStands
<1>4. /\ RowsStand /\ OneEnrollmentAtATime /\ Announced
      /\ request \in [Txs -> EnrollmentRequest \cup {None}]
    BY DEF EnrollmentInv, EnrollmentTypeOK
<1>5. RowsStand' BY <1>1, <1>3, <1>4 DEF RowsStand, Row
<1>6. OneEnrollmentAtATime'
  <2>1. ASSUME NEW m \in Enrollments, NEW n \in Enrollments, enrollment'[m].status = "ACTIVE",
               enrollment'[n].status = "ACTIVE", enrollment'[m].student = enrollment'[n].student,
               enrollment'[m].course = enrollment'[n].course
        PROVE  m = n
    <3>1. m \notin q.ends /\ n \notin q.ends BY <1>1, <2>1
    <3>2. CASE q.op = "enroll" /\ m = q.row
      <4> SUFFICES ASSUME n # q.row PROVE FALSE
          BY <3>2
      <4>1. enrollment'[n] = Row(n) BY <1>1, <3>1
      <4>2. n \in ActiveRows(q.student, q.course) BY <1>1, <2>1, <3>2, <4>1 DEF ActiveRows, Row
      <4> QED BY <1>3, <3>1, <3>2, <4>2
    <3>3. CASE q.op = "enroll" /\ n = q.row
      <4> SUFFICES ASSUME m # q.row PROVE FALSE
          BY <3>3
      <4>1. enrollment'[m] = Row(m) BY <1>1, <3>1
      <4>2. m \in ActiveRows(q.student, q.course) BY <1>1, <2>1, <3>3, <4>1 DEF ActiveRows, Row
      <4> QED BY <1>3, <3>1, <3>3, <4>2
    <3>4. CASE ~(q.op = "enroll" /\ (m = q.row \/ n = q.row))
      <4>1. enrollment'[m] = enrollment[m] /\ enrollment'[n] = enrollment[n] BY <1>1, <3>1, <3>4 DEF Row
      <4> QED BY <1>4, <2>1, <4>1 DEF OneEnrollmentAtATime, ActiveRows
    <3> QED BY <3>2, <3>3, <3>4
  <2>2. \A n \in Enrollments : enrollment'[n].status = "ACTIVE" =>
          <<enrollment'[n].student, CourseTenant[enrollment'[n].course]>> \in member'
      BY <1>5 DEF RowsStand, Row
  <2> QED BY <2>1, <2>2 DEF OneEnrollmentAtATime, ActiveRows
<1>7. Announced'
  <2>1. notified = {n \in Enrollments : enrollment[n].status # "unused"} BY <1>4 DEF Announced
  <2>2. CASE q.op = "enroll"
    <3>1. notified' = notified \cup {q.row}
        BY <1>1, <2>1, <2>2 DEF CommitEnrollment, AlreadyNotified, Row
    <3> QED BY <1>1, <2>1, <2>2, <3>1 DEF Announced, Row
  <2>3. CASE q.op = "revoke"
    <3>1. notified' = notified BY <2>3 DEF CommitEnrollment
    <3> QED BY <1>1, <2>1, <2>3, <3>1 DEF Announced, Row
  <2> QED BY <1>2, <2>2, <2>3
<1>8. EnrollmentTypeOK'
  <2>1. notified' \in SUBSET Enrollments BY <1>7 DEF Announced
  <2>2. request' \in [Txs -> EnrollmentRequest \cup {None}] BY <1>0, <1>4
  <2> QED BY <1>1, <2>1, <2>2 DEF EnrollmentTypeOK
<1>9. \A u \in Txs : (request[u] # None => Stands(request[u]))'
  <2>1. \A u \in Txs \ {t} : request'[u] = request[u] BY <1>0, <1>4
  <2>2. request'[t] = None BY <1>0, <1>4
  <2> QED BY <2>1, <2>2, OthersStand
<1>10. \A u, v \in Txs : ((u # v /\ request[u] # None /\ request[v] # None) => Apart(request[u], request[v]))'
    BY <1>0 DEF EnrollmentInv, EnrollmentTypeOK, Apart, Inserted
<1> QED BY <1>5, <1>6, <1>7, <1>8, <1>9, <1>10 DEF EnrollmentInv

\* Time passes for one row: it keeps its status.
LEMMA TermEnds ==
  ASSUME EnrollmentInv, NEW n \in Enrollments, ComesToAnEnd(n)
  PROVE  EnrollmentInv'
<1>1. /\ enrollment' = [enrollment EXCEPT ![n] = [enrollment[n] EXCEPT !.term = "over"]]
      /\ notified' = notified /\ request' = request /\ member' = member
    BY DEF ComesToAnEnd, accountVars
<1>2. enrollment \in [Enrollments -> Enrollment] BY DEF EnrollmentInv, EnrollmentTypeOK
<1>3. enrollment'[n] = [enrollment[n] EXCEPT !.term = "over"] /\ \A m \in Enrollments \ {n} : enrollment'[m] = enrollment[m]
    BY <1>1, <1>2
<1>4. /\ \A m \in Enrollments : /\ enrollment'[m].student = enrollment[m].student
                                /\ enrollment'[m].course = enrollment[m].course
                                /\ enrollment'[m].status = enrollment[m].status
      /\ enrollment'[n] \in Enrollment
  <2>1. enrollment[n] \in Enrollment BY <1>2
  <2> QED BY <1>3, <2>1 DEF Enrollment, Terms
<1>5. enrollment' \in [Enrollments -> Enrollment] BY <1>1, <1>2, <1>4
<1>6. \A e, c : ActiveRows(e, c)' = ActiveRows(e, c) BY <1>4 DEF ActiveRows
<1>7. EnrollmentTypeOK' BY <1>1, <1>5 DEF EnrollmentInv, EnrollmentTypeOK
<1>8. RowsStand' BY <1>1, <1>4 DEF EnrollmentInv, RowsStand, Row
<1>9. OneEnrollmentAtATime' BY <1>1, <1>4 DEF EnrollmentInv, OneEnrollmentAtATime, ActiveRows
<1>10. Announced' BY <1>1, <1>4 DEF EnrollmentInv, Announced
<1>11. \A u \in Txs : (request[u] # None => Stands(request[u]))'
  <2> SUFFICES ASSUME NEW u \in Txs, request[u] # None PROVE Stands(request[u])'
      BY <1>1
  <2>1. PICK s : s = request[u] /\ s \in EnrollmentRequest /\ Stands(s) BY DEF EnrollmentInv, EnrollmentTypeOK
  <2>2. s.seen \subseteq Enrollments /\ s.ends \subseteq Enrollments /\ s.row \in Enrollments \cup {None}
      BY <2>1 DEF EnrollmentRequest
  <2>3. (ActiveRows(s.student, s.course))' = ActiveRows(s.student, s.course) BY <1>6
  <2>4. CreationStands(request[u])' BY <1>1, <1>4, <2>1, <2>2, <2>3 DEF Stands, CreationStands, Row
  <2>5. RevocationStands(request[u])' BY <1>1, <1>4, <2>1 DEF Stands, RevocationStands, Row
  <2> QED BY <2>4, <2>5 DEF Stands
<1>12. \A u, v \in Txs : ((u # v /\ request[u] # None /\ request[v] # None) => Apart(request[u], request[v]))'
    BY <1>1 DEF EnrollmentInv, Apart, Inserted
<1> QED BY <1>7, <1>8, <1>9, <1>10, <1>11, <1>12 DEF EnrollmentInv

-----------------------------------------------------------------------------
(* Theorems *)

\* To accounts, a step of the enrollments is one of their own or none.
THEOREM AccountsGoOn == Spec => AccountSpec
<1>1. Init => AccountInit BY DEF Init
<1>2. [Next]_<<accountVars, enrollmentVars>> => [AccountNext]_accountVars
    BY DEF Next, AccountNext, CreateEnrollment, RevokeEnrollment, Begin, EnrollmentStatement, ComesToAnEnd
<1> QED BY <1>1, <1>2, PTL DEF Spec, AccountSpec

\* Every request and statement keeps rows, index entries and requests in order.
THEOREM EnrollmentInvariance == Spec => []EnrollmentInv
<1>1. Init => EnrollmentInv BY EnrollmentInitially DEF Init
<1>2. EnrollmentInv /\ [Next]_<<accountVars, enrollmentVars>> => EnrollmentInv'
  <2> SUFFICES ASSUME EnrollmentInv, [Next]_<<accountVars, enrollmentVars>> PROVE EnrollmentInv'
      OBVIOUS
  <2>1. ASSUME NEW t \in Txs, Request(t) \/ Statement(t), UNCHANGED enrollmentVars PROVE EnrollmentInv'
    <3>1. AccountNext BY <2>1 DEF AccountNext
    <3> QED BY <2>1, <3>1, RosterGrows, AccountStep
  <2>2. ASSUME NEW k \in Tokens, Expire(k), UNCHANGED enrollmentVars PROVE EnrollmentInv'
    <3>1. AccountNext BY <2>2 DEF AccountNext
    <3> QED BY <2>2, <3>1, RosterGrows, AccountStep
  <2>3. ASSUME NEW t \in Txs, CreateEnrollment(t) \/ RevokeEnrollment(t) PROVE EnrollmentInv'
      BY <2>3, RequestBegins
  <2>4. ASSUME NEW t \in Txs, EnrollmentStatement(t) PROVE EnrollmentInv'
    <3>1. member' = member BY <2>4 DEF EnrollmentStatement, accountVars
    <3>2. CASE CommitEnrollment(t) BY <3>1, <3>2, EnrollmentCommits
    <3>3. CASE /\ FindOverdue(t) \/ ExpireOverdue(t) \/ LookForActive(t) \/ InsertEnrollment(t)
               /\ UNCHANGED <<accountVars, enrollment, notified>>
        BY <3>1, <3>3, CreationMoves
    <3>4. CASE Revoke(t) /\ UNCHANGED <<accountVars, enrollment, notified>> BY <3>1, <3>4, Revokes
    <3>5. CASE RollbackEnrollment(t) /\ UNCHANGED <<accountVars, enrollment, notified>>
        BY <3>1, <3>5, RequestEnds DEF RollbackEnrollment
    <3> QED BY <2>4, <3>2, <3>3, <3>4, <3>5 DEF EnrollmentStatement
  <2>5. ASSUME NEW n \in Enrollments, ComesToAnEnd(n) PROVE EnrollmentInv' BY <2>5, TermEnds
  <2>6. CASE UNCHANGED <<accountVars, enrollmentVars>>
    <3>1. member' = member /\ UNCHANGED enrollmentVars BY <2>6 DEF accountVars
    <3> QED BY <3>1, AccountStep
  <2> QED BY <2>1, <2>2, <2>3, <2>4, <2>5, <2>6 DEF Next
<1> QED BY <1>1, <1>2, PTL DEF Spec

\* Accounts, enrollments and requests keep their shape (TypeOK).
THEOREM TypeCorrect == Spec => []TypeOK
<1>1. AccountTypeOK /\ EnrollmentInv => TypeOK BY DEF EnrollmentInv, TypeOK
<1> QED BY <1>1, AccountsGoOn, AccountTypeCorrect, EnrollmentInvariance, PTL

\* A student has one ACTIVE enrollment in a course, and is on its roster.
THEOREM EnrollmentsDoNotDouble == Spec => []OneEnrollmentAtATime
<1>1. EnrollmentInv => OneEnrollmentAtATime BY DEF EnrollmentInv
<1> QED BY <1>1, EnrollmentInvariance, PTL

\* A student is told of every enrollment, and of none that was rolled back.
THEOREM EnrollmentsAreAnnounced == Spec => []Announced
<1>1. EnrollmentInv => Announced BY DEF EnrollmentInv
<1> QED BY <1>1, EnrollmentInvariance, PTL

\* An enrollment that has ended does not come back, and a revoked one is not
\* turned into an expired one by a creation that had found it overdue.
THEOREM EnrollmentsEndForGood == Spec => EndedStaysEnded
<1> DEFINE Kept(n) == /\ Row(n).status = "EXPIRED" => enrollment'[n].status \in {"EXPIRED", "REVOKED"}
                      /\ Row(n).status = "REVOKED" => enrollment'[n].status = "REVOKED"
<1>1. EnrollmentInv /\ [Next]_<<accountVars, enrollmentVars>> =>
        [\A n \in Enrollments : Kept(n)]_enrollment
  <2> SUFFICES ASSUME EnrollmentInv, Next, enrollment' # enrollment PROVE \A n \in Enrollments : Kept(n)
      BY DEF enrollmentVars
  <2>1. ASSUME NEW t \in Txs, CommitEnrollment(t), NEW n \in Enrollments PROVE Kept(n)
    <3> PICK q : q = request[t]
        OBVIOUS
    <3>1. /\ q \in EnrollmentRequest /\ Stands(q)
          /\ \A m \in q.ends : enrollment'[m].status = EndedAs(t)
          /\ q.op = "enroll" => Row(q.row).status = "unused"
          /\ \A m \in Enrollments : m \notin q.ends /\ ~(q.op = "enroll" /\ m = q.row) => enrollment'[m] = Row(m)
        BY <2>1, RowsAfter
    <3>2. CASE n \in q.ends
      <4>1. CASE q.op = "revoke" BY <3>1, <3>2, <4>1 DEF EndedAs
      <4>2. CASE q.op = "enroll"
        <5>1. Row(n).status = "ACTIVE" BY <3>1, <3>2, <4>2 DEF Stands, CreationStands
        <5> QED BY <5>1
      <4> QED BY <3>1, <4>1, <4>2 DEF EnrollmentRequest
    <3>3. CASE q.op = "enroll" /\ n = q.row BY <3>1, <3>3
    <3>4. CASE n \notin q.ends /\ ~(q.op = "enroll" /\ n = q.row) BY <3>1, <3>4
    <3> QED BY <3>2, <3>3, <3>4
  <2>2. ASSUME NEW m \in Enrollments, ComesToAnEnd(m), NEW n \in Enrollments PROVE Kept(n)
    <3>1. enrollment'[n] = IF n = m THEN [enrollment[m] EXCEPT !.term = "over"] ELSE enrollment[n]
        BY <2>2 DEF ComesToAnEnd, EnrollmentInv, EnrollmentTypeOK
    <3>2. enrollment[n] \in Enrollment BY DEF EnrollmentInv, EnrollmentTypeOK
    <3> QED BY <3>1, <3>2 DEF Enrollment, Row
  <2> QED BY <2>1, <2>2 DEF Next, EnrollmentStatement, CreateEnrollment, RevokeEnrollment, Begin, enrollmentVars
<1>2. [\A n \in Enrollments : Kept(n)]_enrollment =>
        [\A n \in Enrollments :
           /\ enrollment[n].status = "EXPIRED" => enrollment'[n].status \in {"EXPIRED", "REVOKED"}
           /\ enrollment[n].status = "REVOKED" => enrollment'[n].status = "REVOKED"]_enrollment
    BY DEF Row
<1> QED BY <1>1, <1>2, EnrollmentInvariance, PTL DEF Spec, EndedStaysEnded

\* Reissues, activations and additions keep their promises beside enrollments.
THEOREM InstructorsKeepOneWayIn == Spec => []InstructorHasOneWayIn
<1> QED BY AccountsGoOn, InstructorsHaveOneWayIn, PTL

\* Nobody on a roster is without a way in, beside enrollments.
THEOREM NobodyEnrolledIsLockedOut == Spec => []EveryoneHasAWayIn
<1> QED BY AccountsGoOn, NobodyIsLockedOut, PTL

=============================================================================
