--------------------------- MODULE ClientSessions ---------------------------
(***************************************************************************)
(* How the clients keep their session: the web application's AuthService   *)
(* (auth.ts), one per tab over the browser's one cookie jar, the mobile    *)
(* application's auth-client.ts over its secure store, and the refresh,    *)
(* login and logout handlers they call (auth.controller.ts,                *)
(* refresh-session.service.ts).  AuthSessions has the transactions of the  *)
(* server in detail; here each of them is one step, and requests and       *)
(* answers cross a network that delays and loses them.                     *)
(* A refresh token is its session and whether the session still has its    *)
(* hash: a rotation makes every copy that is about an old one.             *)
(***************************************************************************)
EXTENDS RefreshSessions

CONSTANTS
  Clients,     \* the tabs of a browser; the mobile application is one of them
  App,         \* that one
  Calls        \* requests to /auth in flight

ASSUME AppAssumption == App \in Clients
ASSUME ClientsAssumption == None \notin Clients \cup [of : Sessions, current : BOOLEAN]

VARIABLES
  platform,        \* "web" or "mobile"
  refreshSession,  \* the rows, with the history of what befell their tokens
  store,           \* the two cookies, or the two keys of the secure store
  token,           \* the access token in each client's memory
  call             \* requests and answers on their way

clientVars == <<platform, refreshSession, store, token, call>>

-----------------------------------------------------------------------------
RefreshToken == [of : Sessions, current : BOOLEAN]

Store == [id : Sessions \cup {None}, secret : RefreshToken \cup {None}]

Empty == [id |-> None, secret |-> None]

Idle == [kind |-> "idle", client |-> None, shows |-> Empty, bearer |-> None,
         answer |-> "none", given |-> None, clears |-> FALSE]

\* A session that was revoked because a token of it came twice is "replayed"; it
\* is "dropped" when the client may have let go of its token, and "raced" when
\* the client may hold a token that was exchanged already.
ClientTypeOK ==
  /\ platform \in {"web", "mobile"}
  /\ refreshSession \in
       [Sessions -> [status : {"unused", "active", "replayed", "logged out"},
                     history : {"clean", "dropped", "raced"}]]
  /\ store \in Store
  /\ token \in [Clients -> [of : Sessions, fresh : BOOLEAN] \cup {None}]
  /\ call \in [Calls -> [kind : {"idle", "refresh", "login", "logout"}, client : Clients \cup {None},
                         shows : Store, bearer : [of : Sessions, fresh : BOOLEAN] \cup {None},
                         answer : {"none", "ok", "error"}, given : RefreshToken \cup {None},
                         clears : BOOLEAN]]

ClientInit ==
  /\ platform \in {"web", "mobile"}
  /\ refreshSession = [s \in Sessions |-> [status |-> "unused", history |-> "clean"]]
  /\ store = Empty
  /\ token = [c \in Clients |-> None]
  /\ call = [k \in Calls |-> Idle]

-----------------------------------------------------------------------------
(* Requests *)

Present(c) == platform = "web" \/ c = App

\* readSession, getWebRefreshInput: both parts or nothing.
Complete(st) == st.id # None /\ st.secret # None

Fresh(c) == token[c] # None /\ token[c].fresh

Awaits(c, kind) == {k \in Calls : call[k].client = c /\ call[k].kind = kind}

Send(c, kind) ==
  LET k == CHOOSE k \in Calls : call[k] = Idle
  IN  /\ \E free \in Calls : call[free] = Idle
      /\ call' = [call EXCEPT ![k] =
           CASE kind = "refresh" -> [Idle EXCEPT !.kind = kind, !.client = c, !.shows = store]
             [] kind = "logout" -> [Idle EXCEPT !.kind = kind, !.client = c, !.bearer = token[c],
                                                !.clears = platform = "web" /\ store # Empty]
             [] OTHER -> [Idle EXCEPT !.kind = kind, !.client = c]]

\* Something befalls the tokens of the sessions S.
Marked(S, history) ==
  [s \in Sessions |->
     IF s \in S /\ refreshSession[s].status = "active" /\ refreshSession[s].history # "raced"
     THEN [refreshSession[s] EXCEPT !.history = history]
     ELSE refreshSession[s]]

\* Mutant of MayRefresh: every request that meets a 401 refreshes for itself.
MayRefreshAlways(c) == TRUE

\* refreshPromise: one refresh of a client at a time.
MayRefresh(c) == Awaits(c, "refresh") = {}

\* The session whose token a request carries there or back.
Carried(k) == {call[k].shows.id} \cup (IF call[k].given = None THEN {} ELSE {call[k].given.of})

\* Another client's refresh carries a token of the same session.
Rivals(c) ==
  {store.id} \cap UNION {Carried(k) : k \in UNION {Awaits(d, "refresh") : d \in Clients \ {c}}}

\* A request without a valid access token meets a 401, or the application starts.
BeginRefresh(c) ==
  /\ Present(c) /\ ~Fresh(c)
  /\ MayRefresh(c)
  /\ platform = "web" \/ Complete(store)
  /\ Send(c, "refresh")
  /\ refreshSession' = Marked(Rivals(c), "raced")
  /\ UNCHANGED <<platform, store, token>>

BeginLogin(c) ==
  /\ Present(c) /\ token[c] = None
  /\ Awaits(c, "login") = {}
  /\ \E s \in Sessions : refreshSession[s].status = "unused"
  /\ Send(c, "login")
  /\ UNCHANGED <<platform, refreshSession, store, token>>

BeginLogout(c) ==
  /\ token[c] # None
  /\ Awaits(c, "logout") = {}
  /\ Send(c, "logout")
  /\ UNCHANGED <<platform, refreshSession, store, token>>

-----------------------------------------------------------------------------
(* The server *)

Answer(k, answer, given, clears) ==
  [call EXCEPT ![k] =
     IF call[k].client = None THEN Idle
     ELSE [call[k] EXCEPT !.shows = Empty, !.bearer = None,
                          !.answer = answer, !.given = given,
                          !.clears = clears /\ platform = "web"]]

\* The server does not take the tokens of s any more that are out by now.
Aged(secret, s) == IF secret # None /\ secret.of = s THEN [secret EXCEPT !.current = FALSE] ELSE secret

Outdate(s, calls) ==
  /\ store' = [store EXCEPT !.secret = Aged(@, s)]
  /\ call' = [k \in Calls |->
       IF calls[k] # call[k] THEN calls[k]
       ELSE [call[k] EXCEPT !.shows = [call[k].shows EXCEPT !.secret = Aged(@, s)],
                            !.given = Aged(@, s)]]

\* refreshAuthenticatedSession; reading the account afterwards may still fail.
Rotate(k, s) ==
  /\ call[k].shows.secret = [of |-> s, current |-> TRUE]
  /\ \E fails \in BOOLEAN :
       /\ refreshSession' = [refreshSession EXCEPT ![s] =
            [refreshSession[s] EXCEPT !.history = IF fails THEN "raced" ELSE @]]
       /\ Outdate(s, IF fails THEN Answer(k, "error", None, TRUE)
                     ELSE Answer(k, "ok", [of |-> s, current |-> TRUE], FALSE))

\* assertSessionUsable and handleHashMismatch: an exchanged token of an ACTIVE
\* session is a replay unless the last rotation was a moment ago.  The handler
\* clears the cookies on any error.
Refuse(k, s) ==
  /\ call[k].shows.secret # [of |-> s, current |-> TRUE]
  /\ \/ /\ refreshSession[s].status = "active"
        /\ refreshSession' = [refreshSession EXCEPT ![s].status = "replayed"]
        /\ Outdate(s, Answer(k, "error", None, TRUE))
     \/ /\ call' = Answer(k, "error", None, TRUE)
        /\ UNCHANGED <<refreshSession, store>>

\* invalidAuthTransport comes before the handler's try, and clears nothing.
RefuseBare(k) ==
  /\ call' = Answer(k, "error", None, FALSE)
  /\ UNCHANGED <<refreshSession, store>>

ServeRefresh(k) ==
  /\ call[k].kind = "refresh" /\ call[k].answer = "none"
  /\ IF Complete(call[k].shows)
     THEN Rotate(k, call[k].shows.id) \/ Refuse(k, call[k].shows.id)
     ELSE RefuseBare(k)
  /\ UNCHANGED <<platform, token>>

\* A session of its own for every login; nobody holds it when nobody listens.
ServeLogin(k) ==
  /\ call[k].kind = "login" /\ call[k].answer = "none"
  /\ \E s \in Sessions : refreshSession[s].status = "unused"
  /\ LET s == CHOOSE s \in Sessions : refreshSession[s].status = "unused"
     IN
       /\ refreshSession' = [refreshSession EXCEPT ![s] =
            [refreshSession[s] EXCEPT !.status = "active",
                               !.history = IF call[k].client = None THEN "dropped" ELSE @]]
       /\ call' = Answer(k, "ok", [of |-> s, current |-> TRUE], FALSE)
  /\ UNCHANGED <<platform, store, token>>

\* AccessTokenGuard, then logout of the token's session, and of its cookies if
\* the request carried any.
ServeLogout(k) ==
  /\ call[k].kind = "logout" /\ call[k].answer = "none"
  /\ IF call[k].bearer.fresh
     THEN /\ refreshSession' = [refreshSession EXCEPT ![call[k].bearer.of] =
                           [@ EXCEPT !.status = "logged out"]]
          /\ Outdate(call[k].bearer.of, Answer(k, "ok", None, call[k].clears))
     ELSE /\ call' = Answer(k, "error", None, FALSE)
          /\ UNCHANGED <<refreshSession, store>>
  /\ UNCHANGED <<platform, token>>

\* ThrottlerGuard answers before the handler, an error within it clears; the
\* login form only shows either.
ServeBadly(k) ==
  /\ call[k].kind # "idle" /\ call[k].answer = "none"
  /\ IF call[k].kind = "login"
     THEN call' = [call EXCEPT ![k] = Idle]
     ELSE \E clears \in {FALSE, call[k].kind = "refresh"} : call' = Answer(k, "error", None, clears)
  /\ UNCHANGED <<platform, refreshSession, store, token>>

-----------------------------------------------------------------------------
(* Answers *)

\* The client puts new contents in its store, whatever is there by now.
Put(new) ==
  /\ store' = new
  /\ refreshSession' = Marked({store.id} \ {new.id}, "dropped")

\* Mutant of Saved: only a login writes the store.
SavedAtLogin(k) ==
  IF call[k].kind = "login" THEN [id |-> call[k].given.of, secret |-> call[k].given] ELSE store

\* persistMobileSession, Set-Cookie.
Saved(k) == [id |-> call[k].given.of, secret |-> call[k].given]

SignsIn(k) == call[k].kind \in {"refresh", "login"} /\ call[k].answer = "ok"

ReceiveSession(k) ==
  /\ SignsIn(k) /\ call[k].client # None
  /\ Put(Saved(k))
  /\ token' = [token EXCEPT ![call[k].client] = [of |-> call[k].given.of, fresh |-> TRUE]]
  /\ call' = [call EXCEPT ![k] = Idle]
  /\ UNCHANGED platform

\* A refresh that is refused, for whatever reason, signs the client out; so does
\* the end of a logout, whatever its answer.
ReceiveEnd(k) ==
  /\ call[k].client # None
  /\ \/ call[k].kind = "refresh" /\ call[k].answer = "error"
     \/ call[k].kind = "logout" /\ call[k].answer # "none"
  /\ IF platform = "mobile" \/ call[k].clears THEN Put(Empty)
     ELSE UNCHANGED <<refreshSession, store>>
  /\ token' = [token EXCEPT ![call[k].client] = None]
  /\ call' = [call EXCEPT ![k] = Idle]
  /\ UNCHANGED platform

-----------------------------------------------------------------------------
(* What goes wrong *)

\* The client stops waiting; a request that is not served yet may still be.
Released(k) == IF call[k].answer = "none" THEN [call[k] EXCEPT !.client = None] ELSE Idle

\* The client sees a network error: a refresh keeps the token and the store, a
\* logout ends as if it had been answered.
Lose(k) ==
  /\ call[k].client # None
  /\ call' = [call EXCEPT ![k] = Released(k)]
  /\ IF call[k].kind = "logout" /\ platform = "mobile"
     THEN Put(Empty)
     ELSE refreshSession' = Marked(Carried(k), "raced") /\ UNCHANGED store
  /\ token' = IF call[k].kind = "logout" THEN [token EXCEPT ![call[k].client] = None] ELSE token
  /\ UNCHANGED platform

\* A request that nobody waits for does not arrive.
Vanish(k) ==
  /\ call[k].kind # "idle" /\ call[k].client = None
  /\ call' = [call EXCEPT ![k] = Idle]
  /\ UNCHANGED <<platform, refreshSession, store, token>>

Expire(c) ==
  /\ Fresh(c)
  /\ token' = [token EXCEPT ![c] = [token[c] EXCEPT !.fresh = FALSE]]
  /\ UNCHANGED <<platform, refreshSession, store, call>>

\* A tab is loaded again, or the application is: memory is lost, and whatever it
\* waited for.
Restart(c) ==
  /\ token[c] # None \/ \E k \in Calls : call[k].client = c
  /\ token' = [token EXCEPT ![c] = None]
  /\ call' = [k \in Calls |-> IF call[k].client = c THEN Released(k) ELSE call[k]]
  /\ refreshSession' = Marked(UNION {Carried(k) : k \in {k \in Calls : call[k].client = c}}, "raced")
  /\ UNCHANGED <<platform, store>>

\* The application stops between the two writes of writeSession.
StopWhileSaving(k) ==
  /\ platform = "mobile" /\ SignsIn(k) /\ call[k].client # None
  /\ store' \in {[store EXCEPT !.id = call[k].given.of], [store EXCEPT !.secret = call[k].given]}
  /\ refreshSession' = Marked({store.id} \cup
       UNION {Carried(j) : j \in {j \in Calls : call[j].client = call[k].client}}, "raced")
  /\ token' = [token EXCEPT ![call[k].client] = None]
  /\ call' = [j \in Calls |-> IF j = k THEN Idle
                              ELSE IF call[j].client = call[k].client THEN Released(j) ELSE call[j]]
  /\ UNCHANGED platform

-----------------------------------------------------------------------------
Serve(k) == ServeRefresh(k) \/ ServeLogin(k) \/ ServeLogout(k) \/ ServeBadly(k)

Receive(k) == ReceiveSession(k) \/ ReceiveEnd(k)

ClientNext ==
  \/ \E c \in Clients :
       BeginRefresh(c) \/ BeginLogin(c) \/ BeginLogout(c) \/ Expire(c) \/ Restart(c)
  \/ \E k \in Calls : Serve(k) \/ Receive(k) \/ Lose(k) \/ Vanish(k) \/ StopWhileSaving(k)

ClientSpec == ClientInit /\ [][ClientNext]_clientVars

-----------------------------------------------------------------------------
(* Properties *)

\* Whatever requests expire, overlap with logins and logouts, are throttled or
\* delayed, the client of a session that is still ACTIVE has its current token
\* or is about to: unless an answer was lost, two tabs refreshed at once, or an
\* error or another login made the client let it go.
InStep ==
  \A s \in Sessions :
    (refreshSession[s].status = "active" /\ refreshSession[s].history = "clean") =>
      \/ store = [id |-> s, secret |-> [of |-> s, current |-> TRUE]]
      \/ \E k \in Calls : call[k].client # None /\ call[k].given = [of |-> s, current |-> TRUE]

\* Replay detection takes no client for a thief that lost nothing and had no
\* rival: throttling, failures, logins and logouts do not make it present an
\* exchanged token.
ReplayedForCause ==
  \A s \in Sessions :
    refreshSession[s].status = "replayed" => refreshSession[s].history = "raced"

=============================================================================
