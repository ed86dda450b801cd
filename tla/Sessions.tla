------------------------------ MODULE Sessions ------------------------------
(***************************************************************************)
(* Sessions in meryl.moe: a login inserts a row, the cookie names it, every *)
(* request loads the user of its cookie (LoadAuth), protected routes load   *)
(* it once more (RequireAuth), a logout deletes the row, time ends it.      *)
(*                                                                         *)
(* The statements of concurrent requests share one database connection      *)
(* (SetMaxOpenConns(1)).  A statement without rows takes and returns it in  *)
(* one step; the query of the roles keeps it until its rows are closed.  A  *)
(* statement that asks what has expired is told the time that was read      *)
(* before it waited for the connection.                                     *)
(***************************************************************************)
EXTENDS Integers, FiniteSets

CONSTANTS Users, Tokens, Requests,
          Routes,        \* the routes that are asked for
          NoUser, NoToken, NoRequest,
          TTL,           \* server.config.Session.TTL, in ticks
          MaxTime,       \* bound: the clock stops here
          Faults         \* may a statement fail?

ASSUME NullsAreNotValues ==
    NoUser \notin Users /\ NoToken \notin Tokens /\ NoRequest \notin Requests
ASSUME Times == TTL \in Nat \ {0} /\ MaxTime \in Nat
ASSUME FaultsOK == Faults \in BOOLEAN

VARIABLES
    now,
    sessions,   \* the rows of table sessions, by token
    owner,      \* history: whose session a token was made for, NoUser: not made
    issued,     \* the tokens a client has received in a cookie
    left,       \* history: tokens whose logout has deleted their row
    conn,       \* the request that holds the connection
    req         \* the requests, see Request

rowVars == <<sessions, owner>>
vars == <<now, rowVars, issued, left, conn, req>>

NoSession == [user |-> NoUser, expires |-> 0]
Session == [user : Users, expires : 1..(MaxTime + TTL)]

Labels == {"idle", "cookie", "lookup", "roles", "rows", "admit", "handle",
           "insert", "touch"}
Request == [
    pc : Labels, route : Routes,
    pass : {1, 2},                    \* 1: the global LoadAuth, 2: RequireAuth's
    cookie : Tokens \cup {NoToken},   \* what the request presents
    found : Users \cup {NoUser},      \* what its latest lookup found
    ctx : Users \cup {NoUser},        \* the user in its context
    given : Tokens \cup {NoToken},    \* what a login is about to hand out
    asOf : 0..MaxTime,                \* the time it goes by, 0: none
    over : BOOLEAN,                   \* history: no valid session at the start
    failed : BOOLEAN,                 \* history: a lookup failed
    wasLeft : BOOLEAN]                \* history: logged out before the start

\* The routes registered without RequireAuth, and those registered with it.
Public == {"login", "logout", "view", "download"}
Protected == Routes \ Public

\* expires_at > ?, the time an argument of the statement.
ValidAt(t, time) ==
    t \in Tokens /\ sessions[t] # NoSession /\ sessions[t].expires > time
Valid(t) == ValidAt(t, now)

Fresh(x, t) == [pc |-> "cookie", route |-> x, pass |-> 1, cookie |-> t,
                found |-> NoUser, ctx |-> NoUser, given |-> NoToken,
                asOf |-> 0, over |-> ~Valid(t), failed |-> FALSE, wasLeft |-> t \in left]

Answered(q) == [q EXCEPT !.pc = "idle", !.asOf = 0]

-----------------------------------------------------------------------------

\* The database may hold sessions of an earlier run of the server.
Init ==
    /\ now = 0
    /\ sessions \in [Tokens -> Session \cup {NoSession}]
    /\ owner = [t \in Tokens |-> sessions[t].user]
    /\ issued = {t \in Tokens : sessions[t] # NoSession}
    /\ left = {}
    /\ conn = NoRequest
    /\ \E x \in Routes :
          req = [r \in Requests |-> Answered(Fresh(x, NoToken))]

Put(r, q) == req' = [req EXCEPT ![r] = q]
Answer(r) == Put(r, Answered(req[r]))

Tick ==
    /\ now < MaxTime
    /\ now' = now + 1
    /\ UNCHANGED <<rowVars, issued, left, conn, req>>

\* A client sends a request, with a cookie it has received or without one.
Begin(r) ==
    /\ req[r].pc = "idle"
    /\ \E x \in Routes, t \in issued \cup {NoToken} : Put(r, Fresh(x, t))
    /\ UNCHANGED <<now, rowVars, issued, left, conn>>

\* The handler reads the time before its first statement waits.
Handled(q) == [q EXCEPT !.pc = "handle", !.asOf = now]

\* What next.ServeHTTP runs: after the global LoadAuth the route, whose
\* RequireAuth is a LoadAuth again; after that one the check for a user.
Served(q) ==
    IF q.pass = 2 THEN [q EXCEPT !.pc = "admit", !.asOf = 0]
    ELSE IF q.route \in Protected THEN [q EXCEPT !.pc = "cookie", !.pass = 2, !.asOf = 0]
         ELSE Handled(q)
NotFound(q) == Served([q EXCEPT !.found = NoUser])
Failed(q) == NotFound([q EXCEPT !.failed = TRUE])

ReadCookie(r) ==
    /\ req[r].pc = "cookie"
    /\ Put(r, IF req[r].cookie = NoToken THEN NotFound(req[r])
              ELSE [req[r] EXCEPT !.pc = "lookup", !.asOf = now])
    /\ UNCHANGED <<now, rowVars, issued, left, conn>>

\* SELECT ... WHERE s.token_hash = ? AND s.expires_at > ?, scanned into userID.
BugAgelessLookup(r) ==
    /\ req[r].pc = "lookup" /\ conn = NoRequest
    /\ LET t == req[r].cookie IN
       Put(r, IF sessions[t] # NoSession
              THEN [req[r] EXCEPT !.pc = "roles", !.found = sessions[t].user]
              ELSE NotFound(req[r]))
    /\ UNCHANGED <<now, rowVars, issued, left, conn>>
BugStrictLookup(r) ==
    /\ req[r].pc = "lookup" /\ conn = NoRequest
    /\ LET t == req[r].cookie IN
       Put(r, IF sessions[t].expires > req[r].asOf + 1
              THEN [req[r] EXCEPT !.pc = "roles", !.found = sessions[t].user]
              ELSE NotFound(req[r]))
    /\ UNCHANGED <<now, rowVars, issued, left, conn>>
Lookup(r) ==
    /\ req[r].pc = "lookup" /\ conn = NoRequest
    /\ LET t == req[r].cookie IN
       \/ /\ ValidAt(t, req[r].asOf)
          /\ Put(r, [req[r] EXCEPT !.pc = "roles", !.found = sessions[t].user])
       \/ ~ValidAt(t, req[r].asOf) /\ Put(r, NotFound(req[r]))
       \/ Faults /\ Put(r, Failed(req[r]))
    /\ UNCHANGED <<now, rowVars, issued, left, conn>>

\* QueryContext for the roles: from here the request holds the connection.
QueryRoles(r) ==
    /\ req[r].pc = "roles" /\ conn = NoRequest
    /\ \/ conn' = r /\ Put(r, [req[r] EXCEPT !.pc = "rows"])
       \/ Faults /\ Put(r, Failed(req[r])) /\ UNCHANGED conn
    /\ UNCHANGED <<now, rowVars, issued, left>>

\* The rows are read and closed, on every way out, and the user enters the
\* context unless a row or the iteration failed.
CloseRows(r) ==
    /\ req[r].pc = "rows"
    /\ conn' = NoRequest
    /\ \/ Put(r, Served([req[r] EXCEPT !.ctx = req[r].found]))
       \/ Faults /\ Put(r, Failed(req[r]))
    /\ UNCHANGED <<now, rowVars, issued, left>>

LoadAuth(r) == ReadCookie(r) \/ Lookup(r) \/ QueryRoles(r) \/ CloseRows(r)

\* RequireAuth's check: a request whose context has no user is redirected to /.
BugAdmitRetries(r) ==
    /\ req[r].pc = "admit"
    /\ Put(r, IF req[r].ctx = NoUser THEN [req[r] EXCEPT !.pc = "cookie"] ELSE Handled(req[r]))
    /\ UNCHANGED <<now, rowVars, issued, left, conn>>
Admit(r) ==
    /\ req[r].pc = "admit"
    /\ IF req[r].ctx = NoUser THEN Answer(r)
       ELSE Put(r, Handled(req[r]))
    /\ UNCHANGED <<now, rowVars, issued, left, conn>>

-----------------------------------------------------------------------------

At(r, x) == req[r].pc = "handle" /\ req[r].route = x

\* Handler.Me renders the user of the context.
Me(r) == At(r, "me") /\ Answer(r) /\ UNCHANGED <<now, rowVars, issued, left, conn>>

\* Authenticate, first the form and SELECT id, password_hash with the bcrypt
\* comparison: wrong credentials, an empty form or a failure answer with the
\* login page, right ones name a user.
CheckCredentials(r) ==
    /\ At(r, "login") /\ conn = NoRequest
    /\ \/ Answer(r)
       \/ \E u \in Users : Put(r, [req[r] EXCEPT !.pc = "insert", !.found = u,
                                                !.asOf = now])
    /\ UNCHANGED <<now, rowVars, issued, left, conn>>

\* generateSessionToken and INSERT INTO sessions, expiring TTL after a time read
\* between the two statements; a failure (or no token left in this model) is
\* answered with status 500 and no cookie.
InsertSession(r) ==
    /\ req[r].pc = "insert" /\ conn = NoRequest
    /\ LET u == req[r].found IN
       \/ \E t \in Tokens, time \in req[r].asOf..now :
             /\ owner[t] = NoUser
             /\ sessions' = [sessions EXCEPT
                                ![t] = [user |-> u, expires |-> time + TTL]]
             /\ owner' = [owner EXCEPT ![t] = u]
             /\ Put(r, [req[r] EXCEPT !.pc = "touch", !.given = t])
       \/ /\ Faults \/ \A t \in Tokens : owner[t] # NoUser
          /\ Answer(r)
          /\ UNCHANGED rowVars
    /\ UNCHANGED <<now, issued, left, conn>>

\* UPDATE users SET last_login_at, whose failure is only logged, and the cookie.
SetCookie(r) ==
    /\ req[r].pc = "touch" /\ conn = NoRequest
    /\ issued' = issued \cup {req[r].given}
    /\ Answer(r)
    /\ UNCHANGED <<now, rowVars, left, conn>>

\* Handler.Logout: DELETE FROM sessions; its failure is only logged, the cookie
\* is cleared and the client redirected in either case.
Logout(r) ==
    /\ At(r, "logout")
    /\ req[r].cookie # NoToken => conn = NoRequest
    /\ \/ /\ sessions' = [t \in Tokens |-> IF t = req[r].cookie THEN NoSession
                                           ELSE sessions[t]]
          /\ left' = left \cup ({req[r].cookie} \ {NoToken})
       \/ Faults /\ UNCHANGED <<sessions, left>>
    /\ Answer(r)
    /\ UNCHANGED <<now, owner, issued, conn>>

Wired(r) == Me(r) \/ CheckCredentials(r) \/ InsertSession(r) \/ SetCookie(r)
            \/ Logout(r)

-----------------------------------------------------------------------------

Proceed(r) == LoadAuth(r) \/ Admit(r) \/ Wired(r)

Next == Tick \/ \E r \in Requests : Begin(r) \/ Proceed(r)

Spec == Init /\ [][Next]_vars

-----------------------------------------------------------------------------

TypeOK ==
    /\ now \in 0..MaxTime
    /\ sessions \in [Tokens -> Session \cup {NoSession}]
    /\ owner \in [Tokens -> Users \cup {NoUser}]
    /\ issued \subseteq Tokens /\ left \subseteq Tokens
    /\ conn \in Requests \cup {NoRequest}
    /\ req \in [Requests -> Request]

\* A request is handled as a user only if that user owns the session of its
\* cookie, and the session was valid when the request began: it had not expired
\* and had not been logged out, however the ticks, logouts and logins of other
\* requests fall between the steps of its two LoadAuths (session.go:28-73;
\* handler.go:107: "Logout deletes the session from the database").
ServedAsOwner ==
    \A r \in Requests :
        req[r].ctx # NoUser => /\ req[r].ctx = owner[req[r].cookie]
                               /\ ~req[r].over /\ ~req[r].wasLeft

\* RequireAuth turns nobody away whose session is still valid at its check,
\* unless one of the request's own lookups failed.
ValidAdmitted ==
    \A r \in Requests :
        (req[r].pc = "admit" /\ Valid(req[r].cookie) /\ ~req[r].failed)
          => req[r].ctx # NoUser

\* Every request is answered: nobody keeps the connection, and nobody waits
\* for ever for one of its own statements while it holds it.
EveryRequestAnswered == \A r \in Requests : req[r].pc # "idle" ~> req[r].pc = "idle"
=============================================================================
