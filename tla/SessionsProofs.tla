--------------------------- MODULE SessionsProofs ---------------------------
(***************************************************************************)
(* For any users, tokens, requests and failures: nobody is served as        *)
(* somebody else, nobody on a session that had ended or was logged out when *)
(* the request began, and nobody is turned away whose session is valid.     *)
(***************************************************************************)
EXTENDS Sessions, TLAPS

\* u is the user the token of request q was made for, and q's session had not
\* ended when q began.
Owned(q, u) ==
    /\ q.cookie \in Tokens /\ ~q.over
    /\ u \in Users /\ u = owner[q.cookie]

\* What a request knows was true of the session it presents, at whichever of
\* its steps it found out.
Informed(q) ==
    /\ q \in Request
    /\ q.cookie \in issued \cup {NoToken}
    /\ q.asOf <= now
    /\ q.over => ~Valid(q.cookie)
    /\ q.wasLeft => q.over
    /\ q.ctx # NoUser => Owned(q, q.ctx)

\* A request without a user in its context has a reason.
Admissible(q) == q.ctx # NoUser \/ q.failed \/ ~Valid(q.cookie)

\* What it is about to use besides.
GoodRequest(q) ==
    /\ Informed(q)
    /\ (q.pc = "lookup" /\ q.over) => ~ValidAt(q.cookie, q.asOf)
    /\ q.pc \in {"roles", "rows"} => Owned(q, q.found)
    /\ q.pc = "insert" => q.found \in Users
    /\ q.pc = "touch" => q.given \in Tokens /\ owner[q.given] # NoUser
    /\ q.pc = "admit" => Admissible(q)
    /\ (q.pc = "handle" /\ q.route \in Protected) => q.ctx # NoUser

\* The rows belong to whom their tokens were made for, and clients have
\* received no other tokens than those.
GoodRows ==
    /\ now \in 0..MaxTime
    /\ sessions \in [Tokens -> Session \cup {NoSession}]
    /\ owner \in [Tokens -> Users \cup {NoUser}]
    /\ issued \subseteq Tokens /\ left \subseteq issued
    /\ conn \in Requests \cup {NoRequest}
    /\ \A t \in Tokens : sessions[t] # NoSession => owner[t] = sessions[t].user
    /\ \A t \in issued : owner[t] # NoUser
    /\ \A t \in left : sessions[t] = NoSession

IInv ==
    /\ GoodRows
    /\ req \in [Requests -> Request]
    /\ \A r \in Requests : GoodRequest(req[r])

USE NullsAreNotValues, Times, FaultsOK

\* What a step may do to the rows of tokens that have been made.
OldTokensKept ==
    /\ issued \subseteq issued' /\ now <= now'
    /\ \A t \in Tokens : owner[t] # NoUser =>
          /\ owner'[t] = owner[t]
          /\ \A time \in 0..MaxTime : ValidAt(t, time)' => ValidAt(t, time)
          /\ Valid(t)' => Valid(t)

\* A request that does nothing stays good while others act.
LEMMA StaysGood ==
    ASSUME GoodRows, GoodRows', OldTokensKept, NEW q, GoodRequest(q)
    PROVE  GoodRequest(q)'
  <1>1. q.cookie \in issued' \cup {NoToken}
    BY DEF Informed, GoodRequest, OldTokensKept
  <1>2. /\ ~Valid(q.cookie) => ~Valid(q.cookie)'
        /\ ~ValidAt(q.cookie, q.asOf) => ~ValidAt(q.cookie, q.asOf)'
    <2>1. CASE q.cookie = NoToken
      BY <2>1 DEF Valid, ValidAt
    <2>2. CASE q.cookie \in issued
      <3>1. q.cookie \in Tokens /\ owner[q.cookie] # NoUser
        BY <2>2 DEF GoodRows
      <3>2. q.asOf \in 0..MaxTime
        BY DEF Informed, GoodRequest, Request
      <3> QED
        BY <3>1, <3>2 DEF OldTokensKept
    <2> QED
      BY <2>1, <2>2 DEF Informed, GoodRequest
  <1>3. ASSUME NEW u, Owned(q, u)  PROVE Owned(q, u)'
    BY <1>3 DEF Owned, OldTokensKept
  <1>4. q.asOf <= now'
    BY DEF Informed, GoodRequest, Request, OldTokensKept, GoodRows
  <1>5. q.pc = "touch" => q.given \in Tokens /\ owner'[q.given] # NoUser
    BY DEF Informed, GoodRequest, OldTokensKept
  <1> QED
    BY <1>1, <1>2, <1>3, <1>4, <1>5 DEF Informed, GoodRequest, Admissible

\* A step of one request: it is enough to look at that request and the rows.
LEMMA OneRequest ==
    ASSUME IInv, GoodRows', OldTokensKept,
           NEW r \in Requests, NEW q, GoodRequest(q)',
           req' = [req EXCEPT ![r] = q]
    PROVE  IInv'
  <1>1. q \in Request
    BY DEF Informed, GoodRequest
  <1>2. req' \in [Requests -> Request]
    BY <1>1 DEF IInv
  <1>3. ASSUME NEW s \in Requests  PROVE GoodRequest(req[s])'
    <2>1. CASE s = r
      <3>1. req'[s] = q
        BY <2>1 DEF IInv
      <3> QED
        BY <3>1 DEF Informed, GoodRequest, Admissible, Owned, Valid, ValidAt
    <2>2. CASE s # r
      <3>1. PICK p : p = req[s]
        OBVIOUS
      <3>2. req'[s] = p
        BY <2>2, <3>1 DEF IInv
      <3>3. GoodRequest(p)'
        BY <3>1, StaysGood DEF IInv
      <3> QED
        BY <3>2, <3>3 DEF Informed, GoodRequest, Admissible, Owned, Valid, ValidAt
    <2> QED
      BY <2>1, <2>2
  <1> QED
    BY <1>2, <1>3 DEF IInv

\* A step that leaves the rows alone: the request must be good before it.
LEMMA RowsUnchanged ==
    ASSUME IInv, UNCHANGED <<now, rowVars, issued, left>>,
           conn' \in Requests \cup {NoRequest},
           NEW r \in Requests, NEW q, GoodRequest(q),
           req' = [req EXCEPT ![r] = q]
    PROVE  IInv'
  <1>1. GoodRows' /\ OldTokensKept
    BY DEF IInv, GoodRows, OldTokensKept, rowVars, Valid, ValidAt
  <1>2. GoodRequest(q)'
    BY <1>1, StaysGood DEF IInv
  <1> QED
    BY <1>1, <1>2, OneRequest

\* next.ServeHTTP moves the request on to where it uses nothing but its context.
LEMMA ServedIsGood ==
    ASSUME now \in 0..MaxTime, NEW q, Informed(q)
    PROVE  /\ Admissible(q) => GoodRequest(Served(q))
           /\ ~Valid(q.cookie) => GoodRequest(NotFound(q))
           /\ GoodRequest(Failed(q))
  <1>1. ASSUME NEW p, Informed(p), Admissible(p)  PROVE GoodRequest(Served(p))
    <2>1. p \in Request
      BY <1>1 DEF Informed
    <2>2. PICK x \in {"admit", "cookie", "handle"}, k \in {1, 2}, time \in {0, now} :
             /\ Served(p) = [p EXCEPT !.pc = x, !.pass = k, !.asOf = time]
             /\ x = "handle" => p.route \notin Protected
      BY <2>1 DEF Served, Handled, Request
    <2>3. time \in 0..MaxTime /\ time <= now
      OBVIOUS
    <2> QED
      BY <1>1, <2>1, <2>2, <2>3 DEF Informed, GoodRequest, Admissible, Owned, Request, Labels
  <1>2. /\ Informed([q EXCEPT !.found = NoUser])
        /\ ~Valid(q.cookie) => Admissible([q EXCEPT !.found = NoUser])
    BY DEF Informed, Admissible, Owned, Request
  <1>3. /\ Informed([[q EXCEPT !.failed = TRUE] EXCEPT !.found = NoUser])
        /\ Admissible([[q EXCEPT !.failed = TRUE] EXCEPT !.found = NoUser])
    BY DEF Informed, Admissible, Owned, Request
  <1> QED
    BY <1>1, <1>2, <1>3 DEF NotFound, Failed

\* An answered request uses nothing any more.
LEMMA AnsweredIsGood ==
    ASSUME now \in 0..MaxTime, NEW q, Informed(q)
    PROVE  GoodRequest(Answered(q))
  <1>1. 0 \in 0..MaxTime /\ 0 <= now
    OBVIOUS
  <1> QED
    BY <1>1 DEF Answered, Informed, GoodRequest, Owned, Request, Labels

\* The clock: what had ended stays ended.
LEMMA TickInv ==
    ASSUME IInv, Tick
    PROVE  IInv'
  <1>1. GoodRows' /\ OldTokensKept
    BY DEF IInv, GoodRows, OldTokensKept, Tick, rowVars, Valid, ValidAt, Session
  <1>2. ASSUME NEW r \in Requests  PROVE GoodRequest(req[r])'
    <2>1. PICK q : q = req[r]
      OBVIOUS
    <2>2. GoodRequest(q)'
      BY <1>1, <2>1, StaysGood DEF IInv
    <2>3. req' = req
      BY DEF Tick
    <2> QED
      BY <2>1, <2>2, <2>3 DEF Informed, GoodRequest, Admissible, Owned, Valid, ValidAt
  <1> QED
    BY <1>1, <1>2 DEF IInv, Tick

\* A request that begins knows how it stands with its session.
LEMMA BeginInv ==
    ASSUME IInv, NEW r \in Requests, Begin(r)
    PROVE  IInv'
  <1>1. PICK x \in Routes, t \in issued \cup {NoToken} :
           req' = [req EXCEPT ![r] = Fresh(x, t)]
    BY DEF Begin, Put
  <1>2. Fresh(x, t) \in Request
    BY DEF IInv, GoodRows, Fresh, Request, Labels, Valid, ValidAt
  <1>3. t \in left => ~Valid(t)
    BY DEF IInv, GoodRows, Valid, ValidAt
  <1>4. GoodRequest(Fresh(x, t))
    <2>1. 0 <= now
      BY DEF IInv, GoodRows
    <2> QED
      BY <1>2, <1>3, <2>1 DEF Informed, GoodRequest, Fresh
  <1> QED
    BY <1>1, <1>4, RowsUnchanged DEF Begin, IInv, GoodRows

\* LoadAuth: what the lookup finds belongs to the owner of the token, and a
\* session that was valid at the lookup had not ended when the request began.
LEMMA LoadAuthInv ==
    ASSUME IInv, NEW r \in Requests, LoadAuth(r)
    PROVE  IInv'
  <1> DEFINE q == req[r]
  <1>1. GoodRequest(q) /\ Informed(q) /\ q \in Request
    BY DEF IInv, GoodRequest, Informed
  <1>2. conn \in Requests \cup {NoRequest} /\ now \in 0..MaxTime
    BY DEF IInv, GoodRows
  <1>3. (~Valid(q.cookie) => GoodRequest(NotFound(q))) /\ GoodRequest(Failed(q))
    BY <1>1, <1>2, ServedIsGood
  <1>4. CASE ReadCookie(r)
    <2>1. q.cookie # NoToken => GoodRequest([q EXCEPT !.pc = "lookup", !.asOf = now])
      <3>1. now <= now
        BY <1>2
      <3> QED
        BY <1>1, <1>2, <3>1 DEF Valid, GoodRequest, Informed, Owned, Request, Labels
    <2>2. q.cookie = NoToken => ~Valid(q.cookie)
      BY DEF Valid, ValidAt
    <2> QED
      BY <1>2, <1>3, <1>4, <2>1, <2>2, RowsUnchanged DEF ReadCookie, Put
  <1>5. CASE Lookup(r)
    <2> DEFINE found == [q EXCEPT !.pc = "roles", !.found = sessions[q.cookie].user]
    <2>1. ASSUME q.pc = "lookup", ValidAt(q.cookie, q.asOf)  PROVE GoodRequest(found)
      <3>1. sessions[q.cookie] \in Session /\ q.cookie \in Tokens
        BY <2>1 DEF ValidAt, IInv, GoodRows
      <3>2. sessions[q.cookie].user \in Users /\ owner[q.cookie] = sessions[q.cookie].user
        BY <2>1, <3>1 DEF ValidAt, IInv, GoodRows, Session
      <3> QED
        BY <1>1, <2>1, <3>1, <3>2 DEF GoodRequest, Informed, Owned, Request, Labels
    <2>2. ~ValidAt(q.cookie, q.asOf) => ~Valid(q.cookie)
      BY <1>1 DEF Informed, Request, IInv, GoodRows, Session, NoSession, Valid, ValidAt
    <2>3. PICK p : GoodRequest(p) /\ req' = [req EXCEPT ![r] = p]
      BY <1>3, <1>5, <2>1, <2>2 DEF Lookup, Put
    <2> QED
      BY <1>2, <1>5, <2>3, RowsUnchanged DEF Lookup
  <1>6. CASE QueryRoles(r)
    <2>1. GoodRequest([q EXCEPT !.pc = "rows"])
      BY <1>1, <1>6 DEF QueryRoles, GoodRequest, Informed, Owned, Request, Labels
    <2>2. PICK p : GoodRequest(p) /\ req' = [req EXCEPT ![r] = p]
      BY <1>3, <1>6, <2>1 DEF QueryRoles, Put
    <2> QED
      BY <1>2, <1>6, <2>2, RowsUnchanged DEF QueryRoles
  <1>7. CASE CloseRows(r)
    <2>1. Informed([q EXCEPT !.ctx = q.found]) /\ Admissible([q EXCEPT !.ctx = q.found])
      BY <1>1, <1>7 DEF CloseRows, GoodRequest, Informed, Admissible, Owned, Request, Labels
    <2>2. GoodRequest(Served([q EXCEPT !.ctx = q.found]))
      BY <1>2, <2>1, ServedIsGood
    <2>3. PICK p : GoodRequest(p) /\ req' = [req EXCEPT ![r] = p]
      BY <1>3, <1>7, <2>2 DEF CloseRows, Put
    <2> QED
      BY <1>7, <2>3, RowsUnchanged DEF CloseRows
  <1> QED
    BY <1>4, <1>5, <1>6, <1>7 DEF LoadAuth

\* RequireAuth's check, and the handlers that leave the rows alone.
LEMMA HandlersInv ==
    ASSUME IInv, NEW r \in Requests, Admit(r) \/ Me(r) \/ CheckCredentials(r)
    PROVE  IInv'
  <1> DEFINE q == req[r]
  <1>1. GoodRequest(q) /\ Informed(q) /\ q \in Request
    BY DEF IInv, GoodRequest, Informed
  <1> now \in 0..MaxTime /\ now <= now
    BY DEF IInv, GoodRows
  <1>2. /\ GoodRequest(Answered(q))
        /\ q.ctx # NoUser => GoodRequest(Handled(q))
    BY <1>1, AnsweredIsGood DEF Handled, GoodRequest, Informed, Owned, Request, Labels
  <1>3. \A u \in Users : GoodRequest([q EXCEPT !.pc = "insert", !.found = u, !.asOf = now])
    BY <1>1 DEF GoodRequest, Informed, Owned, Request, Labels
  <1>4. PICK p : GoodRequest(p) /\ req' = [req EXCEPT ![r] = p]
    BY <1>2, <1>3 DEF Admit, Me, CheckCredentials, Answer, Put
  <1>5. UNCHANGED <<now, rowVars, issued, left, conn>> /\ conn \in Requests \cup {NoRequest}
    BY DEF Admit, Me, CheckCredentials, IInv, GoodRows
  <1> QED
    BY <1>4, <1>5, RowsUnchanged

\* A login makes a row for a token that nobody has had.
LEMMA InsertInv ==
    ASSUME IInv, NEW r \in Requests, InsertSession(r)
    PROVE  IInv'
  <1>0. PICK q : q = req[r]
    OBVIOUS
  <1>1. GoodRequest(q) /\ Informed(q) /\ q \in Request /\ q.found \in Users
    BY <1>0 DEF IInv, GoodRequest, Informed, InsertSession
  <1>2. CASE UNCHANGED rowVars /\ Answer(r)
    <2>1. GoodRequest(Answered(q))
      BY <1>1, AnsweredIsGood DEF IInv, GoodRows
    <2> QED
      BY <1>0, <1>2, <2>1, RowsUnchanged DEF InsertSession, Answer, Put, IInv, GoodRows
  <1>3. ASSUME NEW t \in Tokens, NEW time \in q.asOf..now, owner[t] = NoUser,
               sessions' = [sessions EXCEPT ![t] = [user |-> q.found, expires |-> time + TTL]],
               owner' = [owner EXCEPT ![t] = q.found],
               Put(r, [q EXCEPT !.pc = "touch", !.given = t])
        PROVE  IInv'
    <2>1. [user |-> q.found, expires |-> time + TTL] \in Session
      BY <1>1 DEF Request, IInv, GoodRows, Session
    <2>2. t \notin issued
      BY <1>3 DEF IInv, GoodRows
    <2>3. /\ sessions' \in [Tokens -> Session \cup {NoSession}]
          /\ owner' \in [Tokens -> Users \cup {NoUser}]
      BY <1>1, <1>3, <2>1 DEF IInv, GoodRows
    <2>4. UNCHANGED <<now, issued, left, conn>>
      BY DEF InsertSession
    <2>5. \A s \in Tokens : s # t => sessions'[s] = sessions[s] /\ owner'[s] = owner[s]
      BY <1>3 DEF IInv, GoodRows
    <2>6. sessions'[t].user = q.found /\ owner'[t] = q.found /\ owner'[t] # NoUser
      BY <1>1, <1>3 DEF IInv, GoodRows
    <2>7. GoodRows'
      BY <2>2, <2>3, <2>4, <2>5, <2>6 DEF IInv, GoodRows
    <2>8. OldTokensKept
      BY <1>3, <2>4, <2>5 DEF OldTokensKept, Valid, ValidAt, IInv, GoodRows
    <2>9. GoodRequest(q)'
      BY <1>1, <2>7, <2>8, StaysGood DEF IInv
    <2>10. GoodRequest([q EXCEPT !.pc = "touch", !.given = t])'
      BY <1>1, <2>6, <2>9 DEF GoodRequest, Informed, Owned, Request, Labels
    <2> QED
      BY <1>3, <2>7, <2>8, <2>10, OneRequest DEF Put
  <1> QED
    BY <1>0, <1>2, <1>3 DEF InsertSession

\* The cookie hands out a token that has been made.
LEMMA CookieInv ==
    ASSUME IInv, NEW r \in Requests, SetCookie(r)
    PROVE  IInv'
  <1>0. PICK q : q = req[r]
    OBVIOUS
  <1>1. GoodRequest(q) /\ q.given \in Tokens /\ owner[q.given] # NoUser
    BY <1>0 DEF IInv, GoodRequest, SetCookie
  <1>2. GoodRows' /\ OldTokensKept
    BY <1>0, <1>1 DEF IInv, GoodRows, OldTokensKept, SetCookie, rowVars, Valid, ValidAt
  <1>3. GoodRequest(q)'
    BY <1>1, <1>2, StaysGood DEF IInv
  <1>4. GoodRequest(Answered(q))'
    <2>1. 0 \in 0..MaxTime /\ 0 <= now'
      BY <1>2 DEF GoodRows
    <2> QED
      BY <1>3, <2>1 DEF Answered, GoodRequest, Informed, Owned, Request, Labels, Valid, ValidAt
  <1> QED
    BY <1>0, <1>2, <1>4, OneRequest DEF SetCookie, Answer, Put

\* A logout only takes the row of its own token.
LEMMA LogoutInv ==
    ASSUME IInv, NEW r \in Requests, Logout(r)
    PROVE  IInv'
  <1>0. PICK q : q = req[r]
    OBVIOUS
  <1>1. GoodRequest(q) /\ q.cookie \in issued \cup {NoToken}
    BY <1>0 DEF IInv, GoodRequest, Informed
  <1>2. \A t \in Tokens : sessions'[t] \in {sessions[t], NoSession}
    BY DEF Logout, IInv, GoodRows
  <1>3. UNCHANGED <<now, owner, issued, conn>>
    BY DEF Logout
  <1>4. GoodRows'
    <2>1. sessions' \in [Tokens -> Session \cup {NoSession}]
      BY DEF Logout, IInv, GoodRows
    <2>2. left' \subseteq issued /\ \A t \in left' : sessions'[t] = NoSession
      BY <1>0, <1>1, <1>2 DEF Logout, IInv, GoodRows
    <2> QED
      BY <1>2, <1>3, <2>1, <2>2 DEF IInv, GoodRows
  <1>5. OldTokensKept
    BY <1>2, <1>3 DEF OldTokensKept, Valid, ValidAt, IInv, GoodRows
  <1>6. GoodRequest(q)'
    BY <1>1, <1>4, <1>5, StaysGood DEF IInv
  <1>7. GoodRequest(Answered(q))'
    <2>1. 0 \in 0..MaxTime /\ 0 <= now'
      BY <1>4 DEF GoodRows
    <2> QED
      BY <1>6, <2>1 DEF Answered, GoodRequest, Informed, Owned, Request, Labels, Valid, ValidAt
  <1> QED
    BY <1>0, <1>4, <1>5, <1>7, OneRequest DEF Logout, Answer, Put

\* The sessions of an earlier run are as good as those that will be made.
LEMMA InitInv == Init => IInv
  <1> SUFFICES ASSUME Init  PROVE IInv
    OBVIOUS
  <1>1. GoodRows /\ now = 0
    BY DEF Init, GoodRows, Session, NoSession
  <1>2. PICK x \in Routes :
           req = [r \in Requests |-> Answered(Fresh(x, NoToken))]
    BY DEF Init
  <1>3. Valid(NoToken) = FALSE /\ (NoToken \in left) = FALSE
    BY DEF Valid, ValidAt, Init
  <1>4. Fresh(x, NoToken) \in Request
    BY <1>3 DEF Fresh, Request, Labels
  <1>5. Informed(Fresh(x, NoToken))
    BY <1>1, <1>3, <1>4 DEF Informed, Fresh
  <1>6. GoodRequest(Answered(Fresh(x, NoToken)))
    BY <1>1, <1>5, AnsweredIsGood DEF GoodRows
  <1> QED
    BY <1>1, <1>2, <1>6 DEF IInv, GoodRequest, Informed

\* Every step keeps the invariant.
LEMMA NextInv ==
    ASSUME IInv, [Next]_vars
    PROVE  IInv'
  <1>1. CASE UNCHANGED vars
    BY <1>1 DEF vars, rowVars, IInv, GoodRows, GoodRequest, Informed, Admissible, Owned,
                Valid, ValidAt
  <1>2. CASE Next
    BY <1>2, TickInv, BeginInv, LoadAuthInv, HandlersInv, InsertInv, CookieInv,
       LogoutInv DEF Next, Proceed, Wired
  <1> QED
    BY <1>1, <1>2

\* The inductive invariant holds in every reachable state.
THEOREM Invariant == Spec => []IInv
  BY InitInv, NextInv, PTL DEF Spec

\* The variables of the sessions keep their types.
THEOREM TypeCorrect == Spec => []TypeOK
  <1>1. IInv => TypeOK
    BY DEF IInv, GoodRows, TypeOK
  <1> QED
    BY Invariant, <1>1, PTL

\* However many requests are under way, with whatever failures of statements:
\* a user in the context is the owner of the token, whose session had neither
\* expired nor been logged out when the request began.
THEOREM ServedRightly == Spec => []ServedAsOwner
  <1>1. IInv => ServedAsOwner
    BY DEF IInv, GoodRequest, Informed, Owned, ServedAsOwner
  <1> QED
    BY Invariant, <1>1, PTL

\* RequireAuth turns away nobody whose session is valid at its check, but for
\* lookups that failed.
THEOREM Admitted == Spec => []ValidAdmitted
  <1>1. IInv => ValidAdmitted
    BY DEF IInv, GoodRequest, Admissible, ValidAdmitted
  <1> QED
    BY Invariant, <1>1, PTL
=============================================================================
