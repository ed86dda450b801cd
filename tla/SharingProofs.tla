---------------------------- MODULE SharingProofs ----------------------------
(***************************************************************************)
(* For any users, requests, notes and files: what is private is shown to    *)
(* its owner only, what is gone to nobody, and no row goes without cause.   *)
(***************************************************************************)
EXTENDS Sharing, SessionsProofs

\* Nothing has been read or shown for a request yet.
Untouched(t) == t.step = "start" /\ t.shown = {} /\ ~t.missing

\* The routes whose handlers have each step after their first.
RoutesOf(s) == CASE s = "check" -> {"view", "download"}
                 [] s = "open" -> {"download"}
                 [] s = "rows" -> {"panel"}
                 [] s \in {"unlink", "drop"} -> {"delete"}
                 [] OTHER -> Routes

\* What the answer of a request q may contain.
GoodAnswer(q, t) ==
    /\ t.shown \subseteq Known
    /\ \A i \in t.shown :
          (attr[i].mode = "user" \/ q.route = "panel") => q.ctx = attr[i].owner
    /\ t.gone => t.target \notin t.shown

\* What a handler has found out about the item it is asked for, and goes on.
InHand(q, t) ==
    /\ t.step = "start" => Untouched(t)
    /\ ~t.missing
    /\ q.route \in RoutesOf(t.step)
    /\ t.step \in {"check", "open"} => t.target \in Known /\ ~t.gone
    /\ (t.step = "open" /\ attr[t.target].mode = "user") => q.ctx = attr[t.target].owner
    /\ t.step \in {"unlink", "drop"} => t.target \in Known /\ q.ctx = attr[t.target].owner

Work(q, t) ==
    /\ t \in Task /\ t.target \in Known \cup {NoItem}
    /\ (t.gone \/ t.missing) => ~Alive(t.target)
    /\ (t.gone /\ q.pc = "handle" /\ t.step = "start") => ~AliveAt(t.target, q.asOf)
    /\ GoodAnswer(q, t)
    /\ q.pc = "handle" => InHand(q, t)
    /\ q.pc \notin {"idle", "handle"} => Untouched(t)

GoodItems ==
    /\ attr \in [Items -> Attr \cup {NoAttr}]
    /\ rows \subseteq Known /\ disk \subseteq Files

ShareInv ==
    /\ IInv /\ GoodItems
    /\ task \in [Requests -> Task]
    /\ \A r \in Requests : Work(req[r], task[r])

USE ItemsDiffer, LivesOK

\* What a step may do to the items there have been.
ItemsKept ==
    /\ Known \subseteq Known'
    /\ \A i \in Known : /\ attr'[i] = attr[i] /\ (i \in rows' => i \in rows)
                        /\ Alive(i)' => Alive(i)

\* NoItem has no row.
LEMMA NoItemIsDead == GoodItems => ~Alive(NoItem)
  BY DEF GoodItems, Alive, AliveAt, Known

\* What is known of a request at work stays so while others act.
LEMMA WorkStays ==
    ASSUME GoodItems, GoodItems', ItemsKept, NEW q, NEW t, Work(q, t)
    PROVE  Work(q, t)'
  <1>1. t.target \in Known' \cup {NoItem}
    BY DEF Work, ItemsKept
  <1>2. /\ ~Alive(t.target) => ~Alive(t.target)'
        /\ ~AliveAt(t.target, q.asOf) => ~AliveAt(t.target, q.asOf)'
    <2>1. CASE t.target = NoItem
      BY <2>1, NoItemIsDead DEF GoodItems, Alive, AliveAt, Known
    <2>2. CASE t.target \in Known
      BY <2>2 DEF ItemsKept, AliveAt
    <2> QED
      BY <2>1, <2>2 DEF Work
  <1>3. GoodAnswer(q, t)'
    BY DEF Work, GoodAnswer, ItemsKept
  <1>4. InHand(q, t) => InHand(q, t)'
    BY DEF InHand, ItemsKept, Untouched
  <1> QED
    BY <1>1, <1>2, <1>3, <1>4 DEF Work

\* A step of one request: it is enough to look at that request and the items.
LEMMA OneTask ==
    ASSUME ShareInv, IInv', GoodItems', ItemsKept,
           NEW r \in Requests, NEW q, NEW t, Work(q, t)',
           req' = [req EXCEPT ![r] = q], task' = [task EXCEPT ![r] = t]
    PROVE  ShareInv'
  <1>1. t \in Task
    BY DEF Work
  <1>2. task' \in [Requests -> Task]
    BY <1>1 DEF ShareInv
  <1>3. ASSUME NEW s \in Requests  PROVE Work(req[s], task[s])'
    <2>1. CASE s = r
      <3>1. req'[s] = q /\ task'[s] = t
        BY <2>1 DEF ShareInv, IInv
      <3> QED
        BY <3>1 DEF Work, GoodAnswer, InHand, Alive, AliveAt, Known
    <2>2. CASE s # r
      <3>1. PICK p, u : p = req[s] /\ u = task[s]
        OBVIOUS
      <3>2. req'[s] = p /\ task'[s] = u
        BY <2>2, <3>1 DEF ShareInv, IInv
      <3>3. Work(p, u)'
        BY <3>1, WorkStays DEF ShareInv
      <3> QED
        BY <3>2, <3>3 DEF Work, GoodAnswer, InHand, Alive, AliveAt, Known
    <2> QED
      BY <2>1, <2>2
  <1> QED
    BY <1>2, <1>3 DEF ShareInv

\* A step that is not of a request.
LEMMA NoTask ==
    ASSUME ShareInv, IInv', GoodItems', ItemsKept, UNCHANGED <<req, task>>
    PROVE  ShareInv'
  <1>1. ASSUME NEW s \in Requests  PROVE Work(req[s], task[s])'
    <2>1. PICK p, u : p = req[s] /\ u = task[s]
      OBVIOUS
    <2>2. Work(p, u)'
      BY <2>1, WorkStays DEF ShareInv
    <2> QED
      BY <2>1, <2>2 DEF Work, GoodAnswer, InHand, Alive, AliveAt, Known
  <1> QED
    BY <1>1 DEF ShareInv

\* The handlers leave the sessions alone.
LEMMA SessionsKept ==
    ASSUME IInv, UNCHANGED sessVars, conn' \in Requests \cup {NoRequest},
           NEW r \in Requests, Answer(r) \/ UNCHANGED req
    PROVE  IInv'
  <1>1. GoodRequest(req[r]) /\ Informed(req[r])
    BY DEF IInv, GoodRequest
  <1>2. GoodRequest(Answered(req[r]))
    BY <1>1, AnsweredIsGood DEF IInv, GoodRows
  <1>3. PICK q : GoodRequest(q) /\ req' = [req EXCEPT ![r] = q]
    <2>1. CASE Answer(r)
      BY <1>2, <2>1 DEF Answer, Put
    <2>2. CASE UNCHANGED req
      <3>1. req' = [req EXCEPT ![r] = req[r]]
        BY <2>2 DEF IInv
      <3> QED
        BY <1>1, <3>1
    <2> QED
      BY <2>1, <2>2
  <1> QED
    BY <1>3, RowsUnchanged DEF sessVars

\* What next.ServeHTTP passes on keeps its route, to a handler with the time.
LEMMA ServedMoves ==
    ASSUME NEW p \in Request
    PROVE  \A q \in {NotFound(p), Failed(p), Served([p EXCEPT !.ctx = p.found])} :
              q.route = p.route /\ (q.pc = "handle" => q.asOf = now)
  <1>1. ASSUME NEW u \in Request, u.route = p.route
        PROVE  Served(u).route = p.route /\ (Served(u).pc = "handle" => Served(u).asOf = now)
    BY <1>1 DEF Served, Handled, Request
  <1>2. ASSUME NEW u \in {[p EXCEPT !.found = NoUser], [p EXCEPT !.ctx = p.found],
                          [[p EXCEPT !.failed = TRUE] EXCEPT !.found = NoUser]}
        PROVE  u \in Request /\ u.route = p.route
    BY <1>2 DEF Request
  <1> QED
    BY <1>1, <1>2 DEF NotFound, Failed

\* LoadAuth, RequireAuth and the login page: no handler of items has begun.
LEMMA ProceedShares ==
    ASSUME ShareInv, NEW r \in Requests, Proceed(r), UNCHANGED shareVars
    PROVE  ShareInv'
  <1>1. IInv'
    BY NextInv DEF Next, ShareInv
  <1>2. GoodItems' /\ ItemsKept
    <2>1. now' = now
      BY DEF Proceed, LoadAuth, ReadCookie, Lookup, QueryRoles, CloseRows, Admit, Wired,
             Me, CheckCredentials, InsertSession, SetCookie, Logout
    <2> QED
      BY <2>1 DEF ShareInv, GoodItems, ItemsKept, shareVars, Known, Alive, AliveAt
  <1>3. PICK q : /\ q.route = req[r].route /\ req' = [req EXCEPT ![r] = q]
                 /\ q.pc = "handle" => q.asOf = now
    <2>1. req[r] \in Request
      BY DEF ShareInv, IInv
    <2> DEFINE p == req[r]
    <2>2. CASE LoadAuth(r)
      <3>1. PICK q : /\ Put(r, q)
                     /\ \/ q = [p EXCEPT !.pc = "lookup", !.asOf = now]
                        \/ q = [p EXCEPT !.pc = "roles", !.found = sessions[p.cookie].user]
                        \/ q = [p EXCEPT !.pc = "rows"]
                        \/ q \in {NotFound(p), Failed(p), Served([p EXCEPT !.ctx = p.found])}
        BY <2>2 DEF LoadAuth, ReadCookie, Lookup, QueryRoles, CloseRows
      <3>2. q.route = p.route /\ (q.pc = "handle" => q.asOf = now)
        BY <2>1, <3>1, ServedMoves DEF Request
      <3> QED
        BY <3>1, <3>2 DEF Put
    <2>3. CASE Admit(r) \/ Wired(r)
      <3>1. PICK q : /\ Put(r, q)
                     /\ \/ q \in {Answered(p), Handled(p)}
                        \/ \E u : q = [p EXCEPT !.pc = "insert", !.found = u, !.asOf = now]
                        \/ \E t : q = [p EXCEPT !.pc = "touch", !.given = t]
        BY <2>3 DEF Admit, Wired, Me, CheckCredentials, InsertSession, SetCookie, Logout, Answer
      <3>2. q.route = p.route /\ (q.pc = "handle" => q.asOf = now)
        BY <2>1, <3>1 DEF Handled, Answered, Request
      <3> QED
        BY <3>1, <3>2 DEF Put
    <2> QED
      BY <2>2, <2>3 DEF Proceed
  <1>4. PICK t : t = task[r] /\ Work(req[r], t)
    BY DEF ShareInv
  <1>5. Untouched(t)
    <2>1. req[r].pc \notin {"idle", "handle"} \/ At(r, "me") \/ At(r, "login") \/ At(r, "logout")
      BY DEF Proceed, LoadAuth, ReadCookie, Lookup, QueryRoles, CloseRows, Admit, Wired,
             Me, CheckCredentials, InsertSession, SetCookie, Logout
    <2>2. t.step \in {"start", "check", "open", "rows", "unlink", "drop"}
      BY <1>4 DEF Work, Task
    <2> QED
      BY <1>4, <2>1, <2>2 DEF At, Work, InHand, RoutesOf
  <1>6. Work(q, t)
    <2>1. q.route \in Routes
      BY <1>3 DEF ShareInv, IInv, Request
    <2>2. (t.gone /\ q.pc = "handle") => ~AliveAt(t.target, q.asOf)
      BY <1>3, <1>4 DEF Work, Alive
    <2> QED
      BY <1>3, <1>4, <1>5, <2>1, <2>2 DEF Work, GoodAnswer, InHand, Untouched, RoutesOf
  <1>7. Work(q, t)'
    BY <1>2, <1>6, WorkStays DEF ShareInv
  <1>8. task' = [task EXCEPT ![r] = t]
    BY <1>4 DEF shareVars, ShareInv
  <1> QED
    BY <1>1, <1>2, <1>3, <1>7, <1>8, OneTask

\* A request for an item begins.
LEMMA AskShares ==
    ASSUME ShareInv, NEW r \in Requests, Ask(r)
    PROVE  ShareInv'
  <1>1. IInv'
    BY NextInv DEF Ask, Next, ShareInv
  <1>2. GoodItems' /\ ItemsKept
    BY DEF Ask, Begin, ShareInv, GoodItems, ItemsKept, Known, Alive, AliveAt
  <1>3. PICK q : q.pc = "cookie" /\ req' = [req EXCEPT ![r] = q]
    BY DEF Ask, Begin, Put, Fresh
  <1>4. PICK i \in Known \cup {NoItem} : task' = [task EXCEPT ![r] = NewTask(i)]
    BY DEF Ask, Set
  <1>5. Work(q, NewTask(i))
    <2>1. NewTask(i) \in Task
      BY DEF NewTask, Task, Alive, Known
    <2>2. NewTask(i).gone => ~Alive(i)
      BY NoItemIsDead DEF NewTask, ShareInv
    <2> QED
      BY <1>3, <2>1, <2>2 DEF Work, GoodAnswer, NewTask, Untouched
  <1>6. PICK t : t = NewTask(i)
    OBVIOUS
  <1>7. Work(q, t)'
    BY <1>2, <1>5, <1>6, WorkStays DEF ShareInv
  <1> QED
    BY <1>1, <1>2, <1>3, <1>4, <1>6, <1>7, OneTask

\* relay's Save: a row under an id that had none.
LEMMA SaveShares ==
    ASSUME ShareInv, NEW r \in Requests, Save(r)
    PROVE  ShareInv'
  <1>1. IInv'
    BY SessionsKept DEF Save, ShareInv, IInv, GoodRows
  <1>2. PICK q : q = req[r]
    OBVIOUS
  <1>3. q.ctx \in Users /\ q.asOf \in Nat
    <2>1. GoodRequest(q) /\ q.ctx \in Users \cup {NoUser} /\ q.asOf \in 0..MaxTime
      BY <1>2 DEF ShareInv, IInv, GoodRequest, Informed, Request
    <2>2. q.pc = "handle" /\ q.route = "save" /\ q.route \in Routes
      BY <1>2 DEF Save, Start, At, ShareInv, IInv, Request
    <2> QED
      BY <2>1, <2>2 DEF GoodRequest, Protected, Public, ShareInv, IInv, GoodRows
  <1>4. GoodItems' /\ ItemsKept
    <2>1. CASE UNCHANGED <<attr, rows>>
      BY <2>1 DEF Save, sessVars, ShareInv, GoodItems, ItemsKept, Known, Alive, AliveAt
    <2>2. ASSUME NEW i \in Notes \ Known, NEW m \in Modes, NEW d \in Lives,
                 attr' = [attr EXCEPT
                            ![i] = [owner |-> q.ctx, mode |-> m, expires |-> q.asOf + d]],
                 rows' = rows \cup {i}
          PROVE  GoodItems' /\ ItemsKept
      <3>1. i \in Items /\ [owner |-> q.ctx, mode |-> m, expires |-> q.asOf + d] \in Attr
        BY <1>3 DEF Items, Attr
      <3>2. attr' \in [Items -> Attr \cup {NoAttr}] /\ attr'[i] # NoAttr
        BY <1>2, <1>3, <2>2, <3>1, NullsAreNotValues DEF ShareInv, GoodItems, NoAttr
      <3>3. \A k \in Items : k # i => attr'[k] = attr[k]
        BY <2>2 DEF ShareInv, GoodItems
      <3>4. Known' = Known \cup {i}
        BY <2>2, <3>1, <3>2, <3>3 DEF Known
      <3>5. \A k \in Known : k # i /\ k \in Items
        BY <2>2 DEF Known
      <3> QED
        BY <2>2, <3>2, <3>3, <3>4, <3>5
        DEF Save, sessVars, ShareInv, GoodItems, ItemsKept, Alive, AliveAt
    <2> QED
      BY <1>2, <2>1, <2>2 DEF Save
  <1>5. PICK t : t = task[r] /\ Work(q, t)
    BY <1>2 DEF ShareInv
  <1>6. PICK p : p = Answered(q)
    OBVIOUS
  <1>7. Work(p, t)
    BY <1>2, <1>5, <1>6 DEF Answered, Work, GoodAnswer, ShareInv, IInv, Request
  <1>8. Work(p, t)'
    BY <1>4, <1>7, WorkStays DEF ShareInv
  <1>9. req' = [req EXCEPT ![r] = p] /\ task' = [task EXCEPT ![r] = t]
    BY <1>2, <1>5, <1>6 DEF Save, Answer, Put, ShareInv
  <1> QED
    BY <1>1, <1>4, <1>8, <1>9, OneTask

\* The handlers that read: the rows and the files stay, what is shown comes
\* from a row that was there after the request had begun.
LEMMA ReadShares ==
    ASSUME ShareInv, NEW r \in Requests,
           Get(r) \/ CheckViewer(r) \/ OpenForDownload(r) \/ QueryList(r) \/ CloseList(r)
    PROVE  ShareInv'
  <1>1. conn' \in Requests \cup {NoRequest} /\ UNCHANGED <<sessVars, attr, rows, disk>>
    BY DEF Get, CheckViewer, OpenForDownload, QueryList, CloseList, ShareInv, IInv, GoodRows
  <1>2. Answer(r) \/ UNCHANGED req
    BY DEF Get, CheckViewer, OpenForDownload, QueryList, CloseList
  <1>3. IInv'
    BY <1>1, <1>2, SessionsKept DEF ShareInv
  <1>4. GoodItems' /\ ItemsKept
    BY <1>1 DEF sessVars, ShareInv, GoodItems, ItemsKept, Known, Alive, AliveAt
  <1>5. PICK q, t : /\ q = req[r] /\ t = task[r] /\ Work(q, t)
                    /\ q \in Request /\ t \in Task /\ q.pc = "handle" /\ InHand(q, t)
    BY DEF Get, CheckViewer, OpenForDownload, QueryList, CloseList, Start, Resume, At,
       ShareInv, IInv, Work
  <1>6. PICK p : p = Answered(q)
    OBVIOUS
  <1>7. Work(p, t)
    BY <1>5, <1>6 DEF Answered, Work, GoodAnswer, Request
  <1>8. req = [req EXCEPT ![r] = q] /\ task = [task EXCEPT ![r] = t]
    BY <1>5 DEF ShareInv, IInv
  <1>9. Answer(r) => req' = [req EXCEPT ![r] = p]
    BY <1>5, <1>6 DEF Answer, Put
  <1> DEFINE Moved(x, u) ==
         req' = [req EXCEPT ![r] = x] /\ task' = [task EXCEPT ![r] = u] /\ Work(x, u)
  <1>10. ASSUME NEW x, NEW u, Moved(x, u)  PROVE ShareInv'
    <2>1. Work(x, u)'
      BY <1>4, <1>10, WorkStays DEF ShareInv
    <2> QED
      BY <1>3, <1>4, <1>10, <2>1, OneTask
  <1>11. CASE Answer(r) /\ UNCHANGED task
    BY <1>7, <1>8, <1>9, <1>10, <1>11
  <1>12. CASE Get(r)
    <2>1. q.route \in {"view", "download"} /\ Untouched(t)
      BY <1>5, <1>12 DEF Get, Start, At, InHand
    <2>2. CASE AliveAt(t.target, q.asOf) /\ Step(r, "check") /\ UNCHANGED req
      <3>1. t.target \in Known /\ ~t.gone
        BY <1>5, <2>1, <2>2 DEF Work, Untouched, AliveAt, ShareInv, GoodItems
      <3>2. Work(q, [t EXCEPT !.step = "check"])
        BY <1>5, <2>1, <3>1
        DEF Work, GoodAnswer, InHand, Untouched, RoutesOf, Task
      <3> QED
        BY <1>5, <1>8, <1>10, <2>2, <3>2 DEF Step, Set
    <2>3. CASE ~AliveAt(t.target, q.asOf) /\ Set(r, [t EXCEPT !.missing = TRUE]) /\ Answer(r)
      <3>1. ~Alive(t.target)
        <4>1. q.asOf \in Nat /\ now \in Nat /\ q.asOf <= now
          BY <1>5 DEF ShareInv, IInv, GoodRows, GoodRequest, Informed, Request
        <4>2. t.target \in rows => attr[t.target].expires \in Nat
          BY DEF ShareInv, GoodItems, Known, Attr
        <4> QED
          BY <2>3, <4>1, <4>2 DEF Alive, AliveAt
      <3>2. Work(p, [t EXCEPT !.missing = TRUE])
        BY <1>5, <1>6, <1>7, <3>1 DEF Answered, Work, GoodAnswer, Task, Request
      <3> QED
        BY <1>9, <1>10, <2>3, <3>2 DEF Set
    <2> QED
      BY <1>5, <1>11, <1>12, <2>2, <2>3 DEF Get
  <1>13. CASE CheckViewer(r)
    <2>1. /\ t.step = "check" /\ t.target \in Known /\ ~t.gone
          /\ q.route \in {"view", "download"}
      BY <1>5, <1>13 DEF CheckViewer, Resume, InHand, RoutesOf
    <2>2. CASE attr[t.target].mode = "user" /\ q.ctx # attr[t.target].owner
      BY <1>5, <1>11, <1>13, <2>2 DEF CheckViewer
    <2>3. CASE ~(attr[t.target].mode = "user" /\ q.ctx # attr[t.target].owner)
      <3>1. q.route = "download" => Work(q, [t EXCEPT !.step = "open"])
        BY <1>5, <2>1, <2>3 DEF Work, GoodAnswer, InHand, RoutesOf, Task
      <3>2. Work(p, [t EXCEPT !.shown = {t.target}])
        BY <1>5, <1>6, <2>1, <2>3 DEF Answered, Work, GoodAnswer, Task, Request, Known
      <3> QED
        BY <1>5, <1>8, <1>9, <1>10, <1>13, <2>3, <3>1, <3>2 DEF CheckViewer, Step, Set
    <2> QED
      BY <2>2, <2>3
  <1>14. CASE OpenForDownload(r)
    <2>1. /\ t.step = "open" /\ t.target \in Known /\ ~t.gone /\ q.route = "download"
          /\ attr[t.target].mode = "user" => q.ctx = attr[t.target].owner
      BY <1>5, <1>14 DEF OpenForDownload, Resume, InHand, RoutesOf
    <2>2. Work(p, [t EXCEPT !.shown = {t.target} \cap disk])
      BY <1>5, <1>6, <2>1 DEF Answered, Work, GoodAnswer, Task, Request, Known
    <2> QED
      BY <1>5, <1>9, <1>10, <1>14, <2>2 DEF OpenForDownload, Set
  <1>15. CASE QueryList(r)
    <2>1. Untouched(t) /\ q.route = "panel"
      BY <1>5, <1>15 DEF QueryList, Start, At, InHand
    <2>2. ASSUME NEW S \in {Notes, Files}
          PROVE  Work(q, [t EXCEPT !.step = "rows", !.shown = Own(q.ctx, S, q.asOf)])
      <3>1. Own(q.ctx, S, q.asOf) \subseteq Known /\ Own(q.ctx, S, q.asOf) \subseteq Items
        BY DEF Own, AliveAt, ShareInv, GoodItems, Known
      <3>2. \A i \in Own(q.ctx, S, q.asOf) : attr[i].owner = q.ctx /\ AliveAt(i, q.asOf)
        BY DEF Own
      <3> QED
        BY <1>5, <2>1, <3>1, <3>2
        DEF Work, GoodAnswer, InHand, Untouched, RoutesOf, Task
    <2> QED
      BY <1>5, <1>8, <1>10, <1>11, <1>15, <2>2 DEF QueryList, Set
  <1>16. CASE CloseList(r)
    <2>1. Work(p, [t EXCEPT !.shown = {}])
      BY <1>5, <1>6, <1>7 DEF Answered, Work, GoodAnswer, Task, Request
    <2> QED
      BY <1>5, <1>9, <1>10, <1>11, <1>16, <2>1 DEF CloseList, Set
  <1> QED
    BY <1>12, <1>13, <1>14, <1>15, <1>16

\* The handler that deletes, of a row it has seen to be the user's.
LEMMA DeleteShares ==
    ASSUME ShareInv, NEW r \in Requests, AskDelete(r) \/ Unlink(r) \/ DropRow(r)
    PROVE  ShareInv'
  <1>1. UNCHANGED <<sessVars, conn, attr>> /\ conn \in Requests \cup {NoRequest}
    BY DEF AskDelete, Unlink, DropRow, ShareInv, IInv, GoodRows
  <1>2. Answer(r) \/ UNCHANGED req
    BY DEF AskDelete, Unlink, DropRow
  <1>3. IInv'
    BY <1>1, <1>2, SessionsKept DEF ShareInv
  <1>4. GoodItems' /\ ItemsKept
    <2>1. rows' \subseteq rows /\ disk' \subseteq disk
      BY DEF AskDelete, Unlink, DropRow
    <2> QED
      BY <1>1, <2>1 DEF sessVars, ShareInv, GoodItems, ItemsKept, Known, Alive, AliveAt
  <1>5. PICK q, t : /\ q = req[r] /\ t = task[r] /\ Work(q, t)
                    /\ q \in Request /\ t \in Task /\ q.pc = "handle" /\ InHand(q, t)
    BY DEF AskDelete, Unlink, DropRow, Start, Resume, At, ShareInv, IInv, Work
  <1>6. PICK p : p = Answered(q)
    OBVIOUS
  <1>7. Work(p, t)
    BY <1>5, <1>6 DEF Answered, Work, GoodAnswer, Request
  <1>8. req = [req EXCEPT ![r] = q] /\ task = [task EXCEPT ![r] = t]
    BY <1>5 DEF ShareInv, IInv
  <1>9. Answer(r) => req' = [req EXCEPT ![r] = p]
    BY <1>5, <1>6 DEF Answer, Put
  <1> DEFINE Moved(x, u) ==
         req' = [req EXCEPT ![r] = x] /\ task' = [task EXCEPT ![r] = u] /\ Work(x, u)
  <1>10. ASSUME NEW x, NEW u, Moved(x, u)  PROVE ShareInv'
    <2>1. Work(x, u)'
      BY <1>4, <1>10, WorkStays DEF ShareInv
    <2> QED
      BY <1>3, <1>4, <1>10, <2>1, OneTask
  <1>11. CASE Answer(r) /\ UNCHANGED task
    BY <1>7, <1>8, <1>9, <1>10, <1>11
  <1>12. CASE AskDelete(r)
    <2>1. Untouched(t) /\ q.route = "delete"
      BY <1>5, <1>12 DEF AskDelete, Start, At, InHand
    <2>2. (t.target \in rows /\ attr[t.target].owner = q.ctx)
             => Work(q, [t EXCEPT !.step = "unlink"])
      BY <1>5, <2>1 DEF Work, GoodAnswer, InHand, Untouched, RoutesOf, Task, ShareInv, GoodItems
    <2> QED
      BY <1>5, <1>8, <1>10, <1>11, <1>12, <2>2 DEF AskDelete, Step, Set
  <1>13. CASE Unlink(r)
    <2>1. Work(q, [t EXCEPT !.step = "drop"])
      BY <1>5, <1>13 DEF Unlink, Resume, Work, GoodAnswer, InHand, RoutesOf, Task
    <2> QED
      BY <1>5, <1>8, <1>10, <1>13, <2>1 DEF Unlink, Step, Set
  <1>14. CASE DropRow(r)
    BY <1>11, <1>14 DEF DropRow
  <1> QED
    BY <1>12, <1>13, <1>14

\* The clock and the jobs.
LEMMA OthersShare ==
    ASSUME ShareInv, (Tick /\ UNCHANGED shareVars) \/ SweepNotes \/ SweepFile
    PROVE  ShareInv'
  <1>1. CASE Tick /\ UNCHANGED shareVars
    <2>1. IInv'
      BY <1>1, TickInv DEF ShareInv
    <2>2. GoodItems' /\ ItemsKept
      <3>1. \A i \in Known : attr[i].expires \in Nat /\ now \in Nat /\ now' = now + 1
        BY <1>1 DEF Tick, ShareInv, GoodItems, Known, Attr, IInv, GoodRows
      <3> QED
        BY <1>1, <3>1 DEF shareVars, ShareInv, GoodItems, ItemsKept, Known, Alive, AliveAt
    <2> QED
      BY <1>1, <2>1, <2>2, NoTask DEF Tick, shareVars
  <1>2. CASE SweepNotes \/ SweepFile
    <2>1. /\ UNCHANGED <<sessVars, conn, req, attr, task>>
          /\ rows' \subseteq rows /\ disk' \subseteq disk
      BY <1>2 DEF SweepNotes, SweepFile
    <2>2. IInv'
      BY <2>1 DEF ShareInv, IInv, sessVars, rowVars, GoodRows, GoodRequest, Informed,
                  Admissible, Owned, Valid, ValidAt
    <2>3. GoodItems' /\ ItemsKept
      BY <2>1 DEF sessVars, ShareInv, GoodItems, ItemsKept, Known, Alive, AliveAt
    <2> QED
      BY <2>1, <2>2, <2>3, NoTask
  <1> QED
    BY <1>1, <1>2

\* The initial states satisfy the invariant.
LEMMA ShareInitInv == ShareInit => ShareInv
  <1> SUFFICES ASSUME ShareInit  PROVE ShareInv
    OBVIOUS
  <1>1. IInv
    BY InitInv DEF ShareInit
  <1>2. GoodItems
    BY DEF ShareInit, GoodItems, Attr, Known
  <1>3. NewTask(NoItem) \in Task
    BY DEF NewTask, Task
  <1>4. \A r \in Requests : Work(req[r], task[r])
    <2>1. \A r \in Requests : task[r] = NewTask(NoItem) /\ req[r].pc = "idle"
      <3>1. PICK x \in Routes : req = [r \in Requests |-> Answered(Fresh(x, NoToken))]
        BY DEF ShareInit, Init
      <3>2. Answered(Fresh(x, NoToken)).pc = "idle"
        BY DEF Answered, Fresh
      <3> QED
        BY <3>1, <3>2 DEF ShareInit
    <2>2. ASSUME NEW q, q.pc = "idle"  PROVE Work(q, NewTask(NoItem))
      <3>1. /\ NewTask(NoItem).target = NoItem /\ NewTask(NoItem).shown = {}
            /\ ~Alive(NoItem)
        BY <1>2, NoItemIsDead DEF NewTask
      <3> QED
        BY <1>3, <2>2, <3>1 DEF Work, GoodAnswer
    <2> QED
      BY <2>1, <2>2
  <1> QED
    BY <1>1, <1>2, <1>3, <1>4 DEF ShareInv, ShareInit

\* Every step keeps the invariant.
LEMMA ShareNextInv ==
    ASSUME ShareInv, [ShareNext]_allVars
    PROVE  ShareInv'
  <1>1. CASE UNCHANGED allVars
    <2>1. IInv'
      BY <1>1, NextInv DEF ShareInv, allVars
    <2>2. GoodItems' /\ ItemsKept /\ UNCHANGED <<req, task>>
      BY <1>1 DEF allVars, vars, shareVars, ShareInv, GoodItems, ItemsKept, Known, Alive, AliveAt
    <2> QED
      BY <2>1, <2>2, NoTask
  <1>2. CASE ShareNext
    BY <1>2, OthersShare, AskShares, ProceedShares, SaveShares, ReadShares, DeleteShares
    DEF ShareNext, ShareProceed, Handle
  <1> QED
    BY <1>1, <1>2

\* The inductive invariant holds in every reachable state.
THEOREM ShareInvariant == ShareSpec => []ShareInv
  BY ShareInitInv, ShareNextInv, PTL DEF ShareSpec

\* A request with a user in its context presents a token of that user, whose
\* session had not ended when it began.
LEMMA ContextOwns ==
    ASSUME ShareInv, NEW r \in Requests, NEW i \in Known, req[r].ctx = attr[i].owner
    PROVE  ~req[r].over /\ owner[req[r].cookie] = attr[i].owner
  <1>1. attr[i].owner \in Users
    BY DEF ShareInv, GoodItems, Known, Attr
  <1>2. Owned(req[r], req[r].ctx)
    BY <1>1, NullsAreNotValues DEF ShareInv, IInv, GoodRequest, Informed
  <1> QED
    BY <1>2 DEF Owned

\* Private notes and files, and lists, are shown to their owners only, whose
\* sessions were valid when they asked.
THEOREM Private == ShareSpec => []PrivateKept
  <1>1. ShareInv => PrivateKept
    BY ContextOwns DEF ShareInv, Work, GoodAnswer, PrivateKept
  <1> QED
    BY ShareInvariant, <1>1, PTL

\* What was gone when a request began is not in its answer, and what a reader
\* was told is missing does not come back.
THEOREM Right == ShareSpec => []AnswersRight
  <1>1. ShareInv => AnswersRight
    BY DEF ShareInv, Work, GoodAnswer, AnswersRight, GoneNotShown, MissingIsFinal
  <1> QED
    BY ShareInvariant, <1>1, PTL

\* Owners, expiry and nothing else remove rows, whichever of the delete, the
\* jobs and the failures come between each other's statements.
THEOREM Removed == ShareSpec => RemovedForCause
  <1> DEFINE Cause(i) ==
         \/ attr[i].expires <= now
         \/ \E r \in Requests :
               /\ req[r].route = "delete" /\ task[r].target = i
               /\ ~req[r].over /\ owner[req[r].cookie] = attr[i].owner
  <1>1. ASSUME ShareInv, ShareNext, NEW i \in rows \ rows'  PROVE Cause(i)
    <2>1. attr[i].expires \in Nat /\ now \in Nat /\ i \in Known
      BY <1>1 DEF ShareInv, GoodItems, Known, Attr, IInv, GoodRows
    <2>2. CASE SweepNotes
      BY <1>1, <2>1, <2>2 DEF SweepNotes
    <2>3. CASE SweepFile
      BY <1>1, <2>3 DEF SweepFile
    <2>4. ASSUME NEW r \in Requests, DropRow(r)  PROVE Cause(i)
      <3>1. i = task[r].target /\ req[r].pc = "handle" /\ task[r].step = "drop"
        BY <1>1, <2>4 DEF DropRow, Resume
      <3>2. req[r].route = "delete" /\ req[r].ctx = attr[i].owner
        BY <1>1, <3>1 DEF ShareInv, Work, InHand, RoutesOf
      <3> QED
        BY <1>1, <2>1, <3>1, <3>2, ContextOwns
    <2>5. ASSUME NEW r \in Requests, Ask(r) \/ ShareProceed(r)  PROVE Cause(i)
      BY <1>1, <2>4, <2>5 DEF Ask, ShareProceed, shareVars, Handle, Save, Get, CheckViewer,
         OpenForDownload, QueryList, CloseList, AskDelete, Unlink
    <2> QED
      BY <1>1, <2>2, <2>3, <2>5 DEF ShareNext, shareVars
  <1>2. ShareInv /\ [ShareNext]_allVars => [\A i \in rows \ rows' : Cause(i)]_allVars
    BY <1>1
  <1> QED
    BY ShareInvariant, <1>2, PTL DEF ShareSpec, RemovedForCause
=============================================================================
