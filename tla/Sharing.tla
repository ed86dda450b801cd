------------------------------ MODULE Sharing -------------------------------
(***************************************************************************)
(* What users share: relay notes and kipple files, each readable by anyone  *)
(* who has its link or only by its owner (private_mode, visibility), until  *)
(* it expires, is deleted or swept by a job.  The requests are those of     *)
(* Sessions; this module adds what their handlers do.  How a kipple file    *)
(* comes to be, byte by byte, is KippleStore's; here it exists from the     *)
(* start.                                                                   *)
(***************************************************************************)
EXTENDS Sessions

CONSTANTS Notes, Files,  \* ids of rows in relays and in kipple_files
          NoItem,        \* an id that no row ever has
          Lives          \* how many ticks a note may live (1, 7 or 30 days)

Items == Notes \cup Files
ASSUME ItemsDiffer == Notes \cap Files = {} /\ NoItem \notin Items
ASSUME LivesOK == Lives \subseteq Nat

VARIABLES
    attr,   \* what the row of an item says; rows are never rewritten
    rows,   \* the items that have a row
    disk,   \* the files that are on disk
    task    \* what the handler of a request works on

shareVars == <<attr, rows, disk, task>>
sessVars == <<now, rowVars, issued, left>>
allVars == <<vars, shareVars>>

Modes == {"link", "user"}
NoAttr == [owner |-> NoUser, mode |-> "link", expires |-> 0]
Attr == [owner : Users, mode : Modes, expires : Nat]
Task == [
    target : Items \cup {NoItem},   \* the id in the path
    step : {"start", "check", "open", "rows", "unlink", "drop"},
    shown : SUBSET Items,           \* what the answer contains
    missing : BOOLEAN,              \* redirected since there is no such item
    gone : BOOLEAN]                 \* history: not to be had at the start

Known == {i \in Items : attr[i] # NoAttr}
AliveAt(i, time) == i \in rows /\ attr[i].expires > time
Alive(i) == AliveAt(i, now)

NewTask(i) == [target |-> i, step |-> "start", shown |-> {}, missing |-> FALSE,
               gone |-> i = NoItem \/ ~Alive(i)]

ShareInit ==
    /\ Init
    /\ attr \in [Items -> {NoAttr} \cup [owner : Users, mode : Modes, expires : 1..MaxTime]]
    /\ Known \subseteq Files
    /\ rows = Known /\ disk = Known
    /\ task = [r \in Requests |-> NewTask(NoItem)]

Set(r, t) == task' = [task EXCEPT ![r] = t]
Step(r, s) == Set(r, [task[r] EXCEPT !.step = s])

Ask(r) ==
    /\ Begin(r)
    /\ \E i \in Known \cup {NoItem} : Set(r, NewTask(i))
    /\ UNCHANGED <<attr, rows, disk>>

Start(r, x) == At(r, x) /\ task[r].step = "start" /\ conn = NoRequest
Resume(r, s) == req[r].pc = "handle" /\ task[r].step = s

-----------------------------------------------------------------------------

\* relay: Save takes the mode and the lifetime of the form, anything else
\* becomes link and one day, and inserts the row under a fresh id.
BugSaveNoOwner(r) ==
    /\ Start(r, "save")
    /\ \E i \in Notes \ Known, d \in Lives :
          /\ attr' = [attr EXCEPT
                        ![i] = [owner |-> NoUser, mode |-> "user",
                                   expires |-> req[r].asOf + d]]
          /\ rows' = rows \cup {i}
    /\ Answer(r)
    /\ UNCHANGED <<sessVars, conn, disk, task>>
Save(r) ==
    /\ Start(r, "save")
    /\ \/ \E i \in Notes \ Known, m \in Modes, d \in Lives :
             /\ attr' = [attr EXCEPT
                           ![i] = [owner |-> req[r].ctx, mode |-> m,
                                   expires |-> req[r].asOf + d]]
             /\ rows' = rows \cup {i}
       \/ /\ Faults \/ Notes \subseteq Known
          /\ UNCHANGED <<attr, rows>>
    /\ Answer(r)
    /\ UNCHANGED <<sessVars, conn, disk, task>>

\* relay Get, kipple GetInfo and Get: the row, if it had not expired when the
\* time was read, an argument of the statement that then waits.
BugGetAtOnce(r) ==
    /\ Start(r, "view") \/ Start(r, "download")
    /\ IF AliveAt(task[r].target, req[r].asOf + 1)
       THEN Step(r, "check") /\ UNCHANGED req
       ELSE Set(r, [task[r] EXCEPT !.missing = TRUE]) /\ Answer(r)
    /\ UNCHANGED <<sessVars, conn, attr, rows, disk>>
Get(r) ==
    /\ Start(r, "view") \/ Start(r, "download")
    /\ \/ AliveAt(task[r].target, req[r].asOf) /\ Step(r, "check") /\ UNCHANGED req
       \/ /\ ~AliveAt(task[r].target, req[r].asOf)
          /\ Set(r, [task[r] EXCEPT !.missing = TRUE])
          /\ Answer(r)
       \/ Faults /\ Answer(r) /\ UNCHANGED task
    /\ UNCHANGED <<sessVars, conn, attr, rows, disk>>

\* View and Download compare the viewer with the owner of a private item; a
\* page is rendered from the row as it was read, a download opens the file.
BugAnonymous(r) ==
    /\ Resume(r, "check")
    /\ IF /\ attr[task[r].target].mode = "user"
          /\ req[r].ctx \notin {NoUser, attr[task[r].target].owner}
       THEN Answer(r) /\ UNCHANGED task
       ELSE IF req[r].route = "download" THEN Step(r, "open") /\ UNCHANGED req
       ELSE Set(r, [task[r] EXCEPT !.shown = {task[r].target}]) /\ Answer(r)
    /\ UNCHANGED <<sessVars, conn, attr, rows, disk>>
CheckViewer(r) ==
    /\ Resume(r, "check")
    /\ LET a == attr[task[r].target] IN
       IF a.mode = "user" /\ req[r].ctx # a.owner
       THEN Answer(r) /\ UNCHANGED task
       ELSE IF req[r].route = "download" THEN Step(r, "open") /\ UNCHANGED req
       ELSE Set(r, [task[r] EXCEPT !.shown = {task[r].target}]) /\ Answer(r)
    /\ UNCHANGED <<sessVars, conn, attr, rows, disk>>

\* Download: once open the file is served to its end, removed or not.
OpenForDownload(r) ==
    /\ Resume(r, "open")
    /\ Set(r, [task[r] EXCEPT !.shown = {task[r].target} \cap disk])
    /\ Answer(r)
    /\ UNCHANGED <<sessVars, conn, attr, rows, disk>>

\* relay Panel and kipple List: the rows of the user, read with the connection
\* held until rows.Close runs on every way out.
Own(u, S, time) == {i \in S : AliveAt(i, time) /\ attr[i].owner = u}
QueryList(r) ==
    /\ Start(r, "panel")
    /\ \/ /\ \E S \in {Notes, Files} :
                Set(r, [task[r] EXCEPT !.step = "rows",
                                       !.shown = Own(req[r].ctx, S, req[r].asOf)])
          /\ conn' = r
          /\ UNCHANGED req
       \/ Faults /\ Answer(r) /\ UNCHANGED <<conn, task>>
    /\ UNCHANGED <<sessVars, attr, rows, disk>>
CloseList(r) ==
    /\ Resume(r, "rows")
    /\ conn' = NoRequest
    /\ \/ UNCHANGED task
       \/ Faults /\ Set(r, [task[r] EXCEPT !.shown = {}])
    /\ Answer(r)
    /\ UNCHANGED <<sessVars, attr, rows, disk>>

\* kipple DeleteFile: the row tells the owner; the file goes, then the row.
BugDeleteAny(r) ==
    /\ Start(r, "delete")
    /\ IF task[r].target \in rows \cap Files
       THEN Step(r, "unlink") /\ UNCHANGED req
       ELSE Answer(r) /\ UNCHANGED task
    /\ UNCHANGED <<sessVars, conn, attr, rows, disk>>
AskDelete(r) ==
    /\ Start(r, "delete")
    /\ LET i == task[r].target
           mine == i \in rows \cap Files /\ attr[i].owner = req[r].ctx
       IN \/ mine /\ Step(r, "unlink") /\ UNCHANGED req
          \/ (~mine \/ Faults) /\ Answer(r) /\ UNCHANGED task
    /\ UNCHANGED <<sessVars, conn, attr, rows, disk>>
Unlink(r) ==
    /\ Resume(r, "unlink")
    /\ disk' = disk \ {task[r].target}
    /\ Step(r, "drop")
    /\ UNCHANGED <<sessVars, conn, req, attr, rows>>
DropRow(r) ==
    /\ Resume(r, "drop") /\ conn = NoRequest
    /\ rows' = rows \ {task[r].target} \/ (Faults /\ UNCHANGED rows)
    /\ Answer(r)
    /\ UNCHANGED <<sessVars, conn, attr, disk, task>>

Handle(r) == Save(r) \/ Get(r) \/ CheckViewer(r) \/ OpenForDownload(r)
             \/ QueryList(r) \/ CloseList(r) \/ AskDelete(r) \/ Unlink(r) \/ DropRow(r)

-----------------------------------------------------------------------------

\* The relay job: one DELETE of everything that had expired when it began to
\* wait.
SweepNotes ==
    /\ conn = NoRequest
    /\ \E time \in 0..now :
          rows' = {i \in rows : i \in Notes => attr[i].expires > time}
    /\ UNCHANGED <<sessVars, conn, req, attr, disk, task>>

\* The kipple job deletes the row of an expired file, then the file.
SweepFile ==
    \E i \in Files :
       /\ attr[i].expires <= now
       /\ \/ i \in rows /\ conn = NoRequest /\ rows' = rows \ {i} /\ UNCHANGED disk
          \/ i \in disk \ rows /\ disk' = disk \ {i} /\ UNCHANGED rows
       /\ UNCHANGED <<sessVars, conn, req, attr, task>>

ShareProceed(r) == (Proceed(r) /\ UNCHANGED shareVars) \/ Handle(r)

ShareNext ==
    \/ Tick /\ UNCHANGED shareVars
    \/ SweepNotes \/ SweepFile
    \/ \E r \in Requests : Ask(r) \/ ShareProceed(r)

ShareSpec == ShareInit /\ [][ShareNext]_allVars

-----------------------------------------------------------------------------

ShareTypeOK ==
    /\ TypeOK
    /\ attr \in [Items -> Attr \cup {NoAttr}]
    /\ rows \subseteq Known /\ disk \subseteq Files
    /\ task \in [Requests -> Task]

\* A private note or file, and a list, is only ever shown to a request whose
\* cookie belongs to the owner and whose session was valid when it began.
PrivateKept ==
    \A r \in Requests : \A i \in task[r].shown :
        (attr[i].mode = "user" \/ req[r].route = "panel")
          => ~req[r].over /\ owner[req[r].cookie] = attr[i].owner

\* What had expired or been deleted when a request began is not in its answer.
GoneNotShown == \A r \in Requests : task[r].gone => task[r].target \notin task[r].shown

\* What a request with its link was told does not exist is never to be had
\* again: nobody misses a live note or file.
MissingIsFinal == \A r \in Requests : task[r].missing => ~Alive(task[r].target)

\* The statements that read (expires_at > ?) and the checks after them agree on
\* what is still there, whatever is deleted and swept in between.
AnswersRight == GoneNotShown /\ MissingIsFinal

\* A row leaves the database only after its expiry, or by a delete request
\* whose cookie is the owner's and was valid when it began.
RemovedForCause ==
    [][\A i \in rows \ rows' :
          \/ attr[i].expires <= now
          \/ \E r \in Requests :
                /\ req[r].route = "delete" /\ task[r].target = i
                /\ ~req[r].over /\ owner[req[r].cookie] = attr[i].owner]_allVars
=============================================================================
