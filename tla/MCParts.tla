------------------------------ MODULE MCParts -------------------------------
(***************************************************************************)
(* The smaller parts for TLC.  They share no state, so a behaviour of one   *)
(* at a time is enough: it is chosen at the start, the others stand still,  *)
(* and their fairness asks nothing of them.                                 *)
(***************************************************************************)
EXTENDS Sessions, Migrations, TemplateCache, JobScheduler, LogFiles,
        RelayEditor, Notifications

VARIABLE part

Parts == {"requests", "migrations", "templates", "jobs", "logs", "editor", "toasts"}
On(x) == part = x

\* Servers in UTC, west and east of it.
MCZones == {-1, 0, 1}

\* One of the texts has a byte order mark.
MCDecoded == [t \in Texts |-> IF t = "~a" THEN "a" ELSE t]

MCInit ==
    /\ part \in Parts
    /\ Init /\ MigrationsInit /\ CacheInit /\ SchedulerInit /\ LogsInit
    /\ EditorInit /\ ToastsInit
    /\ ~On("requests") => (\A t \in Tokens : sessions[t] = NoSession) /\ \A r \in Requests : req[r].route = "me"
    /\ ~On("migrations") => \A p \in Procs : build[p] = 2
    /\ ~On("templates") => ~isDevelopment /\ \A v \in Visitors : page[v] = "home"
    /\ ~On("logs") => zone = 0
    /\ ~On("editor") => data = Empty

Still(x, v) == IF On(x) THEN TRUE ELSE UNCHANGED v
OthersStill ==
    /\ UNCHANGED part
    /\ Still("requests", vars) /\ Still("migrations", migrationVars)
    /\ Still("templates", cacheVars) /\ Still("jobs", schedulerVars)
    /\ Still("logs", logVars) /\ Still("editor", editorVars) /\ Still("toasts", toastVars)

MCNext ==
    /\ \/ On("requests") /\ Next
       \/ On("migrations") /\ MigrationsNext
       \/ On("templates") /\ CacheNext
       \/ On("jobs") /\ SchedulerNext
       \/ On("logs") /\ LogsNext
       \/ On("editor") /\ EditorNext
       \/ On("toasts") /\ ToastsNext
    /\ OthersStill

all == <<part, vars, migrationVars, cacheVars, schedulerVars, logVars, editorVars,
         toastVars>>

-----------------------------------------------------------------------------
\* As one part moves, one condition stands for an actor of each of them; the
\* actors are numbers.

\* A goroutine that can go on does, though others take the connection or the
\* lock first: both are handed to everyone who waits.  Nor does select, which
\* chooses at random, pass over the same case for ever.
Goroutine(k) == \/ On("requests") /\ Proceed(k)
                \/ On("templates") /\ Resolve(k)
                \/ On("jobs") /\ SeeDone(k)

\* A process that runs goes on, and one that ended is started again.  A job
\* ends, its ticker fires and is looked at.  Timers fire, transitions end.
Advances(k) == \/ On("migrations") /\ k \in Procs /\ Advance(k)
               \/ On("jobs") /\ k \in Jobs /\ (RunEnds(k) \/ TakeTick(k))
               \/ On("toasts") /\ TimerFires(k)
Ends(k) == \/ On("jobs") /\ k \in Jobs /\ TickerFires(k)
           \/ On("toasts") /\ removeElement(k)

MCSpec ==
    /\ MCInit /\ [][MCNext]_all
    /\ \A k \in Requests : SF_all(Goroutine(k) /\ OthersStill)
    /\ \A k \in 1..MaxToasts : /\ WF_all(Advances(k) /\ OthersStill)
                            /\ WF_all(Ends(k) /\ OthersStill)

-----------------------------------------------------------------------------

\* The types of all parts, with the shapes of their locks, tickers and toasts.
PartTypes ==
    /\ TypeOK /\ MigrationsTypeOK /\ CacheTypeOK /\ SchedulerTypeOK
    /\ LogsTypeOK /\ EditorTypeOK /\ ToastsTypeOK

\* Nobody waits for ever: no request for the connection of the database, which
\* LoadAuth keeps between two statements, none for the lock of the templates,
\* under which a parse may fail, and no process for a schema that it can serve,
\* though another takes the write lock from it.
NobodyStuck == EveryRequestAnswered /\ EveryRequestResolved /\ EveryProcessServes
=============================================================================
