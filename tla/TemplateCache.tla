--------------------------- MODULE TemplateCache ----------------------------
(***************************************************************************)
(* The page templates of the server.  Requests resolve their page at the    *)
(* same time: a look under the read lock, a second one under the write      *)
(* lock, and only then a parse of the page into a clone of the base set.    *)
(* A Go map that is read while it is written ends the process.              *)
(*                                                                         *)
(* sync.RWMutex is modelled from its use: a writer that waits keeps new     *)
(* readers out, and gets in when the readers before it are gone.            *)
(***************************************************************************)
EXTENDS Naturals, FiniteSets

CONSTANTS Visitors, NoVisitor, Pages,
          MaxBuilds   \* bound: template sets built

ASSUME NoVisitorOK == NoVisitor \notin Visitors
ASSUME MaxBuildsOK == MaxBuilds \in Nat

VARIABLES
    isDevelopment,  \* does every request parse its page anew?
    pageCache,      \* the template set cached for a page, 0: none
    readers,        \* the requests that hold the read lock
    waiting,        \* the request that waits for the write lock
    writing,        \* the request that holds the write lock
    where, page,
    got,            \* the template set resolve returned, 0: an error
    builds          \* template sets built so far, each with a number of its own

cacheVars == <<isDevelopment, pageCache, readers, waiting, writing, where, page, got, builds>>

Places == {"idle", "resolve", "look", "runlock", "lock", "wait", "recheck", "build", "store"}

CacheInit ==
    /\ isDevelopment \in BOOLEAN
    /\ pageCache = [f \in Pages |-> 0]
    /\ readers = {} /\ waiting = NoVisitor /\ writing = NoVisitor
    /\ where = [r \in Visitors |-> "idle"]
    /\ page \in [Visitors -> Pages]
    /\ got = [r \in Visitors |-> 0]
    /\ builds = 0

MoveTo(r, label) == where' = [where EXCEPT ![r] = label]
ReturnSet(r, t) == MoveTo(r, "idle") /\ got' = [got EXCEPT ![r] = t]

Render(r) ==
    /\ where[r] = "idle"
    /\ \E f \in Pages : page' = [page EXCEPT ![r] = f]
    /\ got' = [got EXCEPT ![r] = 0]
    /\ MoveTo(r, "resolve")
    /\ UNCHANGED <<isDevelopment, pageCache, readers, waiting, writing, builds>>

\* In development the page is parsed with its layouts at every request.
ResolveFresh(r) ==
    /\ where[r] = "resolve" /\ isDevelopment
    /\ \/ builds < MaxBuilds /\ builds' = builds + 1 /\ ReturnSet(r, builds')
       \/ ReturnSet(r, 0) /\ UNCHANGED builds
    /\ UNCHANGED <<isDevelopment, pageCache, readers, waiting, writing, page>>

BugRLockBarges(r) ==
    /\ where[r] = "resolve" /\ ~isDevelopment
    /\ readers' = readers \cup {r}
    /\ MoveTo(r, "look")
    /\ UNCHANGED <<isDevelopment, pageCache, waiting, writing, page, got, builds>>
RLock(r) ==
    /\ where[r] = "resolve" /\ ~isDevelopment
    /\ writing = NoVisitor /\ waiting = NoVisitor
    /\ readers' = readers \cup {r}
    /\ MoveTo(r, "look")
    /\ UNCHANGED <<isDevelopment, pageCache, waiting, writing, page, got, builds>>

Look(r) ==
    /\ where[r] = "look"
    /\ got' = [got EXCEPT ![r] = pageCache[page[r]]]
    /\ MoveTo(r, "runlock")
    /\ UNCHANGED <<isDevelopment, pageCache, readers, waiting, writing, page, builds>>

RUnlock(r) ==
    /\ where[r] = "runlock"
    /\ readers' = readers \ {r}
    /\ MoveTo(r, IF got[r] # 0 THEN "idle" ELSE "lock")
    /\ UNCHANGED <<isDevelopment, pageCache, waiting, writing, page, got, builds>>

\* Lock: one writer at a time announces itself, then waits for the readers.
Announce(r) ==
    /\ where[r] = "lock" /\ waiting = NoVisitor /\ writing = NoVisitor
    /\ waiting' = r
    /\ MoveTo(r, "wait")
    /\ UNCHANGED <<isDevelopment, pageCache, readers, writing, page, got, builds>>
Lock(r) ==
    /\ where[r] = "wait" /\ waiting = r /\ readers = {}
    /\ writing' = r /\ waiting' = NoVisitor
    /\ MoveTo(r, "recheck")
    /\ UNCHANGED <<isDevelopment, pageCache, readers, page, got, builds>>

\* The second look: another request may have stored the page since the first.
Recheck(r) ==
    /\ where[r] = "recheck"
    /\ IF pageCache[page[r]] # 0
       THEN ReturnSet(r, pageCache[page[r]]) /\ writing' = NoVisitor
       ELSE MoveTo(r, "build") /\ UNCHANGED <<writing, got>>
    /\ UNCHANGED <<isDevelopment, pageCache, readers, waiting, page, builds>>

\* build clones the base set and parses the page; the deferred Unlock also runs
\* when that fails.
Build(r) ==
    /\ where[r] = "build"
    /\ \/ /\ builds < MaxBuilds
          /\ builds' = builds + 1
          /\ got' = [got EXCEPT ![r] = builds']
          /\ MoveTo(r, "store")
          /\ UNCHANGED writing
       \/ ReturnSet(r, 0) /\ writing' = NoVisitor /\ UNCHANGED builds
    /\ UNCHANGED <<isDevelopment, pageCache, readers, waiting, page>>

Store(r) ==
    /\ where[r] = "store"
    /\ pageCache' = [pageCache EXCEPT ![page[r]] = got[r]]
    /\ writing' = NoVisitor
    /\ MoveTo(r, "idle")
    /\ UNCHANGED <<isDevelopment, readers, waiting, page, got, builds>>

Resolve(r) == ResolveFresh(r) \/ RLock(r) \/ Look(r) \/ RUnlock(r) \/ Announce(r)
              \/ Lock(r) \/ Recheck(r) \/ Build(r) \/ Store(r)

CacheNext == \E r \in Visitors : Render(r) \/ Resolve(r)

CacheSpec == CacheInit /\ [][CacheNext]_cacheVars

-----------------------------------------------------------------------------

\* The types, and the shape of the lock.
CacheTypeOK ==
    /\ isDevelopment \in BOOLEAN
    /\ pageCache \in [Pages -> 0..MaxBuilds] /\ builds \in 0..MaxBuilds
    /\ got \in [Visitors -> 0..MaxBuilds] /\ page \in [Visitors -> Pages]
    /\ where \in [Visitors -> Places]
    /\ readers = {r \in Visitors : where[r] \in {"look", "runlock"}}
    /\ writing \in Visitors \cup {NoVisitor} /\ waiting \in Visitors \cup {NoVisitor}

\* Nobody reads the map while another is about to write it, which would end
\* the process.
MapNotShared ==
    \A r, s \in Visitors :
        where[r] = "store" /\ where[s] \in {"look", "recheck", "store"} => r = s

\* What requests got for the same page of a production server is the same
\* template set, and it is the one that stays in the cache.
OneSetPerPage ==
    isDevelopment \/ \A r \in Visitors :
        (where[r] = "idle" /\ got[r] # 0) => got[r] = pageCache[page[r]]

\* resolve looks twice, under two locks it takes one after the other, and may
\* fail to parse in between: the cache is never torn and never replaced.
CacheSound == MapNotShared /\ OneSetPerPage

\* Every request gets its template or an error, also after a parse has failed.
EveryRequestResolved == \A r \in Visitors : where[r] # "idle" ~> where[r] = "idle"
=============================================================================
