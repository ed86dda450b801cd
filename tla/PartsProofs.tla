----------------------------- MODULE PartsProofs -----------------------------
(***************************************************************************)
(* The smaller parts, for any values of their constants: the template cache *)
(* has one set per page, logs are kept for their time, the link of a note   *)
(* is that of its text, toasts keep their number down, and what is proved   *)
(* of each part holds in the run that has them all.                         *)
(***************************************************************************)
EXTENDS MCParts, SessionsProofs, MigrationsProofs,
        FiniteSetTheorems, WellFoundedInduction, TLAPS

-----------------------------------------------------------------------------
\* The template cache.

\* The lock excludes: who is between Lock and Unlock has it, nobody reads then,
\* and nobody waits for it who has announced itself.
LockInv ==
    /\ \A r \in Visitors : writing = r <=> where[r] \in {"recheck", "build", "store"}
    /\ \A r \in Visitors : waiting = r <=> where[r] = "wait"
    /\ writing # NoVisitor => readers = {} /\ waiting = NoVisitor

\* What was found is what the cache has, whether or not it has been returned
\* yet, and a page is built only while the cache has none.
SetsInv ==
    /\ isDevelopment \/ \A r \in Visitors :
          (where[r] \in {"idle", "runlock"} /\ got[r] # 0) => got[r] = pageCache[page[r]]
    /\ \A r \in Visitors : where[r] \in {"build", "store"} => pageCache[page[r]] = 0

CacheInv == CacheTypeOK /\ LockInv /\ SetsInv

USE NoVisitorOK, MaxBuildsOK

\* The initial states satisfy the invariant.
LEMMA CacheInits == CacheInit => CacheInv
  BY DEF CacheInit, CacheInv, CacheTypeOK, LockInv, SetsInv, Places

\* Every step of a request keeps the types and the shape of the lock.
LEMMA LockPreserved ==
    ASSUME CacheTypeOK, LockInv, NEW r \in Visitors, Render(r) \/ Resolve(r)
    PROVE  (CacheTypeOK /\ LockInv)'
  <1> USE DEF CacheTypeOK, LockInv, Places, MoveTo, ReturnSet
  <1>1. CASE Render(r)
    BY <1>1 DEF Render
  <1>2. CASE ResolveFresh(r)
    BY <1>2 DEF ResolveFresh
  <1>3. CASE RLock(r)
    BY <1>3 DEF RLock
  <1>4. CASE Look(r)
    BY <1>4 DEF Look
  <1>5. CASE RUnlock(r)
    BY <1>5 DEF RUnlock
  <1>6. CASE Announce(r)
    BY <1>6 DEF Announce
  <1>7. CASE Lock(r)
    BY <1>7 DEF Lock
  <1>8. CASE Recheck(r)
    BY <1>8 DEF Recheck
  <1>9. CASE Build(r)
    BY <1>9 DEF Build
  <1>10. CASE Store(r)
    BY <1>10 DEF Store
  <1> QED
    BY <1>1, <1>2, <1>3, <1>4, <1>5, <1>6, <1>7, <1>8, <1>9, <1>10 DEF Resolve

\* Every step of a request keeps what is known of the template sets: only
\* Store changes the cache, for a page that has none, and by the lock nobody
\* else is building meanwhile.
LEMMA SetsPreserved ==
    ASSUME CacheInv, NEW r \in Visitors, Render(r) \/ Resolve(r)
    PROVE  SetsInv'
  <1> USE DEF CacheInv, CacheTypeOK, SetsInv, Places, MoveTo, ReturnSet
  <1>1. CASE Render(r)
    BY <1>1 DEF Render
  <1>2. CASE ResolveFresh(r)
    BY <1>2 DEF ResolveFresh
  <1>3. CASE RLock(r)
    BY <1>3 DEF RLock
  <1>4. CASE Look(r)
    BY <1>4 DEF Look
  <1>5. CASE RUnlock(r)
    BY <1>5 DEF RUnlock
  <1>6. CASE Announce(r)
    BY <1>6 DEF Announce
  <1>7. CASE Lock(r)
    BY <1>7 DEF Lock
  <1>8. CASE Recheck(r)
    BY <1>8 DEF Recheck
  <1>9. CASE Build(r)
    BY <1>9 DEF Build
  <1>10. CASE Store(r)
    <2>1. \A s \in Visitors : s # r => where[s] \notin {"recheck", "build", "store"}
      BY <1>10 DEF Store, LockInv
    <2>2. pageCache[page[r]] = 0
      BY <1>10 DEF Store
    <2> QED
      BY <1>10, <2>1, <2>2 DEF Store
  <1> QED
    BY <1>1, <1>2, <1>3, <1>4, <1>5, <1>6, <1>7, <1>8, <1>9, <1>10 DEF Resolve

\* The inductive invariant holds in every reachable state.
THEOREM CacheInvariant == CacheSpec => []CacheInv
  <1>1. CacheInv /\ [CacheNext]_cacheVars => CacheInv'
    <2> SUFFICES ASSUME CacheInv, [CacheNext]_cacheVars  PROVE CacheInv'
      OBVIOUS
    <2>1. CASE UNCHANGED cacheVars
      BY <2>1 DEF CacheInv, CacheTypeOK, LockInv, SetsInv, cacheVars
    <2>2. CASE CacheNext
      <3>1. PICK r \in Visitors : Render(r) \/ Resolve(r)
        BY <2>2 DEF CacheNext
      <3> QED
        BY <3>1, LockPreserved, SetsPreserved DEF CacheInv
    <2> QED
      BY <2>1, <2>2
  <1> QED
    BY CacheInits, <1>1, PTL DEF CacheSpec

\* However the two looks, failed parses and writes of any number of requests
\* for any pages interleave, the map is not read while it is written, and all
\* requests of a production server get the template set that is cached.
THEOREM Sound == CacheSpec => []CacheSound
  <1>1. CacheInv => MapNotShared
    BY DEF CacheInv, CacheTypeOK, LockInv, MapNotShared
  <1>2. CacheInv => OneSetPerPage
    BY DEF CacheInv, SetsInv, OneSetPerPage
  <1> QED
    BY CacheInvariant, <1>1, <1>2, PTL DEF CacheSound

-----------------------------------------------------------------------------
\* The relay editor.

Compression == [n : Nat, text : Texts, mine : BOOLEAN, aborted : BOOLEAN]

\* The compressions that will still write to the URL.
Live == {c \in compressing : ~c.aborted}

\* While nothing came at a bad time: what writes to the URL is of the editor
\* that is shown and compresses its text; a link that is being restored has not
\* been touched; and with neither of them the URL is right already.
Orderly ==
    /\ \A c \in Live : open /\ c.mine /\ c.text = text
    /\ restoring # Empty => open /\ Live = {} /\ data = restoring /\ text = Empty
    /\ (open /\ restoring = Empty /\ Live = {}) => data = Broken \/ text \in {data, Decoded[data]}
    /\ ~open => data = Empty

EditorInv ==
    /\ open \in BOOLEAN /\ late \in BOOLEAN /\ inputs \in Nat
    /\ text \in Texts /\ data \in Texts \cup {Broken}
    /\ restoring \in Texts \cup {Broken}
    /\ compressing \subseteq Compression
    /\ \A c \in compressing : c.mine => open
    /\ late \/ Orderly

USE EmptyOK, BoundOK, DecodedOK

\* The initial states satisfy the invariant.
LEMMA EditorInits == EditorInit => EditorInv
  <1> SUFFICES ASSUME EditorInit  PROVE EditorInv
    OBVIOUS
  <1>1. Live = {}
    BY DEF EditorInit, Live
  <1>2. Orderly
    BY <1>1 DEF EditorInit, Orderly
  <1> QED
    BY <1>2 DEF EditorInit, EditorInv

\* Loading, restoring, leaving and returning.
LEMMA PageInv ==
    ASSUME EditorInv, Reload \/ Restored \/ Leave \/ Return
    PROVE  EditorInv'
  <1>1. CASE Reload
    BY <1>1 DEF Reload, Load, EditorInv, Orderly, Live
  <1>2. CASE Restored
    BY <1>2 DEF Restored, EditorInv, Orderly, Live
  <1>3. CASE Leave
    <2>1. compressing' \subseteq Compression /\ \A c \in compressing' : ~c.mine
      BY <1>3 DEF Leave, EditorInv, Compression
    <2>2. ~late' => Live = {}
      BY <1>3 DEF Leave, Live
    <2>3. Live = {} => Live' = {}
      BY <1>3 DEF Leave, Live, EditorInv, Compression
    <2> QED
      BY <1>3, <2>1, <2>2, <2>3 DEF Leave, EditorInv, Orderly
  <1>4. CASE Return
    BY <1>4 DEF Return, EditorInv, Orderly, Live
  <1> QED
    BY <1>1, <1>2, <1>3, <1>4

\* An input aborts what compresses an older text.
LEMMA InputInv ==
    ASSUME EditorInv, NEW t \in Texts, onInput(t)
    PROVE  EditorInv'
  <1>1. Job(t) \in Compression /\ Job(t).mine /\ Job(t).text = t /\ ~Job(t).aborted
    BY DEF Job, Compression, EditorInv
  <1>2. Aborted(compressing) \subseteq Compression
    BY DEF Aborted, Compression, EditorInv
  <1>3. ~late => \A c \in Aborted(compressing) : c.aborted
    BY DEF Aborted, Compression, EditorInv, Orderly, Live
  <1>4. \A c \in Aborted(compressing) : c.mine => open
    BY DEF Aborted, Compression, EditorInv
  <1>5. compressing' = Aborted(compressing) \cup (IF t = Empty THEN {} ELSE {Job(t)})
    BY DEF onInput
  <1>6. ~late' => Live' = IF t = Empty THEN {} ELSE {Job(t)}
    BY <1>1, <1>3, <1>5 DEF onInput, Live
  <1>7. ~late' => Orderly'
    <2>1. ~late' => restoring' = Empty /\ open' /\ text' = t
      BY DEF onInput
    <2>2. Live' = {} => data' = text' \/ late'
      BY <1>6 DEF onInput
    <2> QED
      BY <1>1, <1>6, <2>1, <2>2 DEF Orderly
  <1>8. compressing' \subseteq Compression /\ \A c \in compressing' : c.mine => open'
    BY <1>1, <1>2, <1>4, <1>5 DEF onInput
  <1> QED
    BY <1>7, <1>8 DEF onInput, EditorInv

\* What ends as the last one writes the link of the text.
LEMMA CompressedInv ==
    ASSUME EditorInv, NEW c \in compressing, Compressed(c)
    PROVE  EditorInv'
  <1>1. ~late => (Live' = Live \ {c} /\ (c \in Live => data' = text))
    BY DEF Compressed, Live, EditorInv, Orderly, Compression
  <1>2. c \notin Live => data' = data /\ Live' = Live
    BY DEF Compressed, Live
  <1>3. c.text \in Texts
    BY DEF EditorInv, Compression
  <1> QED
    BY <1>1, <1>2, <1>3 DEF Compressed, EditorInv, Orderly

\* The inductive invariant holds in every reachable state.
THEOREM EditorInvariant == EditorSpec => []EditorInv
  <1>1. EditorInv /\ [EditorNext]_editorVars => EditorInv'
    <2> SUFFICES ASSUME EditorInv, [EditorNext]_editorVars  PROVE EditorInv'
      OBVIOUS
    <2>1. CASE UNCHANGED editorVars
      BY <2>1 DEF editorVars, EditorInv, Orderly, Live
    <2>2. CASE EditorNext
      BY <2>2, PageInv, InputInv, CompressedInv DEF EditorNext
    <2> QED
      BY <2>1, <2>2
  <1> QED
    BY EditorInits, <1>1, PTL DEF EditorSpec

\* However many compressions overlap, in whichever order they end, and whatever
\* the codec makes of a text: once nothing is under way the link is that of the
\* text, unless someone typed during the restore or left during a compression.
THEOREM Follows == EditorSpec => []LinkFollowsText
  <1>1. EditorInv => LinkFollowsText
    BY DEF EditorInv, Orderly, Live, LinkFollowsText, LinkIsText, AtRest, OthersUntouched
  <1> QED
    BY EditorInvariant, <1>1, PTL

-----------------------------------------------------------------------------
\* The log files.

\* A server writes to the file of the day it started on.
WritesToday ==
    /\ logFile = NoFile => old = {}
    /\ logFile # NoFile => logFile * Day <= started + zone /\ started + zone < (logFile + 1) * Day

OutdatedDates == {d \in Dates : Outdated(d)}

\* The latest line is in such a file.  A file goes only when it is outdated,
\* the open one included, and so is what the job holds.
Dated ==
    /\ logFile \in logDir \cup OutdatedDates \cup {NoFile}
    /\ line # NoLine => /\ line.file \in Dates /\ line.file \in logDir \cup OutdatedDates
                        /\ line.since + zone < (line.file + 1) * Day
    /\ old \subseteq OutdatedDates

LogsInv == LogsTypeOK /\ WritesToday /\ Dated

USE DayOK, ZonesOK, BoundsOK

\* The day of a moment, in local time, and that it has a name.
LEMMA DateOf ==
    ASSUME LogsTypeOK
    PROVE  /\ Date(time) \in Dates /\ Date(time) # NoFile
           /\ Date(time) * Day <= time + zone /\ time + zone < (Date(time) + 1) * Day
  <1>1. \A a \in Int, b \in Nat \ {0} :
          /\ a \div b \in Int /\ (a \div b) * b <= a /\ a < ((a \div b) + 1) * b
    OBVIOUS
  <1>2. time \in Nat /\ time <= MaxLogTime /\ zone \in Int /\ -Day <= zone /\ zone <= Day
    BY DEF LogsTypeOK
  <1> DEFINE d == Date(time)
             top == MaxLogTime \div Day
  <1>3. d \in Int /\ d * Day <= time + zone /\ time + zone < (d + 1) * Day
    BY <1>1, <1>2 DEF Date
  <1>4. top \in Int /\ MaxLogTime < (top + 1) * Day
    BY <1>1
  <1> HIDE DEF d, top
  <1>5. d >= -1
    <2> SUFFICES ASSUME d <= -2  PROVE FALSE
      BY <1>3
    <2>1. (d + 1) * Day <= -Day
      BY <1>3
    <2> QED
      BY <1>2, <1>3, <2>1
  <1>6. d <= top + 1
    <2> SUFFICES ASSUME d >= top + 2  PROVE FALSE
      BY <1>3, <1>4
    <2>1. d * Day >= (top + 2) * Day
      BY <1>3, <1>4
    <2>2. (top + 2) * Day = (top + 1) * Day + Day
      BY <1>4
    <2>3. (top + 1) * Day \in Int /\ d * Day \in Int /\ (top + 2) * Day \in Int
      BY <1>3, <1>4
    <2> QED
      BY <1>2, <1>3, <1>4, <2>1, <2>2, <2>3
  <1> QED
    BY <1>3, <1>4, <1>5, <1>6 DEF d, top, Dates, NoFile

\* What is outdated stays so, as time goes by.
LEMMA OutdatedStays ==
    ASSUME LogsTypeOK, [LogsNext]_logVars
    PROVE  OutdatedDates \subseteq OutdatedDates'
  <1>1. time' = time \/ time' = time + 1
    BY DEF LogsNext, TimePasses, initLogging, Printf, ServerStops, ReadDir, RemoveOutdated,
           RemoveFails, logVars
  <1>2. time \in Int /\ logRetentionDays * Day \in Int /\ \A d \in Dates : d * Day \in Int
    BY DEF LogsTypeOK, Dates
  <1>3. ASSUME NEW d \in Dates, d * Day < time - logRetentionDays * Day
        PROVE  d * Day < time' - logRetentionDays * Day
    BY <1>1, <1>2, <1>3
  <1> QED
    BY <1>3 DEF OutdatedDates, Outdated

\* Every step keeps the types.
LEMMA LogsTypesKept == LogsTypeOK /\ [LogsNext]_logVars => LogsTypeOK'
  <1> SUFFICES ASSUME LogsTypeOK, [LogsNext]_logVars  PROVE LogsTypeOK'
    OBVIOUS
  <1>1. CASE TimePasses
    BY <1>1 DEF TimePasses, LogsTypeOK
  <1>2. CASE initLogging
    <2>1. logFile' = Date(time) /\ logDir' = logDir \cup {Date(time)}
      BY <1>2 DEF initLogging
    <2>2. Date(time) \in Dates
      BY DateOf
    <2> QED
      BY <1>2, <2>1, <2>2 DEF initLogging, LogsTypeOK
  <1>3. CASE Printf
    BY <1>3 DEF Printf, LogsTypeOK
  <1>4. CASE ServerStops
    BY <1>4 DEF ServerStops, LogsTypeOK
  <1>5. CASE ReadDir
    BY <1>5 DEF ReadDir, LogsTypeOK
  <1>6. CASE RemoveOutdated \/ RemoveFails
    BY <1>6 DEF RemoveOutdated, RemoveFails, LogsTypeOK
  <1>7. CASE UNCHANGED logVars
    BY <1>7 DEF logVars, LogsTypeOK
  <1> QED
    BY <1>1, <1>2, <1>3, <1>4, <1>5, <1>6, <1>7 DEF LogsNext

\* The server writes to the file of the day it started on, whatever the job does.
LEMMA WritesTodayKept == LogsInv /\ [LogsNext]_logVars => WritesToday'
  <1> SUFFICES ASSUME LogsInv, [LogsNext]_logVars  PROVE WritesToday'
    OBVIOUS
  <1> USE DEF LogsInv, WritesToday
  <1>1. CASE initLogging
    <2>1. logFile' = Date(time) /\ started' = time /\ zone' = zone
      BY <1>1 DEF initLogging
    <2>2. Date(time) * Day <= time + zone /\ time + zone < (Date(time) + 1) * Day /\ Date(time) # NoFile
      BY DateOf
    <2> QED
      BY <2>1, <2>2
  <1>2. CASE TimePasses \/ Printf
    BY <1>2 DEF TimePasses, Printf
  <1>3. CASE ServerStops
    BY <1>3 DEF ServerStops
  <1>4. CASE ReadDir
    BY <1>4 DEF ReadDir
  <1>5. CASE RemoveOutdated \/ RemoveFails
    BY <1>5 DEF RemoveOutdated, RemoveFails
  <1>6. CASE UNCHANGED logVars
    BY <1>6 DEF logVars
  <1> QED
    BY <1>1, <1>2, <1>3, <1>4, <1>5, <1>6 DEF LogsNext

\* A file goes only when the job has found it outdated, and it still is.
LEMMA DatedKept == LogsInv /\ [LogsNext]_logVars => Dated'
  <1> SUFFICES ASSUME LogsInv, [LogsNext]_logVars  PROVE Dated'
    OBVIOUS
  <1>1. LogsTypeOK /\ Dated /\ WritesToday
    BY DEF LogsInv
  <1>2. OutdatedDates \subseteq OutdatedDates'
    BY <1>1, OutdatedStays
  <1>3. ASSUME logFile' = NoFile \/ logFile' = logFile \/ logFile' \in logDir',
               UNCHANGED <<line, zone>>, logDir \subseteq logDir' \cup old,
               old' \subseteq old \cup OutdatedDates
        PROVE  Dated'
    <2>1. logDir \cup OutdatedDates \subseteq logDir' \cup OutdatedDates'
      BY <1>1, <1>2, <1>3 DEF Dated
    <2> QED
      BY <1>1, <1>2, <1>3, <2>1 DEF Dated
  <1>4. CASE TimePasses
    BY <1>3, <1>4 DEF TimePasses
  <1>5. CASE initLogging
    BY <1>3, <1>5 DEF initLogging
  <1>6. CASE Printf
    <2>1. /\ line' = [file |-> logFile, at |-> time, since |-> started] /\ logFile # NoFile
          /\ UNCHANGED <<time, zone, logDir, logFile, started, old>>
      BY <1>6 DEF Printf
    <2>2. logFile \in Dates /\ started + zone < (logFile + 1) * Day
      BY <1>1, <2>1 DEF LogsTypeOK, WritesToday
    <2> QED
      BY <1>1, <1>2, <2>1, <2>2 DEF Dated
  <1>7. CASE ServerStops
    BY <1>3, <1>7 DEF ServerStops
  <1>8. CASE ReadDir
    BY <1>1, <1>3, <1>8 DEF ReadDir, LogsTypeOK, OutdatedDates
  <1>9. CASE RemoveOutdated \/ RemoveFails
    BY <1>3, <1>9 DEF RemoveOutdated, RemoveFails
  <1>10. CASE UNCHANGED logVars
    BY <1>3, <1>10 DEF logVars
  <1> QED
    BY <1>4, <1>5, <1>6, <1>7, <1>8, <1>9, <1>10 DEF LogsNext

\* The inductive invariant holds in every reachable state.
THEOREM LogsInvariant == LogsSpec => []LogsInv
  <1>1. LogsInit => LogsInv
    BY DEF LogsInit, LogsInv, LogsTypeOK, WritesToday, Dated, NoLine, NoFile
  <1>2. LogsInv /\ [LogsNext]_logVars => LogsInv'
    BY LogsTypesKept, WritesTodayKept, DatedKept DEF LogsInv
  <1> QED
    BY <1>1, <1>2, PTL DEF LogsSpec

\* For however long servers run and whichever zone they are in, deleteOldLogs
\* loses a line only when the retention time, less a day and the distance to
\* UTC, has gone by since the server that wrote it was started.
THEOREM Logged == LogsSpec => []RecentKept
  <1>1. ASSUME LogsInv, line # NoLine, line.file \notin logDir
        PROVE  time - line.at > (logRetentionDays - 1) * Day + zone - (line.at - line.since)
    <2> DEFINE d == line.file
    <2>1. /\ d \in Int /\ time \in Int /\ zone \in Int /\ line.at \in Int /\ line.since \in Int
          /\ d * Day \in Int /\ logRetentionDays * Day \in Int
          /\ (d + 1) * Day = d * Day + Day
          /\ (logRetentionDays - 1) * Day = logRetentionDays * Day - Day
      BY <1>1 DEF LogsInv, LogsTypeOK, Dated, Dates
    <2>2. d * Day < time - logRetentionDays * Day /\ line.since + zone < (d + 1) * Day
      BY <1>1 DEF LogsInv, Dated, OutdatedDates, Outdated
    <2> QED
      BY <2>1, <2>2
  <1>2. LogsInv => RecentKept
    BY <1>1 DEF RecentKept
  <1> QED
    BY LogsInvariant, <1>2, PTL

-----------------------------------------------------------------------------
\* The toasts.

USE maxOK

\* The toasts in the page are finite, and so are their parts.
LEMMA ToastsFinite ==
    ASSUME ToastsTypeOK, NEW S \in SUBSET notifications
    PROVE  IsFiniteSet(S) /\ Cardinality(S) \in Nat
  <1>1. pushed \in Int /\ S \in SUBSET (1..pushed)
    BY DEF ToastsTypeOK
  <1>2. IsFiniteSet(1..pushed)
    BY <1>1, FS_Interval
  <1>3. IsFiniteSet(S)
    BY <1>1, <1>2, FS_Subset
  <1> QED
    BY <1>3, FS_CardinalityType

\* A full list has an oldest toast.
LEMMA OldestExists ==
    ASSUME ToastsTypeOK, Cardinality(notifications) >= maxNotifications
    PROVE  \E t \in notifications : Oldest = {t}
  <1>1. notifications # {} /\ notifications \subseteq Nat
    <2>1. Cardinality(notifications) # 0
      BY ToastsFinite
    <2> QED
      BY <2>1, FS_EmptySet DEF ToastsTypeOK
  <1>2. PICK t \in notifications : \A u \in notifications : ~(<<u, t>> \in OpToRel(<, Nat))
    BY <1>1, NatLessThanWellFounded, WFMin
  <1>3. \A u \in notifications : t <= u
    <2>1. \A u, v \in Nat : u < v => <<u, v>> \in OpToRel(<, Nat)
      BY DEF OpToRel
    <2>2. \A u \in notifications : u \in Nat /\ t \in Nat /\ ~(u < t)
      BY <1>1, <1>2, <2>1
    <2> QED
      BY <2>2
  <1>4. \A u \in notifications : (\A v \in notifications : u <= v) => u = t
    BY <1>1, <1>3
  <1> QED
    BY <1>3, <1>4 DEF Oldest

\* The types and the number of toasts, in every step.
LEMMA ToastsPreserved == ToastsTypeOK /\ MaxKept /\ [ToastsNext]_toastVars => (ToastsTypeOK /\ MaxKept)'
  <1> SUFFICES ASSUME ToastsTypeOK, MaxKept, [ToastsNext]_toastVars
               PROVE  ToastsTypeOK' /\ MaxKept'
    OBVIOUS
  <1>1. CASE push
    <2>1. ToastsTypeOK'
      <3>1. Oldest \subseteq notifications /\ leaving' = leaving \cup Oldest
            /\ burst' = (burst \/ leaving # {})
        BY <1>1 DEF push, Oldest
      <3>2. CASE pushed < MaxToasts /\ pushed' = pushed + 1
                 /\ timers' = (timers \ Oldest) \cup {pushed'}
                 /\ notifications' = notifications \cup {pushed'}
        <4>1. pushed' \notin notifications /\ notifications' \subseteq 1..pushed'
              /\ pushed' \in 0..MaxToasts
          BY <3>2 DEF ToastsTypeOK
        <4> QED
          BY <3>1, <3>2, <4>1 DEF ToastsTypeOK
      <3>3. CASE timers' = timers \ Oldest /\ UNCHANGED <<pushed, notifications>>
        BY <3>1, <3>3 DEF ToastsTypeOK
      <3> QED
        BY <1>1, <3>2, <3>3 DEF push
    <2>2. ASSUME ~burst'  PROVE MaxKept'
      <3>1. leaving = {} /\ leaving' = Oldest /\ ~burst
        BY <1>1, <2>2 DEF push, ToastsTypeOK
      <3>2. Cardinality(notifications) \in Nat /\ Cardinality(notifications) <= maxNotifications
        BY <3>1, ToastsFinite, FS_EmptySet DEF MaxKept
      <3>3. /\ Cardinality(notifications') \in Nat
            /\ Cardinality(notifications') <= Cardinality(notifications) + 1
        <4>1. IsFiniteSet(notifications)
          BY ToastsFinite
        <4>2. IsFiniteSet(notifications \cup {pushed'})
              /\ Cardinality(notifications \cup {pushed'}) \in {Cardinality(notifications), Cardinality(notifications) + 1}
          <5>1. \A x : /\ IsFiniteSet(notifications \cup {x})
                       /\ Cardinality(notifications \cup {x})
                            \in {Cardinality(notifications), Cardinality(notifications) + 1}
            BY <4>1, FS_AddElement
          <5> QED
            BY <5>1
        <4>3. notifications' \in {notifications, notifications \cup {pushed'}}
          BY <1>1 DEF push
        <4>4. CASE notifications' = notifications
          BY <3>2, <4>4
        <4>5. CASE notifications' = notifications \cup {pushed'}
          BY <3>2, <4>2, <4>5
        <4> QED
          BY <4>3, <4>4, <4>5
      <3>4. CASE Cardinality(notifications) < maxNotifications
        <4>1. Oldest = {}
          BY <3>2, <3>4 DEF Oldest
        <4>2. Cardinality(leaving') = 0
          BY <3>1, <4>1, FS_EmptySet
        <4> QED
          BY <3>2, <3>3, <3>4, <4>2 DEF MaxKept
      <3>5. CASE Cardinality(notifications) = maxNotifications
        <4>1. Cardinality(notifications) >= maxNotifications
          BY <3>2, <3>5
        <4>2. PICK t \in notifications : Oldest = {t}
          BY <4>1, OldestExists
        <4>3. Cardinality({t}) = 1
          BY FS_Singleton
        <4>4. Cardinality(leaving') = 1
          BY <3>1, <4>2, <4>3
        <4> QED
          BY <3>3, <3>5, <4>4 DEF MaxKept
      <3> QED
        BY <3>2, <3>4, <3>5
    <2> QED
      BY <2>1, <2>2 DEF MaxKept
  <1>2. ASSUME NEW t \in notifications, dismiss(t)  PROVE ToastsTypeOK' /\ MaxKept'
    <2>1. ToastsTypeOK'
      BY <1>2 DEF dismiss, ToastsTypeOK
    <2>2. leaving \in SUBSET leaving' /\ leaving' \in SUBSET notifications
      BY <1>2 DEF dismiss, ToastsTypeOK
    <2>3. /\ IsFiniteSet(leaving') /\ Cardinality(leaving') \in Nat /\ Cardinality(leaving) \in Nat
          /\ Cardinality(notifications) \in Nat
      BY <2>2, ToastsFinite
    <2>4. Cardinality(leaving) <= Cardinality(leaving')
      BY <2>2, <2>3, FS_Subset
    <2> QED
      BY <1>2, <2>1, <2>3, <2>4 DEF dismiss, MaxKept
  <1>3. ASSUME NEW t \in notifications, removeElement(t)  PROVE ToastsTypeOK' /\ MaxKept'
    <2>1. t \in leaving /\ leaving' = leaving \ {t} /\ notifications' = notifications \ {t}
          /\ UNCHANGED <<timers, pushed, burst>> /\ leaving \in SUBSET notifications
      BY <1>3 DEF removeElement, ToastsTypeOK
    <2>2. ToastsTypeOK'
      BY <2>1 DEF ToastsTypeOK
    <2>3. /\ IsFiniteSet(leaving) /\ IsFiniteSet(notifications)
          /\ Cardinality(leaving) \in Nat /\ Cardinality(notifications) \in Nat
      BY <2>1, ToastsFinite
    <2>4. /\ Cardinality(leaving') = Cardinality(leaving) - 1
          /\ Cardinality(notifications') = Cardinality(notifications) - 1
      BY <2>1, <2>3, FS_RemoveElement
    <2> QED
      BY <2>1, <2>2, <2>3, <2>4 DEF MaxKept
  <1>4. CASE UNCHANGED toastVars
    BY <1>4 DEF toastVars, ToastsTypeOK, MaxKept
  <1> QED
    BY <1>1, <1>2, <1>3, <1>4 DEF ToastsNext, TimerFires

\* However toasts are pushed, clicked away and removed: unless one came while
\* another was leaving, they are never more than maxNotifications besides those
\* that leave (push, notifications.js).
THEOREM FewToasts == ToastsSpec => [](ToastsTypeOK /\ MaxKept)
  <1>1. ToastsInit => ToastsTypeOK /\ MaxKept
    <2>1. Cardinality({}) = 0
      BY FS_EmptySet
    <2>2. ToastsInit => Cardinality(notifications) = 0 /\ Cardinality(leaving) = 0
      BY <2>1 DEF ToastsInit
    <2>3. ToastsInit => MaxKept
      BY <2>2 DEF MaxKept
    <2>4. ASSUME ToastsInit  PROVE ToastsTypeOK
      <3>1. notifications = {} /\ timers = {} /\ leaving = {} /\ pushed = 0 /\ burst = FALSE
        BY <2>4 DEF ToastsInit
      <3>2. pushed \in 0..MaxToasts
        BY <3>1
      <3> QED
        BY <3>1, <3>2 DEF ToastsTypeOK
    <2> QED
      BY <2>3, <2>4
  <1> QED
    BY <1>1, ToastsPreserved, PTL DEF ToastsSpec

-----------------------------------------------------------------------------
\* The types of these parts, and of all parts in the run that has them together.

\* The compressions are numbered as the inputs came.
Numbered ==
    /\ inputs \in 0..MaxInputs
    /\ \A c \in compressing : c.n \in 1..inputs

\* What is being compressed is the text, unless something came at a bad time.
LEMMA EditorTypes == EditorSpec => []EditorTypeOK
  <1>1. EditorInit => Numbered
    BY DEF EditorInit, Numbered
  <1>2. EditorInv /\ Numbered /\ [EditorNext]_editorVars => Numbered'
    <2> SUFFICES ASSUME EditorInv, Numbered, [EditorNext]_editorVars  PROVE Numbered'
      OBVIOUS
    <2>1. CASE Reload
      BY <2>1 DEF Reload, Load, Numbered
    <2>2. CASE Restored
      BY <2>2 DEF Restored, Numbered
    <2>3. CASE Leave
      <3>1. \A c \in compressing : [c EXCEPT !.mine = FALSE].n = c.n
        BY DEF EditorInv, Compression
      <3> QED
        BY <2>3, <3>1 DEF Leave, Numbered
    <2>4. CASE Return
      BY <2>4 DEF Return, Numbered
    <2>5. ASSUME NEW t \in Texts, onInput(t)  PROVE Numbered'
      <3>1. \A c \in Aborted(compressing) : c.n \in 1..inputs
        BY DEF Aborted, EditorInv, Compression, Numbered
      <3>2. Job(t).n = inputs + 1 /\ inputs' = inputs + 1 /\ inputs \in Nat /\ inputs < MaxInputs
        BY <2>5 DEF Job, onInput, Numbered
      <3>3. \A c \in compressing' : c \in Aborted(compressing) \/ c = Job(t)
        BY <2>5 DEF onInput
      <3> QED
        BY <3>1, <3>2, <3>3 DEF Numbered
    <2>6. ASSUME NEW c \in compressing, Compressed(c)  PROVE Numbered'
      BY <2>6 DEF Compressed, Numbered
    <2>7. CASE UNCHANGED editorVars
      BY <2>7 DEF editorVars, Numbered
    <2> QED
      BY <2>1, <2>2, <2>3, <2>4, <2>5, <2>6, <2>7 DEF EditorNext
  <1>3. EditorInv /\ Numbered => EditorTypeOK
    <2> SUFFICES ASSUME EditorInv, Numbered  PROVE EditorTypeOK
      OBVIOUS
    <2>1. \A c \in compressing :
            /\ c \in Compression /\ c.n \in 1..inputs
            /\ c.mine => open /\ (c.aborted \/ late \/ c.text = text)
      BY DEF EditorInv, Orderly, Live, Numbered
    <2>2. compressing \subseteq [n : 1..inputs, text : Texts, mine : BOOLEAN, aborted : BOOLEAN]
      BY <2>1 DEF Compression
    <2> QED
      BY <2>1, <2>2 DEF EditorInv, Numbered, EditorTypeOK
  <1> QED
    BY EditorInvariant, <1>1, <1>2, <1>3, PTL DEF EditorSpec

USE MaxTriggeredOK

\* A goroutine that has run its job once has its ticker.
LEMMA SchedulerTypes == SchedulerSpec => []SchedulerTypeOK
  <1>1. SchedulerInit => SchedulerTypeOK
    <2> SUFFICES ASSUME SchedulerInit  PROVE SchedulerTypeOK
      OBVIOUS
    <2>1. /\ loop \in [Jobs -> {"off", "running", "waiting", "gone"}]
          /\ \A j \in Jobs : loop[j] = "off"
      BY DEF SchedulerInit
    <2>2. ticking \in [Jobs -> BOOLEAN] /\ tick \in [Jobs -> BOOLEAN] /\ cancelled \in BOOLEAN
      BY Zenon DEF SchedulerInit
    <2>3. triggered \in [Jobs -> 0..MaxTriggered]
      BY DEF SchedulerInit
    <2>4. \A j \in Jobs : loop[j] \in {"waiting", "gone"} => ticking[j]
      BY <2>1
    <2> QED
      BY <2>1, <2>2, <2>3, <2>4, Zenon DEF SchedulerTypeOK
  <1>2. SchedulerTypeOK /\ [SchedulerNext]_schedulerVars => SchedulerTypeOK'
    <2> SUFFICES ASSUME SchedulerTypeOK, [SchedulerNext]_schedulerVars  PROVE SchedulerTypeOK'
      OBVIOUS
    <2> USE DEF SchedulerTypeOK, Become
    <2>1. CASE Start
      BY <2>1 DEF Start
    <2>2. CASE Cancel
      BY <2>2 DEF Cancel
    <2>3. ASSUME NEW j \in Jobs, RunEnds(j) \/ TickerFires(j) \/ TakeTick(j) \/ SeeDone(j)
          PROVE  SchedulerTypeOK'
      BY <2>3 DEF RunEnds, TickerFires, TakeTick, SeeDone
    <2>4. ASSUME NEW j \in Jobs, TriggerJob(j) \/ TriggeredEnds(j)
          PROVE  SchedulerTypeOK'
      BY <2>4 DEF TriggerJob, TriggeredEnds
    <2>5. CASE UNCHANGED schedulerVars
      BY <2>5 DEF schedulerVars
    <2> QED
      BY <2>1, <2>2, <2>3, <2>4, <2>5 DEF SchedulerNext
  <1> QED
    BY <1>1, <1>2, PTL DEF SchedulerSpec

\* What the run of all parts does with a part is what the part does by itself:
\* the other parts let it stand still.
THEOREM PartsAlone ==
    MCSpec => /\ Spec /\ MigrationsSpec /\ CacheSpec /\ SchedulerSpec
              /\ LogsSpec /\ EditorSpec /\ ToastsSpec
  <1>1. MCInit => /\ Init /\ MigrationsInit /\ CacheInit /\ SchedulerInit
                  /\ LogsInit /\ EditorInit /\ ToastsInit
    BY DEF MCInit
  <1>2. ASSUME [MCNext]_all
        PROVE  /\ [Next]_vars /\ [MigrationsNext]_migrationVars /\ [CacheNext]_cacheVars
               /\ [SchedulerNext]_schedulerVars /\ [LogsNext]_logVars
               /\ [EditorNext]_editorVars /\ [ToastsNext]_toastVars
    <2>1. CASE UNCHANGED all
      BY <2>1 DEF all
    <2>2. CASE MCNext
      BY <2>2, Zenon DEF MCNext, OthersStill, Still, On
    <2> QED
      BY <1>2, <2>1, <2>2
  <1> QED
    BY <1>1, <1>2, PTL DEF MCSpec, Spec, MigrationsSpec, CacheSpec, SchedulerSpec, LogsSpec,
                           EditorSpec, ToastsSpec

\* The variables of all parts keep their types in the run that has them together.
THEOREM PartsTyped == MCSpec => []PartTypes
  <1>1. LogsSpec => []LogsTypeOK
    BY LogsInvariant, PTL DEF LogsInv
  <1>2. CacheSpec => []CacheTypeOK
    BY CacheInvariant, PTL DEF CacheInv
  <1>3. ToastsSpec => []ToastsTypeOK
    BY FewToasts, PTL
  <1> QED
    BY PartsAlone, TypeCorrect, SchemaTypes, <1>1, <1>2, <1>3, SchedulerTypes, EditorTypes, PTL
       DEF PartTypes
=============================================================================
