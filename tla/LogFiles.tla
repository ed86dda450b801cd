------------------------------ MODULE LogFiles ------------------------------
(***************************************************************************)
(* The log directory.  A server opens one file when it starts, named after  *)
(* the local date of that moment, and writes to it until it ends; the job   *)
(* logging:cleanup deletes files by the date in their names.  Names that    *)
(* are not <date>_app.log are skipped and not modelled.                     *)
(***************************************************************************)
EXTENDS Integers

CONSTANTS
    Day,                \* units of time in a day
    logRetentionDays,
    Zones,              \* local time minus UTC, for the servers considered
    MaxLogTime          \* bound: the clock stops here

ASSUME DayOK == Day \in Nat \ {0} /\ logRetentionDays \in Nat
ASSUME ZonesOK == Zones \subseteq -Day..Day
ASSUME BoundsOK == MaxLogTime \in Nat

VARIABLES
    time, zone,
    logDir,   \* the dates for which the directory has a file
    logFile,  \* the date of the file the server writes to, NoFile: it is down
    started,  \* history: when it opened the file
    line,     \* history: the latest line, its file, and since when its server was up
    old       \* the files the running job is still to delete

logVars == <<time, zone, logDir, logFile, started, line, old>>

Dates == -1..((MaxLogTime \div Day) + 1)
NoFile == -2
NoLine == [file |-> NoFile, at |-> 0, since |-> 0]
Date(t) == (t + zone) \div Day

LogsInit ==
    /\ time = 0 /\ zone \in Zones
    /\ logDir = {} /\ logFile = NoFile /\ started = 0
    /\ line = NoLine
    /\ old = {}

\* A server runs until it is told to stop, however long that is.
TimePasses ==
    /\ time < MaxLogTime
    /\ time' = time + 1
    /\ UNCHANGED <<zone, logDir, logFile, started, line, old>>

\* initLogging: O_APPEND|O_CREATE.
initLogging ==
    /\ logFile = NoFile
    /\ logFile' = Date(time)
    /\ logDir' = logDir \cup {logFile'}
    /\ started' = time
    /\ UNCHANGED <<time, zone, line, old>>

\* log.Printf: to the open file, whether or not it still has a name.
Printf ==
    /\ logFile # NoFile
    /\ line' = [file |-> logFile, at |-> time, since |-> started]
    /\ UNCHANGED <<time, zone, logDir, logFile, started, old>>

\* The server ends, and its jobs with it.
ServerStops ==
    /\ logFile # NoFile
    /\ logFile' = NoFile
    /\ old' = {}
    /\ UNCHANGED <<time, zone, logDir, started, line>>

\* date.Before(cutoff), where the date in the name is read as midnight UTC.
BugSwapped(d) == d * Day > time - logRetentionDays * Day
Outdated(d) == d * Day < time - logRetentionDays * Day

\* deleteOldLogs, at the start and every 24 hours: the directory is read, ...
ReadDir ==
    /\ logFile # NoFile /\ old = {}
    /\ old' = {d \in logDir : Outdated(d)}
    /\ UNCHANGED <<time, zone, logDir, logFile, started, line>>

\* ... and its outdated files go one after the other; one that cannot be
\* removed is left to the next run.
RemoveOutdated ==
    \E d \in old :
       /\ logDir' = logDir \ {d}
       /\ old' = old \ {d}
       /\ UNCHANGED <<time, zone, logFile, started, line>>
RemoveFails ==
    \E d \in old :
       /\ old' = old \ {d}
       /\ UNCHANGED <<time, zone, logDir, logFile, started, line>>

LogsNext == TimePasses \/ initLogging \/ Printf \/ ServerStops \/ ReadDir \/ RemoveOutdated \/ RemoveFails

LogsSpec == LogsInit /\ [][LogsNext]_logVars

-----------------------------------------------------------------------------

\* The types; only files that exist are about to be deleted.
LogsTypeOK ==
    /\ time \in 0..MaxLogTime /\ zone \in Zones
    /\ logDir \subseteq Dates /\ old \subseteq logDir
    /\ logFile \in Dates \cup {NoFile} /\ started \in 0..MaxLogTime
    /\ line \in [file : Dates \cup {NoFile}, at : 0..MaxLogTime, since : 0..MaxLogTime]

\* A line that is no longer in the directory is older than the retention time,
\* less what the name of its file does not tell deleteOldLogs: for how long the
\* server had been up when it wrote the line, the rest of the day on which it
\* started, and the distance of that day to UTC.  It holds whatever servers
\* write to one file and whenever the job reads the directory and removes.
RecentKept ==
    line # NoLine /\ line.file \notin logDir =>
        time - line.at > (logRetentionDays - 1) * Day + zone - (line.at - line.since)

\* The file that is open is in the directory (initLogging, server.go:183:
\* "routes all log output to both stdout and the file.").  The code keeps no
\* such promise: a server that is up for long enough deletes its own file.
OutputIsFiled == logFile # NoFile => logFile \in logDir
=============================================================================
