----------------------------- MODULE KippleStore -----------------------------
(***************************************************************************)
(* The kipple file store: rows of kipple_files, files on disk, the HTTP    *)
(* handlers that upload, append, complete and delete, and the two cleanup  *)
(* jobs that walk the same rows and the same directory.  No lock relates   *)
(* row and file: each handler and each job is a sequence of statements and *)
(* system calls, and any of them may run in between.                       *)
(*                                                                         *)
(* An upload is named by the uuid CreateUpload gives it, and stands for    *)
(* one POST with the owner and the size it declares.  Handlers that serve  *)
(* one upload occupy its slots.  Bytes are counted in units; a unit on     *)
(* disk holds the client's "data" or "junk" (a hole, or bytes that fail    *)
(* the checksum).  The core database has one connection, so a statement is *)
(* one step.                                                               *)
(***************************************************************************)
EXTENDS Naturals, Sequences, FiniteSets, FiniteSetsExt

CONSTANTS
  Files,        \* upload ids
  Slots,        \* per upload, places for handlers at work on it
  Users,        \* user ids
  Owner, Size,  \* who uploads what: the user, and the declared Upload-Length
  Unlimited,    \* users with PermissionUnlimitedStorage
  Quota,        \* configured quota of the other users
  Buffer,       \* godDiskBuffer
  FreeSpace,    \* values statfs may report as free
  MaxChunk,     \* bound: units in the body of one PATCH
  Overshoot,    \* units a body may reach past the declared size
  Corrupt,      \* bodies that may be corrupted: subset of {"whole", "torn"}
  MaxWriters,   \* PATCH requests a client has in flight for one upload
  Jobs,         \* cleanup jobs that run: subset of {"cleanup", "orphans"}
  MaxCrashes,   \* bound: ends of the process
  MaxFaults     \* bound: failed database statements

ASSUME StoreAssumption ==
  /\ IsFiniteSet(Slots)
  /\ Owner \in [Files -> Users]
  /\ Size \in [Files -> Nat \ {0}]
  /\ Unlimited \subseteq Users
  /\ Quota \in Nat /\ Buffer \in Nat /\ FreeSpace \subseteq Nat
  /\ MaxChunk \in Nat /\ Overshoot \in Nat /\ MaxWriters \in Nat
  /\ Corrupt \subseteq {"whole", "torn"}
  /\ Jobs \subseteq {"cleanup", "orphans"}
  /\ MaxCrashes \in Nat /\ MaxFaults \in Nat

VARIABLES
  status,   \* kipple_files.status, "none" when there is no row
  offset,   \* kipple_files.offset
  age,      \* of the row: "fresh", "stale" (created an hour ago), "expired"
  linked,   \* uploads whose path exists on disk
  content,  \* the units of the file, while it is linked
  post,     \* CreateUpload: "new", "created" (the file), "refused", "done"
  allowed,  \* effectiveQuota as CreateUpload computed it
  slot,     \* AppendChunk and DeleteFile at work on the upload
  cleanup,  \* deleteExpired: entries left, entry whose file goes next
  orphans,  \* deleteOrphaned: stage, knownPaths, rows to check, files to remove
  asked,    \* history variable: uploads whose owner asked for deletion
  gone,     \* history variable: uploads whose deletion was acknowledged
  crashes,
  faults

rowVars  == <<status, offset, age>>
diskVars == <<linked, content>>
jobVars  == <<cleanup, orphans>>
ghosts   == <<asked, gone>>
bounds   == <<crashes, faults>>
vars     == <<rowVars, diskVars, post, allowed, slot, jobVars, ghosts, bounds>>

Unit == {"data", "junk"}

Free == [op |-> "free", from |-> 0, len |-> 0, good |-> "data", written |-> 0]

Handler == [op : {"free", "read", "copy", "update", "complete", "unlink", "delete"},
            from : Nat, len : Nat, good : Unit, written : Nat]

NoCleanup == [todo |-> {}, removing |-> {}]

NoSweep == [stage |-> "off", known |-> {}, check |-> {}, remove |-> {}]

Sweep == [stage : {"off", "rows", "files"},
          known : SUBSET Files, check : SUBSET Files, remove : SUBSET Files]

TypeOK ==
  /\ status \in [Files -> {"none", "pending", "complete"}]
  /\ offset \in [Files -> Nat]
  /\ age \in [Files -> {"fresh", "stale", "expired"}]
  /\ linked \subseteq Files
  /\ content \in [Files -> Seq(Unit)]
  /\ post \in [Files -> {"new", "created", "refused", "done"}]
  /\ allowed \in [Files -> Nat]
  /\ slot \in [Files -> [Slots -> Handler]]
  /\ cleanup \in [todo : SUBSET Files, removing : SUBSET Files]
  /\ orphans \in Sweep
  /\ asked \subseteq Files /\ gone \subseteq Files
  /\ crashes \in Nat /\ faults \in Nat

Init ==
  /\ status = [f \in Files |-> "none"]
  /\ offset = [f \in Files |-> 0]
  /\ age = [f \in Files |-> "fresh"]
  /\ linked = {}
  /\ content = [f \in Files |-> <<>>]
  /\ post = [f \in Files |-> "new"]
  /\ allowed = [f \in Files |-> 0]
  /\ slot = [f \in Files |-> [s \in Slots |-> Free]]
  /\ cleanup = NoCleanup
  /\ orphans = NoSweep
  /\ asked = {} /\ gone = {}
  /\ crashes = 0 /\ faults = 0

-----------------------------------------------------------------------------
(***************************************************************************)
(* Rows, files and slots.                                                  *)
(***************************************************************************)
Row(f) == status[f] # "none"

DropRow(f) == status' = [status EXCEPT ![f] = "none"]

\* os.Remove, which does nothing to a path that is gone.
Unlink(f) == /\ linked' = linked \ {f}
             /\ content' = [content EXCEPT ![f] = <<>>]

\* A write or a truncation through an open descriptor: it reaches the path
\* only while the file is linked.
Rewrite(f, units) ==
  /\ content' = IF f \in linked THEN [content EXCEPT ![f] = units] ELSE content
  /\ UNCHANGED linked

Fault == faults < MaxFaults /\ faults' = faults + 1

Slot(f, s, op) == slot[f][s].op = op

SetSlot(f, s, handler) == slot' = [slot EXCEPT ![f][s] = handler]

Writers(f) == {s \in Slots : slot[f][s].op \in {"read", "copy", "update", "complete"}}

\* Bug: only complete files count.
BugUsed(u) ==
  MapThenSumSet(LAMBDA f : Size[f], {f \in Files : Owner[f] = u /\ status[f] = "complete"})

\* SUM(size) over the rows of u, whatever their status.
Used(u) == MapThenSumSet(LAMBDA f : Size[f], {f \in Files : Owner[f] = u /\ Row(f)})

-----------------------------------------------------------------------------
(***************************************************************************)
(* CreateUpload.                                                           *)
(***************************************************************************)
EffectiveQuota(u, free) ==
  IF u \in Unlimited
    THEN IF free < Buffer THEN 0 ELSE free - Buffer
    ELSE IF free < Quota THEN free ELSE Quota

\* The quota is computed and the empty file created; the row comes later.
CreateFile(f) ==
  /\ post[f] = "new"
  /\ \E free \in FreeSpace : allowed' = [allowed EXCEPT ![f] = EffectiveQuota(Owner[f], free)]
  /\ linked' = linked \cup {f}
  /\ content' = [content EXCEPT ![f] = <<>>]
  /\ post' = [post EXCEPT ![f] = "created"]
  /\ UNCHANGED <<rowVars, slot, jobVars, ghosts, bounds>>

\* INSERT ... SELECT ... WHERE sum + size <= quota: check and insert are one
\* statement.
InsertRow(f) ==
  /\ post[f] = "created"
  /\ Used(Owner[f]) + Size[f] <= allowed[f]
  /\ status' = [status EXCEPT ![f] = "pending"]
  /\ post' = [post EXCEPT ![f] = "done"]
  /\ UNCHANGED <<offset, age, diskVars, allowed, slot, jobVars, ghosts, bounds>>

\* The quota is exceeded, or the statement failed.
RefuseRow(f) ==
  /\ post[f] = "created"
  /\ \/ Used(Owner[f]) + Size[f] > allowed[f] /\ UNCHANGED faults
     \/ Fault
  /\ post' = [post EXCEPT ![f] = "refused"]
  /\ UNCHANGED <<rowVars, diskVars, allowed, slot, jobVars, ghosts, crashes>>

RemoveRefused(f) ==
  /\ post[f] = "refused"
  /\ Unlink(f)
  /\ post' = [post EXCEPT ![f] = "done"]
  /\ UNCHANGED <<rowVars, allowed, slot, jobVars, ghosts, bounds>>

Create(f) == CreateFile(f) \/ InsertRow(f) \/ RefuseRow(f) \/ RemoveRefused(f)

-----------------------------------------------------------------------------
(***************************************************************************)
(* AppendChunk, at work in slot s of upload f.  A request with another     *)
(* owner, a wrong offset, a finished upload or an unknown checksum changes *)
(* nothing and is not modelled.                                            *)
(***************************************************************************)
Respond(f, s) == SetSlot(f, s, Free)

\* GetUpload and the checks on what it returned.  The body has len units; its
\* checksum header matches them when they are good.
ReadUpload(f, s) ==
  /\ Slot(f, s, "free") /\ Cardinality(Writers(f)) < MaxWriters
  /\ status[f] = "pending"
  /\ \E len \in 0 .. MaxChunk, good \in Unit :
       /\ good = "junk" => Corrupt # {}
       /\ offset[f] + len <= Size[f] + Overshoot
       /\ SetSlot(f, s, [op |-> "read", from |-> offset[f], len |-> len,
                         good |-> good, written |-> 0])
  /\ UNCHANGED <<rowVars, diskVars, post, allowed, jobVars, ghosts, bounds>>

\* Bug: the file is opened with O_CREATE.
BugOpenCreates(f, s) ==
  /\ Slot(f, s, "read")
  /\ SetSlot(f, s, [slot[f][s] EXCEPT !.op = "copy"])
  /\ linked' = linked \cup {f}
  /\ UNCHANGED <<content, rowVars, post, allowed, jobVars, ghosts, bounds>>

\* os.OpenFile without O_CREATE: an error when the file is gone.
OpenFile(f, s) ==
  /\ Slot(f, s, "read")
  /\ SetSlot(f, s, IF f \in linked THEN [slot[f][s] EXCEPT !.op = "copy"] ELSE Free)
  /\ UNCHANGED <<rowVars, diskVars, post, allowed, jobVars, ghosts, bounds>>

\* The units of a file after one unit is written at position p: a gap before
\* it reads as zeros.
WriteAt(units, p, unit) ==
  [i \in 1 .. (IF Len(units) < p THEN p ELSE Len(units)) |->
     IF i = p THEN unit ELSE IF i <= Len(units) THEN units[i] ELSE "junk"]

\* file.Truncate(n), which also extends.
TruncateTo(units, n) == [i \in 1 .. n |-> IF i <= Len(units) THEN units[i] ELSE "junk"]

\* Bug: the body is appended to the file, whatever the offset.
BugCopyAppends(f, s) ==
  LET h == slot[f][s] IN
  /\ Slot(f, s, "copy") /\ h.written < h.len
  /\ Rewrite(f, WriteAt(content[f], Len(content[f]) + 1, h.good))
  /\ SetSlot(f, s, [h EXCEPT !.written = @ + 1])
  /\ UNCHANGED <<rowVars, post, allowed, jobVars, ghosts, bounds>>

\* io.Copy moves one unit of the body to the file.
CopyUnit(f, s) ==
  LET h == slot[f][s] IN
  /\ Slot(f, s, "copy") /\ h.written < h.len
  /\ Rewrite(f, WriteAt(content[f], h.from + h.written + 1, h.good))
  /\ SetSlot(f, s, [h EXCEPT !.written = @ + 1])
  /\ UNCHANGED <<rowVars, post, allowed, jobVars, ghosts, bounds>>

\* The body is copied and its checksum matches, or the transfer broke off
\* before its end, when the checksum is not looked at.
CopyEnds(f, s) ==
  /\ Slot(f, s, "copy")
  /\ \/ slot[f][s].good = "data"
     \/ slot[f][s].written < slot[f][s].len /\ "torn" \in Corrupt
  /\ SetSlot(f, s, [slot[f][s] EXCEPT !.op = "update"])
  /\ UNCHANGED <<rowVars, diskVars, post, allowed, jobVars, ghosts, bounds>>

\* Bug: the mismatch is noticed but the handler goes on.
BugMismatchGoesOn(f, s) ==
  LET h == slot[f][s] IN
  /\ Slot(f, s, "copy") /\ h.good = "junk" /\ h.written = h.len
  /\ SetSlot(f, s, [h EXCEPT !.op = "update"])
  /\ UNCHANGED <<rowVars, diskVars, post, allowed, jobVars, ghosts, bounds>>

\* The checksum does not match: the file is cut back to the request's offset.
ChecksumMismatch(f, s) ==
  LET h == slot[f][s] IN
  /\ Slot(f, s, "copy") /\ h.good = "junk" /\ h.written = h.len
  /\ Rewrite(f, TruncateTo(content[f], h.from))
  /\ Respond(f, s)
  /\ UNCHANGED <<rowVars, post, allowed, jobVars, ghosts, bounds>>

\* Bug: the offset that the client announced, not what has arrived.
BugNewOffset(f, s) == slot[f][s].from + slot[f][s].len

\* Bug: what this request has written, as if it were the first.
BugRelativeOffset(f, s) == slot[f][s].written

NewOffset(f, s) == slot[f][s].from + slot[f][s].written

\* UPDATE ... SET offset, on whatever row is there now; a full upload goes on
\* to completeUpload.
UpdateOffset(f, s) ==
  /\ Slot(f, s, "update")
  /\ offset' = IF Row(f) THEN [offset EXCEPT ![f] = NewOffset(f, s)] ELSE offset
  /\ IF NewOffset(f, s) = Size[f]
       THEN SetSlot(f, s, [slot[f][s] EXCEPT !.op = "complete"])
       ELSE Respond(f, s)
  /\ UNCHANGED <<status, age, diskVars, post, allowed, jobVars, ghosts, bounds>>

\* Bug: a status no query looks for.
BugCompleteStatus(f, s) ==
  /\ Slot(f, s, "complete")
  /\ status' = IF Row(f) THEN [status EXCEPT ![f] = "done"] ELSE status
  /\ Respond(f, s)
  /\ UNCHANGED <<offset, age, diskVars, post, allowed, jobVars, ghosts, bounds>>

CompleteUpload(f, s) ==
  /\ Slot(f, s, "complete")
  /\ status' = IF Row(f) THEN [status EXCEPT ![f] = "complete"] ELSE status
  /\ Respond(f, s)
  /\ UNCHANGED <<offset, age, diskVars, post, allowed, jobVars, ghosts, bounds>>

AppendChunk(f, s) == ReadUpload(f, s) \/ OpenFile(f, s) \/ CopyUnit(f, s) \/ CopyEnds(f, s)
                \/ ChecksumMismatch(f, s) \/ UpdateOffset(f, s) \/ CompleteUpload(f, s)

-----------------------------------------------------------------------------
(***************************************************************************)
(* DeleteFile: the file first, then the row.                               *)
(***************************************************************************)
\* GetUpload finds the row of an upload of the user who asks.
AskDelete(f, s) ==
  /\ Slot(f, s, "free") /\ Row(f)
  /\ SetSlot(f, s, [Free EXCEPT !.op = "unlink"])
  /\ asked' = asked \cup {f}
  /\ UNCHANGED <<rowVars, diskVars, post, allowed, jobVars, gone, bounds>>

DeleteUnlink(f, s) ==
  /\ Slot(f, s, "unlink")
  /\ Unlink(f)
  /\ SetSlot(f, s, [Free EXCEPT !.op = "delete"])
  /\ UNCHANGED <<rowVars, post, allowed, jobVars, ghosts, bounds>>

\* The DELETE, acknowledged with 204.
DeleteRow(f, s) ==
  /\ Slot(f, s, "delete")
  /\ DropRow(f)
  /\ Respond(f, s)
  /\ gone' = gone \cup {f}
  /\ UNCHANGED <<offset, age, diskVars, post, allowed, jobVars, asked, bounds>>

Delete(f, s) == AskDelete(f, s) \/ DeleteUnlink(f, s) \/ DeleteRow(f, s)

\* The UPDATE of the offset or of the status, or the DELETE, fails: an error
\* response and nothing else.
StatementFails(f, s) ==
  /\ slot[f][s].op \in {"update", "complete", "delete"}
  /\ Fault
  /\ Respond(f, s)
  /\ UNCHANGED <<rowVars, diskVars, post, allowed, jobVars, ghosts, crashes>>

-----------------------------------------------------------------------------
(***************************************************************************)
(* jobs/kipple, deleteExpired: SELECT, then DELETE and os.Remove for each  *)
(* entry, without a second look at the row.                                *)
(***************************************************************************)
\* Bug: abandoned uploads are left alone.
BugDoomed(f) == status[f] = "complete" /\ age[f] = "expired"

\* The WHERE of the SELECT.
Doomed(f) == \/ status[f] = "complete" /\ age[f] = "expired"
             \/ status[f] = "pending" /\ age[f] # "fresh"

SelectExpired ==
  /\ "cleanup" \in Jobs /\ cleanup = NoCleanup
  /\ \E f \in Files : Doomed(f)
  /\ cleanup' = [todo |-> {f \in Files : Doomed(f)}, removing |-> {}]
  /\ UNCHANGED <<rowVars, diskVars, post, allowed, slot, orphans, ghosts, bounds>>

\* Bug: the row is left to the orphan job.
BugKeepExpiredRow(f) ==
  /\ f \in cleanup.todo /\ cleanup.removing = {}
  /\ cleanup' = [todo |-> cleanup.todo \ {f}, removing |-> {f}]
  /\ UNCHANGED <<rowVars, diskVars, post, allowed, slot, orphans, ghosts, bounds>>

DeleteExpiredRow(f) ==
  /\ f \in cleanup.todo /\ cleanup.removing = {}
  /\ DropRow(f)
  /\ cleanup' = [todo |-> cleanup.todo \ {f}, removing |-> {f}]
  /\ UNCHANGED <<offset, age, diskVars, post, allowed, slot, orphans, ghosts, bounds>>

RemoveExpiredFile(f) ==
  /\ f \in cleanup.removing
  /\ Unlink(f)
  /\ cleanup' = [cleanup EXCEPT !.removing = {}]
  /\ UNCHANGED <<rowVars, post, allowed, slot, orphans, ghosts, bounds>>

\* A DELETE fails: the job returns the error, the next run starts over.
CleanupFails ==
  /\ cleanup.todo # {} /\ cleanup.removing = {}
  /\ Fault
  /\ cleanup' = NoCleanup
  /\ UNCHANGED <<rowVars, diskVars, post, allowed, slot, orphans, ghosts, crashes>>

Cleanup == SelectExpired \/ CleanupFails
           \/ \E f \in Files : DeleteExpiredRow(f) \/ RemoveExpiredFile(f)

-----------------------------------------------------------------------------
(***************************************************************************)
(* jobs/kipple, deleteOrphaned: the rows, then the directory, each against *)
(* the rows as they were when the job began.                               *)
(***************************************************************************)
SelectRows ==
  /\ "orphans" \in Jobs /\ orphans.stage = "off"
  /\ LET known == {f \in Files : Row(f)}
     IN  orphans' = [stage |-> "rows", known |-> known, check |-> known, remove |-> {}]
  /\ UNCHANGED <<rowVars, diskVars, post, allowed, slot, cleanup, ghosts, bounds>>

\* Bug: rows without a file are counted and kept.
BugCheckKeepsRow(f) ==
  /\ f \in orphans.check
  /\ orphans' = [orphans EXCEPT !.check = @ \ {f}]
  /\ UNCHANGED <<rowVars, diskVars, post, allowed, slot, cleanup, ghosts, bounds>>

\* os.Stat, and the DELETE when the file is missing; a missing file stays
\* missing, so nothing can happen between the two.
CheckRow(f) ==
  /\ f \in orphans.check
  /\ IF f \in linked THEN UNCHANGED status ELSE DropRow(f)
  /\ orphans' = [orphans EXCEPT !.check = @ \ {f}]
  /\ UNCHANGED <<offset, age, diskVars, post, allowed, slot, cleanup, ghosts, bounds>>

\* os.ReadDir, and the names that are not among the known paths.
ReadDir ==
  /\ orphans.stage = "rows" /\ orphans.check = {}
  /\ orphans' = [orphans EXCEPT !.stage = "files", !.remove = linked \ orphans.known]
  /\ UNCHANGED <<rowVars, diskVars, post, allowed, slot, cleanup, ghosts, bounds>>

RemoveOrphan(f) ==
  /\ f \in orphans.remove
  /\ Unlink(f)
  /\ orphans' = [orphans EXCEPT !.remove = @ \ {f}]
  /\ UNCHANGED <<rowVars, post, allowed, slot, cleanup, ghosts, bounds>>

\* The job is done, or one of its statements failed.
OrphansReturn ==
  /\ \/ orphans.stage = "files" /\ orphans.remove = {} /\ UNCHANGED faults
     \/ (\E f \in orphans.check : f \notin linked) /\ Fault
  /\ orphans' = NoSweep
  /\ UNCHANGED <<rowVars, diskVars, post, allowed, slot, cleanup, ghosts, crashes>>

Orphans == SelectRows \/ ReadDir \/ OrphansReturn
           \/ \E f \in Files : CheckRow(f) \/ RemoveOrphan(f)

-----------------------------------------------------------------------------
(***************************************************************************)
(* Time and the process.                                                   *)
(***************************************************************************)

\* An hour, then the rest of expire_days, go by since created_at.
GrowOld(f) ==
  /\ Row(f) /\ age[f] # "expired"
  /\ age' = [age EXCEPT ![f] = IF @ = "fresh" THEN "stale" ELSE "expired"]
  /\ UNCHANGED <<status, offset, diskVars, post, allowed, slot, jobVars, ghosts, bounds>>

\* The process ends, by a crash or because the drain of a shutdown timed out;
\* rows and files stay as they are, and a new process takes over.
Crash ==
  /\ crashes < MaxCrashes
  /\ crashes' = crashes + 1
  /\ post' = [f \in Files |-> IF post[f] = "new" THEN "new" ELSE "done"]
  /\ slot' = [f \in Files |-> [s \in Slots |-> Free]]
  /\ cleanup' = NoCleanup /\ orphans' = NoSweep
  /\ UNCHANGED <<rowVars, diskVars, allowed, ghosts, faults>>

Handle(f, s) == AppendChunk(f, s) \/ Delete(f, s) \/ StatementFails(f, s)

\* Every upload that is done with and has no row left; nothing remains to do
\* but to walk empty tables.
Finished ==
  /\ \A f \in Files : post[f] = "done" /\ ~Row(f) /\ slot[f] = [s \in Slots |-> Free]
  /\ UNCHANGED vars

Next ==
  \/ \E f \in Files : Create(f) \/ GrowOld(f)
  \/ \E f \in Files, s \in Slots : Handle(f, s)
  \/ Cleanup \/ Orphans \/ Crash \/ Finished

Spec == Init /\ [][Next]_vars

\* The two jobs run on tickers that never stop and their statements and
\* system calls return.  Nothing is assumed of clients or of handlers: a body
\* may never end.
Fairness == WF_vars(Cleanup) /\ WF_vars(Orphans)

FairSpec == Spec /\ Fairness

-----------------------------------------------------------------------------
(***************************************************************************)
(* Properties.                                                             *)
(***************************************************************************)

\* A complete, unexpired row: what Get, GetInfo and List let a client see.
Servable(f) == status[f] = "complete" /\ age[f] # "expired"

\* What a user may upload is decided by the sum at the INSERT: concurrent
\* POSTs, each with a quota computed earlier, never book more than Quota.
QuotaHeld ==
  \A u \in Users \ Unlimited :
    MapThenSumSet(LAMBDA f : Size[f], {f \in Files : Owner[f] = u /\ Row(f)}) <= Quota

\* Every byte below the stored offset is on disk and is the client's: a HEAD
\* after a broken transfer, a bad checksum, a failed statement or a crash
\* never makes a client resume past a byte that is missing or wrong.
OffsetBacked ==
  \A f \in Files : Row(f) /\ f \in linked =>
    /\ offset[f] <= Len(content[f])
    /\ \A i \in 1 .. offset[f] : content[f][i] = "data"

\* A file that can be downloaded has its declared size and the client's data.
ServedWhole ==
  \A f \in Files : Servable(f) /\ f \in linked =>
    content[f] = [i \in 1 .. Size[f] |-> "data"]

\* A row has its file on disk, unless its owner asked for its deletion.
RowHasFile == \A f \in Files : Row(f) /\ f \notin asked => f \in linked

\* A deletion that was acknowledged is final: no PATCH, POST or job in flight
\* at the time brings back the row or the file.
GoneStaysGone == \A f \in gone : ~Row(f) /\ f \notin linked

\* The offset of an upload never goes back (service.go:237: AppendChunk
\* "advances the stored offset"), while its client sends one PATCH at a time.
OffsetAdvances ==
  [][\A f \in Files : Row(f) /\ status'[f] # "none" => offset'[f] >= offset[f]]_vars

\* Only its owner takes away a file that can be downloaded.
ActiveFileKept ==
  [][\A f \in Files : Servable(f) /\ f \notin asked =>
       status'[f] = "complete" /\ (f \in linked => f \in linked')]_vars

\* A row without file or a file without row, left by a crash or by a failed
\* statement, is repaired by the jobs.
Repaired ==
  \A f \in Files : (Row(f) # (f \in linked)) ~> (Row(f) = (f \in linked))

\* An upload nobody finishes does not hold its quota for ever.
StaleReleased ==
  \A f \in Files : (status[f] = "pending" /\ age[f] = "stale") ~> status[f] # "pending"
=============================================================================
