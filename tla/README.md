# meryl.moe in TLA+

meryl.moe is a small Go web server (chi, SQLite, server-rendered pages) with a
file store, short-lived notes, sessions and a background worker. This directory
holds TLA+ modules that model its stateful parts, TLC configurations that
check them, and TLAPS proofs. Source paths below are relative to `src/`.

## 1. Inventory

| Part | Code | State it keeps | Operations | What is hard about it |
|---|---|---|---|---|
| Job queue | `internal/platform/worker/{worker,queue}.go` | tables `job_queue`, `job_history`, `job_graveyard`; `jobMap`; one poll goroutine, one goroutine per claimed job | Enqueue, reset, claim, execute, complete, retry, bury | crash between a run and its verdict; reset against executors; claims cut short; shutdown in the middle of a run; names that vanish in a redeploy |
| Scheduler | `worker.go` `runJob`, `runOnce` | one goroutine and ticker per job | run each job at start and at its interval, trigger | `select` between a tick and the cancellation; failed runs |
| Server lifecycle | `internal/server.go` `Start`, `cmd/server/main.go` | context, listener, the two databases | start, signal, drain, close databases, exit | databases are closed under goroutines still at work |
| Kipple store | `internal/modules/kipple/{service,handler}.go` | rows of `kipple_files`, files in one directory | POST, HEAD, PATCH, DELETE, view, download, list, quota | row and file change in separate steps, without a lock; two PATCHes at once; broken transfers; quota of concurrent POSTs |
| Kipple jobs | `internal/platform/worker/jobs/kipple` | the same rows and files | Cleanup, CleanupOrphans | they act on lists that are stale by then |
| Kipple client | `static/modules/kipple/kipple.js` | upload URL in localStorage, offset | create, resume, send chunks, abort, cancel | resumes an upload whose last request may still be running |
| Sessions | `internal/platform/auth`, `middleware/session.go`, `modules/wired` | table `sessions`, cookie, the one connection | login, logout, load, require | expiry and logout between the two lookups of one request; the connection held over two statements |
| Relay | `internal/modules/relay`, `worker/jobs/relay` | table `relays` | save, view, list, expire | expiry and sweeping against reading; who may see a private note |
| Relay editor | `static/modules/relay/{relay,codec}.js` | text area, URL, running compressions | restore, input, compress | compressions that overlap and outlive their page |
| Notifications | `static/platform/notifications.js` | toasts, timers | push, dismiss, remove | timers, clicks and transitions against each other |
| Log files | `server.go` `initLogging`, `worker/jobs/logging` | one file per date | open, write, delete old ones | dates of names in local time, judged as UTC; a file that is still open |
| Dispatch | `internal/platform/dispatch` | none | hands events to Enqueue | called by tests only |
| Databases | `internal/platform/db` | one connection each; migration tables | open, migrate | crash between two statements; two processes at once; one connection shared by all |
| Templates | `internal/platform/templates` | page cache | resolve, render | double check under a read and a write lock |
| The rest | pages, security headers, config, `cmd/{seed,dbexec,hashpw}`, other scripts | none worth a model | | |

How they meet: handlers and jobs share the core database and the kipple
directory; jobs are started by the worker, whose context is the one a signal
cancels; `Server.Start` closes both databases whatever is still running; the
client knows the store only through the offset a HEAD or a PATCH returns.

What makes each part correct:

- *queue*: a job is held by one goroutine at a time; it gets exactly one
  verdict, and the verdict is true; attempts are counted once; nothing stays
  running without a holder; every job settles.
- *kipple*: what the stored offset says was received is on disk; what is
  complete is whole; deletion is final; quotas hold; rows and files agree in
  the end; a file is never taken from its owner before its time.
- *sessions*: no request is served as a user whose session had ended when it
  began; logout is final; nobody with a valid session is turned away; every
  request is answered.
- *sharing*: nothing private is shown to anyone but its owner, nothing that is
  gone to anyone, and nothing goes without a reason.
- *migrations*: each is applied once, in order, whatever restarts there are.
- *templates*: a page is parsed once, and its map is never read while it is
  written.
- *scheduler*: every job runs again and again until the server is stopped, and
  then every goroutine ends.
- *log files*: lines stay for the retention time, less the uptime of the server
  that wrote them. The open file ought to stay as well, and does not (section 7).
- *editor, toasts*: the link is that of the text; toasts come and go.

The hazards, each with its line and the properties that cover it, are listed in
`PROJECT.json`.

## 2. Plan

| Order | Module | Composes | State |
|---|---|---|---|
| 1 | `JobLedger`, `WorkerQueue`, `WorkerQueueProofs` | queue, lifecycle | done |
| 2 | `KippleStore`, `KippleStoreProofs` | store handlers, both jobs, disk, crash | done |
| 3 | `KippleClient`, `KippleClientProofs` | kipple.js against KippleStore's handlers: lost responses, resume, cancel, a full upload that is still pending | done |
| 4 | `Sessions`, `SessionsProofs` | auth, the two middlewares, login and logout handlers | done |
| 5 | `Sharing`, `SharingProofs` | `Sessions` with relay notes, the reading and deleting of kipple files, and the jobs that sweep both | done |
| 6 | `KippleListing`, `RequestsProofs` | expiry with 64-bit durations, the pages of List and a reader who follows them; requests and list together | done |
| 7 | `SchemaLog`, `Migrations`, `MigrationsProofs` | runMigrations by two processes that may die | done |
| 8 | `TemplateCache` | resolve by several requests | done |
| 9 | `JobScheduler` | scheduled and triggered runs, shutdown | done |
| 10 | `LogFiles` | the server's log file and the job that deletes old ones | done |
| 11 | `RelayEditor`, `Notifications` | the two scripts with timers and promises | done |
| 12 | `PartsProofs` | proofs about 8 to 11, and about their common run | done |

Every invariant and every action property of a passing run is a theorem, some
under hypotheses that sections 4 to 8 name and argue for. Still
worth proving: that `KippleStore` with one writer implements an abstract
append-only upload, and lemmas towards the liveness properties (what a state
that never moves on would have to look like).

## 3. The job queue: `JobLedger`, `WorkerQueue`

`JobLedger` is the promise: a job is accepted, failed attempts are entered one
by one, and one verdict is entered, `done` or `buried`.

`WorkerQueue` is the code.

| Variable | Code |
|---|---|
| `process`, `context`, `registered`, `starts` | the process, the context of `JobRunner.Start`, `jobMap`, how often it was started |
| `loop` | where `pollLoop` is: before `resetOrphaned`, waiting in `select`, iterating over the claimed rows, returned |
| `status`, `attempts` | the row in `job_queue`; `attempts` follows the job into the other tables |
| `history`, `graveyard`, `lastError` | `job_history`, `job_graveyard` |
| `exec[j][l]` | a record of job `j` that `processQueue` or the executor in lane `l` holds, with the attempts it was read with |
| `succeeded`, `failures` | history variables: the start in which a `Run` of the job last returned nil (0: never), how many have failed |

One action per statement or transaction, since the worker database has one
connection (`db.go:55`): `ResetOrphaned`, `ClaimPending` (the UPDATE),
`SpawnExecutors` or `ClaimFails` (what becomes of its rows), `Complete`,
`Retry`, `BuryUnknown`, `BuryExhausted`, and `FinishFails` where the error of
any of the last four is logged and dropped. `Start` may bring a build that
registers other names. `CloseDatabases` comes after a signal or after
`ListenAndServe` has failed; `Crash` at any time.

The lanes of a job are places for goroutines. Two are enough to see a second
executor; if the code ever started one, `ExclusiveExecution` would show it.

Left out: payloads (the branch for an undecodable one cannot be reached, as
`enqueue` encoded it), time (a tick may come whenever the loop waits), the
scheduled runs. A run that panics ends the process and is a `Crash`.

### Checked

`WorkerQueue.cfg`: two jobs with two names, 2 attempts instead of 3 (the
boundary and the step before it are both there), three starts (a first
process, one that crashes while recovering, and a last), one database error: all
safety properties, the refinement, and `JobsSettle`. The last says that every
job gets its verdict unless a write has failed: a verdict that could not be
written leaves the row running until the next start, and the last process has
none after it.

Fairness: systemd starts the process again (`Restart=always` in `deploy/`), a
cancelled process closes its databases within the 30 s of the drain and exits,
the ticker of the poll loop keeps firing, the Go scheduler runs every executor,
and a `Run` (some SQL, some file removals) returns. A crash or a signal is never
forced.

The starts are bounded by `MaxStarts`, and the last process is not made to
stop: the guard `starts < MaxStarts` of the stopping actions says so. Otherwise a
behaviour could end with the process down, which is not what `Restart=always` does.

### Proved (`WorkerQueueProofs`)

For any sets of jobs, lanes and names and any bounds. The invariants of the
runs are not inductive: that no second goroutine gets a job depends on *when*
records are held. `IInv` adds `HoldersFollowReset` (nobody holds a record before
`resetOrphaned` is through, records are in flight to the loop only while it is
claiming), `AttemptLeft` (a row in the queue has an attempt left) and
`AttemptsMade` (the attempts on the books were made, and an executor about to
file a verdict has seen `Run` return accordingly). `TypePreserved`,
`HoldersPreserved` and `BooksPreserved` treat the three groups step by step;
`Invariant` puts them together. From it:

- `Exclusive`, `Current`, `Partition`, `Earned`: projections;
- `Stranded`: by the stronger `NoneStranded`, an invariant relative to `IInv`;
- `Final`: every step appends to history and graveyard only (`StepsAppend`);
- `ImplementsLedger`: every step of the queue is a step of `JobLedger` or
  leaves it unchanged (`LedgerStep`);
- `Booked` (`FailuresBooked`): a failed `Run` that is not on the books is with
  the executor about to file it, or was paid for by a start or a database error.
  That is an inequality between counters, and inductive only with `MayLose`: the
  present life of the process may lose one failed `Run` of a job, while it is up
  and after that as long as a goroutine holds the job. `StepsBalanced` shows
  that each step pays for what it loses, `LossesCounted` adds it up;
- `RunOnce` (`RepeatOnlyIfInterrupted`): a job that has succeeded runs again only
  in a later life of the process than the one it succeeded in. Per job,
  `FiledOrInterrupted` says that it is filed, or its executor is about to file it,
  or its row is left running, or the success lies in an earlier life. Neither what
  happened to other jobs nor what happened before the success counts, and database
  errors alone never repeat a `Run` that returned nil: a lost verdict leaves the
  row running, where only `resetOrphaned` of the next start finds it.

Assumptions: `MaxAttempts` is positive, `NameOf` is a function into `Names`, the
bounds are naturals. With TLC only: `JobsSettle` (liveness).

## 4. The file store: `KippleStore`

An upload stands for one POST: the model's id is the uuid, with the owner and
size it declared. Its row is (`status`, `offset`, `age`), its file is in `linked`
with the units in `content`: a unit is the client's `data`, or `junk`, which is
either corrupted or a hole. `post` and `allowed` are where `CreateUpload` is and
the quota it computed; `slot[f][s]` is a PATCH or DELETE at work on the upload:
what it read, how much it has written, what it does next. `cleanup` and
`orphans` are the local variables of the two jobs.

| Actions | Code |
|---|---|
| `CreateFile`, `InsertRow`, `RefuseRow`, `RemoveRefused` | `CreateUpload`: the file, the INSERT with its check, the two ways back |
| `ReadUpload`, `OpenFile`, `CopyUnit`, `CopyEnds`, `ChecksumMismatch`, `UpdateOffset`, `CompleteUpload` | `AppendChunk` |
| `AskDelete`, `DeleteUnlink`, `DeleteRow` | `DeleteFile`, for both DELETE routes |
| `StatementFails` | the error returns of those statements |
| `SelectExpired`, `DeleteExpiredRow`, `RemoveExpiredFile`, `CleanupFails` | `deleteExpired` |
| `SelectRows`, `CheckRow`, `ReadDir`, `RemoveOrphan`, `OrphansReturn` | `deleteOrphaned` |
| `GrowOld`, `Crash` | time against `created_at` and `expire_at`; the end of the process |

A descriptor outlives its name: `Rewrite` changes a file only while it is
linked. A PATCH whose offset, owner, status or checksum header is refused
changes nothing, and is not an action. Downloads and lists read only; what they
may read is `Servable`.

Parameters that say what the world does: `MaxWriters`, PATCH requests a client
has in flight for one upload (1 is a client that waits for its answer, as
`kipple.js` does within one page; two tabs, or a resume while the server still
reads an aborted request, make 2); `Corrupt`, whether a body may be corrupted
when it arrives whole or also when it is torn (the server looks at the checksum
of whole bodies only, so a torn and corrupted one gets in); `Overshoot`, how far
a body may reach past the declared size (1 unit in `KippleRepair`, where such an
upload can neither grow nor complete and must still be released); `FreeSpace`, what
statfs may report. Bounds: `MaxChunk`, `MaxCrashes`, `MaxFaults`.

### Checked

| Run | Instance | Shows |
|---|---|---|
| `KippleWriter` | one upload of 3 units, chunks of 0 to 2, one writer, two slots so that DELETE meets PATCH, both jobs, 2 crashes, 1 failed statement | `OffsetBacked`, `ServedWhole`, `GoneStaysGone`, `OffsetAdvances` |
| `KippleRepair` | one upload, bodies that overshoot it, both jobs, one crash, one failed statement | `Repaired`, `StaleReleased` |

Three units with chunks of up to two give a first, a middle and a last chunk and
every way to tear them. Two crashes reach a crash during the recovery from the
first. `Finished` lets the system rest once every upload is gone.

Fairness (`KippleRepair` only): the jobs keep being run by their tickers and
their statements return. Nothing is assumed of clients or handlers; a body may
never end.

Three runs find violations, each of something the repository says:

- `KippleOrphanRace` (`RowHasFile`): POST creates the file; the job has just read
  the rows; POST inserts the row; the job lists the directory, does not know the
  path and removes the file. `kipple_test.go:337`: "disk file with matching row
  must not be removed".
- `KippleCleanupRace` (`ActiveFileKept`): the job selects an hour-old pending
  upload; its last PATCH completes it; the job deletes it by id.
  `kipple_test.go:156`: "active complete file must not be deleted by cleanup".
- `KippleTwoWriters` (`ServedWhole`): with two PATCHes in flight for one offset,
  the one with a bad checksum truncates the file after the other has completed
  the upload. `service.go:49`: "File is a completed file ready for download".

With two PATCHes in flight `OffsetAdvances` fails as well: one that was torn early
and finishes last stores an offset behind the current one, and the client sends
again what is already there (`service.go:237`: "advances the stored offset"). The
run above is the same race with worse consequences, so this one has no run of its
own.

`QuotaHeld` and `RowHasFile` are checked in section 5, where two POSTs of one user
run beside the pages' other requests. `RowHasFile` holds where the orphan job does
not run (`ClientPages`, and theorem `FilesKept`), `ServedWhole` and
`OffsetAdvances` for one writer.

### Proved (`KippleStoreProofs`)

For any uploads, users, slots, writers, jobs and bounds. `TypeCorrect`. `Deleted`:
`GoneStaysGone`. It is not inductive: the invariant adds that a row, and a
request to delete it, exist only once `CreateUpload` is done with the upload
(so that its INSERT cannot follow), and that a deletion past its `os.Remove` has no
file before it (as nothing but `CreateUpload` links one: `OpenFile` does not
create). `FilesKept`: without the orphan job, `RowHasFile`; its invariant
`FilesFirst` says that the file is there before the row and that the cleanup
job removes it only after the row.

`Advances`: with `MaxWriters <= 1`, `OffsetAdvances`. `SingleWriter` says that at
most one slot of an upload is writing and that it started at the stored offset.
The actions that no PATCH takes part in are one case (`Quiet`), which serves the
next two theorems as well.

`Backed`: `OffsetBacked` under `Careful`, that is, no torn body is corrupted, and
either one PATCH at a time or no corruption at all. `Arrived` says what a PATCH
may rely on at each of its steps: the file is intact up to where it began, and,
if its body is sound, up to where it has got. Without corruption that survives a
second writer, as both write the same bytes; with it, the truncation after a bad
checksum takes what the other has written, unless there is no other. `Careful` is
what `service.go` can promise: the two ways to break it are what the run
`KippleTwoWriters` and the hazard about torn bodies in `PROJECT.json` are about.

`Whole`: `ServedWhole`, under `Careful` and `Overshoot = 0`. `Within` says that no
PATCH carries more than is missing, `Fits` that no file is longer than its upload
and the file of a complete one intact. The second hypothesis is needed: with
bodies that may reach past the declared size TLC finds a file that is served too
long (a body past the size, its UPDATE lost, then a PATCH of the right length that
completes the upload). The server puts no limit on a body (`service.go:276`); the
theorem about the client in section 5 does without the hypothesis.

`WithinQuota`: `QuotaHeld`, for any users, sizes, quota and free space. What is
booked is a sum over the rows of a user. The proofs have it as the number of
pairs of an upload and one of its units (`Units`): `SumIsUnits` shows that the
fold of the community modules is that number, since both satisfy the same
recursive equation and a smallest set on which they differed would contradict it.
`Affordable` adds that a POST between its check and its INSERT has been allowed
no more than the quota; the INSERT checks once more, within the statement.

Assumptions: types of the constants, finitely many slots of an upload. With TLC
only: liveness.

## 5. The client on the store: `KippleClient`

`KippleClient` extends `KippleStore` with the pages of one user. All of them
upload the same local file, so they share one key of localStorage (`stored`);
`page[p]` is the uploader of a page: the `await` it is at, `uploadUrl`, the
offset it believes in, and the slot of the handler whose answer it waits for.

| Actions | Code in `kipple.js` |
|---|---|
| `Begin`, `TryResume`, `Post`, `Created`, `NotCreated` | `start`, `tryResume`, `create`, with the handler's two answers to the POST |
| `CurrentOffset`, `SendChunk`, `Refused`, `Serve`, `Finish` | the loop: HEAD, PATCH, 409 or another error, the answer, the end |
| `Lose` | a fetch that fails, a page that is closed: the page forgets the request, the handler does not |
| `Cancel` | the cancel button: abort, then DELETE when the URL is known |
| `ServerCrash` | `Crash` of the store, and the fetches that fail with it |

A PATCH takes up a slot of the store, so requests a page has forgotten go on
next to the ones it makes later: the two writers of section 4 come about here
instead of being assumed. The body of a PATCH is the one the page sends;
`written` falls short of it when the connection breaks.

| Run | Instance | Shows |
|---|---|---|
| `ClientPages` | two pages, two starts, two uploads of 2 chunks of which the quota allows one, scarce or plentiful disk, cleanup job, a crash, a failed statement; connections break and do not corrupt | `OffsetBacked`, `ServedWhole`, `QuotaHeld`, `RowHasFile` |
| `ClientLiveness` | two pages, two starts, one upload of 2 chunks, bodies may be corrupted, cleanup job, a crash | `ReportedSettles`, `UploadEnds` |
| `ClientHalfDone` | one page, two starts, one crash | violation of `ReportedCompletes` |

`ClientPages` adds to section 4 that two PATCHes at one offset do no harm by
themselves: they write the same bytes to the same place. It takes a failed
checksum, hence a truncation, to lose any. In `ClientHalfDone` the process ends
between the UPDATE of the offset and `completeUpload`; the page resumes, HEAD
says that nothing is left to send, the page reports "uploaded" (`kipple.js:338`)
and forgets the upload, which stays pending until the cleanup job deletes it. An
error of the second statement does the same.

`ReportedSettles` is what remains of that promise: what a page reports as done is
complete soon after at the latest, but for four causes, each named in the formula.
The owner deletes it; the server has ended or a statement has failed (the run
above); or it is *swept*. For that the upload has to be older than an hour: the
cleanup job then deletes its row while the last PATCH is under way, both UPDATEs
of that PATCH hit no row (`service.go:293-310` does not ask how many they hit), it
is answered with 204, and the page reports "uploaded". Server and statements are
all well in that case, so it is one of the disagreements of section 9. What the
property does exclude as a cause is a second page, a forgotten request, a
connection that breaks or corrupts, and an upload less than an hour old.

Bounds: `MaxStarts`, how often a user presses upload: two give two pages at once,
or one page with a request of its own that it has forgotten. With two chunks
there is a first and a last one, and one that a late UPDATE can set back. A page
creates a second upload when localStorage has none to resume; it shares the quota
and the disk with the first, which is why `ClientPages` has two ids and
`ClientLiveness`, where nothing is refused, one.
Fairness (`ClientLiveness`): a page that has started goes on,
and a handler is served to its end, with a body that arrives or breaks off.
Starts are not fair, so a user who gives up leaves an upload behind.

`SendChunk` takes the sending of a PATCH and the handler's first statement as one
step. A PATCH that is forgotten before the server has read the row is therefore
not a case of these runs; the runs and theorems of section 4, where a PATCH may
come at any time, cover it, and with `PagesUseStore` below they apply here.

### Proved (`KippleClientProofs`)

`PagesUseStore`: `ClientSpec => Spec`. Whatever pages send, forget, abort and
resume, the store sees clients that `KippleStore` allows for, so each of its
theorems holds under them. From it `PagesBacked` (`OffsetBacked` under `Careful`).
`PagesWhole` is `ServedWhole` under `Careful` for any `Overshoot`: a page starts
a PATCH at the offset it sends and slices its file there (`Known`, `Within`), so
it never sends past the end, however many pages work on the upload. With TLC
only: `ReportedSettles` and `UploadEnds`, which are liveness.

## 6. Requests: `Sessions`, `Sharing`, `KippleListing`

`Sessions` is the way of a request through `LoadAuth`, `RequireAuth` and the
handlers of the login page.

| Variable | Code |
|---|---|
| `sessions`, `now` | the rows of the table by token, the clock their `expires_at` is compared with |
| `conn` | who has the one connection (`SetMaxOpenConns(1)`, `db.go:55`) |
| `req[r]` | a request: its route, its cookie, what its last lookup found, the user in its context, where it is, and `asOf`: the time it has read and not used yet |
| `issued` | the tokens clients have in cookies |
| `owner`, `left`, and `over`, `wasLeft`, `failed` of a request | history: for whom a token was made, which were logged out, how it stood with the session when the request began, whether a lookup failed |

A statement without rows takes and returns the connection in one step; the query
of the roles keeps it from `QueryRoles` to `CloseRows`. `Served` is
`next.ServeHTTP`: a protected route runs `LoadAuth` a second time, in its second
`pass`, and `Admit` looks at the context only, as the code does. So a session that
ends between the two passes is still let in, on what the first one put into the
context; `ServedAsOwner` is about sessions that had ended before the request began.

An argument of a query is evaluated before the wait for the connection, so the
`time.Now()` of a lookup, of a note or file that is read, of a user's list and of
a new session may be older than the statement it goes into. `asOf` keeps it in
between, and the clock and the jobs may go on meanwhile. The jobs themselves
compare with any earlier time. Two statements still read the clock with the
statement: the list of `KippleListing` (whose readers are told nothing about
expiry) and the INSERT of `CreateUpload` (whose age counts from there on, in units
of an hour).

`Sharing` extends it with the handlers of relay and with those of kipple that
read or delete: `attr` is what a row says (owner, mode, expiry), `rows` and `disk`
which rows and files there are, `task[r]` what the handler of a request has read
and shown. Each statement is an action, so that expiry, the jobs (`SweepNotes`,
`SweepFile`) and deletions fall between what is read and what is shown.
`KippleListing` is the list: `Query` with its limit and offset, the extra row
that says whether there is a next page, the arrows, days rounded down, and
`expireAt` with the wrap-around of a 64-bit duration. A page is a set: names are
unique and ordered, so the row at offset k is the one with k smaller names
(`Place`).

Run `Requests` (`MCRequests`) checks them together. All routes at once are too many
states, so a behaviour has one kind of `traffic`, chosen at its start: login,
logout and me; reading; saving; deleting; or the list, which shares no variable
with the rest. Two users, two tokens, two requests at a time (which come again
and again, with any cookie issued so far or none), one note and one file, a
clock of two ticks where something is saved and expires, otherwise of one,
and statements that may fail at any time. Users and requests are symmetric. The
list: three files, pages of one, days of two units, a clock of three. Two requests
are enough for every pair of statements to come in either order with a third
actor (clock, job) between them; 3.3 million states.

| Property | Says |
|---|---|
| `RequestTypes` | types |
| `ServedAsOwner` | a request is handled as the owner of its token only, and only if that session was neither expired nor logged out when it began |
| `ValidAdmitted` | a valid session is not turned away, unless a lookup failed |
| `PrivateKept`, `AnswersRight` | private items and lists go to their owners only; what was gone is not shown, and what a reader was told is missing never comes back |
| `RemovedForCause` | rows go by expiry, or by their owner's request |
| `NothingSkipped` | who follows the arrows to the end has seen every file that was there, while files are only added |
| `LifetimeKept` | a file lives for the days asked for, and for the days the list shows |

## 7. The other parts: `Migrations`, `TemplateCache`, `JobScheduler`, `LogFiles`, `RelayEditor`, `Notifications`

`Migrations`: processes run the list of their build, statement by statement; the
transaction takes SQLite's write lock with its first write, and a second process
gets SQLITE_BUSY; any statement may fail and any process die. `build[p]` is the
length of the list, of which the migrations file says that it is append only.
`SchemaLog` is the promise: the schema grows by the next entry. `AppliedIsTracked`
says that what is tracked is what was applied, once each and in order.

`TemplateCache`: `resolve` with its two looks, `sync.RWMutex` as it is documented
(a waiting writer keeps new readers out), parses that fail, and the development
mode, in which nothing is cached. `CacheSound`: the map is never read while it is
written, and a page has one template set.

`JobScheduler`: `runJob`'s loop, ticker and `select`, and `TriggerJob`.
`JobsRunUntilCancelled`: every job runs again and again until the context is
cancelled, and then every loop ends. Nothing in the code keeps a triggered run
from overlapping a scheduled one; the model has both and states no property of
their overlap, since nothing but tests triggers a job.

`LogFiles`: time in parts of a day, servers in, west and east of UTC. A server
opens the file of the local date and writes to it until it ends, however long
that is; the job reads the dates in the names as UTC. `RecentKept`: a line that is
gone is older than the retention time, less the uptime of its server when it was
written, the rest of the day on which that server started and the distance to
UTC. A server that is up for longer than the retention time has no such margin
left, and deletes the file it is writing to: run `LongUptime` expects the
violation of `OutputIsFiled`, for which `server.go:183` says "routes all log output
to both stdout and the file".

`RelayEditor`: `restoring` and `compressing` are the promises that run. An input
aborts the compression before it. `LinkFollowsText`: once nothing runs the link is
that of the text, whatever the order in which compressions ended, and a compression
that was aborted writes to no page's URL. `late` records what the code has no
answer to, and the property says nothing of it: someone types before the text of
the link has been restored, or leaves while a compression runs, which then still
writes its link to the URL of the page that came after. What codec.js and the
textarea do to a text on its way (a byte order mark goes, line ends become LF) is
`Decoded`; a link is right when it gives the text that is shown.

`Notifications`: push, dismiss by click, timer or a newer toast, removal after the
transition. The list is the set of the toasts' numbers, as a newer toast has a
larger number and stands before the older ones. `ToastsComeAndGo`: never more than
`maxNotifications` but for those leaving, and every toast goes. `burst` records a
push while another toast leaves: then the one that leaves is dismissed again, and
there is one too many. The bound on their number is not claimed from then on.

Run `Parts` (`MCParts`) checks them, and the liveness of `Sessions`. They share no
state, so an interleaving of two of them shows nothing that one alone does not:
`part` is chosen at the start of a behaviour and the others stand still. Bounds:
two requests with one user and token; two processes with lists of 2 and 4
migrations, one of which may be run twice, and two faults; two visitors, two pages
and three parses; two jobs; a clock of three and a half days with a retention of
two; three inputs of three texts, one of which is restored as another; five toasts
of which three may be shown. `Promise` is the refinement of `SchemaLog`;
`NobodyStuck` says that no request waits for ever for the connection or for the
template lock, and no process for a schema it can serve.

Fairness, in `MCParts`: a goroutine that can go on again and again does (strong
fairness: `database/sql` and `RWMutex` hand over to whoever has waited, and
`select` chooses at random); processes go on and are started again; jobs end,
tickers and timers fire, transitions end or their half second passes. Clients,
clicks, inputs, faults and the end of a process are not fair.

## 8. Proofs about these parts

`MigrationsProofs`, for any processes, builds, lists and number of faults. The
inductive invariant (`SchemaInv`): what is applied is a tracked beginning of the
list; a transaction that has run its SQL holds the write lock; a loop has passed
only what is applied; who is about to commit has seen that its row was missing. So
its migration is the next one (`CommitIsNext`), which is what the lock is for. From
it `Tracked` (`AppliedIsTracked`), `SchemaServed` (a process serves only on a schema
its build knows completely) and `ImplementsLog` (every step is a step of
`SchemaLog` or a stutter). Assumptions: the constants' types.

`SessionsProofs`, for any users, tokens, requests, times and failures:
`ServedRightly` (`ServedAsOwner`) and `Admitted` (`ValidAdmitted`). Neither is
inductive: what a lookup has found is used steps later, when the row may be gone.
`GoodRequest` says for each place in the code what the request knows by then, and
in terms that no other actor can undo: for whom the token was made, and that its
session had not ended when the request began. That these stay true while others
act is `StaysGood`, from what steps may do to rows (`OldTokensKept`: a token keeps
its owner, and an invalid session never becomes valid again).

`SharingProofs` puts the handlers on top, for any notes and files: `Private`
(`PrivateKept`), `Right` (`AnswersRight`) and `Removed` (`RemovedForCause`). `Work`
says what a handler has in hand at each step: a file is opened for a user only
after `CheckViewer` has found the user to be the owner or the file public, a row
is dropped only for the owner; `ItemsKept` that items keep their attributes and
never come back, as ids are not used again. That last one is an assumption of
the model (random ids), and the proofs rest on it.

`RequestsProofs` is about the list, and about requests and the list together.

- `Seen` (`NothingSkipped`), for any files and size of a page. `Ahead`: what the
  reader has not seen yet of the files that were there lies behind the page that
  is shown. A file that is added only pushes others back (`PlaceGrows`), a page
  shows all the places it is for, and without an extra row there is nothing
  behind it (`PageShown`, with `WindowFull` and `WindowBound`, which count the
  rows of a window of places).
- `Lifetime` (`LifetimeKept`), where no number of days that is asked for overflows
  a Duration (the observation in section 9 is what happens otherwise).
- `RequestsAlone`: each behaviour of the run is one of `ShareSpec` and one of
  `ListingSpec`, whichever traffic was chosen, so every theorem about either holds
  in the run. With it `RequestsTyped` (`RequestTypes`).

`PartsProofs` is about the smaller parts.

- Template cache, for any visitors and pages: `Sound` (`CacheSound`). The
  invariant says where the holder of the lock is, that nobody reads while it is
  held, and that a page is built only while the cache has none, which is what the
  second look under the lock is for: without it two visitors who both missed
  would store one after the other.
- Relay editor, for any texts and number of inputs: `Follows` (`LinkFollowsText`).
  `Orderly` is about the compressions that have not been aborted: each is of the
  text as it is now, and with none of them and nothing being restored the link is
  right already.
- Log files, for any zones, days, retention and uptimes: `Logged` (`RecentKept`),
  without a hypothesis. `WritesToday` ties the open file to the start of its
  server, `Dated` says that only outdated files are missing and that the latest
  line is in the file of the date its server started on; `OutdatedStays` that a
  date which is outdated stays so.
- Toasts: `FewToasts`, the safety half of `ToastsComeAndGo`.
- `PartsAlone`: the run of all parts does with each what its own specification
  does; with it and `SchedulerTypes` and the like, `PartsTyped` (`PartTypes`).

All of these are safety; the assumptions are the types of the constants, that
the values for "none" are not users, tokens or items, and those named above.

With TLC only: all liveness (`JobsSettle`, `Repaired`, `StaleReleased`,
`ReportedSettles`, `UploadEnds`, `JobsRunUntilCancelled`, `NobodyStuck`, and that
every toast goes): fairness and ENABLED are out of the prover's reach.

## 9. What the models say and the repository does not

Five runs find the code in disagreement with what the repository says of it: the
three races of the store (section 4), the upload that is reported and not complete
(5), and the log file that is deleted while it is open (7). Seen while modelling,
without a run of their own:

- a logout whose DELETE fails is only logged; the client is told it is out, and
  its session lives until it expires (`handler.go:111` of wired);
- a session that ends between the two lookups of a request is still let in;
- a PATCH whose row the cleanup job has swept is answered with 204 (section 5);
- the list is ordered by filename (`service.go:403`), where a comment says
  newest first;
- `expire_days` beyond 106751 wraps around to a file that has expired at its
  creation; no form or link of the program sends such a number;
- with deletions, a reader of the paged list can miss a file that moved forward.

## 10. Mutants

Each property has a mutant in the module it is about, named `Bug...`: a version
of an action with a plausible mistake (a reset at every tick, a verdict that
does not delete the row, an offset stored in spite of a bad checksum, a file
opened with O_CREATE, a lookup that forgets the expiry, a reader that does not
wait for the writer, ...), for which TLC finds the property violated under the
same configuration.

## 11. What is not modelled

- `GetQuota` and the formats of sizes and dates: they read, and write text;
- dispatch: it hands its arguments to `Enqueue`, and only tests call it;
- page transitions: no page includes the script;
- security headers, static and error pages, configuration, the operator's tools:
  without state, or run once by the operator;
- answers of the list that overtake each other in the browser, page numbers
  beyond the integers, the read-only view of a note, the dialogs, the list of
  chosen files and several files in one go;
- rendering and formatting throughout.

Memory, disk errors of single writes (a short write is a torn transfer), SQLite,
`database/sql` and `sync` are taken as documented; a power failure that loses
unsynced file data is not modelled, so `OffsetBacked` speaks of crashes of the
process, not of the machine.

## 12. Running

    tlc -config WorkerQueue.cfg MCWorkerQueue.tla
    tlc -config KippleWriter.cfg MCKippleStore.tla
    tlc -config ClientPages.cfg MCKippleClient.tla
    tlc -config ClientLiveness.cfg MCKippleClient.tla
    tlc -config LongUptime.cfg LogFiles.tla
    tlc -config Requests.cfg MCRequests.tla
    tlc -config Parts.cfg MCParts.tla
    tlapm WorkerQueueProofs.tla
    tlapm KippleStoreProofs.tla
    tlapm KippleClientProofs.tla
    tlapm MigrationsProofs.tla
    tlapm SessionsProofs.tla
    tlapm SharingProofs.tla
    tlapm RequestsProofs.tla
    tlapm PartsProofs.tla
