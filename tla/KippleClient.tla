----------------------------- MODULE KippleClient -----------------------------
(***************************************************************************)
(* The browser's side of an upload, KippleTusUploader of kipple.js, on top *)
(* of KippleStore.  The pages of one user share localStorage and upload    *)
(* the same local file, so every upload of Files is an attempt at that     *)
(* file; a page creates an upload or resumes the stored one, asks for its  *)
(* offset, and sends chunk after chunk until the offset reaches the size.  *)
(*                                                                         *)
(* A fetch that fails, or a page that is left, forgets its request; the    *)
(* handler that serves it knows nothing of that and goes on.               *)
(***************************************************************************)
EXTENDS KippleStore

CONSTANTS
  Pages,       \* browser pages with the upload form open
  NoUpload,    \* no URL in localStorage
  ChunkSize,   \* chunkSize, in units
  MaxStarts    \* bound: how often a user starts an upload, over all pages

ASSUME ClientAssumption ==
  /\ NoUpload \notin Files
  /\ ChunkSize \in Nat \ {0} /\ ChunkSize <= MaxChunk
  /\ MaxStarts \in Nat

VARIABLES
  page,     \* uploader of each page: stage, uploadUrl, offset, slot it waits for
  stored,   \* the upload URL in localStorage
  starts    \* uploads started

clientVars == <<page, stored, starts>>
allVars    == <<vars, clientVars>>

\* "idle": no upload, or one that has failed; "done": start() has returned.
Uploader ==
  [stage : {"idle", "resume", "create", "posted", "head", "loop", "sent", "done"},
   url : Files \cup {NoUpload}, at : Nat, lane : SUBSET Slots]

NoUploader == [stage |-> "idle", url |-> NoUpload, at |-> 0, lane |-> {}]

ClientInit ==
  /\ Init
  /\ page = [p \in Pages |-> NoUploader]
  /\ stored = NoUpload
  /\ starts = 0

-----------------------------------------------------------------------------
At(p, stage) == page[p].stage = stage

Go(p, stage) == page' = [page EXCEPT ![p].stage = stage]

Fail(p) == page' = [page EXCEPT ![p] = NoUploader]

Url(p) == page[p].url

\* start(): resume what localStorage remembers, or create.
Begin(p) ==
  /\ page[p].stage \in {"idle", "done"}
  /\ starts < MaxStarts /\ starts' = starts + 1
  /\ page' = [page EXCEPT ![p] = [NoUploader EXCEPT
                !.stage = IF stored = NoUpload THEN "create" ELSE "resume", !.url = stored]]
  /\ UNCHANGED <<vars, stored>>

\* tryResume: an answer that is not ok, and no answer at all, mean a new
\* upload.
TryResume(p) ==
  /\ At(p, "resume")
  /\ \/ Row(Url(p)) /\ Go(p, "head")
     \/ Go(p, "create")
  /\ UNCHANGED <<vars, stored, starts>>

\* create(): the POST reaches CreateUpload.
Post(p) ==
  /\ At(p, "create")
  /\ \E f \in Files :
       /\ CreateFile(f)
       /\ page' = [page EXCEPT ![p] = [NoUploader EXCEPT !.stage = "posted", !.url = f]]
  /\ UNCHANGED <<stored, starts>>

\* The page that waits for the answer to the POST of f.
Poster(f) == {p \in Pages : At(p, "posted") /\ Url(p) = f}

\* 201, with the Location that goes to localStorage.
Created(f) ==
  /\ InsertRow(f)
  /\ page' = [p \in Pages |-> IF p \in Poster(f) THEN [page[p] EXCEPT !.stage = "head"] ELSE page[p]]
  /\ stored' = IF Poster(f) # {} THEN f ELSE stored
  /\ UNCHANGED starts

\* An error status.
NotCreated(f) ==
  /\ RefuseRow(f)
  /\ page' = [p \in Pages |-> IF p \in Poster(f) THEN NoUploader ELSE page[p]]
  /\ UNCHANGED <<stored, starts>>

\* currentOffset().
CurrentOffset(p) ==
  /\ At(p, "head")
  /\ IF Row(Url(p))
       THEN page' = [page EXCEPT ![p].stage = "loop", ![p].at = offset[Url(p)]]
       ELSE Fail(p)
  /\ UNCHANGED <<vars, stored, starts>>

\* Bug: the page stops when it has sent a chunk, whatever the offset.
BugFinishEarly(p) ==
  /\ At(p, "loop") /\ page[p].at > 0
  /\ Go(p, "done")
  /\ stored' = NoUpload
  /\ UNCHANGED <<vars, starts>>

\* The offset has reached file.size: the key is forgotten, the page reports
\* the file as uploaded.
Finish(p) ==
  /\ At(p, "loop") /\ page[p].at >= Size[Url(p)]
  /\ Go(p, "done")
  /\ stored' = NoUpload
  /\ UNCHANGED <<vars, starts>>

Remaining(p) == Size[Url(p)] - page[p].at

\* sendChunk: the PATCH is accepted and a handler reads it in slot s.
SendChunk(p, s) ==
  /\ At(p, "loop") /\ Remaining(p) > 0
  /\ page[p].at = offset[Url(p)]
  /\ ReadUpload(Url(p), s)
  /\ slot'[Url(p)][s].len = IF Remaining(p) < ChunkSize THEN Remaining(p) ELSE ChunkSize
  /\ page' = [page EXCEPT ![p].stage = "sent", ![p].lane = {s}]
  /\ UNCHANGED <<stored, starts>>

\* Bug: the page sends the same chunk again instead of asking for the offset.
BugRetryOnConflict(p) ==
  /\ At(p, "loop") /\ page[p].at < Size[Url(p)]
  /\ \/ status[Url(p)] = "pending" /\ page[p].at # offset[Url(p)] /\ UNCHANGED page
     \/ status[Url(p)] # "pending" /\ Fail(p)
  /\ UNCHANGED <<vars, stored, starts>>

\* The PATCH is refused: 409 makes the page ask for the offset again, an
\* upload that is gone (404) or complete (403) is an error.
Refused(p) ==
  /\ At(p, "loop") /\ page[p].at < Size[Url(p)]
  /\ \/ status[Url(p)] = "pending" /\ page[p].at # offset[Url(p)] /\ Go(p, "head")
     \/ status[Url(p)] # "pending" /\ Fail(p)
  /\ UNCHANGED <<vars, stored, starts>>

\* The page that waits for the handler in slot s of f.
Sender(f, s) == {p \in Pages : At(p, "sent") /\ Url(p) = f /\ s \in page[p].lane}

\* The page has its answer: the new offset, or an error.
Answer(f, s, ok) ==
  page' = [p \in Pages |->
             IF p \notin Sender(f, s) THEN page[p]
             ELSE IF ok THEN [page[p] EXCEPT !.stage = "loop", !.at = NewOffset(f, s), !.lane = {}]
             ELSE NoUploader]

\* A handler does its next step; when it returns, its page has the answer.
Serve(f, s) ==
  /\ slot[f][s].op # "free"
  /\ Handle(f, s)
  /\ IF slot'[f][s].op # "free"
       THEN UNCHANGED page
       ELSE Answer(f, s, /\ slot[f][s].op \in {"update", "complete"}
                         /\ slot[f][s].written = slot[f][s].len
                         /\ faults' = faults)
  /\ UNCHANGED <<stored, starts>>

\* The fetch fails, or the page is closed or left.
Lose(p) ==
  /\ page[p].stage \notin {"idle", "done"}
  /\ Fail(p)
  /\ UNCHANGED <<vars, stored, starts>>

\* The cancel button: the fetch is aborted; an upload whose URL is known is
\* deleted and forgotten.
Cancel(p) ==
  \/ /\ page[p].stage \in {"resume", "create", "posted"}
     /\ Fail(p)
     /\ UNCHANGED <<vars, stored, starts>>
  \/ /\ page[p].stage \in {"head", "loop", "sent"}
     /\ Fail(p)
     /\ stored' = NoUpload
     /\ IF Row(Url(p)) THEN \E s \in Slots : AskDelete(Url(p), s) ELSE UNCHANGED vars
     /\ UNCHANGED starts

\* The server goes away: requests under way fail.
ServerCrash ==
  /\ Crash
  /\ page' = [p \in Pages |-> IF page[p].stage \in {"posted", "sent"} THEN NoUploader ELSE page[p]]
  /\ UNCHANGED <<stored, starts>>

-----------------------------------------------------------------------------
\* What a page does by itself, once it has begun.
Advance(p) == TryResume(p) \/ Post(p) \/ CurrentOffset(p) \/ Finish(p) \/ Refused(p)
           \/ \E s \in Slots : SendChunk(p, s)

Answered(f) == Created(f) \/ NotCreated(f) \/ (RemoveRefused(f) /\ UNCHANGED clientVars)

ClientNext ==
  \/ \E p \in Pages : Begin(p) \/ Advance(p) \/ Lose(p) \/ Cancel(p)
  \/ \E f \in Files : Answered(f)
  \/ \E f \in Files, s \in Slots : Serve(f, s)
  \/ (Cleanup \/ Orphans \/ \E f \in Files : GrowOld(f)) /\ UNCHANGED clientVars
  \/ ServerCrash

ClientSpec == ClientInit /\ [][ClientNext]_allVars

\* A page that has begun goes on, a request that is served is served to its
\* end: the browser sends the body or breaks it off.
ClientFairness ==
  /\ \A p \in Pages : WF_allVars(Advance(p))
  /\ \A f \in Files : WF_allVars(Answered(f))
  /\ \A f \in Files, s \in Slots : WF_allVars(Serve(f, s))

FairClientSpec == ClientSpec /\ ClientFairness

-----------------------------------------------------------------------------
(***************************************************************************)
(* Properties.                                                             *)
(***************************************************************************)

\* An upload that a page reports as done is complete soon after at the latest,
\* unless its owner deletes it.  The code does not keep this promise: see the
\* exceptions of ReportedSettles.
ReportedCompletes ==
  \A p \in Pages, f \in Files :
    At(p, "done") /\ Url(p) = f ~> status[f] = "complete" \/ f \in asked

\* The upload was created more than an hour ago and deleteExpired has taken its
\* row, as it does while the last PATCH is under way: the UPDATEs of that PATCH
\* hit no row, and it is answered with 204 all the same.
Swept(f) == ~Row(f) /\ age[f] # "fresh"

\* An upload that a page reports as done is complete soon after at the latest,
\* unless its owner deletes it, the cleanup job has swept it as abandoned, or
\* the server ended or a statement failed at some time: neither a second page
\* nor a forgotten request is a reason.
ReportedSettles ==
  \A p \in Pages, f \in Files :
    At(p, "done") /\ Url(p) = f ~>
      \/ status[f] = "complete"
      \/ f \in asked
      \/ Swept(f)
      \/ crashes > 0 \/ faults > 0

\* A page that sends chunks comes to an end, with the file uploaded or with an
\* error, whatever another page or a forgotten request of its own does to the
\* same upload: it is not caught between conflicts.
UploadEnds ==
  \A p \in Pages : At(p, "loop") ~> page[p].stage \in {"idle", "done"}
=============================================================================
