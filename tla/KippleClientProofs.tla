-------------------------- MODULE KippleClientProofs --------------------------
(***************************************************************************)
(* What the pages of a user can rely on, however many they are: all they   *)
(* do is one of the behaviours of KippleStore, and they never send more    *)
(* than they declared.                                                     *)
(***************************************************************************)
EXTENDS KippleClient, KippleStoreProofs

\* The URL of an upload is known at every stage but before the POST.
Known ==
  /\ page \in [Pages -> Uploader]
  /\ stored \in Files \cup {NoUpload}
  /\ \A p \in Pages : page[p].stage \notin {"idle", "create"} => Url(p) \in Files

-----------------------------------------------------------------------------
\* What a page does to the server is what the server does for some client.
LEMMA StoreStep ==
  ASSUME Known, [ClientNext]_allVars PROVE [Next]_vars
<1>1. ASSUME NEW p \in Pages, Begin(p) \/ Lose(p) PROVE UNCHANGED vars
  BY <1>1 DEF Begin, Lose
<1>2. ASSUME NEW p \in Pages, Advance(p) PROVE [Next]_vars
  <2>1. CASE TryResume(p) \/ CurrentOffset(p) \/ Finish(p) \/ Refused(p)
    BY <2>1 DEF TryResume, CurrentOffset, Finish, Refused
  <2>2. CASE Post(p)
    BY <2>2 DEF Post, Next, Create
  <2>3. ASSUME NEW s \in Slots, SendChunk(p, s) PROVE Next
    <3>1. Url(p) \in Files /\ ReadUpload(Url(p), s)
      BY <2>3 DEF SendChunk, Known, At
    <3> QED
      BY <3>1 DEF Next, Handle, AppendChunk
  <2> QED
    BY <1>2, <2>1, <2>2, <2>3 DEF Advance
<1>3. ASSUME NEW p \in Pages, Cancel(p) PROVE [Next]_vars
  <2>1. CASE UNCHANGED vars
    BY <2>1
  <2>2. CASE ~UNCHANGED vars
    <3>1. PICK s \in Slots : Url(p) \in Files /\ AskDelete(Url(p), s)
      BY <1>3, <2>2 DEF Cancel, Known
    <3> QED
      BY <3>1 DEF Next, Handle, Delete
  <2> QED
    BY <2>1, <2>2
<1>4. ASSUME NEW f \in Files, Answered(f) PROVE Next
  BY <1>4 DEF Answered, Created, NotCreated, Next, Create
<1>5. ASSUME NEW f \in Files, NEW s \in Slots, Serve(f, s) PROVE Next
  BY <1>5 DEF Serve, Next
<1>6. CASE Cleanup \/ Orphans \/ \E f \in Files : GrowOld(f)
  BY <1>6 DEF Next
<1>7. CASE ServerCrash
  BY <1>7 DEF ServerCrash, Next
<1>8. CASE UNCHANGED allVars
  BY <1>8 DEF allVars
<1> QED
  BY <1>1, <1>2, <1>3, <1>4, <1>5, <1>6, <1>7, <1>8 DEF ClientNext

\* A page that forgets its upload, or goes to another stage of it, is still a
\* page that knows its URL.
LEMMA PageType ==
  ASSUME Known, NEW p \in Pages
  PROVE  /\ NoUploader \in Uploader
         /\ \A stage \in {"idle", "resume", "create", "posted", "head", "loop", "sent", "done"} :
              /\ [page[p] EXCEPT !.stage = stage] \in Uploader
              /\ [page[p] EXCEPT !.stage = stage].url = page[p].url
              /\ [page[p] EXCEPT !.stage = stage].stage = stage
<1>1. page[p] \in Uploader
  BY DEF Known
<1> QED
  BY <1>1 DEF NoUploader, Uploader

\* It is enough to look at the page that moves.
LEMMA OnePage ==
  ASSUME Known, NEW p \in Pages, NEW u \in Uploader, page' = [page EXCEPT ![p] = u],
         u.stage \notin {"idle", "create"} => u.url \in Files,
         stored' \in Files \cup {NoUpload}
  PROVE  Known'
  BY DEF Known, Url

\* No page loses track of an upload it is at work on.
LEMMA KnownPreserved ==
  ASSUME TypeOK, Known, [ClientNext]_allVars PROVE Known'
<1>1. ASSUME NEW p \in Pages, Begin(p) PROVE Known'
  <2> DEFINE u == [NoUploader EXCEPT !.stage = IF stored = NoUpload THEN "create" ELSE "resume",
                                     !.url = stored]
  <2>1. /\ u \in Uploader /\ u.url = stored
        /\ u.stage = IF stored = NoUpload THEN "create" ELSE "resume"
    BY DEF Known, NoUploader, Uploader
  <2>2. page' = [page EXCEPT ![p] = u] /\ stored' = stored
    BY <1>1 DEF Begin
  <2>3. u.stage \notin {"idle", "create"} => u.url \in Files
    BY <2>1 DEF Known
  <2> HIDE DEF u
  <2> QED
    BY <2>1, <2>2, <2>3, OnePage DEF Known
<1>2. ASSUME NEW p \in Pages, stored' \in Files \cup {NoUpload}, Fail(p) PROVE Known'
  <2>1. NoUploader \in Uploader /\ NoUploader.stage = "idle"
    BY PageType DEF NoUploader
  <2> QED
    BY <1>2, <2>1, OnePage DEF Fail
\* A page goes to a stage where its upload is not needed, or known already.
<1>10. ASSUME NEW p \in Pages, stored' \in Files \cup {NoUpload}, NEW stage \in {"create", "head", "done"},
              stage = "create" \/ Url(p) \in Files, Go(p, stage)
       PROVE  Known'
  <2>1. PICK u : u = [page[p] EXCEPT !.stage = stage] /\ page' = [page EXCEPT ![p] = u]
    BY <1>10 DEF Go, Known
  <2>2. u \in Uploader /\ (u.stage \notin {"idle", "create"} => u.url \in Files)
    <3>1. page[p] \in Uploader
      BY DEF Known
    <3>2. u \in Uploader /\ u.stage = stage /\ u.url = Url(p)
      BY <1>10, <2>1, <3>1 DEF Url, Uploader
    <3> QED
      BY <1>10, <3>2
  <2>3. stored' \in Files \cup {NoUpload} /\ page' = [page EXCEPT ![p] = u]
    BY <1>10, <2>1
  <2> QED
    BY <2>2, <2>3, OnePage
<1>3. ASSUME NEW p \in Pages, Advance(p) PROVE Known'
  <2>1. CASE TryResume(p)
    <3>1. Url(p) \in Files /\ stored' = stored
      BY <2>1 DEF TryResume, At, Known
    <3> QED
      BY <1>10, <2>1, <3>1 DEF TryResume, Known
  <2>2. CASE Post(p)
    <3>1. PICK f \in Files :
             page' = [page EXCEPT ![p] = [NoUploader EXCEPT !.stage = "posted", !.url = f]]
      BY <2>2 DEF Post
    <3>2. PICK u : /\ u = [NoUploader EXCEPT !.stage = "posted", !.url = f]
                   /\ page' = [page EXCEPT ![p] = u]
      BY <3>1
    <3>3. u \in Uploader /\ u.url = f
      BY <3>2 DEF NoUploader, Uploader
    <3>4. stored' \in Files \cup {NoUpload} /\ page' = [page EXCEPT ![p] = u]
      BY <2>2, <3>2 DEF Post, Known
    <3> QED
      BY <3>3, <3>4, OnePage
  <2>3. CASE CurrentOffset(p)
    <3>1. Url(p) \in Files /\ stored' = stored
      BY <2>3 DEF CurrentOffset, At, Known
    <3>2. CASE page' = [page EXCEPT ![p].stage = "loop", ![p].at = offset[Url(p)]]
      <4>1. PICK u \in {[page[p] EXCEPT !.stage = "loop", !.at = offset[Url(p)]]} :
               page' = [page EXCEPT ![p] = u]
        BY <3>2 DEF Known
      <4>2. page[p] \in Uploader /\ offset[Url(p)] \in Nat
        BY <3>1 DEF Known, TypeOK
      <4>3. u \in Uploader /\ u.url = page[p].url
        BY <4>1, <4>2 DEF Uploader
      <4> QED
        BY <3>1, <4>1, <4>3, OnePage DEF Known, Url
    <3>3. CASE Fail(p)
      BY <1>2, <3>1, <3>3 DEF Known
    <3> QED
      BY <2>3, <3>2, <3>3 DEF CurrentOffset
  <2>4. CASE Finish(p)
    <3>1. Url(p) \in Files /\ stored' = NoUpload
      BY <2>4 DEF Finish, At, Known
    <3> QED
      BY <1>10, <2>4, <3>1 DEF Finish
  <2>5. CASE Refused(p)
    <3>1. Url(p) \in Files /\ stored' = stored
      BY <2>5 DEF Refused, At, Known
    <3> QED
      BY <1>2, <1>10, <2>5, <3>1 DEF Refused, Known
  <2>6. ASSUME NEW s \in Slots, SendChunk(p, s) PROVE Known'
    <3>1. Url(p) \in Files /\ stored' = stored
      BY <2>6 DEF SendChunk, At, Known
    <3>2. PICK u : /\ u = [page[p] EXCEPT !.stage = "sent", !.lane = {s}]
                   /\ page' = [page EXCEPT ![p] = u]
      BY <2>6 DEF SendChunk, Known
    <3>3. u \in Uploader /\ u.url = page[p].url
      <4>1. page[p] \in Uploader
        BY DEF Known
      <4> QED
        BY <3>2, <4>1 DEF Uploader
    <3>4. /\ stored' \in Files \cup {NoUpload} /\ u.url \in Files
          /\ page' = [page EXCEPT ![p] = u]
      BY <3>1, <3>2, <3>3 DEF Known, Url
    <3> QED
      BY <3>3, <3>4, OnePage
  <2> QED
    BY <1>3, <2>1, <2>2, <2>3, <2>4, <2>5, <2>6 DEF Advance
<1>4. ASSUME NEW p \in Pages, Lose(p) \/ Cancel(p) PROVE Known'
  <2>1. Fail(p) /\ stored' \in Files \cup {NoUpload}
    BY <1>4 DEF Lose, Cancel, Known
  <2> QED
    BY <1>2, <2>1
\* Each page keeps what it has, forgets it, or has its answer.
<1>5. ASSUME stored' \in Files \cup {NoUpload}, NEW u, page' = [p \in Pages |-> u[p]],
             \A p \in Pages : /\ u[p] \in Uploader
                              /\ \/ u[p] = NoUploader \/ u[p] = page[p]
                                 \/ Url(p) \in Files /\ u[p].url = page[p].url
      PROVE  Known'
  <2>1. page' \in [Pages -> Uploader]
    BY <1>5
  <2>2. ASSUME NEW p \in Pages, page'[p].stage \notin {"idle", "create"}
        PROVE  page'[p].url \in Files
    BY <1>5, <2>2 DEF Known, NoUploader, Url
  <2> QED
    BY <1>5, <2>1, <2>2 DEF Known, Url
<1>6. ASSUME NEW f \in Files, Answered(f) PROVE Known'
  <2>1. CASE Created(f)
    <3> DEFINE u == [p \in Pages |-> IF p \in Poster(f) THEN [page[p] EXCEPT !.stage = "head"] ELSE page[p]]
    <3>1. page' = [p \in Pages |-> u[p]] /\ stored' \in Files \cup {NoUpload}
      BY <2>1 DEF Created, Known
    <3>2. ASSUME NEW p \in Pages
          PROVE  /\ u[p] \in Uploader
                 /\ u[p] = page[p] \/ (Url(p) \in Files /\ u[p].url = page[p].url)
      <4>1. p \in Poster(f) => Url(p) \in Files
        BY DEF Poster
      <4> QED
        BY <4>1, PageType DEF Known
    <3> HIDE DEF u
    <3> QED
      BY <1>5, <3>1, <3>2
  <2>2. CASE NotCreated(f)
    <3> DEFINE u == [p \in Pages |-> IF p \in Poster(f) THEN NoUploader ELSE page[p]]
    <3>1. page' = [p \in Pages |-> u[p]] /\ stored' \in Files \cup {NoUpload}
      BY <2>2 DEF NotCreated, Known
    <3>2. \A p \in Pages : u[p] \in Uploader /\ (u[p] = NoUploader \/ u[p] = page[p])
      BY PageType DEF Known
    <3> HIDE DEF u
    <3> QED
      BY <1>5, <3>1, <3>2
  <2>3. CASE UNCHANGED clientVars
    BY <2>3 DEF clientVars, Known, Url
  <2> QED
    BY <1>6, <2>1, <2>2, <2>3 DEF Answered
<1>7. ASSUME NEW f \in Files, NEW s \in Slots, Serve(f, s) PROVE Known'
  <2>1. CASE UNCHANGED page
    BY <1>7, <2>1 DEF Serve, Known, Url
  <2>2. ASSUME NEW ok \in BOOLEAN, Answer(f, s, ok) PROVE Known'
    <3> DEFINE u == [p \in Pages |->
             IF p \notin Sender(f, s) THEN page[p]
             ELSE IF ok THEN [page[p] EXCEPT !.stage = "loop", !.at = NewOffset(f, s), !.lane = {}]
             ELSE NoUploader]
    <3>1. page' = [p \in Pages |-> u[p]] /\ stored' \in Files \cup {NoUpload}
      BY <1>7, <2>2 DEF Serve, Answer, Known
    <3>2. ASSUME NEW p \in Pages
          PROVE  /\ u[p] \in Uploader
                 /\ \/ u[p] = NoUploader \/ u[p] = page[p]
                    \/ Url(p) \in Files /\ u[p].url = page[p].url
      <4>1. p \in Sender(f, s) => Url(p) \in Files
        BY DEF Sender
      <4>2. page[p] \in Uploader /\ NewOffset(f, s) \in Nat
        BY HandlerFields DEF Known, NewOffset
      <4>3. PICK w \in {[page[p] EXCEPT !.stage = "loop", !.at = NewOffset(f, s), !.lane = {}]} : TRUE
        OBVIOUS
      <4>4. w \in Uploader /\ w.url = page[p].url
        BY <4>2, <4>3 DEF Uploader
      <4>5. u[p] \in {page[p], NoUploader} \/ (p \in Sender(f, s) /\ u[p] = w)
        BY <4>3
      <4> QED
        BY <4>1, <4>2, <4>4, <4>5, PageType
    <3> HIDE DEF u
    <3> QED
      BY <1>5, <3>1, <3>2
  <2> QED
    BY <1>7, <2>1, <2>2 DEF Serve
<1>8. CASE ServerCrash
  <2> DEFINE u == [p \in Pages |-> IF page[p].stage \in {"posted", "sent"} THEN NoUploader ELSE page[p]]
  <2>1. page' = [p \in Pages |-> u[p]] /\ stored' \in Files \cup {NoUpload}
    BY <1>8 DEF ServerCrash, Known
  <2>2. \A p \in Pages : u[p] \in Uploader /\ (u[p] = NoUploader \/ u[p] = page[p])
    BY PageType DEF Known
  <2> HIDE DEF u
  <2> QED
    BY <1>5, <2>1, <2>2
<1>9. CASE UNCHANGED clientVars
  BY <1>9 DEF clientVars, Known, Url
<1> QED
  BY <1>1, <1>3, <1>4, <1>6, <1>7, <1>8, <1>9 DEF ClientNext, allVars, clientVars

-----------------------------------------------------------------------------
\* The pages, with all they forget, abort and send twice, implement the clients
\* KippleStore allows for (KippleTusUploader, kipple.js).
THEOREM PagesUseStore == ClientSpec => Spec
<1>1. ClientInit => Init /\ TypeOK /\ Known
  <2>1. Init => TypeOK
    BY DEF Init, TypeOK, Handler, Free, Sweep, NoCleanup, NoSweep, Unit
  <2>2. NoUploader \in Uploader
    BY DEF NoUploader, Uploader
  <2> QED
    BY <2>1, <2>2 DEF ClientInit, Known, NoUploader
<1>2. TypeOK /\ Known /\ [ClientNext]_allVars => [Next]_vars /\ TypeOK' /\ Known'
  BY StoreStep, KnownPreserved, TypePreserved
<1> QED
  BY <1>1, <1>2, PTL DEF ClientSpec, Spec

\* The chunk a page sends ends at the end of its file at the latest, so no
\* PATCH is longer than what is missing, whatever a server would accept.
LEMMA WithinByPages ==
  ASSUME TypeOK, Known, Within, [ClientNext]_allVars PROVE Within'
<1>1. CASE UNCHANGED slot
  BY <1>1 DEF Within, Writing
<1>2. ASSUME NEW p \in Pages, NEW s \in Slots, SendChunk(p, s) PROVE Within'
  <2> DEFINE f == Url(p)
  <2>1. f \in Files /\ page[p].at = offset[f] /\ page[p].at \in Nat /\ Size[f] - page[p].at > 0
    BY <1>2, StoreAssumption DEF SendChunk, Remaining, Known, At, Uploader
  <2>2. PICK len \in 0 .. MaxChunk, good \in Unit :
           SetSlot(f, s, [op |-> "read", from |-> offset[f], len |-> len,
                          good |-> good, written |-> 0])
    BY <1>2 DEF SendChunk, ReadUpload
  <2>3. len = IF Size[f] - page[p].at < ChunkSize THEN Size[f] - page[p].at ELSE ChunkSize
    <3>1. slot'[f][s].len = len
      BY <2>1, <2>2, OtherSlots
    <3> QED
      BY <1>2, <3>1 DEF SendChunk, Remaining
  <2>4. offset[f] + len <= Size[f]
    BY <2>1, <2>3, StoreAssumption, ClientAssumption DEF TypeOK
  <2> QED
    BY <2>1, <2>2, <2>4, OneWithin
<1>3. ASSUME NEW f \in Files, NEW s \in Slots, Serve(f, s) PROVE Within'
  <2>1. CASE AppendChunk(f, s)
    <3>1. ~ReadUpload(f, s)
      BY <1>3 DEF Serve, ReadUpload, Slot
    <3> QED
      BY <2>1, <3>1, WithinByAppend
  <2>2. CASE Delete(f, s) \/ StatementFails(f, s)
    <3>1. PICK h \in {[Free EXCEPT !.op = "unlink"], [Free EXCEPT !.op = "delete"], Free} :
             SetSlot(f, s, h)
      BY <2>2 DEF Delete, AskDelete, DeleteUnlink, DeleteRow, StatementFails, Respond
    <3> QED
      BY <3>1, OneWithin DEF Free
  <2> QED
    BY <1>3, <2>1, <2>2 DEF Serve, Handle
<1>4. ASSUME NEW p \in Pages, Cancel(p) PROVE Within'
  <2>1. CASE UNCHANGED vars
    BY <1>1, <2>1 DEF vars
  <2>2. CASE ~UNCHANGED vars
    <3>1. PICK s \in Slots : Url(p) \in Files /\ SetSlot(Url(p), s, [Free EXCEPT !.op = "unlink"])
      BY <1>4, <2>2 DEF Cancel, Known, AskDelete
    <3> QED
      BY <3>1, OneWithin DEF Free
  <2> QED
    BY <2>1, <2>2
<1>5. CASE ServerCrash
  BY <1>5 DEF ServerCrash, Crash, Within, Writing, Free
<1>6. ASSUME NEW p \in Pages, Begin(p) \/ Advance(p) \/ Lose(p), ~ \E s \in Slots : SendChunk(p, s)
      PROVE  UNCHANGED slot
  BY <1>6 DEF Begin, Advance, Lose, TryResume, Post, CreateFile, CurrentOffset, Finish, Refused, vars
<1>7. ASSUME NEW f \in Files, Answered(f) \/ GrowOld(f) PROVE UNCHANGED slot
  BY <1>7 DEF Answered, Created, NotCreated, InsertRow, RefuseRow, RemoveRefused, GrowOld
<1>8. CASE Cleanup \/ Orphans
  BY <1>1, <1>8 DEF Cleanup, SelectExpired, CleanupFails, DeleteExpiredRow, RemoveExpiredFile,
                    Orphans, SelectRows, ReadDir, OrphansReturn, CheckRow, RemoveOrphan
<1>9. CASE UNCHANGED allVars
  BY <1>1, <1>9 DEF allVars, vars
<1> QED
  BY <1>1, <1>2, <1>3, <1>4, <1>5, <1>6, <1>7, <1>8, <1>9 DEF ClientNext

\* Pages that resume an upload after a reload, a crash or next to another page
\* never continue past a byte that is missing (currentOffset, kipple.js).
THEOREM PagesBacked == ASSUME Careful PROVE ClientSpec => []OffsetBacked
  BY PagesUseStore, Backed, PTL

\* What the pages have uploaded is what is served, however many of them work on
\* the same upload; no bound on the length of a body is assumed of the server.
THEOREM PagesWhole == ASSUME Careful PROVE ClientSpec => []ServedWhole
<1> DEFINE Single == MaxWriters <= 1 => SingleWriter
<1>1. ClientInit => /\ IInv /\ Known
                    /\ Single /\ Arrived /\ Within /\ Fits
  <2>1. Init => IInv
    BY DEF Init, IInv, TypeOK, Handler, Free, Sweep, NoCleanup, NoSweep, Unit, CreatedOnce,
           DeletedForGood, GoneStaysGone, Row
  <2>2. Init => Single /\ Arrived /\ Within /\ Fits
    BY SingleInit DEF Init, Arrived, Within, Fits, Writing, Free
  <2>3. ClientInit => Known
    BY DEF ClientInit, Known, NoUploader, Uploader
  <2> QED
    BY <2>1, <2>2, <2>3 DEF ClientInit
<1>2. IInv /\ Known /\ [ClientNext]_allVars => IInv' /\ Known' /\ [Next]_vars
  BY StoreStep, KnownPreserved, TypePreserved, DeletionPreserved DEF IInv
<1>3. IInv /\ Known /\ Single /\ Arrived /\ Within /\ Fits /\ [ClientNext]_allVars
        => Single' /\ Arrived' /\ Within' /\ Fits'
  BY <1>2, SinglePreserved, ArrivedPreserved, WithinByPages, FitsPreserved DEF IInv
<1>4. IInv /\ Fits => ServedWhole
  BY FitsWhole DEF IInv
<1> QED
  BY <1>1, <1>2, <1>3, <1>4, PTL DEF ClientSpec
=============================================================================
