-------------------------- MODULE KippleStoreProofs --------------------------
(***************************************************************************)
(* What holds of the kipple store for any number of uploads, handlers,     *)
(* clients, crashes and failed statements.                                 *)
(***************************************************************************)
EXTENDS KippleStore, FiniteSetTheorems, WellFoundedInduction, TLAPS

\* A row exists only after CreateUpload is done with the upload, and so does
\* a request to delete it.
CreatedOnce ==
  /\ \A f \in Files : Row(f) => post[f] = "done"
  /\ \A f \in Files, s \in Slots :
       slot[f][s].op \in {"unlink", "delete"} => post[f] = "done"

\* Past its os.Remove, a deletion has no file before it, and past its
\* acknowledgement no row either.
DeletedForGood ==
  /\ \A f \in Files, s \in Slots : slot[f][s].op = "delete" => f \notin linked
  /\ GoneStaysGone
  /\ \A f \in gone : post[f] = "done"

IInv == TypeOK /\ CreatedOnce /\ DeletedForGood

-----------------------------------------------------------------------------
\* The quota CreateUpload computes is never negative.
LEMMA QuotaType ==
  ASSUME NEW u \in Users, NEW free \in FreeSpace PROVE EffectiveQuota(u, free) \in Nat
  BY StoreAssumption DEF EffectiveQuota

\* Writing and truncating turn a file into a file.
LEMMA UnitsType ==
  ASSUME NEW units \in Seq(Unit), NEW n \in Nat, NEW unit \in Unit
  PROVE  WriteAt(units, n, unit) \in Seq(Unit) /\ TruncateTo(units, n) \in Seq(Unit)
  BY DEF WriteAt, TruncateTo, Unit

\* An unlinked file is empty, and what a handler rewrites is still a file.
LEMMA DiskType ==
  ASSUME TypeOK, NEW f \in Files
  PROVE  /\ Unlink(f) => linked' \subseteq Files /\ content' \in [Files -> Seq(Unit)]
         /\ \A units \in Seq(Unit) :
              Rewrite(f, units) => linked' \subseteq Files /\ content' \in [Files -> Seq(Unit)]
<1>1. Unlink(f) => linked' \subseteq Files /\ content' \in [Files -> Seq(Unit)]
  <2>1. <<>> \in Seq(Unit)
    OBVIOUS
  <2> QED
    BY <2>1 DEF TypeOK, Unlink
<1>2. ASSUME NEW units \in Seq(Unit), Rewrite(f, units)
      PROVE  linked' \subseteq Files /\ content' \in [Files -> Seq(Unit)]
  <2>1. CASE f \in linked
    BY <1>2, <2>1 DEF TypeOK, Rewrite
  <2>2. CASE f \notin linked
    BY <1>2, <2>2 DEF TypeOK, Rewrite
  <2> QED
    BY <2>1, <2>2
<1> QED
  BY <1>1, <1>2

\* What a handler knows of its request.
LEMMA HandlerFields ==
  ASSUME TypeOK, NEW f \in Files, NEW s \in Slots
  PROVE  /\ slot[f][s].from \in Nat /\ slot[f][s].from + slot[f][s].written \in Nat
         /\ slot[f][s].from + slot[f][s].written + 1 \in Nat
         /\ slot[f][s].good \in Unit
  BY DEF TypeOK, Handler

\* A handler is at work on a typed request, and goes on with one.
LEMMA HandlerType ==
  ASSUME TypeOK, NEW f \in Files, NEW s \in Slots
  PROVE  /\ slot[f][s] \in Handler
         /\ Free \in Handler
         /\ [Free EXCEPT !.op = "unlink"] \in Handler
         /\ [Free EXCEPT !.op = "delete"] \in Handler
         /\ [slot[f][s] EXCEPT !.op = "copy"] \in Handler
         /\ [slot[f][s] EXCEPT !.op = "update"] \in Handler
         /\ [slot[f][s] EXCEPT !.op = "complete"] \in Handler
         /\ [slot[f][s] EXCEPT !.written = @ + 1] \in Handler
<1>1. slot[f][s] \in Handler
  BY DEF TypeOK
<1>2. [slot[f][s] EXCEPT !.written = @ + 1] \in Handler
  BY <1>1 DEF Handler
<1>3. /\ [slot[f][s] EXCEPT !.op = "copy"] \in Handler
      /\ [slot[f][s] EXCEPT !.op = "update"] \in Handler
      /\ [slot[f][s] EXCEPT !.op = "complete"] \in Handler
  BY <1>1 DEF Handler
<1>4. /\ Free \in Handler
      /\ [Free EXCEPT !.op = "unlink"] \in Handler
      /\ [Free EXCEPT !.op = "delete"] \in Handler
  BY DEF Handler, Free, Unit
<1> QED
  BY <1>1, <1>2, <1>3, <1>4

\* A slot that is set to a typed request leaves all slots typed.
LEMMA SlotType ==
  ASSUME TypeOK, NEW f \in Files, NEW s \in Slots, NEW h \in Handler, SetSlot(f, s, h)
  PROVE  slot' \in [Files -> [Slots -> Handler]]
  BY DEF TypeOK, SetSlot

\* Every step keeps every variable in its type.
LEMMA TypePreserved == TypeOK /\ [Next]_vars => TypeOK'
<1> SUFFICES ASSUME TypeOK, [Next]_vars PROVE TypeOK'
  OBVIOUS
<1> USE StoreAssumption DEF TypeOK, Sweep, Slot, Row, rowVars, diskVars, jobVars, ghosts, bounds
<1>1. ASSUME NEW f \in Files, Create(f)
      PROVE  TypeOK'
  <2>1. CASE CreateFile(f)
    <3>1. allowed' \in [Files -> Nat]
      <4>1. Owner[f] \in Users
        OBVIOUS
      <4> QED
        BY <2>1, <4>1, QuotaType DEF CreateFile
    <3>2. content' \in [Files -> Seq(Unit)]
      BY <2>1 DEF CreateFile
    <3> QED
      BY <2>1, <3>1, <3>2 DEF CreateFile
  <2>2. CASE InsertRow(f)
    BY <2>2 DEF InsertRow
  <2>3. CASE RefuseRow(f)
    BY <2>3 DEF RefuseRow, Fault
  <2>4. CASE RemoveRefused(f)
    <3>1. linked' \subseteq Files /\ content' \in [Files -> Seq(Unit)]
      BY <2>4, DiskType DEF RemoveRefused
    <3> QED
      BY <2>4, <3>1 DEF RemoveRefused
  <2> QED
    BY <1>1, <2>1, <2>2, <2>3, <2>4 DEF Create
<1>2. ASSUME NEW f \in Files, GrowOld(f) PROVE TypeOK'
  BY <1>2 DEF GrowOld
<1>3. ASSUME NEW f \in Files, NEW s \in Slots, Handle(f, s)
      PROVE  TypeOK'
  <2>1. CASE ReadUpload(f, s)
    <3>1. PICK len \in 0 .. MaxChunk, good \in Unit :
             SetSlot(f, s, [op |-> "read", from |-> offset[f], len |-> len,
                            good |-> good, written |-> 0])
      BY <2>1 DEF ReadUpload
    <3>2. [op |-> "read", from |-> offset[f], len |-> len, good |-> good, written |-> 0] \in Handler
      BY DEF Handler
    <3>3. slot' \in [Files -> [Slots -> Handler]]
      BY <3>1, <3>2, SlotType
    <3> QED
      BY <2>1, <3>3 DEF ReadUpload
  <2>2. CASE OpenFile(f, s)
    <3>1. slot' \in [Files -> [Slots -> Handler]]
      BY <2>2, HandlerType, SlotType DEF OpenFile
    <3> QED
      BY <2>2, <3>1 DEF OpenFile
  <2>3. CASE CopyUnit(f, s)
    <3>1. slot' \in [Files -> [Slots -> Handler]]
      BY <2>3, HandlerType, SlotType DEF CopyUnit
    <3>2. linked' \subseteq Files /\ content' \in [Files -> Seq(Unit)]
      <4>1. WriteAt(content[f], slot[f][s].from + slot[f][s].written + 1, slot[f][s].good) \in Seq(Unit)
        <5>1. content[f] \in Seq(Unit)
          OBVIOUS
        <5> QED
          BY <5>1, HandlerFields, UnitsType
      <4> QED
        BY <2>3, <4>1, DiskType DEF CopyUnit
    <3> QED
      BY <2>3, <3>1, <3>2 DEF CopyUnit
  <2>4. CASE CopyEnds(f, s)
    <3>1. slot' \in [Files -> [Slots -> Handler]]
      BY <2>4, HandlerType, SlotType DEF CopyEnds
    <3> QED
      BY <2>4, <3>1 DEF CopyEnds
  <2>5. CASE ChecksumMismatch(f, s)
    <3>1. slot' \in [Files -> [Slots -> Handler]]
      BY <2>5, HandlerType, SlotType DEF ChecksumMismatch, Respond
    <3>2. linked' \subseteq Files /\ content' \in [Files -> Seq(Unit)]
      <4>1. TruncateTo(content[f], slot[f][s].from) \in Seq(Unit)
        <5>1. content[f] \in Seq(Unit)
          OBVIOUS
        <5> QED
          BY <5>1, HandlerFields, UnitsType
      <4> QED
        BY <2>5, <4>1, DiskType DEF ChecksumMismatch
    <3> QED
      BY <2>5, <3>1, <3>2 DEF ChecksumMismatch
  <2>6. CASE UpdateOffset(f, s)
    <3>1. slot' \in [Files -> [Slots -> Handler]]
      BY <2>6, HandlerType, SlotType DEF UpdateOffset, Respond
    <3>2. NewOffset(f, s) \in Nat
      BY HandlerFields DEF NewOffset
    <3>3. offset' \in [Files -> Nat]
      BY <2>6, <3>2 DEF UpdateOffset
    <3> QED
      BY <2>6, <3>1, <3>3 DEF UpdateOffset
  <2>7. CASE CompleteUpload(f, s)
    <3>1. slot' \in [Files -> [Slots -> Handler]]
      BY <2>7, HandlerType, SlotType DEF CompleteUpload, Respond
    <3> QED
      BY <2>7, <3>1 DEF CompleteUpload
  <2>8. CASE AskDelete(f, s)
    <3>1. slot' \in [Files -> [Slots -> Handler]]
      BY <2>8, HandlerType, SlotType DEF AskDelete
    <3> QED
      BY <2>8, <3>1 DEF AskDelete
  <2>9. CASE DeleteUnlink(f, s)
    <3>1. slot' \in [Files -> [Slots -> Handler]]
      BY <2>9, HandlerType, SlotType DEF DeleteUnlink
    <3>2. linked' \subseteq Files /\ content' \in [Files -> Seq(Unit)]
      BY <2>9, DiskType DEF DeleteUnlink
    <3> QED
      BY <2>9, <3>1, <3>2 DEF DeleteUnlink
  <2>10. CASE DeleteRow(f, s)
    <3>1. slot' \in [Files -> [Slots -> Handler]]
      BY <2>10, HandlerType, SlotType DEF DeleteRow, DropRow, Respond
    <3> QED
      BY <2>10, <3>1 DEF DeleteRow, DropRow
  <2>11. CASE StatementFails(f, s)
    <3>1. slot' \in [Files -> [Slots -> Handler]]
      BY <2>11, HandlerType, SlotType DEF StatementFails, Fault, Respond
    <3> QED
      BY <2>11, <3>1 DEF StatementFails, Fault
  <2> QED
    BY <1>3, <2>1, <2>2, <2>3, <2>4, <2>5, <2>6, <2>7, <2>8, <2>9, <2>10, <2>11 DEF Handle, AppendChunk, Delete
<1>4. CASE SelectExpired
  BY <1>4 DEF SelectExpired, Doomed
<1>5. CASE CleanupFails
  BY <1>5 DEF CleanupFails, Fault, NoCleanup
<1>6. ASSUME NEW f \in Files, DeleteExpiredRow(f) \/ RemoveExpiredFile(f)
      PROVE  TypeOK'
  <2>1. CASE DeleteExpiredRow(f)
    BY <2>1 DEF DeleteExpiredRow, DropRow
  <2>2. CASE RemoveExpiredFile(f)
    <3>1. linked' \subseteq Files /\ content' \in [Files -> Seq(Unit)]
      BY <2>2, DiskType DEF RemoveExpiredFile
    <3> QED
      BY <2>2, <3>1 DEF RemoveExpiredFile
  <2> QED
    BY <1>6, <2>1, <2>2 DEF Cleanup
<1>7. CASE SelectRows
  BY <1>7 DEF SelectRows
<1>8. CASE ReadDir
  BY <1>8 DEF ReadDir
<1>9. CASE OrphansReturn
  BY <1>9 DEF OrphansReturn, Fault, NoSweep
<1>10. ASSUME NEW f \in Files, CheckRow(f) \/ RemoveOrphan(f)
      PROVE  TypeOK'
  <2>1. CASE CheckRow(f)
    BY <2>1 DEF CheckRow, DropRow
  <2>2. CASE RemoveOrphan(f)
    <3>1. linked' \subseteq Files /\ content' \in [Files -> Seq(Unit)]
      BY <2>2, DiskType DEF RemoveOrphan
    <3> QED
      BY <2>2, <3>1 DEF RemoveOrphan
  <2> QED
    BY <1>10, <2>1, <2>2 DEF Orphans
<1>11. CASE Crash
  <2>1. slot' \in [Files -> [Slots -> Handler]]
    BY <1>11 DEF Crash, Handler, Free, Unit
  <2>2. post' \in [Files -> {"new", "created", "refused", "done"}]
    BY <1>11 DEF Crash
  <2> QED
    BY <1>11, <2>1, <2>2 DEF Crash, NoCleanup, NoSweep
<1>12. CASE UNCHANGED vars
  BY <1>12 DEF vars
<1> QED
  BY <1>1, <1>2, <1>3, <1>4, <1>5, <1>6, <1>7, <1>8, <1>9,
     <1>10, <1>11, <1>12 DEF Next, Cleanup, Orphans, Finished

\* The variables of the store keep their types.
THEOREM TypeCorrect == Spec => []TypeOK
<1>1. Init => TypeOK
  BY DEF Init, TypeOK, Handler, Free, Sweep, NoCleanup, NoSweep, Unit
<1> QED
  BY <1>1, TypePreserved, PTL DEF Spec

-----------------------------------------------------------------------------
\* No step creates an upload a second time or undoes a deletion.
LEMMA DeletionPreserved == IInv /\ [Next]_vars => CreatedOnce' /\ DeletedForGood'
<1> DEFINE Goal == CreatedOnce /\ DeletedForGood
<1> SUFFICES ASSUME IInv, [Next]_vars PROVE Goal'
  OBVIOUS
<1> USE DEF IInv, TypeOK, CreatedOnce, DeletedForGood, GoneStaysGone, Slot, Row, rowVars,
            diskVars, jobVars, ghosts, bounds
<1>1. ASSUME NEW f \in Files, Create(f)
      PROVE  Goal'
  <2>1. CASE CreateFile(f)
    BY <2>1 DEF CreateFile
  <2>2. CASE InsertRow(f)
    BY <2>2 DEF InsertRow
  <2>3. CASE RefuseRow(f)
    BY <2>3 DEF RefuseRow, Fault
  <2>4. CASE RemoveRefused(f)
    BY <2>4 DEF RemoveRefused, Unlink
  <2> QED
    BY <1>1, <2>1, <2>2, <2>3, <2>4 DEF Create
<1>2. ASSUME NEW f \in Files, GrowOld(f) PROVE Goal'
  BY <1>2 DEF GrowOld
<1>3. ASSUME NEW f \in Files, NEW s \in Slots, Handle(f, s)
      PROVE  Goal'
  <2>1. CASE ReadUpload(f, s)
    BY <2>1 DEF ReadUpload, SetSlot
  <2>2. CASE OpenFile(f, s)
    BY <2>2 DEF OpenFile, SetSlot, Free
  <2>3. CASE CopyUnit(f, s)
    BY <2>3 DEF CopyUnit, Rewrite, SetSlot
  <2>4. CASE CopyEnds(f, s)
    BY <2>4 DEF CopyEnds, SetSlot
  <2>5. CASE ChecksumMismatch(f, s)
    BY <2>5 DEF ChecksumMismatch, Rewrite, Respond, SetSlot, Free
  <2>6. CASE UpdateOffset(f, s)
    <3>1. Slot(f, s, "update") /\ UNCHANGED <<status, linked, post, gone>>
      BY <2>6 DEF UpdateOffset
    <3>2. CASE slot' = [slot EXCEPT ![f][s] = [slot[f][s] EXCEPT !.op = "complete"]]
      BY <3>1, <3>2
    <3>3. CASE slot' = [slot EXCEPT ![f][s] = Free]
      BY <3>1, <3>3 DEF Free
    <3> QED
      BY <2>6, <3>2, <3>3 DEF UpdateOffset, Respond, SetSlot
  <2>7. CASE CompleteUpload(f, s)
    BY <2>7 DEF CompleteUpload, Respond, SetSlot, Free
  <2>8. CASE AskDelete(f, s)
    BY <2>8 DEF AskDelete, SetSlot, Free
  <2>9. CASE DeleteUnlink(f, s)
    BY <2>9 DEF DeleteUnlink, Unlink, SetSlot, Free
  <2>10. CASE DeleteRow(f, s)
    BY <2>10 DEF DeleteRow, DropRow, Respond, SetSlot, Free
  <2>11. CASE StatementFails(f, s)
    BY <2>11 DEF StatementFails, Fault, Respond, SetSlot, Free
  <2> QED
    BY <1>3, <2>1, <2>2, <2>3, <2>4, <2>5, <2>6, <2>7, <2>8, <2>9, <2>10, <2>11 DEF Handle, AppendChunk, Delete
<1>4. CASE SelectExpired
  BY <1>4 DEF SelectExpired, Doomed
<1>5. CASE CleanupFails
  BY <1>5 DEF CleanupFails, Fault, NoCleanup
<1>6. ASSUME NEW f \in Files, DeleteExpiredRow(f) \/ RemoveExpiredFile(f)
      PROVE  Goal'
  <2>1. CASE DeleteExpiredRow(f)
    BY <2>1 DEF DeleteExpiredRow, DropRow
  <2>2. CASE RemoveExpiredFile(f)
    BY <2>2 DEF RemoveExpiredFile, Unlink
  <2> QED
    BY <1>6, <2>1, <2>2 DEF Cleanup
<1>7. CASE SelectRows
  BY <1>7 DEF SelectRows
<1>8. CASE ReadDir
  BY <1>8 DEF ReadDir
<1>9. CASE OrphansReturn
  BY <1>9 DEF OrphansReturn, Fault, NoSweep
<1>10. ASSUME NEW f \in Files, CheckRow(f) \/ RemoveOrphan(f)
      PROVE  Goal'
  <2>1. CASE CheckRow(f)
    BY <2>1 DEF CheckRow, DropRow
  <2>2. CASE RemoveOrphan(f)
    BY <2>2 DEF RemoveOrphan, Unlink
  <2> QED
    BY <1>10, <2>1, <2>2 DEF Orphans
<1>11. CASE Crash
  BY <1>11 DEF Crash, Free, NoCleanup, NoSweep
<1>12. CASE UNCHANGED vars
  BY <1>12 DEF vars
<1> QED
  BY <1>1, <1>2, <1>3, <1>4, <1>5, <1>6, <1>7, <1>8, <1>9,
     <1>10, <1>11, <1>12 DEF Next, Cleanup, Orphans, Finished

\* The inductive invariant holds of every reachable state.
THEOREM Invariant == Spec => []IInv
<1>1. Init => IInv
  BY DEF Init, IInv, TypeOK, Handler, Free, Sweep, NoCleanup, NoSweep, Unit, CreatedOnce,
         DeletedForGood, GoneStaysGone, Row
<1>2. IInv /\ [Next]_vars => IInv'
  BY TypePreserved, DeletionPreserved DEF IInv
<1> QED
  BY <1>1, <1>2, PTL DEF Spec

\* A deletion that was acknowledged is final (DeleteFile, service.go), with
\* any number of PATCH requests, jobs and crashes around it.
THEOREM Deleted == Spec => []GoneStaysGone
<1>1. IInv => GoneStaysGone
  BY DEF IInv, DeletedForGood
<1> QED
  BY Invariant, <1>1, PTL

-----------------------------------------------------------------------------
\* Where the orphan job does not run: files are created before their rows and
\* go only on the owner's request or after the row.
FilesFirst ==
  /\ orphans = NoSweep
  /\ \A f \in Files : post[f] = "created" => f \in linked
  /\ \A f \in Files, s \in Slots : slot[f][s].op \in {"unlink", "delete"} => f \in asked
  /\ \A f \in cleanup.todo : post[f] = "done"
  /\ \A f \in cleanup.removing : post[f] = "done" /\ ~Row(f)
  /\ RowHasFile

\* No step but those of the orphan job takes a file from under its row.
LEMMA FilesPreserved ==
  ASSUME "orphans" \notin Jobs PROVE FilesFirst /\ IInv /\ [Next]_vars => FilesFirst'
<1> SUFFICES ASSUME FilesFirst, IInv, [Next]_vars PROVE FilesFirst'
  OBVIOUS
<1> TypeOK /\ CreatedOnce
  BY DEF IInv
<1> USE DEF TypeOK, CreatedOnce, FilesFirst, RowHasFile, NoSweep, Slot, Row, rowVars, diskVars,
            jobVars, ghosts, bounds
<1>1. ASSUME NEW f \in Files, Create(f)
      PROVE  FilesFirst'
  <2>1. CASE CreateFile(f)
    BY <2>1 DEF CreateFile
  <2>2. CASE InsertRow(f)
    BY <2>2 DEF InsertRow
  <2>3. CASE RefuseRow(f)
    BY <2>3 DEF RefuseRow, Fault
  <2>4. CASE RemoveRefused(f)
    BY <2>4 DEF RemoveRefused, Unlink
  <2> QED
    BY <1>1, <2>1, <2>2, <2>3, <2>4 DEF Create
<1>2. ASSUME NEW f \in Files, GrowOld(f) PROVE FilesFirst'
  BY <1>2 DEF GrowOld
<1>3. ASSUME NEW f \in Files, NEW s \in Slots, Handle(f, s)
      PROVE  FilesFirst'
  <2>1. CASE ReadUpload(f, s)
    BY <2>1 DEF ReadUpload, SetSlot
  <2>2. CASE OpenFile(f, s)
    BY <2>2 DEF OpenFile, SetSlot, Free
  <2>3. CASE CopyUnit(f, s)
    BY <2>3 DEF CopyUnit, Rewrite, SetSlot
  <2>4. CASE CopyEnds(f, s)
    BY <2>4 DEF CopyEnds, SetSlot
  <2>5. CASE ChecksumMismatch(f, s)
    BY <2>5 DEF ChecksumMismatch, Rewrite, Respond, SetSlot, Free
  <2>6. CASE UpdateOffset(f, s)
    <3>1. Slot(f, s, "update") /\ UNCHANGED <<status, linked, post, asked, jobVars>>
      BY <2>6 DEF UpdateOffset
    <3>2. CASE slot' = [slot EXCEPT ![f][s] = [slot[f][s] EXCEPT !.op = "complete"]]
      BY <3>1, <3>2
    <3>3. CASE slot' = [slot EXCEPT ![f][s] = Free]
      BY <3>1, <3>3 DEF Free
    <3> QED
      BY <2>6, <3>2, <3>3 DEF UpdateOffset, Respond, SetSlot
  <2>7. CASE CompleteUpload(f, s)
    BY <2>7 DEF CompleteUpload, Respond, SetSlot, Free
  <2>8. CASE AskDelete(f, s)
    BY <2>8 DEF AskDelete, SetSlot, Free
  <2>9. CASE DeleteUnlink(f, s)
    BY <2>9 DEF DeleteUnlink, Unlink, SetSlot, Free
  <2>10. CASE DeleteRow(f, s)
    BY <2>10 DEF DeleteRow, DropRow, Respond, SetSlot, Free
  <2>11. CASE StatementFails(f, s)
    BY <2>11 DEF StatementFails, Fault, Respond, SetSlot, Free
  <2> QED
    BY <1>3, <2>1, <2>2, <2>3, <2>4, <2>5, <2>6, <2>7, <2>8, <2>9, <2>10, <2>11 DEF Handle, AppendChunk, Delete
<1>4. CASE SelectExpired
  BY <1>4 DEF SelectExpired, Doomed
<1>5. CASE CleanupFails
  BY <1>5 DEF CleanupFails, Fault, NoCleanup
<1>6. ASSUME NEW f \in Files, DeleteExpiredRow(f) \/ RemoveExpiredFile(f)
      PROVE  FilesFirst'
  <2>1. CASE DeleteExpiredRow(f)
    BY <2>1 DEF DeleteExpiredRow, DropRow
  <2>2. CASE RemoveExpiredFile(f)
    BY <2>2 DEF RemoveExpiredFile, Unlink
  <2> QED
    BY <1>6, <2>1, <2>2 DEF Cleanup
<1>7. CASE SelectRows
  BY <1>7 DEF SelectRows
<1>8. CASE ReadDir
  BY <1>8 DEF ReadDir
<1>9. CASE OrphansReturn
  BY <1>9 DEF OrphansReturn, Fault, NoSweep
<1>10. ASSUME NEW f \in Files, CheckRow(f) \/ RemoveOrphan(f)
      PROVE  FilesFirst'
  <2>1. CASE CheckRow(f)
    BY <2>1 DEF CheckRow, DropRow
  <2>2. CASE RemoveOrphan(f)
    BY <2>2 DEF RemoveOrphan, Unlink
  <2> QED
    BY <1>10, <2>1, <2>2 DEF Orphans
<1>11. CASE Crash
  BY <1>11 DEF Crash, Free, NoCleanup, NoSweep
<1>12. CASE UNCHANGED vars
  BY <1>12 DEF vars
<1> QED
  BY <1>1, <1>2, <1>3, <1>4, <1>5, <1>6, <1>7, <1>8, <1>9,
     <1>10, <1>11, <1>12 DEF Next, Cleanup, Orphans, Finished

\* Uploads, deletions and the cleanup job never leave a row without its file,
\* crashes and failed statements included; only deleteOrphaned does, which the
\* run of the orphan race shows.
THEOREM FilesKept == ASSUME "orphans" \notin Jobs PROVE Spec => []RowHasFile
<1>1. Init => FilesFirst
  BY DEF Init, FilesFirst, RowHasFile, NoSweep, NoCleanup, Free, Row
<1>2. FilesFirst /\ IInv /\ [Next]_vars => FilesFirst'
  BY FilesPreserved
<1>3. FilesFirst => RowHasFile
  BY DEF FilesFirst
<1> QED
  BY <1>1, <1>2, <1>3, Invariant, PTL DEF Spec
-----------------------------------------------------------------------------
\* The first n units of a file have arrived as the client sent them.
Intact(units, n) == n <= Len(units) /\ \A i \in 1 .. n : units[i] = "data"

\* A write keeps what lies before it, and a write of good data keeps everything.
LEMMA WriteKeeps ==
  ASSUME NEW units \in Seq(Unit), NEW p \in Nat \ {0}, NEW unit \in Unit, NEW n \in Nat,
         Intact(units, n), n < p \/ unit = "data"
  PROVE  Intact(WriteAt(units, p, unit), n)
<1>1. Len(WriteAt(units, p, unit)) = IF Len(units) < p THEN p ELSE Len(units)
  BY DEF WriteAt
<1>2. ASSUME NEW i \in 1 .. n PROVE WriteAt(units, p, unit)[i] = "data"
  <2>1. units[i] = "data" /\ i <= Len(units)
    BY DEF Intact
  <2> QED
    BY <2>1 DEF WriteAt
<1> QED
  BY <1>1, <1>2 DEF Intact

\* A good unit written where the intact part ends makes it longer.
LEMMA WriteExtends ==
  ASSUME NEW units \in Seq(Unit), NEW n \in Nat, Intact(units, n)
  PROVE  Intact(WriteAt(units, n + 1, "data"), n + 1)
<1>1. n + 1 <= Len(WriteAt(units, n + 1, "data"))
  BY DEF WriteAt
<1>2. ASSUME NEW i \in 1 .. n + 1 PROVE WriteAt(units, n + 1, "data")[i] = "data"
  <2>1. CASE i = n + 1
    BY <2>1 DEF WriteAt
  <2>2. CASE i # n + 1
    <3>1. i \in 1 .. n /\ units[i] = "data" /\ i <= Len(units)
      BY <2>2 DEF Intact
    <3> QED
      BY <3>1 DEF WriteAt
  <2> QED
    BY <2>1, <2>2
<1> QED
  BY <1>1, <1>2 DEF Intact

\* A file cut back to an intact part is that part.
LEMMA TruncateKeeps ==
  ASSUME NEW units \in Seq(Unit), NEW n \in Nat, Intact(units, n)
  PROVE  Intact(TruncateTo(units, n), n) /\ Len(TruncateTo(units, n)) = n
<1>1. Len(TruncateTo(units, n)) = n
  BY DEF TruncateTo
<1>2. ASSUME NEW i \in 1 .. n PROVE TruncateTo(units, n)[i] = "data"
  <2>1. units[i] = "data" /\ i <= Len(units)
    BY DEF Intact
  <2> QED
    BY <2>1 DEF TruncateTo
<1> QED
  BY <1>1, <1>2 DEF Intact

-----------------------------------------------------------------------------
\* A PATCH is at work on upload f in slot s.
Writing(f, s) == slot[f][s].op \in {"read", "copy", "update", "complete"}

\* What every step that is not of a PATCH leaves alone: the offsets and what
\* the files hold, but for files that are new or go.
Quiet ==
  /\ UNCHANGED offset
  /\ \A f \in Files :
       /\ status'[f] = "complete" => status[f] = "complete"
       /\ post'[f] = "new" => post[f] = "new"
       /\ f \in linked' => \/ f \in linked /\ content'[f] = content[f]
                           \/ post[f] = "new" /\ content'[f] = <<>>
       /\ \A s \in Slots : slot'[f][s] = slot[f][s] \/ ~Writing(f, s)'

\* A handler that sets its slot leaves the other slots alone.
LEMMA OtherSlots ==
  ASSUME TypeOK, NEW f \in Files, NEW s \in Slots, NEW h, SetSlot(f, s, h)
  PROVE  /\ slot'[f][s] = h
         /\ \A g \in Files, t \in Slots : g # f \/ t # s => slot'[g][t] = slot[g][t]
  BY DEF TypeOK, SetSlot

\* Only the steps of a PATCH are not quiet.
LEMMA QuietSteps ==
  ASSUME TypeOK, [Next]_vars
  PROVE  Quiet \/ \E f \in Files, s \in Slots : AppendChunk(f, s)
<1> USE DEF TypeOK, Quiet, Writing, Slot, Row, rowVars, diskVars, jobVars, ghosts, bounds
<1>1. ASSUME NEW f \in Files, Create(f) PROVE Quiet
  BY <1>1 DEF Create, CreateFile, InsertRow, RefuseRow, RemoveRefused, Unlink
<1>2. ASSUME NEW f \in Files, GrowOld(f) PROVE Quiet
  BY <1>2 DEF GrowOld
<1>3. ASSUME NEW f \in Files, NEW s \in Slots, Delete(f, s) PROVE Quiet
  <2>1. PICK h \in {[Free EXCEPT !.op = "unlink"], [Free EXCEPT !.op = "delete"], Free} :
           SetSlot(f, s, h)
    BY <1>3 DEF Delete, AskDelete, DeleteUnlink, DeleteRow, Respond
  <2>2. /\ ~Writing(f, s)'
        /\ \A g \in Files, t \in Slots : g # f \/ t # s => slot'[g][t] = slot[g][t]
    BY <2>1, OtherSlots DEF Free
  <2>3. \A g \in Files, t \in Slots : slot'[g][t] = slot[g][t] \/ ~Writing(g, t)'
    BY <2>2
  <2>4. CASE AskDelete(f, s)
    BY <2>3, <2>4 DEF AskDelete
  <2>5. CASE DeleteUnlink(f, s)
    BY <2>3, <2>5 DEF DeleteUnlink, Unlink
  <2>6. CASE DeleteRow(f, s)
    BY <2>3, <2>6 DEF DeleteRow, DropRow
  <2> QED
    BY <1>3, <2>4, <2>5, <2>6 DEF Delete
<1>4. ASSUME NEW f \in Files, NEW s \in Slots, StatementFails(f, s) PROVE Quiet
  BY <1>4 DEF StatementFails, Respond, SetSlot, Free
<1>5. CASE Cleanup
  BY <1>5 DEF Cleanup, SelectExpired, CleanupFails, DeleteExpiredRow, RemoveExpiredFile, DropRow, Unlink
<1>6. CASE Orphans
  BY <1>6 DEF Orphans, SelectRows, ReadDir, OrphansReturn, CheckRow, RemoveOrphan, DropRow, Unlink
<1>7. CASE Crash
  BY <1>7 DEF Crash, Free
<1>8. CASE UNCHANGED vars
  BY <1>8 DEF vars
<1> QED
  BY <1>1, <1>2, <1>3, <1>4, <1>5, <1>6, <1>7, <1>8 DEF Next, Handle, Finished

-----------------------------------------------------------------------------
\* With a client that has one PATCH in flight: it is the only writer, of an
\* upload that is not complete, and it goes on from the stored offset.
SingleWriter ==
  \A f \in Files, s \in Slots : Writing(f, s) =>
    /\ \A t \in Slots : Writing(f, t) => t = s
    /\ status[f] # "complete"
    /\ slot[f][s].op # "complete" => slot[f][s].from = offset[f]

\* A PATCH is accepted only when no other is at work.
LEMMA AcceptedAlone ==
  ASSUME TypeOK, MaxWriters <= 1, NEW f \in Files, NEW s \in Slots, ReadUpload(f, s)
  PROVE  \A t \in Slots : ~Writing(f, t)
<1>2. IsFiniteSet(Writers(f))
  <2>1. IsFiniteSet(Slots) /\ Writers(f) \in SUBSET Slots
    BY StoreAssumption DEF Writers
  <2> QED
    BY <2>1, FS_Subset
<1>3. Cardinality(Writers(f)) \in Nat
  BY <1>2, FS_CardinalityType
<1>4. Cardinality(Writers(f)) = 0
  BY <1>3, StoreAssumption DEF ReadUpload
<1>5. Writers(f) = {}
  BY <1>2, <1>4, FS_EmptySet
<1> QED
  BY <1>5 DEF Writers, Writing

\* A handler that goes on knows what it knew.
SameRequest(h, k) == h.from = k.from /\ h.len = k.len /\ h.good = k.good

LEMMA HandlerGoesOn ==
  ASSUME TypeOK, NEW f \in Files, NEW s \in Slots, NEW h
  PROVE  /\ \A op \in {"copy", "update", "complete"} :
              h = [slot[f][s] EXCEPT !.op = op] =>
                SameRequest(h, slot[f][s]) /\ h.op = op /\ h.written = slot[f][s].written
         /\ h = [slot[f][s] EXCEPT !.written = @ + 1] =>
              /\ SameRequest(h, slot[f][s])
              /\ h.op = slot[f][s].op /\ h.written = slot[f][s].written + 1
<1>1. slot[f][s] \in Handler
  BY DEF TypeOK
<1> QED
  BY <1>1 DEF Handler, SameRequest

\* No step lets a second PATCH in, or moves the offset but forward.
LEMMA SinglePreserved ==
  ASSUME MaxWriters <= 1, TypeOK, SingleWriter, [Next]_vars
  PROVE  /\ SingleWriter'
         /\ \A f \in Files : Row(f) /\ status'[f] # "none" => offset'[f] >= offset[f]
<1> DEFINE Forward == \A f \in Files : offset'[f] >= offset[f]
<1> SUFFICES SingleWriter' /\ Forward
  OBVIOUS
<1>1. \A f \in Files : offset[f] \in Nat
  BY DEF TypeOK
<1>2. CASE Quiet
  BY <1>1, <1>2 DEF Quiet, SingleWriter, Writing
<1>3. ASSUME NEW f \in Files, NEW s \in Slots, AppendChunk(f, s)
      PROVE  SingleWriter' /\ Forward
  \* It is enough to look at slot s, which its step has set to h.
  <2>1. ASSUME NEW h, SetSlot(f, s, h),
               \A t \in Slots : Writing(f, t) => t = s,
               \A g \in Files : g # f => status'[g] = status[g] /\ offset'[g] = offset[g],
               h.op \in {"read", "copy", "update", "complete"} =>
                 /\ status'[f] # "complete"
                 /\ h.op # "complete" => h.from = offset'[f]
        PROVE  SingleWriter'
    <3>1. ASSUME NEW g \in Files, NEW t \in Slots, Writing(g, t)'
          PROVE  /\ \A x \in Slots : Writing(g, x)' => x = t
                 /\ status'[g] # "complete"
                 /\ slot'[g][t].op # "complete" => slot'[g][t].from = offset'[g]
      <4>1. CASE g = f
        <5>1. \A x \in Slots : Writing(g, x)' => x = s
          BY <2>1, <4>1, OtherSlots DEF Writing
        <5> QED
          BY <2>1, <3>1, <4>1, <5>1, OtherSlots DEF Writing
      <4>2. CASE g # f
        BY <2>1, <3>1, <4>2, OtherSlots DEF Writing, SingleWriter
      <4> QED
        BY <4>1, <4>2
    <3> QED
      BY <3>1 DEF SingleWriter
  <2>2. CASE ReadUpload(f, s)
    <3>1. \A t \in Slots : ~Writing(f, t)
      BY <2>2, AcceptedAlone
    <3>2. PICK len \in 0 .. MaxChunk, good \in Unit :
             SetSlot(f, s, [op |-> "read", from |-> offset[f], len |-> len,
                            good |-> good, written |-> 0])
      BY <2>2 DEF ReadUpload
    <3>3. UNCHANGED <<status, offset>> /\ status[f] = "pending"
      BY <2>2 DEF ReadUpload, rowVars
    <3> QED
      BY <1>1, <2>1, <3>1, <3>2, <3>3
  <2>3. CASE OpenFile(f, s) \/ CopyUnit(f, s) \/ CopyEnds(f, s) \/ ChecksumMismatch(f, s)
    <3>1. Writing(f, s) /\ slot[f][s].op # "complete" /\ UNCHANGED <<status, offset>>
      BY <2>3 DEF OpenFile, CopyUnit, CopyEnds, ChecksumMismatch, Slot, Writing, rowVars
    <3>2. PICK h \in {Free, [slot[f][s] EXCEPT !.op = "copy"], [slot[f][s] EXCEPT !.op = "update"],
                     [slot[f][s] EXCEPT !.written = @ + 1]} : SetSlot(f, s, h)
      BY <2>3 DEF OpenFile, CopyUnit, CopyEnds, ChecksumMismatch, Respond
    <3>3. h = Free \/ h.from = slot[f][s].from
      BY <3>2, HandlerGoesOn DEF SameRequest
    <3> QED
      BY <1>1, <2>1, <3>1, <3>2, <3>3 DEF SingleWriter, Free
  <2>4. CASE UpdateOffset(f, s)
    <3>1. Writing(f, s) /\ slot[f][s].from = offset[f] /\ UNCHANGED status
      BY <2>4 DEF UpdateOffset, Slot, Writing, SingleWriter
    <3>2. offset' = [offset EXCEPT ![f] = NewOffset(f, s)] \/ offset' = offset
      BY <2>4 DEF UpdateOffset
    <3>3. NewOffset(f, s) >= offset[f] /\ NewOffset(f, s) \in Nat
      <4>1. slot[f][s].written \in Nat
        BY DEF TypeOK, Handler
      <4> QED
        BY <1>1, <3>1, <4>1 DEF NewOffset
    <3>4. PICK h \in {Free, [slot[f][s] EXCEPT !.op = "complete"]} : SetSlot(f, s, h)
      BY <2>4 DEF UpdateOffset, Respond
    <3>5. /\ \A g \in Files : g # f => offset'[g] = offset[g]
          /\ offset'[f] \in {NewOffset(f, s), offset[f]}
      BY <3>2 DEF TypeOK
    <3>6. Forward
      BY <1>1, <3>3, <3>5
    <3>7. h.op \in {"free", "complete"} /\ status[f] # "complete"
      BY <3>1, <3>4, HandlerGoesOn DEF SingleWriter, Free
    <3>8. \A t \in Slots : Writing(f, t) => t = s
      BY <3>1 DEF SingleWriter
    <3>9. SingleWriter'
      BY <2>1, <3>1, <3>4, <3>5, <3>7, <3>8
    <3> QED
      BY <3>6, <3>9
  <2>5. CASE CompleteUpload(f, s)
    <3>1. Writing(f, s) /\ SetSlot(f, s, Free) /\ UNCHANGED offset
      BY <2>5 DEF CompleteUpload, Slot, Writing, Respond
    <3>2. status' = [status EXCEPT ![f] = "complete"] \/ status' = status
      BY <2>5 DEF CompleteUpload
    <3>3. \A g \in Files : g # f => status'[g] = status[g]
      BY <3>2 DEF TypeOK
    <3>4. \A t \in Slots : Writing(f, t) => t = s
      BY <3>1 DEF SingleWriter
    <3> QED
      BY <1>1, <2>1, <3>1, <3>3, <3>4 DEF Free
  <2> QED
    BY <1>3, <2>2, <2>3, <2>4, <2>5 DEF AppendChunk
<1> QED
  BY <1>2, <1>3, QuietSteps

\* Nobody writes when the store is new.
LEMMA SingleInit == Init => SingleWriter
  BY DEF Init, SingleWriter, Writing, Free

\* A client that waits for the answer to its PATCH before it sends the next
\* never sees the offset of its upload go back (service.go:237), whatever
\* checksums fail, transfers break and statements fail.
THEOREM Advances == ASSUME MaxWriters <= 1 PROVE Spec => OffsetAdvances
<1>1. TypeOK /\ SingleWriter /\ [Next]_vars =>
        /\ SingleWriter'
        /\ \A f \in Files : Row(f) /\ status'[f] # "none" => offset'[f] >= offset[f]
  BY SinglePreserved
<1> QED
  BY <1>1, SingleInit, TypeCorrect, PTL DEF Spec, OffsetAdvances

-----------------------------------------------------------------------------
\* What makes an upload reliable: a torn body is not corrupted besides, and
\* either the client sends one PATCH at a time or nothing is ever corrupted.
Careful == "torn" \notin Corrupt /\ (MaxWriters <= 1 \/ Corrupt = {})

\* What a PATCH h has to rely on in the file it writes to, while it is linked.
Reliable(h, units, there) ==
  /\ h.op = "read" => h.written = 0
  /\ h.good = "junk" => Corrupt # {} /\ h.op \in {"read", "copy"}
  /\ there => /\ Intact(units, h.from)
              /\ h.good = "data" => Intact(units, h.from + h.written)

\* Files are intact up to their offset, and PATCHes go on from there.
Arrived ==
  /\ \A f \in Files : post[f] = "new" => offset[f] = 0 /\ \A s \in Slots : ~Writing(f, s)
  /\ \A f \in linked : Intact(content[f], offset[f])
  /\ \A f \in Files, s \in Slots :
       Writing(f, s) => Reliable(slot[f][s], content[f], f \in linked)

\* It is enough to look at the file and the slot of the PATCH that moves.
LEMMA OneArrives ==
  ASSUME TypeOK, Arrived, NEW f \in Files, NEW s \in Slots, NEW h, SetSlot(f, s, h),
         UNCHANGED <<linked, post>>, post[f] # "new",
         \A g \in Files : g # f => offset'[g] = offset[g] /\ content'[g] = content[g],
         f \in linked => Intact(content'[f], offset'[f]),
         h.op = "free" \/ Reliable(h, content'[f], f \in linked),
         f \notin linked \/ (\A t \in Slots : Writing(f, t) => t = s)
                         \/ (\A n \in Nat : Intact(content[f], n) => Intact(content'[f], n))
  PROVE  Arrived'
<1>1. \A g \in Files : post'[g] = "new" => offset'[g] = 0 /\ \A t \in Slots : ~Writing(g, t)'
  BY OtherSlots DEF Arrived, Writing
<1>2. \A g \in linked' : Intact(content'[g], offset'[g])
  BY DEF Arrived, TypeOK
<1>3. ASSUME NEW g \in Files, NEW t \in Slots, Writing(g, t)'
      PROVE  Reliable(slot'[g][t], content'[g], g \in linked')
  <2>1. CASE g # f
    BY <1>3, <2>1, OtherSlots DEF Arrived, Writing
  <2>2. CASE g = f /\ t = s
    BY <1>3, <2>2, OtherSlots DEF Writing
  <2>3. CASE g = f /\ t # s
    <3>1. Writing(f, t) /\ slot'[g][t] = slot[f][t]
      BY <1>3, <2>3, OtherSlots DEF Writing
    <3>2. slot[f][t].from \in Nat /\ slot[f][t].from + slot[f][t].written \in Nat
      BY HandlerFields
    <3> QED
      BY <2>3, <3>1, <3>2 DEF Arrived, Reliable
  <2> QED
    BY <2>1, <2>2, <2>3
<1> QED
  BY <1>1, <1>2, <1>3 DEF Arrived

\* A PATCH that works on bad data is alone, behind the stored offset, and its
\* upload is not complete.
LEMMA JunkIsAlone ==
  ASSUME Careful, TypeOK, Arrived, MaxWriters <= 1 => SingleWriter,
         NEW f \in Files, NEW s \in Slots, Writing(f, s), slot[f][s].good = "junk"
  PROVE  /\ \A t \in Slots : Writing(f, t) => t = s
         /\ slot[f][s].from = offset[f] /\ status[f] # "complete"
<1>1. Corrupt # {} /\ slot[f][s].op # "complete"
  BY DEF Arrived, Reliable
<1> QED
  BY <1>1 DEF Careful, SingleWriter

\* What a PATCH makes of its file: with good data it only adds to the intact
\* part, with bad data it stays behind its own beginning.
LEMMA CopyArrives ==
  ASSUME TypeOK, Arrived, NEW f \in Files, NEW s \in Slots, CopyUnit(f, s), f \in linked
  PROVE  /\ slot[f][s].good = "data" =>
              /\ Intact(content'[f], slot[f][s].from + slot[f][s].written + 1)
              /\ \A n \in Nat : Intact(content[f], n) => Intact(content'[f], n)
         /\ Intact(content'[f], slot[f][s].from)
         /\ Len(content'[f]) <= Len(content[f])
              \/ Len(content'[f]) = slot[f][s].from + slot[f][s].written + 1
<1> DEFINE at == slot[f][s].from + slot[f][s].written
<1>1. content'[f] = WriteAt(content[f], at + 1, slot[f][s].good) /\ content[f] \in Seq(Unit)
  BY DEF CopyUnit, Rewrite, TypeOK
<1>2. /\ at \in Nat /\ slot[f][s].from \in Nat /\ at + 1 \in Nat \ {0}
      /\ slot[f][s].from < at + 1 /\ slot[f][s].good \in Unit
  <2>1. slot[f][s].from \in Nat /\ slot[f][s].written \in Nat /\ slot[f][s].good \in Unit
    BY DEF TypeOK, Handler
  <2> QED
    BY <2>1
<1>3. Intact(content[f], slot[f][s].from) /\ (slot[f][s].good = "data" => Intact(content[f], at))
  BY DEF Arrived, Reliable, CopyUnit, Slot, Writing
<1>4. slot[f][s].good = "data" => Intact(content'[f], at + 1)
  BY <1>1, <1>2, <1>3, WriteExtends
<1>5. ASSUME slot[f][s].good = "data", NEW n \in Nat, Intact(content[f], n)
      PROVE  Intact(content'[f], n)
  BY <1>1, <1>2, <1>5, WriteKeeps
<1>6. Intact(content'[f], slot[f][s].from)
  BY <1>1, <1>2, <1>3, WriteKeeps
<1>7. Len(content'[f]) <= Len(content[f]) \/ Len(content'[f]) = at + 1
  BY <1>1, <1>2 DEF WriteAt
<1> QED
  BY <1>4, <1>5, <1>6, <1>7

\* A PATCH keeps what has arrived.
LEMMA ArrivedByAppend ==
  ASSUME Careful, IInv, Arrived, MaxWriters <= 1 => SingleWriter,
         NEW f \in Files, NEW s \in Slots, AppendChunk(f, s)
  PROVE  Arrived'
<1>1. TypeOK /\ UNCHANGED <<linked, post>>
  BY DEF IInv, AppendChunk, ReadUpload, OpenFile, CopyUnit, CopyEnds, ChecksumMismatch,
         UpdateOffset, CompleteUpload, Rewrite, diskVars
<1>2. post[f] # "new"
  <2>1. Row(f) \/ Writing(f, s)
    BY DEF AppendChunk, ReadUpload, OpenFile, CopyUnit, CopyEnds, ChecksumMismatch,
           UpdateOffset, CompleteUpload, Slot, Writing, Row
  <2> QED
    BY <2>1 DEF Arrived, IInv, CreatedOnce
<1>3. /\ offset[f] \in Nat /\ slot[f][s].from \in Nat /\ slot[f][s].written \in Nat
      /\ slot[f][s].good \in Unit /\ content[f] \in Seq(Unit)
  BY <1>1 DEF TypeOK, Handler
<1>4. f \in linked => Intact(content[f], offset[f])
  BY DEF Arrived
<1>5. Writing(f, s) => Reliable(slot[f][s], content[f], f \in linked)
  BY DEF Arrived
<1>6. CASE ReadUpload(f, s)
  <2>1. PICK len \in 0 .. MaxChunk, good \in Unit :
           /\ good = "junk" => Corrupt # {}
           /\ SetSlot(f, s, [op |-> "read", from |-> offset[f], len |-> len,
                             good |-> good, written |-> 0])
    BY <1>6 DEF ReadUpload
  <2>2. UNCHANGED <<content, offset>> /\ offset[f] + 0 = offset[f]
    BY <1>3, <1>6 DEF ReadUpload, rowVars, diskVars
  <2> QED
    BY <1>1, <1>2, <1>4, <2>1, <2>2, OneArrives DEF Reliable
<1>7. CASE OpenFile(f, s)
  <2>1. PICK h \in {Free, [slot[f][s] EXCEPT !.op = "copy"]} : SetSlot(f, s, h)
    BY <1>7 DEF OpenFile
  <2>2. UNCHANGED <<content, offset>> /\ Writing(f, s)
    BY <1>7 DEF OpenFile, Slot, Writing, rowVars, diskVars
  <2>3. h.op = "free" \/ Reliable(h, content[f], f \in linked)
    BY <1>1, <1>5, <2>1, <2>2, HandlerGoesOn DEF Reliable, SameRequest, Free
  <2> QED
    BY <1>1, <1>2, <1>4, <2>1, <2>2, <2>3, OneArrives
<1>8. CASE CopyUnit(f, s)
  <2>1. PICK h \in {[slot[f][s] EXCEPT !.written = @ + 1]} : SetSlot(f, s, h)
    BY <1>8 DEF CopyUnit
  <2>2. /\ SameRequest(h, slot[f][s]) /\ h.op = "copy" /\ h.written = slot[f][s].written + 1
        /\ Writing(f, s) /\ UNCHANGED offset
    BY <1>1, <1>8, <2>1, HandlerGoesOn DEF CopyUnit, Slot, Writing, rowVars
  <2>3. /\ \A g \in Files : g # f => content'[g] = content[g]
        /\ f \notin linked => content'[f] = content[f]
    BY <1>1, <1>8 DEF CopyUnit, Rewrite, TypeOK
  <2>4. slot[f][s].from + h.written = slot[f][s].from + slot[f][s].written + 1
    <3>1. slot[f][s].from \in Nat /\ slot[f][s].written \in Nat
      BY <1>3
    <3>2. h.written = slot[f][s].written + 1
      BY <2>2
    <3> QED
      BY ONLY <3>1, <3>2
  <2>5. CASE slot[f][s].good = "data"
    <3>1. f \in linked =>
            /\ Intact(content'[f], slot[f][s].from + h.written)
            /\ Intact(content'[f], slot[f][s].from)
            /\ \A n \in Nat : Intact(content[f], n) => Intact(content'[f], n)
      BY <1>1, <1>8, <2>4, <2>5, CopyArrives
    <3>2. Reliable(h, content'[f], f \in linked)
      BY <2>2, <2>5, <3>1 DEF Reliable, SameRequest
    <3> QED
      BY <1>1, <1>2, <1>3, <1>4, <2>1, <2>2, <2>3, <3>1, <3>2, OneArrives
  <2>6. CASE slot[f][s].good = "junk"
    <3>1. f \in linked => Intact(content'[f], slot[f][s].from)
      BY <1>1, <1>8, CopyArrives
    <3>2. Reliable(h, content'[f], f \in linked)
      BY <1>5, <2>2, <2>6, <3>1 DEF Reliable, SameRequest
    <3>3. (\A t \in Slots : Writing(f, t) => t = s) /\ slot[f][s].from = offset[f]
      BY <1>1, <2>2, <2>6, JunkIsAlone
    <3> QED
      BY <1>1, <1>2, <2>1, <2>2, <2>3, <3>1, <3>2, <3>3, OneArrives
  <2> QED
    BY <1>3, <2>5, <2>6 DEF Unit
<1>9. CASE CopyEnds(f, s)
  <2>1. PICK h \in {[slot[f][s] EXCEPT !.op = "update"]} : SetSlot(f, s, h)
    BY <1>9 DEF CopyEnds
  <2>2. /\ slot[f][s].good = "data" /\ Writing(f, s)
        /\ UNCHANGED <<content, offset>>
    BY <1>9 DEF CopyEnds, Careful, Slot, Writing, rowVars, diskVars
  <2>3. Reliable(h, content[f], f \in linked)
    BY <1>1, <1>5, <2>1, <2>2, HandlerGoesOn DEF Reliable, SameRequest
  <2> QED
    BY <1>1, <1>2, <1>4, <2>1, <2>2, <2>3, OneArrives
<1>10. CASE ChecksumMismatch(f, s)
  <2>1. SetSlot(f, s, Free) /\ Writing(f, s) /\ slot[f][s].good = "junk" /\ UNCHANGED offset
    BY <1>10 DEF ChecksumMismatch, Respond, Slot, Writing, rowVars
  <2>2. (\A t \in Slots : Writing(f, t) => t = s) /\ slot[f][s].from = offset[f]
    BY <1>1, <2>1, JunkIsAlone
  <2>3. /\ \A g \in Files : g # f => content'[g] = content[g]
        /\ f \in linked => content'[f] = TruncateTo(content[f], offset[f])
    BY <1>1, <1>10, <2>2 DEF ChecksumMismatch, Rewrite, TypeOK
  <2>4. f \in linked => Intact(content'[f], offset[f])
    BY <1>3, <1>4, <2>3, TruncateKeeps
  <2> QED
    BY <1>1, <1>2, <2>1, <2>2, <2>3, <2>4, OneArrives DEF Free
<1>11. CASE UpdateOffset(f, s)
  <2>1. PICK h \in {Free, [slot[f][s] EXCEPT !.op = "complete"]} : SetSlot(f, s, h)
    BY <1>11 DEF UpdateOffset, Respond
  <2>2. Writing(f, s) /\ slot[f][s].op = "update" /\ UNCHANGED content
    BY <1>11 DEF UpdateOffset, Slot, Writing, diskVars
  <2>3. slot[f][s].good = "data"
    BY <1>3, <1>5, <2>2 DEF Reliable, Unit
  <2>4. /\ \A g \in Files : g # f => offset'[g] = offset[g]
        /\ offset'[f] \in {NewOffset(f, s), offset[f]}
    BY <1>1, <1>11 DEF UpdateOffset, TypeOK
  <2>5. f \in linked => Intact(content[f], NewOffset(f, s))
    BY <1>5, <2>2, <2>3 DEF Reliable, NewOffset
  <2>6. h.op = "free" \/ Reliable(h, content[f], f \in linked)
    BY <1>1, <1>5, <2>1, <2>2, <2>3, HandlerGoesOn DEF Reliable, SameRequest, Free
  <2> QED
    BY <1>1, <1>2, <1>4, <2>1, <2>2, <2>4, <2>5, <2>6, OneArrives
<1>12. CASE CompleteUpload(f, s)
  <2>1. SetSlot(f, s, Free) /\ UNCHANGED <<content, offset>>
    BY <1>12 DEF CompleteUpload, Respond, diskVars
  <2> QED
    BY <1>1, <1>2, <1>4, <2>1, OneArrives DEF Free
<1> QED
  BY <1>6, <1>7, <1>8, <1>9, <1>10, <1>11, <1>12 DEF AppendChunk

\* Every step keeps what has arrived.
LEMMA ArrivedPreserved ==
  ASSUME Careful, IInv, Arrived, MaxWriters <= 1 => SingleWriter, [Next]_vars
  PROVE  Arrived'
<1>1. CASE Quiet
  <2>1. \A f \in Files : post'[f] = "new" => offset'[f] = 0 /\ \A s \in Slots : ~Writing(f, s)'
    BY <1>1 DEF Quiet, Arrived, Writing
  <2>2. ASSUME NEW f \in linked' PROVE Intact(content'[f], offset'[f])
    <3>1. f \in Files
      BY TypePreserved DEF IInv, TypeOK
    <3>2. Intact(<<>>, 0)
      BY DEF Intact
    <3> QED
      BY <1>1, <3>1, <3>2 DEF Quiet, Arrived
  <2>3. ASSUME NEW f \in Files, NEW s \in Slots, Writing(f, s)'
        PROVE  Reliable(slot'[f][s], content'[f], f \in linked')
    <3>1. slot'[f][s] = slot[f][s] /\ Writing(f, s) /\ post[f] # "new"
      BY <1>1, <2>3 DEF Quiet, Arrived, Writing
    <3> QED
      BY <1>1, <3>1 DEF Quiet, Arrived, Reliable
  <2> QED
    BY <2>1, <2>2, <2>3 DEF Arrived
<1>2. TypeOK
  BY DEF IInv
<1> QED
  BY <1>1, <1>2, QuietSteps, ArrivedByAppend

\* Whatever a client finds out about its upload is true: below the stored offset
\* every byte is on disk as it was sent (AppendChunk, service.go).
THEOREM Backed == ASSUME Careful PROVE Spec => []OffsetBacked
<1> DEFINE Single == MaxWriters <= 1 => SingleWriter
<1>1. Init => Single /\ Arrived
  BY SingleInit DEF Init, Arrived, Writing, Free
<1>2. IInv /\ Single /\ Arrived /\ [Next]_vars => Single' /\ Arrived'
  BY SinglePreserved, ArrivedPreserved DEF IInv
<1>3. IInv /\ Arrived => OffsetBacked
  BY DEF IInv, Arrived, OffsetBacked, Intact
<1> QED
  BY <1>1, <1>2, <1>3, Invariant, PTL DEF Spec

-----------------------------------------------------------------------------
\* No PATCH carries more than is missing of its upload.
Within ==
  \A f \in Files, s \in Slots :
    Writing(f, s) => slot[f][s].from + slot[f][s].len <= Size[f]

\* What a PATCH h of upload f promises of its own length.
Measured(f, h) == h.written <= h.len /\ (h.op = "complete" => h.from + h.written = Size[f])

\* No file is longer than its upload, and those of complete uploads are whole.
Fits ==
  /\ \A f \in linked : /\ Len(content[f]) <= Size[f]
                       /\ status[f] = "complete" => Intact(content[f], Size[f])
  /\ \A f \in Files, s \in Slots : Writing(f, s) => Measured(f, slot[f][s])

\* It is enough to look at the file and the slot of the PATCH that moves.
LEMMA OneFits ==
  ASSUME TypeOK, Fits, NEW f \in Files, NEW s \in Slots, NEW h, SetSlot(f, s, h),
         UNCHANGED linked,
         \A g \in Files : g # f => status'[g] = status[g] /\ content'[g] = content[g],
         f \in linked => /\ Len(content'[f]) <= Size[f]
                         /\ status'[f] = "complete" => Intact(content'[f], Size[f]),
         h.op = "free" \/ Measured(f, h)
  PROVE  Fits'
<1>1. \A g \in linked' : /\ Len(content'[g]) <= Size[g]
                         /\ status'[g] = "complete" => Intact(content'[g], Size[g])
  BY DEF Fits, TypeOK
<1>2. \A g \in Files, t \in Slots : Writing(g, t)' => Measured(g, slot'[g][t])
  BY OtherSlots DEF Fits, Writing
<1> QED
  BY <1>1, <1>2 DEF Fits, Measured

\* A PATCH within its upload keeps the file within its size, and completes the
\* upload only when all of it has arrived.
LEMMA FitsByAppend ==
  ASSUME Careful, IInv, Arrived, Within, Fits, MaxWriters <= 1 => SingleWriter,
         NEW f \in Files, NEW s \in Slots, AppendChunk(f, s)
  PROVE  Fits'
<1>1. TypeOK /\ UNCHANGED linked
  BY DEF IInv, AppendChunk, ReadUpload, OpenFile, CopyUnit, CopyEnds, ChecksumMismatch,
         UpdateOffset, CompleteUpload, Rewrite, diskVars
<1>2. /\ slot[f][s].from \in Nat /\ slot[f][s].len \in Nat /\ slot[f][s].written \in Nat
      /\ slot[f][s].good \in Unit /\ content[f] \in Seq(Unit) /\ Size[f] \in Nat
  BY <1>1, StoreAssumption DEF TypeOK, Handler
<1>3. f \in linked => /\ Len(content[f]) <= Size[f]
                      /\ status[f] = "complete" => Intact(content[f], Size[f])
  BY DEF Fits
<1>4. Writing(f, s) => /\ Measured(f, slot[f][s]) /\ Reliable(slot[f][s], content[f], f \in linked)
                       /\ slot[f][s].from + slot[f][s].len <= Size[f]
  BY DEF Fits, Arrived, Within
<1>5. CASE ReadUpload(f, s)
  <2>1. PICK len \in 0 .. MaxChunk, good \in Unit :
           SetSlot(f, s, [op |-> "read", from |-> offset[f], len |-> len,
                          good |-> good, written |-> 0])
    BY <1>5 DEF ReadUpload
  <2>2. UNCHANGED <<content, status>>
    BY <1>5 DEF ReadUpload, rowVars, diskVars
  <2> QED
    BY <1>1, <1>3, <2>1, <2>2, OneFits DEF Measured
<1>6. CASE OpenFile(f, s) \/ CopyEnds(f, s)
  <2>1. PICK h \in {Free, [slot[f][s] EXCEPT !.op = "copy"], [slot[f][s] EXCEPT !.op = "update"]} :
           SetSlot(f, s, h)
    BY <1>6 DEF OpenFile, CopyEnds
  <2>2. UNCHANGED <<content, status>> /\ Writing(f, s)
    BY <1>6 DEF OpenFile, CopyEnds, Slot, Writing, rowVars, diskVars
  <2>3. h.op = "free" \/ Measured(f, h)
    BY <1>1, <1>4, <2>1, <2>2, HandlerGoesOn DEF Measured, SameRequest, Free
  <2> QED
    BY <1>1, <1>3, <2>1, <2>2, <2>3, OneFits
<1>7. CASE CopyUnit(f, s)
  <2>1. PICK h \in {[slot[f][s] EXCEPT !.written = @ + 1]} : SetSlot(f, s, h)
    BY <1>7 DEF CopyUnit
  <2>2. /\ SameRequest(h, slot[f][s]) /\ h.op = "copy" /\ h.written = slot[f][s].written + 1
        /\ Writing(f, s) /\ slot[f][s].written < slot[f][s].len /\ UNCHANGED status
    BY <1>1, <1>7, <2>1, HandlerGoesOn DEF CopyUnit, Slot, Writing, rowVars
  <2>3. \A g \in Files : g # f => content'[g] = content[g]
    BY <1>1, <1>7 DEF CopyUnit, Rewrite, TypeOK
  <2>4. Measured(f, h)
    BY <1>2, <2>2 DEF Measured, SameRequest
  <2>5. f \in linked => Len(content'[f]) <= Size[f]
    <3> SUFFICES ASSUME f \in linked PROVE Len(content'[f]) <= Size[f]
      OBVIOUS
    <3>1. slot[f][s].from + slot[f][s].written + 1 <= Size[f]
      BY <1>2, <1>4, <2>2
    <3>2. \/ Len(content'[f]) <= Len(content[f])
          \/ Len(content'[f]) = slot[f][s].from + slot[f][s].written + 1
      BY <1>1, <1>7, CopyArrives
    <3>3. Len(content'[f]) \in Nat /\ Len(content[f]) \in Nat
      <4>1. content'[f] \in Seq(Unit)
        BY TypePreserved, <1>1, AppendChunk(f, s) DEF TypeOK, Next, Handle
      <4> QED
        BY <1>2, <4>1
    <3> QED
      BY <1>2, <1>3, <3>1, <3>2, <3>3
  <2>6. f \in linked /\ status[f] = "complete" => Intact(content'[f], Size[f])
    <3>1. status[f] = "complete" => slot[f][s].good = "data"
      BY <1>1, <1>2, <2>2, JunkIsAlone DEF Unit
    <3> QED
      BY <1>1, <1>2, <1>3, <1>7, <3>1, CopyArrives
  <2> QED
    BY <1>1, <2>1, <2>2, <2>3, <2>4, <2>5, <2>6, OneFits
<1>8. CASE ChecksumMismatch(f, s)
  <2>1. SetSlot(f, s, Free) /\ Writing(f, s) /\ slot[f][s].good = "junk" /\ UNCHANGED status
    BY <1>8 DEF ChecksumMismatch, Respond, Slot, Writing, rowVars
  <2>2. status[f] # "complete"
    BY <1>1, <2>1, JunkIsAlone
  <2>3. /\ \A g \in Files : g # f => content'[g] = content[g]
        /\ f \in linked => content'[f] = TruncateTo(content[f], slot[f][s].from)
    BY <1>1, <1>8 DEF ChecksumMismatch, Rewrite, TypeOK
  <2>4. f \in linked => Len(content'[f]) = slot[f][s].from
    BY <1>2, <1>4, <2>1, <2>3, TruncateKeeps DEF Reliable
  <2>5. slot[f][s].from <= Size[f]
    BY <1>2, <1>4, <2>1
  <2> QED
    BY <1>1, <2>1, <2>2, <2>3, <2>4, <2>5, OneFits DEF Free
<1>9. CASE UpdateOffset(f, s)
  <2>1. /\ UNCHANGED <<content, status>> /\ Writing(f, s)
        /\ \/ SetSlot(f, s, Free)
           \/ /\ NewOffset(f, s) = Size[f]
              /\ SetSlot(f, s, [slot[f][s] EXCEPT !.op = "complete"])
    BY <1>9 DEF UpdateOffset, Respond, Slot, Writing, diskVars
  <2>2. PICK h \in {Free, [slot[f][s] EXCEPT !.op = "complete"]} :
           SetSlot(f, s, h) /\ (h = Free \/ NewOffset(f, s) = Size[f])
    BY <2>1
  <2>3. h.op = "free" \/ Measured(f, h)
    BY <1>1, <1>4, <2>1, <2>2, HandlerGoesOn DEF Measured, SameRequest, Free, NewOffset
  <2> QED
    BY <1>1, <1>3, <2>1, <2>2, <2>3, OneFits
<1>10. CASE CompleteUpload(f, s)
  <2>1. SetSlot(f, s, Free) /\ UNCHANGED content /\ Writing(f, s) /\ slot[f][s].op = "complete"
    BY <1>10 DEF CompleteUpload, Respond, Slot, Writing, diskVars
  <2>2. slot[f][s].good = "data"
    BY <1>2, <1>4, <2>1 DEF Reliable, Unit
  <2>3. f \in linked => Intact(content[f], Size[f])
    BY <1>4, <2>1, <2>2 DEF Reliable, Measured
  <2>4. \A g \in Files : g # f => status'[g] = status[g]
    BY <1>1, <1>10 DEF CompleteUpload, TypeOK
  <2> QED
    BY <1>1, <1>3, <2>1, <2>3, <2>4, OneFits DEF Free
<1> QED
  BY <1>5, <1>6, <1>7, <1>8, <1>9, <1>10 DEF AppendChunk

\* No step of the store makes a file too long or completes one with a hole.
LEMMA FitsPreserved ==
  ASSUME Careful, IInv, Arrived, Within, Fits, MaxWriters <= 1 => SingleWriter, [Next]_vars
  PROVE  Fits'
<1>1. CASE Quiet
  <2>1. ASSUME NEW f \in linked'
        PROVE  /\ Len(content'[f]) <= Size[f]
               /\ status'[f] = "complete" => Intact(content'[f], Size[f])
    <3>1. f \in Files /\ Size[f] \in Nat
      BY TypePreserved, StoreAssumption DEF IInv, TypeOK
    <3>2. post[f] = "new" => status[f] # "complete"
      BY <3>1 DEF IInv, CreatedOnce, Row
    <3> QED
      BY <1>1, <3>1, <3>2 DEF Quiet, Fits
  <2>2. ASSUME NEW f \in Files, NEW s \in Slots, Writing(f, s)'
        PROVE  Measured(f, slot'[f][s])
    BY <1>1, <2>2 DEF Quiet, Fits, Writing
  <2> QED
    BY <2>1, <2>2 DEF Fits, Measured
<1>2. TypeOK
  BY DEF IInv
<1> QED
  BY <1>1, <1>2, QuietSteps, FitsByAppend

\* It is enough to look at the slot of the PATCH that moves.
LEMMA OneWithin ==
  ASSUME TypeOK, Within, NEW f \in Files, NEW s \in Slots, NEW h, SetSlot(f, s, h),
         h.op \in {"read", "copy", "update", "complete"} => h.from + h.len <= Size[f]
  PROVE  Within'
  BY OtherSlots DEF Within, Writing

\* A PATCH that has been accepted does not grow.
LEMMA WithinByAppend ==
  ASSUME TypeOK, Within, NEW f \in Files, NEW s \in Slots, AppendChunk(f, s), ~ReadUpload(f, s)
  PROVE  Within'
<1>1. Writing(f, s)
  BY DEF AppendChunk, OpenFile, CopyUnit, CopyEnds, ChecksumMismatch, UpdateOffset,
         CompleteUpload, Slot, Writing
<1>2. PICK h \in {Free, [slot[f][s] EXCEPT !.op = "copy"], [slot[f][s] EXCEPT !.op = "update"],
                 [slot[f][s] EXCEPT !.op = "complete"], [slot[f][s] EXCEPT !.written = @ + 1]} :
         SetSlot(f, s, h)
  BY DEF AppendChunk, OpenFile, CopyUnit, CopyEnds, ChecksumMismatch, UpdateOffset,
         CompleteUpload, Respond
<1>3. h = Free \/ SameRequest(h, slot[f][s])
  BY <1>2, HandlerGoesOn
<1> QED
  BY <1>1, <1>2, <1>3, OneWithin DEF Within, SameRequest, Free

\* A server whose clients send no more than they declared keeps every PATCH
\* within its upload.
LEMMA WithinPreserved ==
  ASSUME Overshoot = 0, TypeOK, Within, [Next]_vars
  PROVE  Within'
<1>1. CASE Quiet
  BY <1>1 DEF Quiet, Within, Writing
<1>2. ASSUME NEW f \in Files, NEW s \in Slots, ReadUpload(f, s)
      PROVE  Within'
  <2>1. PICK len \in 0 .. MaxChunk, good \in Unit :
           /\ offset[f] + len <= Size[f] + Overshoot
           /\ SetSlot(f, s, [op |-> "read", from |-> offset[f], len |-> len,
                             good |-> good, written |-> 0])
    BY <1>2 DEF ReadUpload
  <2>2. Size[f] + Overshoot = Size[f]
    BY StoreAssumption
  <2> QED
    BY <2>1, <2>2, OneWithin
<1> QED
  BY <1>1, <1>2, QuietSteps, WithinByAppend

\* A complete file within its size is the file that was declared.
LEMMA FitsWhole == ASSUME TypeOK, Fits PROVE ServedWhole
<1>1. ASSUME NEW f \in Files, Servable(f), f \in linked
      PROVE  content[f] = [i \in 1 .. Size[f] |-> "data"]
  <2>1. Intact(content[f], Size[f]) /\ Len(content[f]) <= Size[f]
    BY <1>1 DEF Fits, Servable
  <2>2. content[f] \in Seq(Unit) /\ Size[f] \in Nat
    BY StoreAssumption DEF TypeOK
  <2>3. Len(content[f]) = Size[f]
    BY <2>1, <2>2 DEF Intact
  <2> QED
    BY <2>1, <2>2, <2>3 DEF Intact
<1> QED
  BY <1>1 DEF ServedWhole

\* What a client downloads is what was uploaded (CompleteUpload and Get,
\* service.go), when its client never sends more than it declared: the server
\* itself puts no limit on the body of a PATCH.
THEOREM Whole == ASSUME Careful, Overshoot = 0 PROVE Spec => []ServedWhole
<1> DEFINE Single == MaxWriters <= 1 => SingleWriter
<1>1. Init => Single /\ Arrived /\ Within /\ Fits
  BY SingleInit DEF Init, Arrived, Within, Fits, Writing, Free
<1>2. IInv /\ Single /\ Arrived /\ Within /\ Fits /\ [Next]_vars
        => Single' /\ Arrived' /\ Within' /\ Fits'
  BY SinglePreserved, ArrivedPreserved, WithinPreserved, FitsPreserved DEF IInv
<1>3. IInv /\ Fits => ServedWhole
  BY FitsWhole DEF IInv
<1> QED
  BY <1>1, <1>2, <1>3, Invariant, PTL DEF Spec

-----------------------------------------------------------------------------
\* Each unit of each upload of S, so that sizes add up to a cardinality.
Units(S) == UNION {{f} \X (1 .. Size[f]) : f \in S}

\* One upload has as many units as its size.
LEMMA UnitsOfOne ==
  ASSUME NEW f \in Files
  PROVE  IsFiniteSet({f} \X (1 .. Size[f])) /\ Cardinality({f} \X (1 .. Size[f])) = Size[f]
<1>1. Size[f] \in Nat \ {0}
  BY StoreAssumption
<1>2. IsFiniteSet(1 .. Size[f]) /\ Cardinality(1 .. Size[f]) = Size[f]
  BY <1>1, FS_Interval
<1>3. IsFiniteSet({f}) /\ Cardinality({f}) = 1
  BY FS_Singleton
<1>4. /\ IsFiniteSet({f} \X (1 .. Size[f]))
      /\ Cardinality({f} \X (1 .. Size[f])) = Cardinality({f}) * Cardinality(1 .. Size[f])
  BY <1>2, <1>3, FS_Product
<1> QED
  BY <1>1, <1>2, <1>3, <1>4

\* Finitely many uploads have finitely many units.
LEMMA UnitsFinite ==
  ASSUME NEW S \in SUBSET Files, IsFiniteSet(S)
  PROVE  IsFiniteSet(Units(S)) /\ Cardinality(Units(S)) \in Nat
<1> DEFINE T == {{f} \X (1 .. Size[f]) : f \in S}
           g == [f \in S |-> {f} \X (1 .. Size[f])]
<1>1. g \in Surjection(S, T)
  BY DEF Surjection
<1>2. IsFiniteSet(T)
  BY <1>1, FS_Surjection
<1>3. \A B \in T : IsFiniteSet(B)
  BY UnitsOfOne
<1>4. IsFiniteSet(Units(S))
  BY <1>2, <1>3, FS_UNION DEF Units
<1> QED
  BY <1>4, FS_CardinalityType

\* Another upload adds its size.
LEMMA UnitsAdd ==
  ASSUME NEW S \in SUBSET Files, IsFiniteSet(S), NEW f \in Files, f \notin S
  PROVE  Cardinality(Units(S \cup {f})) = Cardinality(Units(S)) + Size[f]
<1> DEFINE B == {f} \X (1 .. Size[f])
<1>1. IsFiniteSet(Units(S)) /\ Cardinality(Units(S)) \in Nat
  BY UnitsFinite
<1>2. IsFiniteSet(B) /\ Cardinality(B) = Size[f] /\ Size[f] \in Nat
  BY UnitsOfOne, StoreAssumption
<1>3. Units(S \cup {f}) = Units(S) \cup B
  BY DEF Units
<1>4. Units(S) \cap B = {}
  BY DEF Units
<1>5. Cardinality(Units(S) \cap B) = 0
  BY <1>4, FS_EmptySet
<1> HIDE DEF B
<1>6. Cardinality(Units(S) \cup B) = Cardinality(Units(S)) + Cardinality(B) - Cardinality(Units(S) \cap B)
  BY <1>1, <1>2, FS_Union
<1>7. Cardinality(Units(S \cup {f})) = Cardinality(Units(S) \cup B)
  BY <1>3
<1> QED
  BY ONLY <1>1, <1>2, <1>5, <1>6, <1>7

\* SUM(size) over the rows of S.
SumOfSizes(S) == MapThenSumSet(LAMBDA f : Size[f], S)

\* The sum that MapThenSumSet folds together is the number of units: the fold
\* is the only function with its recursive equation, which the number of units
\* satisfies.
LEMMA SumIsUnits ==
  ASSUME NEW S \in SUBSET Files, IsFiniteSet(S)
  PROVE  SumOfSizes(S) = Cardinality(Units(S))
<1> DEFINE first(s) == CHOOSE x \in s : TRUE
           Sums(g) == g = [s \in SUBSET S |->
                             IF s = {} THEN 0 ELSE Size[first(s)] + g[s \ {first(s)}]]
           h == [s \in SUBSET S |-> Cardinality(Units(s))]
           sum == CHOOSE g : Sums(g)
<1>1. SumOfSizes(S) = sum[S]
  BY DEF SumOfSizes, MapThenSumSet, MapThenFoldSet
<1>2. ASSUME NEW s \in SUBSET S, s # {}
      PROVE  /\ first(s) \in s /\ s \ {first(s)} \in SUBSET S
             /\ Cardinality(Units(s)) = Size[first(s)] + Cardinality(Units(s \ {first(s)}))
  <2>1. first(s) \in s
    BY <1>2
  <2> DEFINE x == first(s)
             r == s \ {x}
  <2>2. x \in Files /\ r \in SUBSET Files /\ x \notin r /\ r \cup {x} = s /\ r \in SUBSET S
    BY <2>1
  <2>3. IsFiniteSet(r)
    BY <2>2, FS_Subset
  <2> HIDE DEF x, r
  <2>4. Cardinality(Units(r \cup {x})) = Cardinality(Units(r)) + Size[x]
    BY <2>2, <2>3, UnitsAdd
  <2>5. Cardinality(Units(r)) \in Nat /\ Size[x] \in Nat
    BY <2>2, <2>3, UnitsFinite, StoreAssumption
  <2>6. Cardinality(Units(s)) = Size[x] + Cardinality(Units(r))
    BY <2>2, <2>4, <2>5
  <2> QED
    BY <2>1, <2>2, <2>6 DEF x, r
<1>3. Cardinality(Units({})) = 0
  BY FS_EmptySet DEF Units
<1> HIDE DEF first
<1>4. Sums(h)
  <2> DEFINE k == [s \in SUBSET S |-> IF s = {} THEN 0 ELSE Size[first(s)] + h[s \ {first(s)}]]
  <2>1. \A s \in SUBSET S : h[s] = k[s]
    BY <1>2, <1>3
  <2> QED
    BY <2>1
<1>5. Sums(sum)
  <2> HIDE DEF Sums, h
  <2> QED
    BY <1>4
<1>6. sum = h
  <2> HIDE DEF sum
  <2>1. DOMAIN sum = SUBSET S /\ DOMAIN h = SUBSET S
    BY <1>5
  <2> DEFINE Wrong == {s \in SUBSET S : sum[s] # h[s]}
  <2>2. Wrong = {}
    <3> SUFFICES ASSUME Wrong # {} PROVE FALSE
      OBVIOUS
    <3>1. PICK s \in Wrong : \A r \in Wrong : <<r, s>> \notin StrictSubsetOrdering(S)
      <4>1. Wrong \subseteq FiniteSubsetsOf(S)
        BY FS_FiniteSubsetsOfFinite
      <4> HIDE DEF Wrong
      <4> QED
        BY <4>1, FS_StrictSubsetOrderingWellFounded, WFMin
    <3>2. CASE s = {}
      BY <1>3, <1>5, <3>2
    <3>3. CASE s # {}
      <4> DEFINE r == s \ {first(s)}
      <4>1. first(s) \in s /\ r \in SUBSET S /\ h[s] = Size[first(s)] + h[r]
        BY <1>2, <3>3
      <4>2. sum[s] = Size[first(s)] + sum[r]
        BY <1>5, <3>3
      <4>3. r \in Wrong
        BY <4>1, <4>2
      <4>4. <<r, s>> \in StrictSubsetOrdering(S)
        BY <4>1 DEF StrictSubsetOrdering
      <4> QED
        BY <3>1, <4>3, <4>4
    <3> QED
      BY <3>2, <3>3
  <2>3. sum \in [SUBSET S -> {sum[s] : s \in SUBSET S}]
    BY <1>5
  <2> QED
    BY <1>5, <2>1, <2>2
<1> QED
  BY <1>1, <1>6

-----------------------------------------------------------------------------
\* The uploads of u that are booked.
Rows(u) == {f \in Files : Owner[f] = u /\ Row(f)}

\* What is booked is within the quota, and so is what CreateUpload may book.
Affordable ==
  /\ \A u \in Users : IsFiniteSet(Rows(u))
  /\ \A f \in Files : Owner[f] \notin Unlimited => allowed[f] <= Quota
  /\ \A u \in Users \ Unlimited : Cardinality(Units(Rows(u))) <= Quota

\* What a user has used is the number of units booked.
LEMMA UsedIsUnits ==
  ASSUME NEW u, IsFiniteSet(Rows(u)) PROVE Used(u) = Cardinality(Units(Rows(u)))
<1>1. Used(u) = SumOfSizes(Rows(u))
  BY DEF Used, SumOfSizes, Rows, MapThenSumSet, MapThenFoldSet
<1>2. Rows(u) \in SUBSET Files
  BY DEF Rows
<1> QED
  BY <1>1, <1>2, SumIsUnits

\* No quota that is computed for a limited user is above the configured one.
LEMMA QuotaLimits ==
  ASSUME NEW u \in Users \ Unlimited, NEW free \in FreeSpace PROVE EffectiveQuota(u, free) <= Quota
  BY StoreAssumption DEF EffectiveQuota

\* Rows come from CreateUpload's INSERT alone.
LEMMA RowsAppear ==
  ASSUME TypeOK, [Next]_vars
  PROVE  (\A f \in Files : Row(f)' => Row(f)) \/ \E f \in Files : InsertRow(f)
<1> USE DEF TypeOK, Row, rowVars, diskVars, jobVars, ghosts, bounds
<1>1. ASSUME NEW f \in Files, Create(f), ~InsertRow(f) PROVE status' = status
  BY <1>1 DEF Create, CreateFile, RefuseRow, RemoveRefused
<1>2. ASSUME NEW f \in Files, GrowOld(f) PROVE status' = status
  BY <1>2 DEF GrowOld
<1>3. ASSUME NEW f \in Files, NEW s \in Slots, Handle(f, s)
      PROVE  \A g \in Files : Row(g)' => Row(g)
  <2>1. CASE CompleteUpload(f, s) \/ DeleteRow(f, s)
    BY <2>1 DEF CompleteUpload, DeleteRow, DropRow
  <2>2. CASE ~CompleteUpload(f, s) /\ ~DeleteRow(f, s)
    <3>1. status' = status
      BY <1>3, <2>2 DEF Handle, AppendChunk, ReadUpload, OpenFile, CopyUnit, CopyEnds,
           ChecksumMismatch, UpdateOffset, Delete, AskDelete, DeleteUnlink, StatementFails
    <3> QED
      BY <3>1
  <2> QED
    BY <2>1, <2>2
<1>4. CASE Cleanup
  BY <1>4 DEF Cleanup, SelectExpired, CleanupFails, DeleteExpiredRow, RemoveExpiredFile, DropRow
<1>5. CASE Orphans
  BY <1>5 DEF Orphans, SelectRows, ReadDir, OrphansReturn, CheckRow, RemoveOrphan, DropRow
<1>6. CASE Crash
  BY <1>6 DEF Crash
<1>7. CASE UNCHANGED vars
  BY <1>7 DEF vars
<1> QED
  BY <1>1, <1>2, <1>3, <1>4, <1>5, <1>6, <1>7 DEF Next, Finished

\* A quota is computed by CreateUpload alone.
LEMMA QuotaComputed ==
  ASSUME TypeOK, [Next]_vars, NEW f \in Files
  PROVE  \/ allowed'[f] = allowed[f]
         \/ \E free \in FreeSpace : allowed'[f] = EffectiveQuota(Owner[f], free)
<1>1. CASE \E g \in Files : CreateFile(g)
  <2>1. PICK g \in Files, free \in FreeSpace :
           allowed' = [allowed EXCEPT ![g] = EffectiveQuota(Owner[g], free)]
    BY <1>1 DEF CreateFile
  <2>2. allowed'[f] = IF f = g THEN EffectiveQuota(Owner[g], free) ELSE allowed[f]
    BY <2>1 DEF TypeOK
  <2> QED
    BY <2>2
<1>2. CASE ~ \E g \in Files : CreateFile(g)
  <2>1. ASSUME NEW g \in Files, Create(g) \/ GrowOld(g) PROVE allowed' = allowed
    BY <1>2, <2>1 DEF Create, InsertRow, RefuseRow, RemoveRefused, GrowOld
  <2>2. ASSUME NEW g \in Files, NEW s \in Slots, Handle(g, s) PROVE allowed' = allowed
    BY <2>2 DEF Handle, AppendChunk, ReadUpload, OpenFile, CopyUnit, CopyEnds, ChecksumMismatch,
           UpdateOffset, CompleteUpload, Delete, AskDelete, DeleteUnlink, DeleteRow, StatementFails
  <2>3. CASE Cleanup \/ Orphans
    BY <2>3 DEF Cleanup, SelectExpired, CleanupFails, DeleteExpiredRow, RemoveExpiredFile, Orphans,
           SelectRows, ReadDir, OrphansReturn, CheckRow, RemoveOrphan
  <2>4. CASE Crash \/ UNCHANGED vars
    BY <2>4 DEF Crash, vars
  <2> QED
    BY <2>1, <2>2, <2>3, <2>4 DEF Next, Finished
<1> QED
  BY <1>1, <1>2

\* The INSERT books no more than it has checked, and no other step books.
LEMMA AffordablePreserved ==
  ASSUME IInv, Affordable, [Next]_vars PROVE Affordable'
<1>1. TypeOK /\ TypeOK'
  BY TypePreserved DEF IInv
<1>2. ASSUME NEW f \in Files, Owner[f] \notin Unlimited PROVE allowed'[f] <= Quota
  <2>1. Owner[f] \in Users \ Unlimited
    BY <1>2, StoreAssumption
  <2> QED
    BY <1>1, <1>2, <2>1, QuotaComputed, QuotaLimits DEF Affordable
<1>3. ASSUME NEW u \in Users, Rows(u)' \subseteq Rows(u)
      PROVE  /\ IsFiniteSet(Rows(u)')
             /\ u \notin Unlimited => Cardinality(Units(Rows(u)')) <= Quota
  <2>1. IsFiniteSet(Rows(u)) /\ Rows(u) \in SUBSET Files
    BY DEF Affordable, Rows
  <2>2. IsFiniteSet(Rows(u)')
    BY <1>3, <2>1, FS_Subset
  <2>3. Units(Rows(u)') \in SUBSET Units(Rows(u))
    BY <1>3 DEF Units
  <2>4. /\ IsFiniteSet(Units(Rows(u))) /\ Cardinality(Units(Rows(u))) \in Nat
        /\ Cardinality(Units(Rows(u)')) \in Nat
    BY <1>3, <2>1, <2>2, UnitsFinite
  <2>5. Cardinality(Units(Rows(u)')) <= Cardinality(Units(Rows(u)))
    BY <2>3, <2>4, FS_Subset
  <2> QED
    BY <2>2, <2>4, <2>5, StoreAssumption DEF Affordable
<1>4. CASE \A f \in Files : Row(f)' => Row(f)
  <2>1. \A u \in Users : Rows(u)' \subseteq Rows(u)
    BY <1>4 DEF Rows
  <2> QED
    BY <1>2, <1>3, <2>1 DEF Affordable
<1>5. ASSUME NEW f \in Files, InsertRow(f) PROVE Affordable'
  <2>1. /\ ~Row(f) /\ Row(f)'
        /\ \A g \in Files : g # f => Row(g)' = Row(g)
        /\ Used(Owner[f]) + Size[f] <= allowed[f]
    BY <1>1, <1>5 DEF InsertRow, IInv, CreatedOnce, TypeOK, Row
  <2>2. ASSUME NEW u \in Users, u # Owner[f] PROVE Rows(u)' \subseteq Rows(u)
    BY <2>1, <2>2 DEF Rows
  <2> DEFINE u == Owner[f]
  <2>3. u \in Users /\ Rows(u)' = Rows(u) \cup {f} /\ f \notin Rows(u) /\ Rows(u) \in SUBSET Files
    BY <2>1, StoreAssumption DEF Rows
  <2>4. IsFiniteSet(Rows(u))
    BY <2>3 DEF Affordable
  <2>5. IsFiniteSet(Rows(u)')
    BY <2>3, <2>4, FS_AddElement
  <2>6. Cardinality(Units(Rows(u)')) = Used(u) + Size[f]
    BY <2>3, <2>4, UnitsAdd, UsedIsUnits
  <2>7. u \notin Unlimited => Cardinality(Units(Rows(u)')) <= Quota
    <3>1. Used(u) \in Nat /\ Size[f] \in Nat /\ allowed[f] \in Nat /\ Quota \in Nat
      BY <1>1, <2>3, <2>4, UsedIsUnits, UnitsFinite, StoreAssumption DEF TypeOK
    <3>2. u \notin Unlimited => allowed[f] <= Quota
      BY DEF Affordable
    <3> QED
      BY <2>1, <2>6, <3>1, <3>2
  <2> QED
    BY <1>2, <1>3, <2>2, <2>5, <2>7 DEF Affordable
<1> QED
  BY <1>1, <1>4, <1>5, RowsAppear

\* No user without the permission books more than the configured quota, however
\* many uploads are created at once and however the free space of the disk
\* moves between the computation of the quota and the INSERT (CreateUpload,
\* service.go).
THEOREM WithinQuota == Spec => []QuotaHeld
<1>1. Init => Affordable
  <2>1. Init => \A u : Rows(u) = {}
    BY DEF Init, Rows, Row
  <2>2. Units({}) = {}
    BY DEF Units
  <2>3. IsFiniteSet({}) /\ Cardinality(Units({})) = 0 /\ Quota \in Nat
    BY <2>2, FS_EmptySet, StoreAssumption
  <2>4. Init => \A f \in Files : allowed[f] <= Quota
    BY <2>3 DEF Init
  <2> QED
    BY <2>1, <2>3, <2>4 DEF Affordable
<1>2. IInv /\ Affordable /\ [Next]_vars => Affordable'
  BY AffordablePreserved
<1>3. ASSUME Affordable PROVE QuotaHeld
  <2>1. ASSUME NEW u \in Users \ Unlimited PROVE Used(u) <= Quota
    BY <1>3, UsedIsUnits DEF Affordable
  <2> QED
    BY <2>1 DEF QuotaHeld, Used, MapThenSumSet, MapThenFoldSet
<1> QED
  BY <1>1, <1>2, <1>3, Invariant, PTL DEF Spec
=============================================================================
