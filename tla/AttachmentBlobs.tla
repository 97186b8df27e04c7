--------------------------- MODULE AttachmentBlobs ---------------------------
(***************************************************************************)
(* The life of a file a consumer adds to a note: addFile stores it on the  *)
(* hub's disk and enqueues an add_file row that names it, the bridge       *)
(* downloads it and gives it to Bear, and syncAck removes it from the disk *)
(* once the row is applied.  The disk and the database are changed in      *)
(* separate steps, by handlers that run at the same time and that a crash  *)
(* of the hub cuts off anywhere.                                           *)
(*                                                                         *)
(* A blob is a directory attachmentsDir/{attachment_id}; generateID makes  *)
(* a new id for every upload, so ids are numbered in order.                *)
(*                                                                         *)
(* Left out: other kinds of rows (QueueDelivery, NoteSync), and how a note *)
(* gets into a conflict (NoteSync): here it may at any push.               *)
(***************************************************************************)
EXTENDS WriteQueue

CONSTANTS
  Calls,      \* the uploads consumers send, and send again
  Handlers,   \* uploads served at the same time
  AckCalls,   \* acknowledgements the hub has in hand at the same time
  MaxBlobs,   \* bound: uploads that reach the disk
  MaxFaults   \* bound: faults in one behaviour

VARIABLES
  blobs,       \* what the disk holds for each attachment id
  nextBlob,    \* the id generateID returns next
  uploads,     \* addFile, per handler
  phase,       \* where the bridge is in processQueue
  batch,       \* the leased items as they were read
  acks,        \* outcomes of the items applied so far
  ackCalls,    \* syncAck, per call
  bearFiles,   \* the files of Bear's notes: <<note, filename>>
  deleted,     \* notes deleted in Bear and on the hub
  conflicted,  \* notes with sync_status = "conflict"
  copied,      \* history: rows settled by a conflict copy
  answered,    \* history: rows whose outcome "applied" was sent and answered
  replaced,    \* history: blobs of failed rows that were reset
  faults       \* history: faults so far

diskVars == <<blobs, nextBlob>>
bridgeVars == <<phase, batch, acks>>
noteVars == <<bearFiles, deleted, conflicted>>
blobVars == <<vars, diskVars, uploads, bridgeVars, ackCalls, noteVars,
              copied, answered, replaced, faults>>

Blobs == 1..MaxBlobs

\* The row an upload asks for: its payload names the file and its blob.
AddFile(c, b) ==
  [consumer |-> c.consumer, key |-> c.key, action |-> "add_file",
   note_id |-> c.note_id,
   payload |-> [title |-> c.filename, body |-> b, bear_id |-> NULL]]

\* An upload is for a note, which its path names.
ASSUME BlobAssumption ==
  /\ MaxBlobs \in Nat /\ MaxFaults \in Nat
  /\ \A c \in Calls : c.note_id # NULL
  /\ Requests = {AddFile(c, b) : c \in Calls, b \in Blobs}

Filename(row) == row.payload.title
AttachmentID(row) == row.payload.body

Fault == faults < MaxFaults /\ faults' = faults + 1
NoFault == faults' = faults

-----------------------------------------------------------------------------
(***************************************************************************)
(* addFile: notes_handler.go                                               *)
(***************************************************************************)
NoUpload == [step |-> "idle", call |-> NULL, blob |-> NULL]

UploadSteps == {"idle", "check_key", "mkdir", "copy", "enqueue", "remove"}

At(h, step) == uploads[h].step = step
Goto(h, step) == uploads' = [uploads EXCEPT ![h].step = step]
Answer(h) == uploads' = [uploads EXCEPT ![h] = NoUpload]

OnlyUpload == UNCHANGED <<bridgeVars, ackCalls, noteVars, copied, answered>> /\ NoFault

\* GetNote and its checks; reading the form takes as long as the upload does.
GetNote(h, c) ==
  /\ At(h, "idle")
  /\ c.note_id \notin deleted \cup conflicted
  /\ uploads' = [uploads EXCEPT ![h] = [step |-> "check_key", call |-> c, blob |-> NULL]]
  /\ UNCHANGED <<vars, diskVars, replaced>> /\ OnlyUpload

\* GetQueueItemByIdempotencyKey: a row that has not failed is the answer.
CheckKey(h) ==
  /\ At(h, "check_key")
  /\ LET c == uploads[h].call
     IN IF \E i \in RowsForKey(c.key, c.consumer) : write_queue[i].status # "failed"
        THEN Answer(h)
        ELSE Goto(h, "mkdir")
  /\ UNCHANGED <<vars, diskVars, replaced>> /\ OnlyUpload

\* writeUploadedFile: the directory and the file, then its bytes.
MakeDir(h) ==
  /\ At(h, "mkdir")
  /\ nextBlob \in Blobs
  /\ blobs' = [blobs EXCEPT ![nextBlob] = "partial"]
  /\ nextBlob' = nextBlob + 1
  /\ uploads' = [uploads EXCEPT ![h].step = "copy", ![h].blob = nextBlob]
  /\ UNCHANGED <<vars, replaced>> /\ OnlyUpload

CopyFile(h) ==
  /\ At(h, "copy")
  /\ blobs' = [blobs EXCEPT ![uploads[h].blob] = "whole"]
  /\ Goto(h, "enqueue")
  /\ UNCHANGED <<vars, nextBlob, replaced>> /\ OnlyUpload

\* The file is too large or the disk is full: the directory goes.
CopyFails(h) ==
  /\ At(h, "copy")
  /\ blobs' = [blobs EXCEPT ![uploads[h].blob] = "none"]
  /\ Answer(h)
  /\ UNCHANGED <<vars, nextBlob, replaced>> /\ OnlyUpload

\* EnqueueWrite, whose answer tells whether the row names this upload: a
\* concurrent request with the same key may have won.
RowNames(i, b) == AttachmentID(write_queue'[i]) = b

\* The blobs of failed rows that a retry takes over: nothing removes them.
Replace ==
  replaced' = replaced \cup
    {AttachmentID(write_queue[i]) :
       i \in {j \in Ids : AttachmentID(write_queue'[j]) # AttachmentID(write_queue[j])}}

\* Mutant: the row that was found is taken for the own one.
EnqueueFileTrusts(h) ==
  /\ At(h, "enqueue")
  /\ EnqueueWrite(AddFile(uploads[h].call, uploads[h].blob))
  /\ Answer(h)
  /\ Replace
  /\ UNCHANGED diskVars /\ OnlyUpload

EnqueueFile(h) ==
  LET r == AddFile(uploads[h].call, uploads[h].blob)
  IN /\ At(h, "enqueue")
     /\ EnqueueWrite(r)
     /\ IF RowNames(acceptedAs'[r], uploads[h].blob) THEN Answer(h) ELSE Goto(h, "remove")
     /\ Replace
     /\ UNCHANGED diskVars /\ OnlyUpload

\* The client is gone or the database refuses.
EnqueueFails(h) ==
  /\ At(h, "enqueue")
  /\ Goto(h, "remove")
  /\ UNCHANGED <<vars, diskVars, replaced>> /\ OnlyUpload

\* os.RemoveAll of the own directory, after a lost race or a failure.
RemoveOwn(h) ==
  /\ At(h, "remove")
  /\ blobs' = [blobs EXCEPT ![uploads[h].blob] = "none"]
  /\ Answer(h)
  /\ UNCHANGED <<vars, nextBlob, replaced>> /\ OnlyUpload

UploadStep(h) ==
  \/ \E c \in Calls : GetNote(h, c)
  \/ CheckKey(h)
  \/ MakeDir(h)
  \/ CopyFile(h)
  \/ CopyFails(h)
  \/ EnqueueFile(h)
  \/ EnqueueFails(h)
  \/ RemoveOwn(h)

-----------------------------------------------------------------------------
(***************************************************************************)
(* processQueue and applyAddFile: cmd/bridge/queue.go                      *)
(***************************************************************************)
NoItems == [i \in {} |-> NULL]
Put(f, i, v) == [j \in DOMAIN f \cup {i} |-> IF j = i THEN v ELSE f[j]]

NoAckCall == [step |-> "idle", acks |-> NoItems, ids |-> {}, heard |-> FALSE]

InFlight == {k \in AckCalls : ackCalls[k].step = "sent"}

\* An item of the answer: the row and the sync_status of its note.
Item(i) == [row |-> write_queue[i], conflict |-> write_queue[i].note_id \in conflicted]

\* LeaseQueue.  An acknowledgement on its way has arrived or is lost by then.
LeaseBatch ==
  /\ phase = "idle"
  /\ InFlight = {}
  /\ LeaseQueueItems
  /\ batch' = [i \in LeasedNow |-> Item(i)]
  /\ acks' = NoItems
  /\ phase' = IF LeasedNow = {} THEN "idle" ELSE "applying"
  /\ UNCHANGED <<diskVars, uploads, ackCalls, noteVars, copied, answered, replaced>> /\ NoFault

Todo == DOMAIN batch \ DOMAIN acks

ItemDone(i, outcome) ==
  /\ phase = "applying"
  /\ i \in Todo
  /\ \A j \in Todo : i <= j
  /\ acks' = Put(acks, i, outcome)
  /\ phase' = IF Todo = {i} THEN "acking" ELSE "applying"
  /\ UNCHANGED <<vars, diskVars, uploads, batch, ackCalls, deleted, conflicted, answered, replaced>>

FileOf(i) == <<batch[i].row.note_id, Filename(batch[i].row)>>
BlobOf(i) == AttachmentID(batch[i].row)
NoteGone(i) == batch[i].row.note_id \in deleted

\* handleConflictItem: a new note with the payload's title and body, and the
\* outcome "applied"; the payload of an add_file has neither.
CopyConflict(i) ==
  /\ ItemDone(i, "applied")
  /\ batch[i].conflict
  /\ copied' = copied \cup {i}
  /\ UNCHANGED bearFiles /\ NoFault

\* applyAddFile: a file of that name is taken for this one; otherwise the
\* blob is downloaded, as much of it as there is, and given to Bear.
Attach(i) == bearFiles' = IF blobs[BlobOf(i)] = "whole" THEN bearFiles \cup {FileOf(i)} ELSE bearFiles

ApplyAddFile(i) ==
  /\ ItemDone(i, "applied")
  /\ ~batch[i].conflict /\ ~NoteGone(i)
  /\ IF FileOf(i) \in bearFiles
     THEN UNCHANGED bearFiles
     ELSE blobs[BlobOf(i)] # "none" /\ Attach(i)
  /\ UNCHANGED copied /\ NoFault

\* The note or the blob is not found, or Bear refuses the file or the copy.
ApplyFails(i) ==
  /\ ItemDone(i, "failed")
  /\ UNCHANGED <<bearFiles, copied>> /\ NoFault

\* bear-xcall times out after Bear took the file.
ApplyReportsFailure(i) ==
  /\ ItemDone(i, "failed")
  /\ ~batch[i].conflict /\ ~NoteGone(i) /\ FileOf(i) \notin bearFiles
  /\ blobs[BlobOf(i)] # "none"
  /\ Attach(i)
  /\ UNCHANGED copied /\ Fault

\* AckQueue sends the batch's outcomes and waits.
SendAck(k) ==
  /\ phase = "acking"
  /\ ackCalls[k].step = "idle"
  /\ ackCalls' = [ackCalls EXCEPT ![k] =
       [step |-> "sent", acks |-> acks, ids |-> {}, heard |-> TRUE]]
  /\ phase' = "waiting"
  /\ UNCHANGED <<vars, diskVars, uploads, batch, acks, noteVars, copied, answered, replaced>> /\ NoFault

BridgeStep ==
  \/ LeaseBatch
  \/ \E i \in 1..MaxRows : CopyConflict(i) \/ ApplyAddFile(i) \/ ApplyFails(i)
  \/ \E k \in AckCalls : SendAck(k)

-----------------------------------------------------------------------------
(***************************************************************************)
(* syncAck: sync_handler.go                                                *)
(***************************************************************************)
OnlyHub == UNCHANGED <<uploads, bearFiles, deleted, copied, replaced>> /\ NoFault

\* AckQueueItems.  The note of a conflict copy is synced again when no other
\* row of it is active (ackUpdateNoteStatus).
ResolvedBy(as) ==
  {write_queue[i].note_id :
     i \in {j \in DOMAIN as \cap copied : /\ write_queue[j].status = "processing"
                                          /\ as[j] = "applied"
                                          /\ \A k \in Ids : Active(write_queue'[k]) =>
                                               write_queue[k].note_id # write_queue[j].note_id}}

\* Mutant: the clean-up is for the rows that this very call settles.
AckRowsKeepsSettled(k) ==
  /\ ackCalls[k].step = "sent"
  /\ AckQueueItems(ackCalls[k].acks)
  /\ conflicted' = conflicted \ ResolvedBy(ackCalls[k].acks)
  /\ ackCalls' = [ackCalls EXCEPT
       ![k].step = "collect",
       ![k].acks = [i \in {j \in DOMAIN @ : write_queue[j].status = "processing"} |-> @[i]]]
  /\ UNCHANGED <<diskVars, bridgeVars, answered>> /\ OnlyHub

AckRows(k) ==
  /\ ackCalls[k].step = "sent"
  /\ AckQueueItems(ackCalls[k].acks)
  /\ conflicted' = conflicted \ ResolvedBy(ackCalls[k].acks)
  /\ ackCalls' = [ackCalls EXCEPT ![k].step = "collect"]
  /\ UNCHANGED <<diskVars, bridgeVars, answered>> /\ OnlyHub

\* Mutant: the outcome is believed without a look at the row.
CleanupIDsBelieve(as) ==
  {AttachmentID(write_queue[i]) : i \in {j \in DOMAIN as : as[j] = "applied"}}

\* collectAddFileCleanupIDs: read after the transaction, for the rows it (or
\* an earlier attempt) made "applied".
CleanupIDs(as) ==
  {AttachmentID(write_queue[i]) :
     i \in {j \in DOMAIN as : as[j] = "applied" /\ write_queue[j].status = "applied"}}

\* Mutant: the reads fail once the client is gone.
CollectWithRequestContext(k) ==
  /\ ackCalls[k].step = "collect"
  /\ ackCalls' = [ackCalls EXCEPT ![k].step = "clean",
                                  ![k].ids = IF ackCalls[k].heard
                                             THEN CleanupIDs(ackCalls[k].acks) ELSE {}]
  /\ UNCHANGED <<vars, diskVars, bridgeVars, conflicted, answered>> /\ OnlyHub

Collect(k) ==
  /\ ackCalls[k].step = "collect"
  /\ ackCalls' = [ackCalls EXCEPT ![k].step = "clean",
                                  ![k].ids = CleanupIDs(ackCalls[k].acks)]
  /\ UNCHANGED <<vars, diskVars, bridgeVars, conflicted, answered>> /\ OnlyHub

\* cleanupAttachmentFiles, one directory after the other.
CleanUp(k) ==
  /\ ackCalls[k].step = "clean"
  /\ \E b \in ackCalls[k].ids :
       /\ blobs' = [blobs EXCEPT ![b] = "none"]
       /\ ackCalls' = [ackCalls EXCEPT ![k].ids = @ \ {b}]
  /\ UNCHANGED <<vars, nextBlob, bridgeVars, conflicted, answered>> /\ OnlyHub

\* Mutant: the outcomes of the batch outlive it.
AnswerAckKeepsAcks(k) ==
  /\ ackCalls[k].step = "clean" /\ ackCalls[k].ids = {}
  /\ ackCalls' = [ackCalls EXCEPT ![k] = NoAckCall]
  /\ IF ackCalls[k].heard
     THEN /\ phase' = "idle" /\ batch' = NoItems
          /\ answered' = answered \cup {i \in DOMAIN acks : acks[i] = "applied"}
          /\ UNCHANGED acks
     ELSE UNCHANGED <<bridgeVars, answered>>
  /\ UNCHANGED <<vars, diskVars, conflicted>> /\ OnlyHub

\* The answer ends the bridge's cycle, if it still listens.
AnswerAck(k) ==
  /\ ackCalls[k].step = "clean" /\ ackCalls[k].ids = {}
  /\ ackCalls' = [ackCalls EXCEPT ![k] = NoAckCall]
  /\ IF ackCalls[k].heard
     THEN /\ phase' = "idle" /\ batch' = NoItems /\ acks' = NoItems
          /\ answered' = answered \cup {i \in DOMAIN acks : acks[i] = "applied"}
     ELSE UNCHANGED <<bridgeVars, answered>>
  /\ UNCHANGED <<vars, diskVars, conflicted>> /\ OnlyHub

AckStep(k) == AckRows(k) \/ Collect(k) \/ CleanUp(k) \/ AnswerAck(k)

-----------------------------------------------------------------------------
(***************************************************************************)
(* Faults and the rest of the world.                                       *)
(***************************************************************************)
Unheard == [k \in AckCalls |-> [ackCalls[k] EXCEPT !.heard = FALSE]]

LeaseAnswerLost ==
  /\ phase = "idle"
  /\ InFlight = {}
  /\ LeasedNow # {}
  /\ LeaseQueueItems
  /\ UNCHANGED <<diskVars, uploads, bridgeVars, ackCalls, noteVars, copied, answered, replaced>> /\ Fault

\* The call times out, and doWithRetry sends the batch again.
AckTimesOut ==
  /\ phase = "waiting"
  /\ phase' = "acking"
  /\ ackCalls' = Unheard
  /\ UNCHANGED <<vars, diskVars, uploads, batch, acks, noteVars, copied, answered, replaced>> /\ Fault

\* The bridge is killed, or gives its batch up after the third attempt.
BridgeDies ==
  /\ phase # "idle"
  /\ phase' = "idle" /\ batch' = NoItems /\ acks' = NoItems
  /\ ackCalls' = Unheard
  /\ UNCHANGED <<vars, diskVars, uploads, noteVars, copied, answered, replaced>> /\ Fault

\* The hub is killed: its handlers end where they are, the database and the
\* disk stay.  A bridge that waits gets an error and sends the batch again.
HubDies ==
  /\ uploads' = [h \in Handlers |-> NoUpload]
  /\ ackCalls' = [k \in AckCalls |-> NoAckCall]
  /\ phase' = IF phase = "waiting" THEN "acking" ELSE phase
  /\ UNCHANGED <<vars, diskVars, batch, acks, noteVars, copied, answered, replaced>> /\ Fault

\* An acknowledgement whose sender is gone may never be read.
AckLost(k) ==
  /\ ackCalls[k].step = "sent" /\ ~ackCalls[k].heard
  /\ ackCalls' = [ackCalls EXCEPT ![k] = NoAckCall]
  /\ UNCHANGED <<vars, diskVars, uploads, bridgeVars, noteVars, copied, answered, replaced>> /\ NoFault

\* Pushes of the bridge, which come before its lease: a note deleted in Bear,
\* a note both sides have edited.
PushDeletes(n) ==
  /\ phase = "idle" /\ n \notin deleted
  /\ FailQueueItemsForDeletedNotes({n})
  /\ deleted' = deleted \cup {n}
  /\ conflicted' = conflicted \ {n}
  /\ UNCHANGED <<diskVars, uploads, bridgeVars, ackCalls, bearFiles, copied, answered, replaced>> /\ NoFault

PushConflicts(n) ==
  /\ phase = "idle" /\ n \notin deleted
  /\ conflicted' = conflicted \cup {n}
  /\ UNCHANGED <<vars, diskVars, uploads, bridgeVars, ackCalls, bearFiles, deleted, copied, answered, replaced>> /\ NoFault

TimePasses ==
  /\ Tick
  /\ UNCHANGED <<diskVars, uploads, bridgeVars, ackCalls, noteVars, copied, answered, replaced>> /\ NoFault

BlobInit ==
  /\ Init
  /\ blobs = [b \in Blobs |-> "none"] /\ nextBlob = 1
  /\ uploads = [h \in Handlers |-> NoUpload]
  /\ phase = "idle" /\ batch = NoItems /\ acks = NoItems
  /\ ackCalls = [k \in AckCalls |-> NoAckCall]
  /\ bearFiles = {} /\ deleted = {} /\ conflicted = {}
  /\ copied = {} /\ answered = {} /\ replaced = {} /\ faults = 0

BlobNext ==
  \/ \E h \in Handlers : UploadStep(h)
  \/ BridgeStep
  \/ \E k \in AckCalls : AckStep(k) \/ AckLost(k)
  \/ LeaseAnswerLost \/ AckTimesOut \/ BridgeDies \/ HubDies
  \/ \E i \in 1..MaxRows : ApplyReportsFailure(i)
  \/ \E n \in NoteIds : PushDeletes(n) \/ PushConflicts(n)
  \/ TimePasses

BlobSpec == BlobInit /\ [][BlobNext]_blobVars

\* The hub runs its handlers to their end and the daemon its cycles; a call
\* of the bridge that the hub does not answer is sent again.
FairBlobSpec ==
  /\ BlobSpec
  /\ WF_blobVars(BridgeStep) /\ WF_blobVars(TimePasses)
  /\ \A k \in AckCalls : WF_blobVars(AckStep(k))

-----------------------------------------------------------------------------
\* Types of this module's state.
BlobTypeOK ==
  /\ blobs \in [Blobs -> {"none", "partial", "whole"}] /\ nextBlob \in 1..(MaxBlobs + 1)
  /\ uploads \in [Handlers -> [step : UploadSteps, call : Calls \cup {NULL},
                               blob : Blobs \cup {NULL}]]
  /\ phase \in {"idle", "applying", "acking", "waiting"}
  /\ DOMAIN acks \subseteq DOMAIN batch /\ DOMAIN batch \subseteq Ids
  /\ \A i \in DOMAIN acks : acks[i] \in Outcomes
  /\ \A k \in AckCalls : /\ ackCalls[k].step \in {"idle", "sent", "collect", "clean"}
                         /\ ackCalls[k].ids \subseteq Blobs
                         /\ phase # "waiting" => ~ackCalls[k].heard
  /\ deleted \cup conflicted \subseteq NoteIds /\ bearFiles \subseteq NoteIds \X {c.filename : c \in Calls}
  /\ copied \cup answered \subseteq Ids /\ replaced \subseteq Blobs
  /\ faults \in 0..MaxFaults

\* The file of an accepted upload is on the disk, and complete, as long as its
\* row may be delivered, and is in Bear once the row is applied (unless a
\* conflict copy settled the row): no lost race of two uploads with one key,
\* no retry, no repeated or late acknowledgement and no crash takes it away.
AcceptedFileKept ==
  \A i \in Ids :
    LET row == write_queue[i]
    IN /\ Active(row) => blobs[AttachmentID(row)] = "whole"
       /\ row.status = "applied" /\ i \notin copied => <<row.note_id, Filename(row)>> \in bearFiles

\* An acknowledgement that was answered has removed the files of its applied
\* rows, also when an attempt before it changed the rows and the hub died
\* before it removed anything.
AnsweredMeansClean ==
  \A i \in answered : write_queue[i].status = "applied" => blobs[AttachmentID(write_queue[i])] = "none"

Named == {AttachmentID(write_queue[i]) : i \in {j \in Ids : write_queue[j].status # "applied"}}

Quiet ==
  /\ phase = "idle"
  /\ \A h \in Handlers : At(h, "idle")
  /\ \A k \in AckCalls : ackCalls[k].step = "idle"

\* When nothing is under way and there was no fault, the disk holds nothing
\* but the files of rows that are not applied, and of failed attempts that a
\* retry with the same key replaced.
NoOrphanFiles ==
  Quiet /\ faults = 0 => {b \in Blobs : blobs[b] # "none"} \subseteq Named \cup replaced

\* The file of an applied row leaves the disk, whichever single fault happens:
\* the retried acknowledgement or the detached context of the first sees to it.
AppliedFilesGo ==
  \A b \in Blobs :
    (\E i \in Ids : write_queue[i].status = "applied" /\ AttachmentID(write_queue[i]) = b)
      ~> (blobs[b] = "none")
=============================================================================
