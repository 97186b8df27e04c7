----------------------------- MODULE BlobProofs -----------------------------
(***************************************************************************)
(* Theorems about the files of add_file rows, for every set of uploads,    *)
(* any number of handlers, acknowledgements, rows, blobs and faults.       *)
(***************************************************************************)
EXTENDS AttachmentBlobs, WriteQueueProofs

(***************************************************************************)
(* The types the argument needs, beyond BlobTypeOK.                        *)
(***************************************************************************)
\* A handler that has made its directory and has not given it to a row.
Holding(h) == uploads[h].step \in {"copy", "enqueue", "remove"}

HandlersTyped ==
  \A h \in Handlers :
    /\ uploads[h].step # "idle" => uploads[h].call \in Calls
    /\ Holding(h) => uploads[h].blob \in Blobs /\ uploads[h].blob < nextBlob

AckMaps == UNION {[S -> Outcomes] : S \in SUBSET Ids}

CallsTyped ==
  ackCalls \in [AckCalls -> [step : {"idle", "sent", "collect", "clean"}, acks : AckMaps,
                            ids : SUBSET Blobs, heard : BOOLEAN]]

BatchTyped == acks \in AckMaps /\ \A i \in DOMAIN batch : batch[i].row \in Row

\* The bridge listens to the answer of one call at most.
OneListener == \A k, l \in AckCalls : ackCalls[k].heard /\ ackCalls[l].heard => k = l

TypeInv ==
  /\ QueueInv /\ BlobTypeOK
  /\ HandlersTyped /\ CallsTyped /\ BatchTyped /\ OneListener

-----------------------------------------------------------------------------
(***************************************************************************)
(* Who may remove which file: the inductive invariant's first half.        *)
(***************************************************************************)
\* No two handlers hold the same directory.
HeldApart == \A g, h \in Handlers : Holding(g) /\ Holding(h) /\ uploads[g].blob = uploads[h].blob => g = h

\* No row names a directory that a handler holds.
HeldUnnamed ==
  \A h \in Handlers : Holding(h) => \A i \in Ids : AttachmentID(write_queue[i]) # uploads[h].blob

\* No two rows name the same directory, and none one that is not made yet.
NamesApart == \A i, j \in Ids : AttachmentID(write_queue[i]) = AttachmentID(write_queue[j]) => i = j
NamesUsed == \A i \in Ids : AttachmentID(write_queue[i]) < nextBlob

WholeBeforeRow == \A h \in Handlers : At(h, "enqueue") => blobs[uploads[h].blob] = "whole"
WholeWhileActive == \A i \in Ids : Active(write_queue[i]) => blobs[AttachmentID(write_queue[i])] = "whole"

\* What is about to be removed belongs to applied rows.
CleansApplied ==
  \A k \in AckCalls : \A b \in ackCalls[k].ids :
    \E i \in Ids : write_queue[i].status = "applied" /\ AttachmentID(write_queue[i]) = b

DiskInv ==
  /\ HeldApart /\ HeldUnnamed /\ NamesApart /\ NamesUsed
  /\ WholeBeforeRow /\ WholeWhileActive /\ CleansApplied

-----------------------------------------------------------------------------
(***************************************************************************)
(* What the bridge holds and what it has told the hub: the second half.    *)
(***************************************************************************)
RowFile(row) == <<row.note_id, Filename(row)>>

\* Outcomes that may be applied to the rows as they are now.
Backed(as) ==
  \A i \in DOMAIN as : as[i] = "applied" /\ write_queue[i].status = "processing" =>
    i \in copied \/ RowFile(write_queue[i]) \in bearFiles

IdleHoldsNothing == phase = "idle" => DOMAIN batch = {}

\* No acknowledgement of an earlier batch arrives while a batch is applied,
\* and one on its way has the outcomes of the batch the bridge holds.
SentIsCurrent ==
  \A k \in InFlight : /\ phase # "applying"
                      /\ phase # "idle" => ackCalls[k].acks = acks

BatchHeld ==
  phase = "applying" =>
    \A i \in DOMAIN batch : /\ write_queue[i].status = "processing"
                            /\ Work(write_queue[i]) = Work(batch[i].row)

OutcomesStand ==
  \A i \in DOMAIN acks : acks[i] = "applied" => write_queue[i].status \in {"processing", "applied"}

AllBacked == Backed(acks) /\ \A k \in InFlight : Backed(ackCalls[k].acks)

\* A call that the bridge listens to, after its transaction: the rows of the
\* batch are settled and the files of the applied ones are gone or listed.
Settled(k) ==
  /\ ackCalls[k].acks = acks
  /\ \A i \in DOMAIN acks : write_queue[i].status # "processing"
  /\ ackCalls[k].step = "clean" =>
       \A i \in DOMAIN acks : acks[i] = "applied" =>
         AttachmentID(write_queue[i]) \in ackCalls[k].ids \/ blobs[AttachmentID(write_queue[i])] = "none"

ListenedSettled ==
  \A k \in AckCalls : ackCalls[k].heard /\ ackCalls[k].step \in {"collect", "clean"} => Settled(k)

AppliedInBear ==
  \A i \in Ids : write_queue[i].status = "applied" /\ i \notin copied => RowFile(write_queue[i]) \in bearFiles

AnsweredGone ==
  \A i \in answered : write_queue[i].status = "applied" /\ blobs[AttachmentID(write_queue[i])] = "none"

BridgeInv ==
  /\ IdleHoldsNothing /\ SentIsCurrent /\ BatchHeld /\ OutcomesStand
  /\ AllBacked /\ ListenedSettled /\ AppliedInBear /\ AnsweredGone

-----------------------------------------------------------------------------
(***************************************************************************)
(* Without faults every file has somebody to care for it.                  *)
(***************************************************************************)
Held(b) == \E h \in Handlers : Holding(h) /\ uploads[h].blob = b

Wanted(b) == \E i \in Ids : write_queue[i].status # "applied" /\ AttachmentID(write_queue[i]) = b

\* A call of syncAck will remove it.
Doomed(b, k) ==
  \/ ackCalls[k].step = "collect" /\ b \in CleanupIDs(ackCalls[k].acks)
  \/ ackCalls[k].step = "clean" /\ b \in ackCalls[k].ids

Cared(b) == Held(b) \/ Wanted(b) \/ b \in replaced \/ \E k \in AckCalls : Doomed(b, k)

NoneForgotten == \A b \in Blobs : blobs[b] # "none" => Cared(b)

CareInv ==
  faults = 0 => /\ \A k \in AckCalls : ackCalls[k].step # "idle" => ackCalls[k].heard
                /\ NoneForgotten

-----------------------------------------------------------------------------
(***************************************************************************)
(* Facts about the data.                                                   *)
(***************************************************************************)
LEMMA AckMapsDef ==
  ASSUME NEW as
  PROVE  /\ as \in AckMaps <=> \E S \in SUBSET Ids : as \in [S -> Outcomes]
         /\ as \in AckMaps => DOMAIN as \subseteq Ids /\ \A i \in DOMAIN as : as[i] \in Outcomes
BY DEF AckMaps

LEMMA AddFileRequest ==
  ASSUME NEW c \in Calls, NEW b \in Blobs
  PROVE  AddFile(c, b) \in Requests
BY BlobAssumption

\* A row is for a note and names a file and a directory.
LEMMA RowNamesBlob ==
  ASSUME NEW row \in Row
  PROVE  /\ AttachmentID(row) \in Blobs
         /\ row.note_id \in NoteIds \ {NULL}
         /\ Filename(row) \in {c.filename : c \in Calls}
<1>1. \A r \in Requests : /\ r.payload.body \in Blobs
                          /\ r.payload.title \in {c.filename : c \in Calls}
                          /\ r.note_id # NULL
  BY BlobAssumption DEF AddFile
<1> QED
  BY <1>1 DEF Row, Payloads, NoteIds, AttachmentID, Filename

LEMMA TableTypes ==
  ASSUME TypeOK, NEW i \in Ids
  PROVE  /\ write_queue[i] \in Row
         /\ AttachmentID(write_queue[i]) \in Blobs
         /\ write_queue[i].note_id \in NoteIds
         /\ RowFile(write_queue[i]) \in NoteIds \X {c.filename : c \in Calls}
BY TableShape, RowNamesBlob DEF RowFile

LEMMA FaultsTyped ==
  ASSUME faults \in 0..MaxFaults, Fault \/ NoFault
  PROVE  faults' \in 0..MaxFaults
BY BlobAssumption DEF Fault, NoFault

-----------------------------------------------------------------------------
(***************************************************************************)
(* Seen from the table, a step is one of WriteQueue or none.               *)
(***************************************************************************)
\* The steps that leave the table alone.
TableStays(h, i, k, n) ==
  \/ (\E c \in Calls : GetNote(h, c)) \/ CheckKey(h) \/ MakeDir(h) \/ CopyFile(h) \/ CopyFails(h)
  \/ EnqueueFails(h) \/ RemoveOwn(h)
  \/ CopyConflict(i) \/ ApplyAddFile(i) \/ ApplyFails(i) \/ ApplyReportsFailure(i)
  \/ SendAck(k) \/ Collect(k) \/ CleanUp(k) \/ AnswerAck(k) \/ AckLost(k)
  \/ AckTimesOut \/ BridgeDies \/ HubDies \/ PushConflicts(n)

LEMMA TableStaysDef ==
  ASSUME NEW h, NEW i, NEW k, NEW n, TableStays(h, i, k, n)
  PROVE  UNCHANGED vars
BY DEF TableStays, GetNote, CheckKey, MakeDir, CopyFile, CopyFails, EnqueueFails, RemoveOwn,
       CopyConflict, ApplyAddFile, ApplyFails, ApplyReportsFailure, ItemDone, SendAck, Collect,
       CleanUp, AnswerAck, AckLost, AckTimesOut, BridgeDies, HubDies, PushConflicts

LEMMA StepCases ==
  ASSUME BlobNext
  PROVE  \/ UNCHANGED vars
         \/ \E h \in Handlers : EnqueueFile(h)
         \/ LeaseBatch \/ LeaseAnswerLost
         \/ \E k \in AckCalls : AckRows(k)
         \/ \E n \in NoteIds : PushDeletes(n)
         \/ TimePasses
BY TableStaysDef DEF BlobNext, UploadStep, BridgeStep, AckStep, TableStays

LEMMA StepsAreQueueSteps ==
  ASSUME TypeInv, BlobNext
  PROVE  Next \/ UNCHANGED vars
<1>1. ASSUME NEW h \in Handlers, EnqueueFile(h) PROVE Next
  <2>1. AddFile(uploads[h].call, uploads[h].blob) \in Requests
    BY <1>1, AddFileRequest DEF TypeInv, HandlersTyped, Holding, EnqueueFile, At
  <2> QED
    BY <1>1, <2>1 DEF EnqueueFile, Next
<1>2. ASSUME NEW k \in AckCalls, AckRows(k) PROVE Next
  <2>1. \E S \in SUBSET Ids : ackCalls[k].acks \in [S -> Outcomes]
    BY AckMapsDef DEF TypeInv, CallsTyped
  <2> QED
    BY <1>2, <2>1 DEF AckRows, Next
<1>3. ASSUME NEW n \in NoteIds, PushDeletes(n) PROVE Next
  <2>1. n # NULL
    BY BlobAssumption DEF NoteIds, AddFile
  <2> QED
    BY <1>3, <2>1 DEF PushDeletes, Next
<1> QED
  BY <1>1, <1>2, <1>3, StepCases DEF LeaseBatch, LeaseAnswerLost, TimePasses, Next

\* The table after a step: typed, and with the rows it had.
LEMMA TableAfter ==
  ASSUME TypeInv, BlobNext
  PROVE  /\ QueueInv' /\ Len(write_queue') \in Nat
         /\ Ids \subseteq Ids'
         /\ AckMaps \subseteq AckMaps'
<1>1. QueueInv'
  BY StepsAreQueueSteps, NextQueueInv
     DEF TypeInv, vars, QueueInv, TypeOK, LeaseDiscipline, PrimaryKeysUnique, AcceptedRowExists, Ids
<1>2. Len(write_queue') \in Nat
  BY <1>1, LenProperties DEF QueueInv, TypeOK
<1>3. Ids \subseteq Ids'
  BY StepsAreQueueSteps, NextKeepsRows DEF TypeInv, QueueInv, vars, Ids
<1>4. SUBSET Ids \subseteq SUBSET Ids'
  BY <1>3
<1>5. AckMaps \subseteq AckMaps'
  BY <1>4 DEF AckMaps
<1> QED
  BY <1>1, <1>2, <1>3, <1>5

-----------------------------------------------------------------------------
(***************************************************************************)
(* A step of addFile moves one handler.                                    *)
(***************************************************************************)
Upload == [step : UploadSteps, call : Calls \cup {NULL}, blob : Blobs \cup {NULL}]

Moved(h, step, call, blob) ==
  uploads' = [uploads EXCEPT ![h] = [step |-> step, call |-> call, blob |-> blob]]

LEMMA MovedTyped ==
  ASSUME uploads \in [Handlers -> Upload], NEW h \in Handlers,
         NEW s \in UploadSteps, NEW c \in Calls \cup {NULL}, NEW b \in Blobs \cup {NULL},
         Moved(h, s, c, b)
  PROVE  /\ uploads' \in [Handlers -> Upload]
         /\ uploads'[h].step = s /\ uploads'[h].call = c /\ uploads'[h].blob = b
         /\ \A g \in Handlers \ {h} : uploads'[g] = uploads[g]
BY DEF Moved, Upload

LEMMA GotoMoves ==
  ASSUME uploads \in [Handlers -> Upload], NEW h \in Handlers, NEW s
  PROVE  /\ Goto(h, s) <=> Moved(h, s, uploads[h].call, uploads[h].blob)
         /\ Answer(h) <=> Moved(h, "idle", NULL, NULL)
<1>1. uploads[h] = [step |-> uploads[h].step, call |-> uploads[h].call, blob |-> uploads[h].blob]
  BY DEF Upload
<1>2. [uploads[h] EXCEPT !.step = s] = [step |-> s, call |-> uploads[h].call, blob |-> uploads[h].blob]
  BY <1>1
<1>3. [uploads EXCEPT ![h].step = s] = [uploads EXCEPT ![h] = [uploads[h] EXCEPT !.step = s]]
  OBVIOUS
<1> QED
  BY <1>2, <1>3 DEF Goto, Answer, NoUpload, Moved

\* What each step of addFile does to its handler and to the disk.
Reads(h) ==
  /\ UNCHANGED <<blobs, nextBlob>>
  /\ \/ ~Holding(h) /\ \E c \in Calls : Moved(h, "check_key", c, NULL)
     \/ ~Holding(h) /\ Moved(h, "idle", NULL, NULL)
     \/ uploads[h].step = "check_key" /\ Moved(h, "mkdir", uploads[h].call, uploads[h].blob)
     \/ uploads[h].step = "enqueue" /\ Moved(h, "remove", uploads[h].call, uploads[h].blob)

Makes(h) ==
  /\ nextBlob \in Blobs
  /\ blobs' = [blobs EXCEPT ![nextBlob] = "partial"]
  /\ nextBlob' = nextBlob + 1
  /\ uploads[h].step = "mkdir" /\ Moved(h, "copy", uploads[h].call, nextBlob)

Fills(h) ==
  /\ blobs' = [blobs EXCEPT ![uploads[h].blob] = "whole"]
  /\ nextBlob' = nextBlob
  /\ uploads[h].step = "copy" /\ Moved(h, "enqueue", uploads[h].call, uploads[h].blob)

Drops(h) ==
  /\ blobs' = [blobs EXCEPT ![uploads[h].blob] = "none"]
  /\ nextBlob' = nextBlob
  /\ Holding(h) /\ Moved(h, "idle", NULL, NULL)

LEMMA UploadEffect ==
  ASSUME uploads \in [Handlers -> Upload], NEW h \in Handlers, UploadStep(h)
  PROVE  Reads(h) \/ Makes(h) \/ Fills(h) \/ Drops(h) \/ EnqueueFile(h)
<1>1. ASSUME NEW c \in Calls, GetNote(h, c) PROVE Reads(h)
  BY <1>1 DEF GetNote, Reads, Moved, Holding, At, diskVars
<1>2. CASE CheckKey(h)
  BY <1>2, GotoMoves DEF CheckKey, Reads, Holding, At, diskVars
<1>3. CASE EnqueueFails(h)
  BY <1>3, GotoMoves DEF EnqueueFails, Reads, At, diskVars
<1>4. CASE MakeDir(h)
  <2>1. uploads[h] = [step |-> uploads[h].step, call |-> uploads[h].call, blob |-> uploads[h].blob]
    BY DEF Upload
  <2>2. uploads' = [uploads EXCEPT ![h] = [uploads[h] EXCEPT !.step = "copy", !.blob = nextBlob]]
    BY <1>4 DEF MakeDir
  <2>3. [uploads[h] EXCEPT !.step = "copy", !.blob = nextBlob]
        = [step |-> "copy", call |-> uploads[h].call, blob |-> nextBlob]
    <3> DEFINE v == [uploads[h] EXCEPT !.step = "copy", !.blob = nextBlob]
    <3>1. v \in [step : UploadSteps, call : Calls \cup {NULL}, blob : {nextBlob}]
      BY DEF Upload, UploadSteps
    <3>2. v.step = "copy" /\ v.call = uploads[h].call /\ v.blob = nextBlob
      BY DEF Upload
    <3>3. v = [step |-> v.step, call |-> v.call, blob |-> v.blob]
      <4> HIDE DEF v
      <4> QED
        BY <3>1
    <3> QED
      BY <3>2, <3>3
  <2> QED
    BY <1>4, <2>2, <2>3 DEF MakeDir, Makes, Moved, At
<1>5. CASE CopyFile(h)
  BY <1>5, GotoMoves DEF CopyFile, Fills, At
<1>6. CASE CopyFails(h)
  BY <1>6, GotoMoves DEF CopyFails, Drops, Holding, At
<1>7. CASE RemoveOwn(h)
  BY <1>7, GotoMoves DEF RemoveOwn, Drops, Holding, At
<1> QED
  BY <1>1, <1>2, <1>3, <1>4, <1>5, <1>6, <1>7 DEF UploadStep

\* The other steps: one directory may go, or all handlers.
Aside ==
  /\ nextBlob' = nextBlob
  /\ \/ uploads' = uploads /\ blobs' = blobs
     \/ uploads' = [h \in Handlers |-> NoUpload] /\ blobs' = blobs
     \/ \E k \in AckCalls : CleanUp(k)

LEMMA StepsOfHandlers ==
  ASSUME BlobNext
  PROVE  (\E h \in Handlers : UploadStep(h)) \/ Aside
<1>1. CASE BridgeStep \/ \E i \in 1..MaxRows : ApplyReportsFailure(i)
  BY <1>1 DEF BridgeStep, LeaseBatch, CopyConflict, ApplyAddFile, ApplyFails, ApplyReportsFailure,
              ItemDone, SendAck, Aside, diskVars
<1>2. ASSUME NEW k \in AckCalls, AckStep(k) \/ AckLost(k) PROVE Aside
  BY <1>2 DEF AckStep, AckRows, Collect, CleanUp, AnswerAck, AckLost, OnlyHub, Aside, diskVars
<1>3. CASE LeaseAnswerLost \/ AckTimesOut \/ BridgeDies \/ HubDies
  BY <1>3 DEF LeaseAnswerLost, AckTimesOut, BridgeDies, HubDies, Aside, diskVars
<1>4. CASE TimePasses \/ \E n \in NoteIds : PushDeletes(n) \/ PushConflicts(n)
  BY <1>4 DEF TimePasses, PushDeletes, PushConflicts, Aside, diskVars
<1> QED
  BY <1>1, <1>2, <1>3, <1>4 DEF BlobNext

DiskTyped ==
  /\ blobs \in [Blobs -> {"none", "partial", "whole"}] /\ nextBlob \in 1..(MaxBlobs + 1)
  /\ uploads \in [Handlers -> Upload]
  /\ HandlersTyped

LEMMA DiskTypedFromInv == TypeInv => DiskTyped
BY DEF TypeInv, BlobTypeOK, DiskTyped, Upload

LEMMA DiskStaysTyped ==
  ASSUME TypeInv, BlobNext
  PROVE  DiskTyped'
<1> USE DiskTypedFromInv, BlobAssumption
<1>1. ASSUME NEW h \in Handlers, UploadStep(h) PROVE DiskTyped'
  <2>0. DiskTyped /\ {"idle", "check_key", "mkdir", "copy", "enqueue", "remove"} \subseteq UploadSteps
    BY DEF UploadSteps
  <2>a. uploads[h].call \in Calls \cup {NULL} /\ uploads[h].blob \in Blobs \cup {NULL}
    BY <2>0 DEF DiskTyped, Upload
  <2>1. CASE Reads(h)
    <3>1. /\ uploads' \in [Handlers -> Upload]
          /\ \/ uploads'[h].step \in {"check_key", "mkdir"} /\ uploads'[h].call \in Calls
             \/ uploads'[h].step = "idle"
             \/ uploads'[h].step = "remove" /\ uploads[h].step = "enqueue"
                /\ uploads'[h].call = uploads[h].call /\ uploads'[h].blob = uploads[h].blob
          /\ \A g \in Handlers \ {h} : uploads'[g] = uploads[g]
      <4>1. CASE \E c \in Calls : Moved(h, "check_key", c, NULL)
        BY <2>0, <4>1, MovedTyped DEF DiskTyped
      <4>2. CASE uploads[h].step = "check_key" /\ Moved(h, "mkdir", uploads[h].call, uploads[h].blob)
        BY <2>0, <2>a, <4>2, MovedTyped DEF DiskTyped, HandlersTyped
      <4>3. CASE Moved(h, "idle", NULL, NULL)
        BY <2>0, <4>3, MovedTyped DEF DiskTyped
      <4>4. CASE uploads[h].step = "enqueue" /\ Moved(h, "remove", uploads[h].call, uploads[h].blob)
        BY <2>0, <2>a, <4>4, MovedTyped DEF DiskTyped
      <4> QED
        BY <2>1, <4>1, <4>2, <4>3, <4>4 DEF Reads
    <3> QED
      BY <2>0, <2>1, <3>1 DEF Reads, DiskTyped, HandlersTyped, Holding
  <2>2. CASE Makes(h)
    <3>1. /\ blobs' \in [Blobs -> {"none", "partial", "whole"}] /\ nextBlob' \in 1..(MaxBlobs + 1)
          /\ nextBlob < nextBlob' /\ nextBlob \in Blobs
      BY <2>0, <2>2 DEF Makes, DiskTyped, Blobs
    <3>2. /\ uploads' \in [Handlers -> Upload]
          /\ uploads'[h].step = "copy" /\ uploads'[h].call = uploads[h].call
          /\ uploads'[h].blob = nextBlob /\ uploads[h].step = "mkdir"
          /\ \A g \in Handlers \ {h} : uploads'[g] = uploads[g]
      BY <2>0, <2>2, <2>a, MovedTyped DEF Makes, DiskTyped
    <3>3. \A b \in Blobs : b < nextBlob => b < nextBlob'
      BY <2>0, <2>2 DEF Makes, DiskTyped, Blobs
    <3> QED
      BY <2>0, <3>1, <3>2, <3>3 DEF DiskTyped, HandlersTyped, Holding
  <2>3. CASE Fills(h)
    BY <2>0, <2>3, <2>a, MovedTyped DEF Fills, DiskTyped, HandlersTyped, Holding
  <2>4. CASE Drops(h)
    <3>1. /\ uploads' \in [Handlers -> Upload] /\ uploads'[h].step = "idle"
          /\ \A g \in Handlers \ {h} : uploads'[g] = uploads[g]
      BY <2>0, <2>4, MovedTyped DEF Drops, DiskTyped
    <3>2. blobs' \in [Blobs -> {"none", "partial", "whole"}] /\ nextBlob' = nextBlob
      BY <2>0, <2>4 DEF Drops, DiskTyped
    <3> QED
      BY <2>0, <3>1, <3>2 DEF DiskTyped, HandlersTyped, Holding
  <2>5. CASE EnqueueFile(h)
    <3>1. \/ Moved(h, "idle", NULL, NULL)
          \/ Moved(h, "remove", uploads[h].call, uploads[h].blob) /\ uploads[h].step = "enqueue"
      BY <2>0, <2>5, GotoMoves DEF EnqueueFile, DiskTyped, At
    <3>2. /\ uploads' \in [Handlers -> Upload]
          /\ \/ uploads'[h].step = "idle"
             \/ uploads'[h].step = "remove" /\ uploads[h].step = "enqueue"
                /\ uploads'[h].call = uploads[h].call /\ uploads'[h].blob = uploads[h].blob
          /\ \A g \in Handlers \ {h} : uploads'[g] = uploads[g]
      BY <2>0, <2>a, <3>1, MovedTyped DEF DiskTyped
    <3>3. UNCHANGED <<blobs, nextBlob>>
      BY <2>5 DEF EnqueueFile, diskVars
    <3> QED
      BY <2>0, <3>2, <3>3 DEF DiskTyped, HandlersTyped, Holding
  <2> QED
    BY <1>1, <2>0, <2>1, <2>2, <2>3, <2>4, <2>5, UploadEffect DEF DiskTyped
<1>2. CASE Aside
  <2>1. blobs' \in [Blobs -> {"none", "partial", "whole"}]
    BY <1>2 DEF Aside, DiskTyped, CleanUp
  <2>2. uploads' = uploads \/ uploads' = [h \in Handlers |-> NoUpload]
    BY <1>2 DEF Aside, CleanUp, OnlyHub
  <2> QED
    BY <1>2, <2>1, <2>2 DEF Aside, DiskTyped, HandlersTyped, Holding, Upload, NoUpload, UploadSteps
<1> QED
  BY <1>1, <1>2, StepsOfHandlers

-----------------------------------------------------------------------------
(***************************************************************************)
(* A step of syncAck moves one call.                                       *)
(***************************************************************************)
CallSteps == {"idle", "sent", "collect", "clean"}
Call(maps) == [step : CallSteps, acks : maps, ids : SUBSET Blobs, heard : BOOLEAN]

CallMoved(k, step, as, ids, heard) ==
  ackCalls' = [ackCalls EXCEPT ![k] = [step |-> step, acks |-> as, ids |-> ids, heard |-> heard]]

LEMMA CallMovedTyped ==
  ASSUME NEW maps, ackCalls \in [AckCalls -> Call(maps)], NEW k \in AckCalls,
         NEW s \in CallSteps, NEW as \in maps, NEW ids \in SUBSET Blobs, NEW heard \in BOOLEAN,
         CallMoved(k, s, as, ids, heard)
  PROVE  /\ ackCalls' \in [AckCalls -> Call(maps)]
         /\ ackCalls'[k].step = s /\ ackCalls'[k].acks = as
         /\ ackCalls'[k].ids = ids /\ ackCalls'[k].heard = heard
         /\ \A l \in AckCalls \ {k} : ackCalls'[l] = ackCalls[l]
<1>1. [step |-> s, acks |-> as, ids |-> ids, heard |-> heard] \in Call(maps)
  BY DEF Call
<1> QED
  BY <1>1 DEF CallMoved

LEMMA CallUpdates ==
  ASSUME NEW maps, ackCalls \in [AckCalls -> Call(maps)], NEW k \in AckCalls, NEW s, NEW ids
  PROVE  /\ ackCalls' = [ackCalls EXCEPT ![k].step = s] =>
              CallMoved(k, s, ackCalls[k].acks, ackCalls[k].ids, ackCalls[k].heard)
         /\ ackCalls' = [ackCalls EXCEPT ![k].ids = ids] =>
              CallMoved(k, ackCalls[k].step, ackCalls[k].acks, ids, ackCalls[k].heard)
         /\ ackCalls' = [ackCalls EXCEPT ![k].step = s, ![k].ids = ids] =>
              CallMoved(k, s, ackCalls[k].acks, ids, ackCalls[k].heard)
<1>1. ackCalls[k] = [step |-> ackCalls[k].step, acks |-> ackCalls[k].acks,
                     ids |-> ackCalls[k].ids, heard |-> ackCalls[k].heard]
  BY DEF Call
<1>2. [ackCalls[k] EXCEPT !.step = s] = [step |-> s, acks |-> ackCalls[k].acks,
                                         ids |-> ackCalls[k].ids, heard |-> ackCalls[k].heard]
  BY <1>1
<1>3. [ackCalls[k] EXCEPT !.ids = ids] = [step |-> ackCalls[k].step, acks |-> ackCalls[k].acks,
                                          ids |-> ids, heard |-> ackCalls[k].heard]
  BY <1>1
<1>4. [ackCalls[k] EXCEPT !.step = s, !.ids = ids] =
        [step |-> s, acks |-> ackCalls[k].acks, ids |-> ids, heard |-> ackCalls[k].heard]
  <2> DEFINE v == [ackCalls[k] EXCEPT !.step = s, !.ids = ids]
  <2>1. v \in [step : CallSteps \cup {s}, acks : maps, ids : {ids}, heard : BOOLEAN]
    BY DEF Call
  <2>2. v.step = s /\ v.acks = ackCalls[k].acks /\ v.ids = ids /\ v.heard = ackCalls[k].heard
    BY DEF Call
  <2>3. v = [step |-> v.step, acks |-> v.acks, ids |-> v.ids, heard |-> v.heard]
    <3> HIDE DEF v
    <3> QED
      BY <2>1
  <2> QED
    BY <2>2, <2>3
<1>5. /\ [ackCalls EXCEPT ![k].step = s] = [ackCalls EXCEPT ![k] = [ackCalls[k] EXCEPT !.step = s]]
      /\ [ackCalls EXCEPT ![k].ids = ids] = [ackCalls EXCEPT ![k] = [ackCalls[k] EXCEPT !.ids = ids]]
  OBVIOUS
<1>6. [ackCalls EXCEPT ![k].step = s, ![k].ids = ids]
      = [ackCalls EXCEPT ![k] = [ackCalls[k] EXCEPT !.step = s, !.ids = ids]]
  OBVIOUS
<1> QED
  BY <1>2, <1>3, <1>4, <1>5, <1>6 DEF CallMoved

LEMMA CallsFromInv ==
  ASSUME TypeInv
  PROVE  /\ ackCalls \in [AckCalls -> Call(AckMaps)]
         /\ acks \in AckMaps /\ NoItems \in AckMaps
         /\ \A k \in AckCalls : /\ ackCalls[k].acks \in AckMaps /\ ackCalls[k].ids \subseteq Blobs
                                /\ ackCalls[k].heard \in BOOLEAN /\ ackCalls[k].step \in CallSteps
<1>1. NoItems \in [{} -> Outcomes]
  BY DEF NoItems
<1>2. NoItems \in AckMaps
  BY <1>1, AckMapsDef
<1> QED
  BY <1>2 DEF TypeInv, CallsTyped, BatchTyped, Call, CallSteps

LEMMA CallMoves ==
  ASSUME TypeInv, NEW k \in AckCalls
  PROVE  /\ SendAck(k) => CallMoved(k, "sent", acks, {}, TRUE)
         /\ AckRows(k) => CallMoved(k, "collect", ackCalls[k].acks, ackCalls[k].ids, ackCalls[k].heard)
         /\ Collect(k) => CallMoved(k, "clean", ackCalls[k].acks, CleanupIDs(ackCalls[k].acks),
                                    ackCalls[k].heard)
         /\ CleanUp(k) => \E b \in ackCalls[k].ids :
              /\ CallMoved(k, "clean", ackCalls[k].acks, ackCalls[k].ids \ {b}, ackCalls[k].heard)
              /\ blobs' = [blobs EXCEPT ![b] = "none"]
         /\ AnswerAck(k) \/ AckLost(k) => CallMoved(k, "idle", NoItems, {}, FALSE)
<1>0. ackCalls \in [AckCalls -> Call(AckMaps)]
  BY CallsFromInv
<1>1. SendAck(k) => CallMoved(k, "sent", acks, {}, TRUE)
  BY DEF SendAck, CallMoved
<1>2. AckRows(k) => CallMoved(k, "collect", ackCalls[k].acks, ackCalls[k].ids, ackCalls[k].heard)
  BY <1>0, CallUpdates DEF AckRows
<1>3. Collect(k) => CallMoved(k, "clean", ackCalls[k].acks, CleanupIDs(ackCalls[k].acks), ackCalls[k].heard)
  BY <1>0, CallUpdates DEF Collect
<1>4. ASSUME CleanUp(k)
      PROVE  \E b \in ackCalls[k].ids :
              /\ CallMoved(k, "clean", ackCalls[k].acks, ackCalls[k].ids \ {b}, ackCalls[k].heard)
              /\ blobs' = [blobs EXCEPT ![b] = "none"]
  <2>1. PICK b \in ackCalls[k].ids : /\ blobs' = [blobs EXCEPT ![b] = "none"]
                                     /\ ackCalls' = [ackCalls EXCEPT ![k].ids = @ \ {b}]
    BY <1>4 DEF CleanUp
  <2>2. ackCalls' = [ackCalls EXCEPT ![k].ids = ackCalls[k].ids \ {b}]
    BY <2>1
  <2> QED
    BY <1>0, <1>4, <2>1, <2>2, CallUpdates DEF CleanUp
<1>5. AnswerAck(k) \/ AckLost(k) => CallMoved(k, "idle", NoItems, {}, FALSE)
  BY DEF AnswerAck, AckLost, CallMoved, NoAckCall
<1> QED
  BY <1>1, <1>2, <1>3, <1>4, <1>5

LEMMA CleanupTyped ==
  ASSUME TypeInv, NEW as \in AckMaps
  PROVE  CleanupIDs(as) \subseteq Blobs
<1>1. \A i \in DOMAIN as : i \in Ids
  BY AckMapsDef
<1> QED
  BY <1>1, TableTypes DEF CleanupIDs, TypeInv, QueueInv

\* The bridge hears one call at most, and only while it waits.
Listening == OneListener /\ \A k \in AckCalls : phase # "waiting" => ~ackCalls[k].heard

LEMMA CallsStayTyped ==
  ASSUME TypeInv, BlobNext
  PROVE  ackCalls' \in [AckCalls -> Call(AckMaps)] /\ Listening'
<1>0. /\ ackCalls \in [AckCalls -> Call(AckMaps)] /\ Listening
      /\ acks \in AckMaps /\ NoItems \in AckMaps
      /\ \A k \in AckCalls : ackCalls[k].acks \in AckMaps /\ ackCalls[k].ids \in SUBSET Blobs
                             /\ ackCalls[k].heard \in BOOLEAN
      /\ {"idle", "sent", "collect", "clean"} \subseteq CallSteps
  BY CallsFromInv DEF TypeInv, BlobTypeOK, Listening, CallSteps
<1>1. ASSUME NEW k \in AckCalls, SendAck(k) PROVE ackCalls' \in [AckCalls -> Call(AckMaps)] /\ Listening'
  <2>1. /\ ackCalls' \in [AckCalls -> Call(AckMaps)]
        /\ \A l \in AckCalls \ {k} : ackCalls'[l] = ackCalls[l]
    BY <1>0, <1>1, CallMoves, CallMovedTyped
  <2> QED
    BY <1>0, <1>1, <2>1 DEF SendAck, Listening, OneListener
<1>2. ASSUME NEW k \in AckCalls, NEW s \in CallSteps, NEW ids \in SUBSET Blobs, phase' = phase,
             CallMoved(k, s, ackCalls[k].acks, ids, ackCalls[k].heard)
      PROVE  ackCalls' \in [AckCalls -> Call(AckMaps)] /\ Listening'
  <2>1. /\ ackCalls' \in [AckCalls -> Call(AckMaps)] /\ ackCalls'[k].heard = ackCalls[k].heard
        /\ \A l \in AckCalls \ {k} : ackCalls'[l] = ackCalls[l]
    BY <1>0, <1>2, CallMovedTyped
  <2> QED
    BY <1>0, <1>2, <2>1 DEF Listening, OneListener
<1>3. ASSUME NEW k \in AckCalls, AckRows(k) \/ Collect(k) \/ CleanUp(k)
      PROVE  ackCalls' \in [AckCalls -> Call(AckMaps)] /\ Listening'
  <2>1. phase' = phase
    BY <1>3 DEF AckRows, Collect, CleanUp, bridgeVars
  <2>2. CASE AckRows(k)
    <3>1. CallMoved(k, "collect", ackCalls[k].acks, ackCalls[k].ids, ackCalls[k].heard)
      BY <2>2, CallMoves
    <3> QED
      BY <1>0, <1>2, <2>1, <3>1
  <2>3. CASE Collect(k)
    <3>1. CleanupIDs(ackCalls[k].acks) \in SUBSET Blobs
      BY <1>0, CleanupTyped
    <3>2. CallMoved(k, "clean", ackCalls[k].acks, CleanupIDs(ackCalls[k].acks), ackCalls[k].heard)
      BY <2>3, CallMoves
    <3> QED
      BY <1>0, <1>2, <2>1, <3>1, <3>2
  <2>4. CASE CleanUp(k)
    <3>1. PICK b \in ackCalls[k].ids :
            CallMoved(k, "clean", ackCalls[k].acks, ackCalls[k].ids \ {b}, ackCalls[k].heard)
      BY <2>4, CallMoves
    <3>2. ackCalls[k].ids \ {b} \in SUBSET Blobs
      BY <1>0
    <3> QED
      BY <1>0, <1>2, <2>1, <3>1, <3>2
  <2> QED
    BY <1>3, <2>2, <2>3, <2>4
<1>4. ASSUME NEW k \in AckCalls, AnswerAck(k) \/ AckLost(k)
      PROVE  ackCalls' \in [AckCalls -> Call(AckMaps)] /\ Listening'
  <2>1. /\ ackCalls' \in [AckCalls -> Call(AckMaps)] /\ ~ackCalls'[k].heard
        /\ \A l \in AckCalls \ {k} : ackCalls'[l] = ackCalls[l]
    <3>1. CallMoved(k, "idle", NoItems, {}, FALSE)
      BY <1>4, CallMoves
    <3> QED
      BY <1>0, <3>1, CallMovedTyped
  <2>2. ackCalls[k].heard \/ phase' = phase
    BY <1>4 DEF AnswerAck, AckLost, bridgeVars
  <2> QED
    BY <1>0, <2>1, <2>2 DEF Listening, OneListener
<1>5. CASE AckTimesOut \/ BridgeDies
  <2>1. ackCalls' = Unheard
    BY <1>5 DEF AckTimesOut, BridgeDies
  <2>2. \A k \in AckCalls : ackCalls'[k] \in Call(AckMaps) /\ ~ackCalls'[k].heard
    BY <1>0, <2>1 DEF Unheard, Call
  <2> QED
    BY <2>1, <2>2 DEF Unheard, Listening, OneListener
<1>6. CASE HubDies
  <2>1. NoAckCall \in Call(AckMaps) /\ ~NoAckCall.heard
    BY <1>0 DEF NoAckCall, Call
  <2> QED
    BY <1>6, <2>1 DEF HubDies, Listening, OneListener
<1>7. CASE ackCalls' = ackCalls /\ (phase' = phase \/ phase # "waiting")
  BY <1>0, <1>7 DEF Listening, OneListener
<1>8. ASSUME NEW h \in Handlers, UploadStep(h) PROVE ackCalls' = ackCalls /\ phase' = phase
  BY <1>8 DEF UploadStep, GetNote, CheckKey, MakeDir, CopyFile, CopyFails, EnqueueFile, EnqueueFails,
              RemoveOwn, OnlyUpload, bridgeVars
<1>9. ASSUME NEW i, CopyConflict(i) \/ ApplyAddFile(i) \/ ApplyFails(i) \/ ApplyReportsFailure(i)
      PROVE  ackCalls' = ackCalls /\ phase # "waiting"
  BY <1>9 DEF CopyConflict, ApplyAddFile, ApplyFails, ApplyReportsFailure, ItemDone
<1>10. ASSUME LeaseBatch \/ LeaseAnswerLost \/ TimePasses \/ \E n \in NoteIds : PushDeletes(n) \/ PushConflicts(n)
       PROVE  ackCalls' = ackCalls /\ (phase' = phase \/ phase # "waiting")
  BY <1>10 DEF LeaseBatch, LeaseAnswerLost, TimePasses, PushDeletes, PushConflicts, bridgeVars
<1> QED
  BY <1>1, <1>3, <1>4, <1>5, <1>6, <1>7, <1>8, <1>9, <1>10 DEF BlobNext, BridgeStep, AckStep

-----------------------------------------------------------------------------
(***************************************************************************)
(* The bridge, Bear and the histories.                                     *)
(***************************************************************************)
BridgeTyped ==
  /\ phase \in {"idle", "applying", "acking", "waiting"}
  /\ DOMAIN acks \subseteq DOMAIN batch /\ DOMAIN batch \subseteq Ids
  /\ BatchTyped

RestTyped ==
  /\ deleted \cup conflicted \subseteq NoteIds /\ bearFiles \subseteq NoteIds \X {c.filename : c \in Calls}
  /\ copied \cup answered \subseteq Ids /\ replaced \subseteq Blobs
  /\ faults \in 0..MaxFaults

LEMMA TypeInvParts ==
  TypeInv <=> /\ QueueInv /\ DiskTyped /\ BridgeTyped /\ RestTyped
              /\ ackCalls \in [AckCalls -> Call(AckMaps)] /\ Listening
<1>1. CallsTyped <=> ackCalls \in [AckCalls -> Call(AckMaps)]
  BY DEF CallsTyped, Call, CallSteps
<1>2. BatchTyped => \A i \in DOMAIN acks : acks[i] \in Outcomes
  BY AckMapsDef DEF BatchTyped
<1>3. ackCalls \in [AckCalls -> Call(AckMaps)] =>
        \A k \in AckCalls : /\ ackCalls[k].step \in {"idle", "sent", "collect", "clean"}
                            /\ ackCalls[k].ids \subseteq Blobs
  BY DEF Call, CallSteps
<1> QED
  BY <1>1, <1>2, <1>3
     DEF TypeInv, BlobTypeOK, DiskTyped, BridgeTyped, RestTyped, Listening, Upload

LEMMA ItemEffect ==
  ASSUME TypeInv, NEW i, NEW outcome \in Outcomes, ItemDone(i, outcome)
  PROVE  /\ i \in DOMAIN batch /\ i \in Ids /\ i \notin DOMAIN acks
         /\ phase = "applying" /\ phase' \in {"applying", "acking"}
         /\ DOMAIN acks' = DOMAIN acks \cup {i}
         /\ acks'[i] = outcome
         /\ \A j \in DOMAIN acks : acks'[j] = acks[j]
         /\ acks' \in AckMaps
         /\ batch' = batch
<1>1. i \in DOMAIN batch /\ i \in Ids /\ i \notin DOMAIN acks
  BY DEF ItemDone, Todo, TypeInv, BlobTypeOK
<1>2. /\ DOMAIN acks' = DOMAIN acks \cup {i}
      /\ acks'[i] = outcome
      /\ \A j \in DOMAIN acks : acks'[j] = acks[j]
      /\ acks' = [j \in DOMAIN acks \cup {i} |-> acks'[j]]
  BY <1>1 DEF ItemDone, Put
<1>3. DOMAIN acks \subseteq Ids /\ \A j \in DOMAIN acks : acks[j] \in Outcomes
  BY AckMapsDef DEF TypeInv, BatchTyped
<1>4. acks' \in [DOMAIN acks \cup {i} -> Outcomes] /\ DOMAIN acks \cup {i} \in SUBSET Ids
  BY <1>1, <1>2, <1>3
<1>5. acks' \in AckMaps
  BY <1>4, AckMapsDef
<1> QED
  BY <1>1, <1>2, <1>5 DEF ItemDone

LEMMA BridgeStaysTyped ==
  ASSUME TypeInv, BlobNext
  PROVE  BridgeTyped'
<1>0. /\ QueueInv /\ TypeOK /\ BridgeTyped /\ Ids \subseteq Ids' /\ AckMaps \subseteq AckMaps'
      /\ NoItems \in AckMaps /\ DOMAIN NoItems = {}
  BY TypeInvParts, CallsFromInv, TableAfter DEF QueueInv, NoItems
<1>1. CASE UNCHANGED bridgeVars
  BY <1>0, <1>1 DEF bridgeVars, BridgeTyped, BatchTyped
<1>2. CASE LeaseBatch
  <2>1. DOMAIN batch' = LeasedNow /\ \A i \in DOMAIN batch' : batch'[i].row = write_queue[i]
    BY <1>2 DEF LeaseBatch, Item
  <2>2. LeasedNow \subseteq Ids
    BY DEF LeasedNow, Leasable
  <2>3. \A i \in DOMAIN batch' : batch'[i].row \in Row
    BY <1>0, <2>1, <2>2, TableTypes
  <2> QED
    BY <1>0, <1>2, <2>1, <2>2, <2>3 DEF LeaseBatch, BridgeTyped, BatchTyped
<1>3. ASSUME NEW i, CopyConflict(i) \/ ApplyAddFile(i) \/ ApplyFails(i) \/ ApplyReportsFailure(i)
      PROVE  BridgeTyped'
  <2>1. \E outcome \in Outcomes : ItemDone(i, outcome)
    BY <1>3 DEF CopyConflict, ApplyAddFile, ApplyFails, ApplyReportsFailure, Outcomes
  <2>2. /\ phase' \in {"applying", "acking"} /\ batch' = batch /\ acks' \in AckMaps
        /\ DOMAIN acks' = DOMAIN acks \cup {i} /\ i \in DOMAIN batch
    BY <2>1, ItemEffect
  <2> QED
    BY <1>0, <2>2 DEF BridgeTyped, BatchTyped
<1>4. CASE /\ phase' \in {"idle", "applying", "acking", "waiting"}
           /\ \/ batch' = batch /\ acks' = acks
              \/ batch' = NoItems /\ acks' = NoItems
  BY <1>0, <1>4 DEF BridgeTyped, BatchTyped
<1>5. ASSUME NEW k \in AckCalls, SendAck(k) \/ AckStep(k) \/ AckLost(k)
      PROVE  \/ UNCHANGED bridgeVars
             \/ /\ phase' \in {"idle", "applying", "acking", "waiting"}
                /\ \/ batch' = batch /\ acks' = acks
                   \/ batch' = NoItems /\ acks' = NoItems
  BY <1>5 DEF SendAck, AckStep, AckRows, Collect, CleanUp, AnswerAck, AckLost, bridgeVars
<1>6. ASSUME AckTimesOut \/ BridgeDies \/ HubDies
      PROVE  /\ phase' \in {"idle", "applying", "acking", "waiting"}
             /\ \/ batch' = batch /\ acks' = acks
                \/ batch' = NoItems /\ acks' = NoItems
  BY <1>0, <1>6 DEF AckTimesOut, BridgeDies, HubDies, BridgeTyped
<1>7. ASSUME NEW h \in Handlers, UploadStep(h) PROVE UNCHANGED bridgeVars
  BY <1>7 DEF UploadStep, GetNote, CheckKey, MakeDir, CopyFile, CopyFails, EnqueueFile, EnqueueFails,
              RemoveOwn, OnlyUpload
<1>8. ASSUME LeaseAnswerLost \/ TimePasses \/ \E n \in NoteIds : PushDeletes(n) \/ PushConflicts(n)
      PROVE  UNCHANGED bridgeVars
  BY <1>8 DEF LeaseAnswerLost, TimePasses, PushDeletes, PushConflicts
<1> QED
  BY <1>1, <1>2, <1>3, <1>4, <1>5, <1>6, <1>7, <1>8 DEF BlobNext, BridgeStep

LEMMA RestStaysTyped ==
  ASSUME TypeInv, BlobNext
  PROVE  RestTyped'
<1>0. /\ QueueInv /\ TypeOK /\ BridgeTyped /\ RestTyped /\ Ids \subseteq Ids'
      /\ \A row \in Row : <<row.note_id, Filename(row)>> \in NoteIds \X {c.filename : c \in Calls}
  BY TypeInvParts, TableAfter, RowNamesBlob DEF QueueInv
<1>1. faults' \in 0..MaxFaults
  <2>1. Fault \/ NoFault
    BY DEF BlobNext, UploadStep, GetNote, CheckKey, MakeDir, CopyFile, CopyFails, EnqueueFile,
           EnqueueFails, RemoveOwn, OnlyUpload, BridgeStep, LeaseBatch, CopyConflict, ApplyAddFile,
           ApplyFails, ApplyReportsFailure, SendAck, AckStep, AckRows, Collect, CleanUp, AnswerAck,
           AckLost, OnlyHub, LeaseAnswerLost, AckTimesOut, BridgeDies, HubDies, PushDeletes,
           PushConflicts, TimePasses
  <2> QED
    BY <1>0, <2>1, FaultsTyped DEF RestTyped
<1>2. CASE UNCHANGED <<noteVars, copied, answered, replaced>>
  BY <1>0, <1>1, <1>2 DEF noteVars, RestTyped
<1>3. ASSUME NEW h \in Handlers, UploadStep(h) PROVE RestTyped'
  <2>1. UNCHANGED <<noteVars, copied, answered>>
    BY <1>3 DEF UploadStep, GetNote, CheckKey, MakeDir, CopyFile, CopyFails, EnqueueFile, EnqueueFails,
                RemoveOwn, OnlyUpload
  <2>2. replaced' = replaced \/ Replace
    BY <1>3 DEF UploadStep, GetNote, CheckKey, MakeDir, CopyFile, CopyFails, EnqueueFile, EnqueueFails,
                RemoveOwn
  <2>3. replaced' \subseteq Blobs
    BY <1>0, <2>2, TableTypes DEF Replace, RestTyped
  <2> QED
    BY <1>0, <1>1, <2>1, <2>3 DEF noteVars, RestTyped
<1>4. ASSUME NEW i, CopyConflict(i) \/ ApplyAddFile(i) \/ ApplyFails(i) \/ ApplyReportsFailure(i)
      PROVE  RestTyped'
  <2>1. /\ \E outcome \in Outcomes : ItemDone(i, outcome)
        /\ copied' = copied \/ copied' = copied \cup {i}
        /\ bearFiles' = bearFiles \/ bearFiles' = bearFiles \cup {FileOf(i)}
    BY <1>4 DEF CopyConflict, ApplyAddFile, ApplyFails, ApplyReportsFailure, Outcomes, Attach
  <2>2. i \in Ids /\ i \in DOMAIN batch
    BY <2>1, ItemEffect
  <2>3. FileOf(i) \in NoteIds \X {c.filename : c \in Calls}
    BY <1>0, <2>2 DEF FileOf, BridgeTyped, BatchTyped
  <2>4. UNCHANGED <<deleted, conflicted, answered, replaced>>
    BY <2>1 DEF ItemDone
  <2> QED
    BY <1>0, <1>1, <2>1, <2>2, <2>3, <2>4 DEF RestTyped
<1>5. ASSUME NEW k \in AckCalls, AckStep(k) PROVE RestTyped'
  <2>1. UNCHANGED <<bearFiles, deleted, copied, replaced>>
    BY <1>5 DEF AckStep, AckRows, Collect, CleanUp, AnswerAck, OnlyHub
  <2>2. conflicted' \subseteq conflicted
    BY <1>5 DEF AckStep, AckRows, Collect, CleanUp, AnswerAck
  <2>3. answered' \subseteq answered \cup DOMAIN acks
    BY <1>5 DEF AckStep, AckRows, Collect, CleanUp, AnswerAck
  <2> QED
    BY <1>0, <1>1, <2>1, <2>2, <2>3 DEF RestTyped, BridgeTyped
<1>6. ASSUME NEW n \in NoteIds, PushDeletes(n) \/ PushConflicts(n) PROVE RestTyped'
  BY <1>0, <1>1, <1>6 DEF PushDeletes, PushConflicts, RestTyped
<1>7. ASSUME LeaseBatch \/ LeaseAnswerLost \/ AckTimesOut \/ BridgeDies \/ HubDies \/ TimePasses
      PROVE  UNCHANGED <<noteVars, copied, answered, replaced>>
  BY <1>7 DEF LeaseBatch, LeaseAnswerLost, AckTimesOut, BridgeDies, HubDies, TimePasses
<1>8. ASSUME NEW k \in AckCalls, SendAck(k) \/ AckLost(k)
      PROVE  UNCHANGED <<noteVars, copied, answered, replaced>>
  BY <1>8 DEF SendAck, AckLost
<1> QED
  BY <1>2, <1>3, <1>4, <1>5, <1>6, <1>7, <1>8 DEF BlobNext, BridgeStep

LEMMA NextTypeInv ==
  ASSUME TypeInv, BlobNext
  PROVE  TypeInv'
<1>1. QueueInv' /\ DiskTyped' /\ BridgeTyped' /\ RestTyped' /\ Listening'
  BY TableAfter, DiskStaysTyped, BridgeStaysTyped, RestStaysTyped, CallsStayTyped
<1>2. ackCalls' \in [AckCalls -> Call(AckMaps)] /\ AckMaps \subseteq AckMaps'
  BY TableAfter, CallsStayTyped
<1>3. Call(AckMaps) \subseteq Call(AckMaps')
  BY <1>2 DEF Call
<1>4. ackCalls' \in [AckCalls -> Call(AckMaps')]
  BY <1>2, <1>3
<1>5. (/\ QueueInv /\ DiskTyped /\ BridgeTyped /\ RestTyped
       /\ ackCalls \in [AckCalls -> Call(AckMaps)] /\ Listening)'
  BY <1>1, <1>4 DEF Call
<1> QED
  BY <1>5, TypeInvParts, PTL

LEMMA InitTypeInv ==
  ASSUME BlobInit
  PROVE  TypeInv
<1>1. QueueInv /\ Ids = {}
  BY InitQueueInv DEF BlobInit, Init, Ids
<1>2. NoItems \in [{} -> Outcomes] /\ DOMAIN NoItems = {}
  BY DEF NoItems
<1>3. NoItems \in AckMaps
  BY <1>2, AckMapsDef
<1>4. DiskTyped
  BY BlobAssumption DEF BlobInit, DiskTyped, HandlersTyped, Holding, Upload, NoUpload, UploadSteps, Blobs
<1>5. BridgeTyped /\ RestTyped
  BY <1>1, <1>2, <1>3, BlobAssumption DEF BlobInit, BridgeTyped, BatchTyped, RestTyped
<1>6. ackCalls \in [AckCalls -> Call(AckMaps)] /\ Listening
  BY <1>3 DEF BlobInit, NoAckCall, Call, CallSteps, Listening, OneListener
<1> QED
  BY <1>1, <1>4, <1>5, <1>6, TypeInvParts

LEMMA TypeInvariant == BlobSpec => []TypeInv
<1>1. TypeInv /\ UNCHANGED blobVars => TypeInv'
  BY DEF blobVars, vars, diskVars, bridgeVars, noteVars, TypeInv, QueueInv, TypeOK, LeaseDiscipline,
         PrimaryKeysUnique, AcceptedRowExists, Ids, BlobTypeOK, HandlersTyped, Holding, CallsTyped,
         AckMaps, BatchTyped, OneListener
<1> QED
  BY <1>1, InitTypeInv, NextTypeInv, PTL DEF BlobSpec

\* Disk, handlers, bridge and acknowledgements keep their types with any number
\* of them; the bridge listens to a call only while it waits.
THEOREM BlobTypesHold == BlobSpec => []BlobTypeOK
BY TypeInvariant, PTL DEF TypeInv

-----------------------------------------------------------------------------
(***************************************************************************)
(* What a step does to the rows.                                           *)
(***************************************************************************)
SameFile(old, new) == AttachmentID(new) = AttachmentID(old) /\ RowFile(new) = RowFile(old)

\* Every step but an accepted upload: the rows stay, with their files, and
\* none becomes active again.
Steady ==
  /\ Ids' = Ids
  /\ \A i \in Ids :
       /\ SameFile(write_queue[i], write_queue'[i])
       /\ Active(write_queue'[i]) => Active(write_queue[i])
       /\ write_queue[i].status = "applied" => write_queue'[i].status = "applied"

LEMMA SameWorkSameFile ==
  ASSUME NEW old, NEW new, Work(new) = Work(old)
  PROVE  SameFile(old, new)
BY DEF Work, SameFile, AttachmentID, RowFile, Filename

LEMMA StepsAreSteady ==
  ASSUME TypeInv, BlobNext
  PROVE  Steady \/ \E h \in Handlers : EnqueueFile(h)
<1>0. TypeOK /\ DOMAIN write_queue = Ids
  BY TableShape DEF TypeInv, QueueInv
<1>1. CASE UNCHANGED vars
  BY <1>1 DEF vars, Steady, SameFile, Ids
<1>2. CASE LeaseBatch \/ LeaseAnswerLost
  <2>1. LeaseQueueItems
    BY <1>2 DEF LeaseBatch, LeaseAnswerLost
  <2>2. Ids' = Ids
    BY <1>0, <2>1, IdsStay DEF Next, LeaseQueueItems
  <2> QED
    BY <1>0, <2>1, <2>2, LeaseKeepsRow, SameWorkSameFile DEF Steady, Active
<1>3. ASSUME NEW k \in AckCalls, AckRows(k) PROVE Steady
  <2>1. AckQueueItems(ackCalls[k].acks) /\ ackCalls[k].acks \in AckMaps
    BY <1>3, CallsFromInv DEF AckRows
  <2>2. \E S \in SUBSET Ids : ackCalls[k].acks \in [S -> Outcomes]
    BY <2>1, AckMapsDef
  <2>3. Next
    BY <2>1, <2>2 DEF Next
  <2>4. Ids' = Ids
    BY <1>0, <2>1, <2>3, IdsStay DEF AckQueueItems
  <2>5. \A i \in DOMAIN ackCalls[k].acks : ackCalls[k].acks[i] \in {"applied", "failed"}
    BY <2>1, AckMapsDef DEF Outcomes
  <2> QED
    BY <1>0, <2>1, <2>4, <2>5, AckKeepsRow, SameWorkSameFile DEF Steady, Active
<1>4. ASSUME NEW n \in NoteIds, PushDeletes(n) PROVE Steady
  <2>1. FailQueueItemsForDeletedNotes({n}) /\ n # NULL
    BY <1>4, BlobAssumption DEF PushDeletes, NoteIds, AddFile
  <2>2. Ids' = Ids
    BY <1>0, <2>1, IdsStay DEF Next, FailQueueItemsForDeletedNotes
  <2> QED
    BY <1>0, <2>1, <2>2, DeleteKeepsRow, SameWorkSameFile DEF Steady, Active
<1>5. CASE TimePasses
  <2>1. Tick
    BY <1>5 DEF TimePasses
  <2>2. Ids' = Ids
    BY <1>0, <2>1, IdsStay DEF Next, Tick
  <2> QED
    BY <1>0, <2>1, <2>2, TickKeepsRow, SameWorkSameFile DEF Steady, Active
<1> QED
  BY <1>1, <1>2, <1>3, <1>4, <1>5, StepCases

\* The row that was inserted, or reset after a failure, for an upload.
Given(i, b) ==
  /\ Ids' = Ids \cup {i}
  /\ i \in Ids => write_queue[i].status = "failed"
  /\ write_queue'[i].status = "pending" /\ AttachmentID(write_queue'[i]) = b
  /\ \A j \in Ids \ {i} : write_queue'[j] = write_queue[j]

LEMMA FileEnqueued ==
  ASSUME TypeInv, HeldUnnamed, NEW h \in Handlers, EnqueueFile(h)
  PROVE  \/ write_queue' = write_queue /\ Moved(h, "remove", uploads[h].call, uploads[h].blob)
         \/ \E i : Given(i, uploads[h].blob) /\ Moved(h, "idle", NULL, NULL)
<1> DEFINE r == AddFile(uploads[h].call, uploads[h].blob)
<1>0. /\ TypeOK /\ DOMAIN write_queue = Ids /\ Len(write_queue) \in Nat
      /\ uploads \in [Handlers -> Upload] /\ uploads[h].step = "enqueue"
  BY TableShape, DiskTypedFromInv DEF TypeInv, QueueInv, DiskTyped, EnqueueFile, At
<1>1. r \in Requests
  BY <1>0, AddFileRequest DEF TypeInv, HandlersTyped, Holding
<1>2. r.payload.body = uploads[h].blob /\ r.action = "add_file"
  BY DEF AddFile
<1>3. /\ RowNames(acceptedAs'[r], uploads[h].blob) => Moved(h, "idle", NULL, NULL)
      /\ ~RowNames(acceptedAs'[r], uploads[h].blob) => Moved(h, "remove", uploads[h].call, uploads[h].blob)
  BY <1>0, GotoMoves DEF EnqueueFile
<1>4. \A i \in Nat : Accept(r, i) => acceptedAs'[r] = i
  BY <1>0, <1>1 DEF Accept, TypeOK
<1>5. \A i \in Ids : AttachmentID(write_queue[i]) # uploads[h].blob
  BY <1>0 DEF HeldUnnamed, Holding
<1>6. CASE InsertRow(r)
  <2>1. /\ Len(write_queue') = Len(write_queue) + 1
        /\ \A i \in Ids : write_queue'[i] = write_queue[i]
        /\ write_queue'[Len(write_queue) + 1] = NewRow(r)
    BY <1>0, <1>1, <1>6, InsertAddsRow
  <2>2. Ids' = Ids \cup {Len(write_queue) + 1} /\ Len(write_queue) + 1 \notin Ids
    BY <1>0, <2>1 DEF Ids
  <2>3. AttachmentID(NewRow(r)) = uploads[h].blob /\ NewRow(r).status = "pending"
    BY <1>2 DEF NewRow, AttachmentID
  <2>4. Given(Len(write_queue) + 1, uploads[h].blob)
    BY <2>1, <2>2, <2>3 DEF Given
  <2>5. acceptedAs'[r] = Len(write_queue) + 1
    BY <1>0, <1>4, <1>6 DEF InsertRow
  <2> QED
    BY <1>3, <2>1, <2>3, <2>4, <2>5 DEF RowNames
<1>7. ASSUME NEW i \in Ids, IdempotencyHit(r, i), write_queue[i].status = "failed"
      PROVE  Given(i, uploads[h].blob) /\ Moved(h, "idle", NULL, NULL)
  <2>1. write_queue' = [write_queue EXCEPT ![i] = ResetRow(write_queue[i], r)]
    BY <1>7 DEF IdempotencyHit
  <2>2. write_queue[i] \in Row
    BY <1>0, TableTypes
  <2>3. ResetRow(write_queue[i], r).status = "pending" /\ ResetRow(write_queue[i], r).payload = r.payload
    BY <2>2 DEF ResetRow, Row
  <2>4. /\ write_queue'[i].status = "pending" /\ AttachmentID(write_queue'[i]) = uploads[h].blob
        /\ \A j \in Ids \ {i} : write_queue'[j] = write_queue[j]
        /\ DOMAIN write_queue' = Ids
    BY <1>0, <1>2, <2>1, <2>3 DEF AttachmentID
  <2>5. Ids' = Ids
    <3>1. Next
      BY <1>1, <1>7 DEF EnqueueWrite, Next
    <3> QED
      BY <1>0, <2>4, <3>1, IdsStay
  <2>6. acceptedAs'[r] = i
    BY <1>0, <1>4, <1>7 DEF IdempotencyHit, Ids
  <2> QED
    BY <1>3, <1>7, <2>4, <2>5, <2>6 DEF Given, RowNames
<1>8. ASSUME NEW i \in Ids, IdempotencyHit(r, i), write_queue[i].status # "failed"
      PROVE  write_queue' = write_queue /\ Moved(h, "remove", uploads[h].call, uploads[h].blob)
  <2>1. write_queue' = write_queue
    BY <1>8 DEF IdempotencyHit
  <2>2. acceptedAs'[r] = i
    BY <1>0, <1>4, <1>8 DEF IdempotencyHit, Ids
  <2> QED
    BY <1>3, <1>5, <1>8, <2>1, <2>2 DEF RowNames
<1>9. ASSUME NEW i \in Ids PROVE ~CoalesceUpdate(r, i)
  BY <1>2 DEF CoalesceUpdate, CoalesceCandidates
<1>10. EnqueueWrite(r)
  BY DEF EnqueueFile
<1> HIDE DEF r
<1> QED
  BY <1>6, <1>7, <1>8, <1>9, <1>10 DEF EnqueueWrite

-----------------------------------------------------------------------------
(***************************************************************************)
(* DiskInv is inductive.                                                   *)
(***************************************************************************)
LEMMA AppliedKept ==
  ASSUME TypeInv, BlobNext, NEW i \in Ids, write_queue[i].status = "applied"
  PROVE  i \in Ids' /\ write_queue'[i].status = "applied" /\ SameFile(write_queue[i], write_queue'[i])
<1>1. TypeOK /\ Ids \subseteq Ids'
  BY TableAfter DEF TypeInv, QueueInv
<1>2. CASE UNCHANGED vars
  BY <1>1, <1>2 DEF vars, SameFile
<1>3. CASE Next
  BY <1>1, <1>3, NextChangesEachRow, AppliedRowStays, SameWorkSameFile
<1> QED
  BY <1>1, <1>2, <1>3, StepsAreQueueSteps

\* The directories a call is about to remove: fewer, or those of the rows it
\* finds applied.
LEMMA ListsOnlyCollected ==
  ASSUME TypeInv, BlobNext, NEW k \in AckCalls
  PROVE  ackCalls'[k].ids \subseteq ackCalls[k].ids \cup CleanupIDs(ackCalls[k].acks)
<1>0. /\ ackCalls \in [AckCalls -> Call(AckMaps)]
      /\ acks \in AckMaps /\ NoItems \in AckMaps
      /\ \A l \in AckCalls : /\ ackCalls[l].acks \in AckMaps /\ ackCalls[l].ids \in SUBSET Blobs
                             /\ ackCalls[l].heard \in BOOLEAN
                             /\ CleanupIDs(ackCalls[l].acks) \in SUBSET Blobs
      /\ {"idle", "sent", "collect", "clean"} \subseteq CallSteps
  BY CallsFromInv, CleanupTyped DEF CallSteps
<1>1. ASSUME NEW l \in AckCalls, NEW s \in CallSteps, NEW as \in AckMaps, NEW ids \in SUBSET Blobs,
             NEW heard \in BOOLEAN, CallMoved(l, s, as, ids, heard),
             ids \subseteq ackCalls[l].ids \cup CleanupIDs(ackCalls[l].acks)
      PROVE  ackCalls'[k].ids \subseteq ackCalls[k].ids \cup CleanupIDs(ackCalls[k].acks)
  <2>0. ackCalls \in [AckCalls -> Call(AckMaps)]
    BY <1>0
  <2>1. ackCalls'[l].ids = ids /\ \A m \in AckCalls \ {l} : ackCalls'[m] = ackCalls[m]
    BY <1>1, <2>0 DEF CallMoved
  <2> QED
    BY <1>1, <2>1
<1>2. ASSUME NEW l \in AckCalls, SendAck(l) \/ AckLost(l) \/ AckStep(l)
      PROVE  ackCalls'[k].ids \subseteq ackCalls[k].ids \cup CleanupIDs(ackCalls[k].acks)
  <2>1. CASE SendAck(l)
    BY <1>0, <1>1, <2>1, CallMoves
  <2>2. CASE AckLost(l) \/ AnswerAck(l)
    BY <1>0, <1>1, <2>2, CallMoves
  <2>3. CASE AckRows(l)
    <3>1. CallMoved(l, "collect", ackCalls[l].acks, ackCalls[l].ids, ackCalls[l].heard)
      BY <2>3, CallMoves
    <3> QED
      BY <1>0, <1>1, <3>1
  <2>4. CASE Collect(l)
    <3>1. CallMoved(l, "clean", ackCalls[l].acks, CleanupIDs(ackCalls[l].acks), ackCalls[l].heard)
      BY <2>4, CallMoves
    <3> QED
      BY <1>0, <1>1, <3>1
  <2>5. CASE CleanUp(l)
    <3>1. PICK b \in ackCalls[l].ids :
            CallMoved(l, "clean", ackCalls[l].acks, ackCalls[l].ids \ {b}, ackCalls[l].heard)
      BY <2>5, CallMoves
    <3>2. ackCalls[l].ids \ {b} \in SUBSET Blobs
      BY <1>0
    <3> QED
      BY <1>0, <1>1, <3>1, <3>2
  <2> QED
    BY <1>2, <2>1, <2>2, <2>3, <2>4, <2>5 DEF AckStep
<1>3. ASSUME AckTimesOut \/ BridgeDies \/ HubDies
      PROVE  ackCalls'[k].ids \subseteq ackCalls[k].ids
  <2>1. ackCalls' = Unheard \/ ackCalls' = [l \in AckCalls |-> NoAckCall]
    BY <1>3 DEF AckTimesOut, BridgeDies, HubDies
  <2> QED
    BY <1>0, <2>1 DEF Unheard, NoAckCall, Call
<1>4. ASSUME NEW h \in Handlers, UploadStep(h) PROVE ackCalls' = ackCalls
  BY <1>4 DEF UploadStep, GetNote, CheckKey, MakeDir, CopyFile, CopyFails, EnqueueFile, EnqueueFails,
              RemoveOwn, OnlyUpload
<1>5. ASSUME NEW i, CopyConflict(i) \/ ApplyAddFile(i) \/ ApplyFails(i) \/ ApplyReportsFailure(i)
      PROVE  ackCalls' = ackCalls
  BY <1>5 DEF CopyConflict, ApplyAddFile, ApplyFails, ApplyReportsFailure, ItemDone
<1>6. ASSUME LeaseBatch \/ LeaseAnswerLost \/ TimePasses \/ \E n \in NoteIds : PushDeletes(n) \/ PushConflicts(n)
      PROVE  ackCalls' = ackCalls
  BY <1>6 DEF LeaseBatch, LeaseAnswerLost, TimePasses, PushDeletes, PushConflicts
<1> QED
  BY <1>2, <1>3, <1>4, <1>5, <1>6 DEF BlobNext, BridgeStep

LEMMA CleansKept ==
  ASSUME TypeInv, CleansApplied, BlobNext
  PROVE  CleansApplied'
<1> SUFFICES ASSUME NEW k \in AckCalls, NEW b \in ackCalls'[k].ids
             PROVE  \E i \in Ids' : write_queue'[i].status = "applied" /\ AttachmentID(write_queue'[i]) = b
  BY DEF CleansApplied
<1>1. \A i \in DOMAIN ackCalls[k].acks : i \in Ids
  BY CallsFromInv, AckMapsDef
<1>2. PICK i \in Ids : write_queue[i].status = "applied" /\ AttachmentID(write_queue[i]) = b
  BY <1>1, ListsOnlyCollected DEF CleansApplied, CleanupIDs
<1> QED
  BY <1>2, AppliedKept DEF SameFile

\* What is left of DiskInv when no handler gets a directory and none is
\* removed that a handler or an active row counts on.
DiskCore == HeldApart /\ HeldUnnamed /\ NamesApart /\ NamesUsed /\ WholeBeforeRow /\ WholeWhileActive

LEMMA NothingTaken ==
  ASSUME TypeInv, DiskCore, Steady, nextBlob' = nextBlob,
         \A h \in Handlers : /\ Holding(h)' => Holding(h) /\ uploads'[h].blob = uploads[h].blob
                             /\ At(h, "enqueue")' => At(h, "enqueue")
                                                     /\ blobs'[uploads[h].blob] = blobs[uploads[h].blob],
         \A i \in Ids : Active(write_queue[i]) =>
           blobs'[AttachmentID(write_queue[i])] = blobs[AttachmentID(write_queue[i])]
  PROVE  DiskCore'
<1>0. \A h \in Handlers : At(h, "enqueue")' => Holding(h)'
  BY DEF At, Holding
<1>1. HeldApart'
  BY DEF DiskCore, HeldApart
<1>2. HeldUnnamed'
  BY DEF DiskCore, HeldUnnamed, Steady, SameFile
<1>3. NamesApart' /\ NamesUsed'
  BY DEF DiskCore, NamesApart, NamesUsed, Steady, SameFile
<1>4. WholeBeforeRow'
  BY <1>0 DEF DiskCore, WholeBeforeRow
<1>5. WholeWhileActive'
  BY DEF DiskCore, WholeWhileActive, Steady, SameFile
<1> QED
  BY <1>1, <1>2, <1>3, <1>4, <1>5 DEF DiskCore

LEMMA UploadsKeepDisk ==
  ASSUME TypeInv, DiskCore, NEW h \in Handlers, Steady,
         Reads(h) \/ Makes(h) \/ Fills(h) \/ Drops(h)
  PROVE  DiskCore'
<1>0. /\ uploads \in [Handlers -> Upload] /\ HandlersTyped
      /\ blobs \in [Blobs -> {"none", "partial", "whole"}] /\ nextBlob \in 1..(MaxBlobs + 1)
      /\ {"idle", "check_key", "mkdir", "copy", "enqueue", "remove"} \subseteq UploadSteps
      /\ uploads[h].call \in Calls \cup {NULL} /\ uploads[h].blob \in Blobs \cup {NULL}
      /\ \A i \in Ids : AttachmentID(write_queue[i]) \in Blobs
      /\ \A b \in Blobs : b \in Int
  BY DiskTypedFromInv, TableTypes, BlobAssumption DEF DiskTyped, Upload, UploadSteps, TypeInv, QueueInv, Blobs
<1>1. CASE Reads(h)
  <2>1. /\ \/ uploads'[h].step \in {"idle", "check_key", "mkdir"}
           \/ /\ uploads'[h].step = "remove" /\ uploads[h].step = "enqueue"
              /\ uploads'[h].blob = uploads[h].blob
        /\ \A g \in Handlers \ {h} : uploads'[g] = uploads[g]
    BY <1>0, <1>1 DEF Reads, Moved
  <2>2. UNCHANGED <<blobs, nextBlob>>
    BY <1>1 DEF Reads
  <2> QED
    BY <2>1, <2>2, NothingTaken DEF Holding, At
<1>2. CASE Drops(h)
  <2>1. /\ uploads'[h].step = "idle" /\ Holding(h) /\ nextBlob' = nextBlob
        /\ \A g \in Handlers \ {h} : uploads'[g] = uploads[g]
    BY <1>0, <1>2, MovedTyped DEF Drops
  <2>2. \A b \in Blobs : b # uploads[h].blob => blobs'[b] = blobs[b]
    BY <1>0, <1>2 DEF Drops
  <2>3. \A g \in Handlers \ {h} : At(g, "enqueue") =>
          uploads[g].blob \in Blobs /\ uploads[g].blob # uploads[h].blob
    BY <1>0, <2>1 DEF DiskCore, HeldApart, Holding, At, HandlersTyped
  <2>4. \A i \in Ids : AttachmentID(write_queue[i]) # uploads[h].blob
    BY <2>1 DEF DiskCore, HeldUnnamed
  <2>5. \A i \in Ids : blobs'[AttachmentID(write_queue[i])] = blobs[AttachmentID(write_queue[i])]
    BY <1>0, <2>2, <2>4
  <2>6. \A g \in Handlers : /\ Holding(g)' => Holding(g) /\ uploads'[g].blob = uploads[g].blob
                            /\ At(g, "enqueue")' => At(g, "enqueue")
                                                    /\ blobs'[uploads[g].blob] = blobs[uploads[g].blob]
    BY <2>1, <2>2, <2>3 DEF Holding, At
  <2> QED
    BY <2>1, <2>5, <2>6, NothingTaken
<1>3. CASE Makes(h)
  <2>1. /\ uploads'[h].step = "copy" /\ uploads'[h].blob = nextBlob
        /\ \A g \in Handlers \ {h} : uploads'[g] = uploads[g]
    BY <1>0, <1>3 DEF Makes, Moved
  <2>2. /\ \A b \in Blobs : b < nextBlob => blobs'[b] = blobs[b] /\ b # nextBlob /\ b < nextBlob'
        /\ nextBlob \in Blobs /\ nextBlob < nextBlob'
    BY <1>0, <1>3 DEF Makes, Blobs
  <2>3. \A g \in Handlers \ {h} : Holding(g)' =>
          /\ Holding(g) /\ uploads'[g].blob = uploads[g].blob
          /\ uploads[g].blob \in Blobs /\ uploads[g].blob < nextBlob
    BY <1>0, <2>1 DEF HandlersTyped, Holding
  <2>4. \A i \in Ids : AttachmentID(write_queue[i]) < nextBlob
    BY DEF DiskCore, NamesUsed
  <2>5. HeldApart'
    BY <2>1, <2>2, <2>3 DEF DiskCore, HeldApart
  <2>6. HeldUnnamed'
    BY <1>0, <2>1, <2>2, <2>3, <2>4 DEF DiskCore, HeldUnnamed, Steady, SameFile
  <2>7. NamesApart' /\ NamesUsed'
    <3>1. \A i \in Ids : AttachmentID(write_queue[i]) < nextBlob'
      BY <1>0, <2>2, <2>4
    <3> QED
      BY <3>1 DEF DiskCore, NamesApart, NamesUsed, Steady, SameFile
  <2>8. WholeBeforeRow'
    BY <2>1, <2>2, <2>3 DEF DiskCore, WholeBeforeRow, At, Holding
  <2>9. WholeWhileActive'
    BY <1>0, <2>2, <2>4 DEF DiskCore, WholeWhileActive, Steady, SameFile
  <2> QED
    BY <2>5, <2>6, <2>7, <2>8, <2>9 DEF DiskCore
<1>4. CASE Fills(h)
  <2>1. /\ uploads'[h].step = "enqueue" /\ uploads[h].step = "copy" /\ uploads'[h].blob = uploads[h].blob
        /\ nextBlob' = nextBlob
        /\ \A g \in Handlers \ {h} : uploads'[g] = uploads[g]
    BY <1>0, <1>4 DEF Fills, Moved
  <2>2. \A g \in Handlers : Holding(g)' => Holding(g) /\ uploads'[g].blob = uploads[g].blob
    BY <2>1 DEF Holding
  <2>3. \A b \in Blobs : blobs'[b] = IF b = uploads[h].blob THEN "whole" ELSE blobs[b]
    BY <1>0, <1>4 DEF Fills
  <2>4. HeldApart' /\ HeldUnnamed' /\ NamesApart' /\ NamesUsed'
    BY <2>1, <2>2 DEF DiskCore, HeldApart, HeldUnnamed, NamesApart, NamesUsed, Steady, SameFile
  <2>5. WholeBeforeRow'
    <3>1. \A g \in Handlers : At(g, "enqueue")' =>
            /\ uploads'[g].blob \in Blobs
            /\ g = h \/ (At(g, "enqueue") /\ uploads'[g] = uploads[g])
      BY <1>0, <2>1, <2>2 DEF At, Holding, HandlersTyped
    <3> QED
      BY <2>1, <2>3, <3>1 DEF DiskCore, WholeBeforeRow
  <2>6. WholeWhileActive'
    BY <1>0, <2>3 DEF DiskCore, WholeWhileActive, Steady, SameFile
  <2> QED
    BY <2>4, <2>5, <2>6 DEF DiskCore
<1> QED
  BY <1>1, <1>2, <1>3, <1>4

LEMMA AsideKeepsDisk ==
  ASSUME TypeInv, DiskCore, CleansApplied, Steady, Aside
  PROVE  DiskCore'
<1>0. /\ blobs \in [Blobs -> {"none", "partial", "whole"}] /\ HandlersTyped
      /\ \A i \in Ids : AttachmentID(write_queue[i]) \in Blobs
      /\ nextBlob' = nextBlob
  BY DiskTypedFromInv, TableTypes DEF DiskTyped, TypeInv, QueueInv, Aside
<1>1. CASE uploads' = uploads /\ blobs' = blobs
  BY <1>0, <1>1, NothingTaken DEF Holding, At
<1>2. CASE uploads' = [h \in Handlers |-> NoUpload] /\ blobs' = blobs
  BY <1>0, <1>2, NothingTaken DEF Holding, At, NoUpload
<1>3. ASSUME NEW k \in AckCalls, CleanUp(k) PROVE DiskCore'
  <2>1. PICK b \in ackCalls[k].ids : blobs' = [blobs EXCEPT ![b] = "none"]
    BY <1>3 DEF CleanUp
  <2>2. PICK i \in Ids : write_queue[i].status = "applied" /\ AttachmentID(write_queue[i]) = b
    BY DEF CleansApplied
  <2>3. uploads' = uploads
    BY <1>3 DEF CleanUp, OnlyHub
  <2>4. \A c \in Blobs : c # b => blobs'[c] = blobs[c]
    BY <1>0, <2>1
  <2>5. \A h \in Handlers : Holding(h) => uploads[h].blob \in Blobs /\ uploads[h].blob # b
    BY <1>0, <2>2 DEF DiskCore, HeldUnnamed, HandlersTyped
  <2>6. \A j \in Ids : Active(write_queue[j]) => AttachmentID(write_queue[j]) # b
    BY <2>2 DEF DiskCore, NamesApart, Active
  <2>7. \A h \in Handlers : At(h, "enqueue") => blobs'[uploads[h].blob] = blobs[uploads[h].blob]
    BY <2>4, <2>5 DEF At, Holding
  <2>8. \A j \in Ids : Active(write_queue[j]) =>
          blobs'[AttachmentID(write_queue[j])] = blobs[AttachmentID(write_queue[j])]
    BY <1>0, <2>4, <2>6
  <2> QED
    BY <1>0, <2>3, <2>7, <2>8, NothingTaken DEF Holding, At
<1> QED
  BY <1>1, <1>2, <1>3 DEF Aside

LEMMA EnqueueKeepsDisk ==
  ASSUME TypeInv, DiskCore, NEW h \in Handlers, EnqueueFile(h)
  PROVE  DiskCore'
<1>0. /\ uploads \in [Handlers -> Upload] /\ HandlersTyped /\ uploads[h].step = "enqueue"
      /\ {"idle", "remove"} \subseteq UploadSteps
      /\ uploads[h].call \in Calls \cup {NULL} /\ uploads[h].blob \in Blobs \cup {NULL}
      /\ UNCHANGED <<blobs, nextBlob>>
  BY DiskTypedFromInv DEF DiskTyped, Upload, UploadSteps, EnqueueFile, At, diskVars
<1>1. HeldUnnamed
  BY DEF DiskCore
<1>2. CASE write_queue' = write_queue /\ Moved(h, "remove", uploads[h].call, uploads[h].blob)
  <2>1. /\ uploads'[h].step = "remove" /\ uploads'[h].blob = uploads[h].blob
        /\ \A g \in Handlers \ {h} : uploads'[g] = uploads[g]
    BY <1>0, <1>2 DEF Moved
  <2>2. Steady
    BY <1>2 DEF Steady, SameFile, Ids
  <2> QED
    BY <1>0, <2>1, <2>2, NothingTaken DEF Holding, At
<1>3. ASSUME NEW i, Given(i, uploads[h].blob), Moved(h, "idle", NULL, NULL)
      PROVE  DiskCore'
  <2>1. /\ uploads'[h].step = "idle"
        /\ \A g \in Handlers \ {h} : uploads'[g] = uploads[g]
    BY <1>0, <1>3, MovedTyped
  <2>2. \A g \in Handlers : Holding(g)' => g # h /\ Holding(g) /\ uploads'[g].blob = uploads[g].blob
    BY <2>1 DEF Holding
  <2>3. HeldApart'
    BY <2>2 DEF DiskCore, HeldApart
  <2>4. Holding(h) /\ uploads[h].blob < nextBlob /\ blobs[uploads[h].blob] = "whole"
    BY <1>0 DEF Holding, HandlersTyped, DiskCore, WholeBeforeRow, At
  <2>5. \A g \in Handlers : Holding(g)' => uploads[g].blob # uploads[h].blob
    BY <2>2, <2>4 DEF DiskCore, HeldApart
  <2>6. HeldUnnamed'
    BY <1>3, <2>2, <2>5 DEF DiskCore, HeldUnnamed, Given
  <2>7. NamesApart'
    BY <1>1, <1>3, <2>4 DEF DiskCore, NamesApart, HeldUnnamed, Given
  <2>8. NamesUsed'
    BY <1>0, <1>3, <2>4 DEF DiskCore, NamesUsed, Given
  <2>9. WholeBeforeRow'
    BY <1>0, <2>1 DEF DiskCore, WholeBeforeRow, At
  <2>10. WholeWhileActive'
    BY <1>0, <1>3, <2>4 DEF DiskCore, WholeWhileActive, Given
  <2> QED
    BY <2>3, <2>6, <2>7, <2>8, <2>9, <2>10 DEF DiskCore
<1> QED
  BY <1>1, <1>2, <1>3, FileEnqueued

LEMMA NextDiskInv ==
  ASSUME TypeInv, DiskInv, BlobNext
  PROVE  DiskInv'
<1>0. DiskCore /\ CleansApplied
  BY DEF DiskInv, DiskCore
<1>1. CleansApplied'
  BY <1>0, CleansKept
<1>2. ASSUME Aside PROVE DiskCore'
  BY <1>0, <1>2, StepsAreSteady, AsideKeepsDisk, EnqueueKeepsDisk
<1>3. ASSUME NEW h \in Handlers, UploadStep(h) PROVE DiskCore'
  <2>1. uploads \in [Handlers -> Upload]
    BY DiskTypedFromInv DEF DiskTyped
  <2> QED
    BY <1>0, <1>3, <2>1, StepsAreSteady, UploadEffect, UploadsKeepDisk, EnqueueKeepsDisk
<1>4. DiskCore'
  BY <1>2, <1>3, StepsOfHandlers
<1> QED
  BY <1>1, <1>4 DEF DiskInv, DiskCore

LEMMA DiskInvariant == BlobSpec => []DiskInv
<1>1. BlobInit => DiskInv
  BY DEF BlobInit, Init, Ids, NoUpload, NoAckCall, DiskInv, HeldApart, HeldUnnamed, NamesApart, NamesUsed,
         WholeBeforeRow, WholeWhileActive, CleansApplied, Holding, At
<1>2. DiskInv /\ UNCHANGED blobVars => DiskInv'
  BY DEF blobVars, vars, diskVars, Ids, DiskInv, HeldApart, HeldUnnamed, NamesApart, NamesUsed,
         WholeBeforeRow, WholeWhileActive, CleansApplied, Holding, At
<1> QED
  BY <1>1, <1>2, NextDiskInv, TypeInvariant, PTL DEF BlobSpec

-----------------------------------------------------------------------------
(***************************************************************************)
(* BridgeInv is inductive.                                                 *)
(***************************************************************************)
LEMMA CallFields ==
  ASSUME TypeInv, NEW k \in AckCalls, NEW s, NEW as, NEW ids, NEW heard,
         CallMoved(k, s, as, ids, heard)
  PROVE  /\ ackCalls'[k].step = s /\ ackCalls'[k].acks = as
         /\ ackCalls'[k].ids = ids /\ ackCalls'[k].heard = heard
         /\ \A l \in AckCalls \ {k} : ackCalls'[l] = ackCalls[l]
BY CallsFromInv DEF CallMoved

\* A directory that a row names and that is gone is not made again.
LEMMA GoneStaysGone ==
  ASSUME TypeInv, DiskInv, BlobNext, NEW i \in Ids, blobs[AttachmentID(write_queue[i])] = "none"
  PROVE  blobs'[AttachmentID(write_queue[i])] = "none"
<1>0. /\ blobs \in [Blobs -> {"none", "partial", "whole"}] /\ AttachmentID(write_queue[i]) \in Blobs
      /\ uploads \in [Handlers -> Upload] /\ AttachmentID(write_queue[i]) < nextBlob /\ nextBlob \in Int
      /\ \A b \in Blobs : b \in Int
  BY DiskTypedFromInv, TableTypes, BlobAssumption
     DEF DiskTyped, TypeInv, QueueInv, DiskInv, NamesUsed, Blobs
<1>1. ASSUME NEW h \in Handlers, UploadStep(h) PROVE blobs'[AttachmentID(write_queue[i])] = "none"
  <2>1. CASE Reads(h) \/ EnqueueFile(h)
    BY <2>1 DEF Reads, EnqueueFile, diskVars
  <2>2. CASE Makes(h)
    BY <1>0, <2>2 DEF Makes
  <2>3. CASE Fills(h)
    <3>1. AttachmentID(write_queue[i]) # uploads[h].blob
      BY <2>3 DEF Fills, DiskInv, HeldUnnamed, Holding
    <3> QED
      BY <1>0, <2>3, <3>1 DEF Fills
  <2>4. CASE Drops(h)
    BY <1>0, <2>4 DEF Drops
  <2> QED
    BY <1>0, <1>1, <2>1, <2>2, <2>3, <2>4, UploadEffect
<1>2. CASE Aside
  BY <1>0, <1>2 DEF Aside, CleanUp
<1> QED
  BY <1>1, <1>2, StepsOfHandlers

\* Steps that neither the bridge nor a call of syncAck takes part in.
LEMMA BridgeUndisturbed ==
  ASSUME TypeInv, DiskInv, BridgeInv, BlobNext,
         UNCHANGED <<bridgeVars, ackCalls, bearFiles, copied, answered>>,
         \A i \in Ids' : write_queue'[i].status = "applied" => i \in Ids /\ write_queue[i].status = "applied",
         phase # "idle" =>
           \A i \in Ids : write_queue[i].status = "processing" =>
             write_queue'[i].status = "processing" /\ Work(write_queue'[i]) = Work(write_queue[i]),
         \/ phase = "idle" /\ InFlight = {}
         \/ \A i \in Ids : write_queue'[i].status = "processing" =>
              write_queue[i].status = "processing" /\ SameFile(write_queue[i], write_queue'[i])
  PROVE  BridgeInv'
<1> USE DEF bridgeVars
<1>0. /\ Ids \subseteq Ids' /\ DOMAIN acks \subseteq DOMAIN batch /\ DOMAIN batch \subseteq Ids
      /\ answered \subseteq Ids
      /\ \A k \in AckCalls : DOMAIN ackCalls[k].acks \subseteq Ids /\ (ackCalls[k].heard => phase = "waiting")
  BY TableAfter, AckMapsDef, CallsFromInv DEF TypeInv, BlobTypeOK
<1>1. IdleHoldsNothing'
  BY DEF BridgeInv, IdleHoldsNothing
<1>2. SentIsCurrent' /\ InFlight' = InFlight
  BY DEF BridgeInv, SentIsCurrent, InFlight
<1>3. BatchHeld'
  BY <1>0 DEF BridgeInv, BatchHeld
<1>4. phase = "idle" => DOMAIN acks = {}
  BY <1>0 DEF BridgeInv, IdleHoldsNothing
<1>5. OutcomesStand'
  BY <1>0, <1>4, AppliedKept DEF BridgeInv, OutcomesStand
<1>6. AllBacked'
  <2>1. ASSUME NEW as, DOMAIN as \subseteq Ids, Backed(as),
               \A i \in Ids : write_queue'[i].status = "processing" =>
                 write_queue[i].status = "processing" /\ SameFile(write_queue[i], write_queue'[i])
        PROVE  Backed(as)'
    BY <2>1 DEF Backed, SameFile
  <2>2. CASE phase = "idle" /\ InFlight = {}
    BY <1>2, <1>4, <2>2 DEF AllBacked, Backed
  <2>3. CASE \A i \in Ids : write_queue'[i].status = "processing" =>
               write_queue[i].status = "processing" /\ SameFile(write_queue[i], write_queue'[i])
    <3>1. Backed(acks)'
      BY <1>0, <2>1, <2>3 DEF BridgeInv, AllBacked, Backed
    <3>2. ASSUME NEW k \in InFlight' PROVE Backed(ackCalls[k].acks)'
      <4>1. k \in AckCalls /\ k \in InFlight
        BY <1>2 DEF InFlight
      <4>2. Backed(ackCalls[k].acks) /\ DOMAIN ackCalls[k].acks \subseteq Ids
        BY <1>0, <4>1 DEF BridgeInv, AllBacked
      <4> QED
        BY <2>3, <4>2 DEF Backed, SameFile
    <3> QED
      BY <3>1, <3>2 DEF AllBacked
  <2> QED
    BY <2>2, <2>3
<1>7. ListenedSettled'
  <2> SUFFICES ASSUME NEW k \in AckCalls, ackCalls[k].heard, ackCalls[k].step \in {"collect", "clean"}
               PROVE  Settled(k)'
    BY DEF ListenedSettled
  <2>1. Settled(k) /\ phase = "waiting"
    BY <1>0 DEF BridgeInv, ListenedSettled
  <2>2. \A i \in DOMAIN acks : i \in Ids /\ write_queue'[i].status # "processing"
    BY <1>0, <2>1 DEF Settled
  <2>3. \A i \in DOMAIN acks : acks[i] = "applied" => write_queue[i].status = "applied"
    BY <2>1 DEF Settled, BridgeInv, OutcomesStand
  <2>4. \A i \in DOMAIN acks : acks[i] = "applied" => AttachmentID(write_queue'[i]) = AttachmentID(write_queue[i])
    BY <2>2, <2>3, AppliedKept DEF SameFile
  <2> QED
    BY <2>1, <2>2, <2>4, GoneStaysGone DEF Settled
<1>8. AppliedInBear'
  BY AppliedKept DEF BridgeInv, AppliedInBear, SameFile
<1>9. AnsweredGone'
  BY <1>0, AppliedKept, GoneStaysGone DEF BridgeInv, AnsweredGone, SameFile
<1> QED
  BY <1>1, <1>2, <1>3, <1>5, <1>6, <1>7, <1>8, <1>9 DEF BridgeInv

LEMMA OthersKeepBridge ==
  ASSUME TypeInv, DiskInv, BridgeInv, BlobNext,
         \/ \E h \in Handlers : UploadStep(h)
         \/ LeaseAnswerLost \/ TimePasses
         \/ \E n \in NoteIds : PushDeletes(n) \/ PushConflicts(n)
  PROVE  BridgeInv'
<1>0. TypeOK /\ DOMAIN write_queue = Ids
  BY TableShape DEF TypeInv, QueueInv
<1>1. CASE UNCHANGED vars /\ UNCHANGED <<bridgeVars, ackCalls, bearFiles, copied, answered>>
  BY <1>1, BridgeUndisturbed DEF vars, Ids, SameFile
<1>2. ASSUME NEW h \in Handlers, UploadStep(h) PROVE BridgeInv'
  <2>1. UNCHANGED <<bridgeVars, ackCalls, bearFiles, copied, answered>>
    BY <1>2 DEF UploadStep, GetNote, CheckKey, MakeDir, CopyFile, CopyFails, EnqueueFile, EnqueueFails,
                RemoveOwn, OnlyUpload, noteVars
  <2>2. CASE EnqueueFile(h)
    <3>1. HeldUnnamed
      BY DEF DiskInv
    <3>2. CASE write_queue' = write_queue
      BY <2>1, <3>2, BridgeUndisturbed DEF Ids, SameFile
    <3>3. ASSUME NEW i, Given(i, uploads[h].blob) PROVE BridgeInv'
      BY <2>1, <3>3, BridgeUndisturbed DEF Given, SameFile
    <3> QED
      BY <2>2, <3>1, <3>2, <3>3, FileEnqueued
  <2>3. CASE ~EnqueueFile(h)
    <3>1. UNCHANGED vars
      BY <1>2, <2>3 DEF UploadStep, GetNote, CheckKey, MakeDir, CopyFile, CopyFails, EnqueueFails, RemoveOwn
    <3> QED
      BY <1>1, <2>1, <3>1
  <2> QED
    BY <2>2, <2>3
<1>3. CASE LeaseAnswerLost
  <2>1. LeaseQueueItems /\ phase = "idle" /\ InFlight = {}
        /\ UNCHANGED <<bridgeVars, ackCalls, bearFiles, copied, answered>>
    BY <1>3 DEF LeaseAnswerLost, noteVars
  <2>2. Ids' = Ids
    BY <1>0, <2>1, IdsStay DEF Next, LeaseQueueItems
  <2>3. \A i \in Ids : write_queue'[i].status = "applied" => write_queue[i].status = "applied"
    BY <1>0, <2>1, LeaseKeepsRow DEF Active
  <2> QED
    BY <2>1, <2>2, <2>3, BridgeUndisturbed
<1>4. CASE TimePasses
  <2>1. Tick /\ UNCHANGED <<bridgeVars, ackCalls, bearFiles, copied, answered>>
    BY <1>4 DEF TimePasses, noteVars
  <2>2. Ids' = Ids
    BY <1>0, <2>1, IdsStay DEF Next, Tick
  <2> QED
    BY <1>0, <2>1, <2>2, TickKeepsRow, SameWorkSameFile, BridgeUndisturbed
<1>5. ASSUME NEW n \in NoteIds, PushDeletes(n) PROVE BridgeInv'
  <2>1. FailQueueItemsForDeletedNotes({n}) /\ n # NULL /\ phase = "idle"
        /\ UNCHANGED <<bridgeVars, ackCalls, bearFiles, copied, answered>>
    BY <1>5, BlobAssumption DEF PushDeletes, NoteIds, AddFile
  <2>2. Ids' = Ids
    BY <1>0, <2>1, IdsStay DEF Next, FailQueueItemsForDeletedNotes
  <2> QED
    BY <1>0, <2>1, <2>2, DeleteKeepsRow, SameWorkSameFile, BridgeUndisturbed
<1>6. ASSUME NEW n \in NoteIds, PushConflicts(n) PROVE BridgeInv'
  BY <1>1, <1>6 DEF PushConflicts
<1> QED
  BY <1>2, <1>3, <1>4, <1>5, <1>6

LEMMA LeaseKeepsBridge ==
  ASSUME TypeInv, DiskInv, BridgeInv, BlobNext, LeaseBatch
  PROVE  BridgeInv'
<1>0. TypeOK /\ DOMAIN write_queue = Ids
  BY TableShape DEF TypeInv, QueueInv
<1>1. /\ LeaseQueueItems /\ phase = "idle" /\ InFlight = {} /\ acks' = NoItems
      /\ batch' = [i \in LeasedNow |-> Item(i)]
      /\ phase' = IF LeasedNow = {} THEN "idle" ELSE "applying"
      /\ UNCHANGED <<ackCalls, bearFiles, copied, answered, blobs>>
  BY DEF LeaseBatch, noteVars, diskVars
<1>2. Ids' = Ids /\ LeasedNow \subseteq Ids
  BY <1>0, <1>1, IdsStay DEF Next, LeaseQueueItems, LeasedNow, Leasable
<1>3. \A i \in Ids : write_queue'[i].status = "applied" => write_queue[i].status = "applied"
  BY <1>0, <1>1, LeaseKeepsRow DEF Active
<1>4. InFlight' = {} /\ \A k \in AckCalls : ~ackCalls'[k].heard
  BY <1>1 DEF InFlight, TypeInv, BlobTypeOK
<1>5. DOMAIN acks' = {} /\ DOMAIN batch' = LeasedNow
  BY <1>1 DEF NoItems
<1>6. IdleHoldsNothing' /\ SentIsCurrent' /\ OutcomesStand' /\ AllBacked' /\ ListenedSettled'
  BY <1>1, <1>4, <1>5 DEF IdleHoldsNothing, SentIsCurrent, OutcomesStand, AllBacked, Backed, ListenedSettled
<1>7. BatchHeld'
  <2>1. \A i \in LeasedNow : batch'[i].row = write_queue[i]
    BY <1>1 DEF Item
  <2> QED
    BY <1>0, <1>1, <1>2, <1>5, <2>1, LeaseKeepsRow DEF BatchHeld
<1>8. AppliedInBear'
  BY <1>1, <1>2, <1>3, AppliedKept DEF BridgeInv, AppliedInBear, SameFile
<1>9. AnsweredGone'
  <2>1. answered \subseteq Ids
    BY DEF TypeInv, BlobTypeOK
  <2> QED
    BY <1>1, <2>1, AppliedKept, GoneStaysGone DEF BridgeInv, AnsweredGone, SameFile
<1> QED
  BY <1>6, <1>7, <1>8, <1>9 DEF BridgeInv

\* An item the bridge reports as applied: its file is in Bear or a conflict
\* copy took its place.
LEMMA ReportsAreTrue ==
  ASSUME TypeInv, DiskInv, BridgeInv, NEW i, CopyConflict(i) \/ ApplyAddFile(i)
  PROVE  i \in copied' \/ RowFile(write_queue[i]) \in bearFiles'
<1>1. CASE CopyConflict(i)
  BY <1>1 DEF CopyConflict
<1>2. CASE ApplyAddFile(i)
  <2>1. i \in DOMAIN batch /\ i \in Ids /\ phase = "applying"
    BY <1>2 DEF ApplyAddFile, ItemDone, Todo, TypeInv, BlobTypeOK
  <2>2. write_queue[i].status = "processing" /\ Work(write_queue[i]) = Work(batch[i].row)
    BY <2>1 DEF BridgeInv, BatchHeld
  <2>3. BlobOf(i) = AttachmentID(write_queue[i]) /\ FileOf(i) = RowFile(write_queue[i])
    BY <2>2 DEF Work, BlobOf, FileOf, AttachmentID, RowFile, Filename
  <2>4. blobs[BlobOf(i)] = "whole"
    BY <2>1, <2>2, <2>3 DEF DiskInv, WholeWhileActive, Active
  <2> QED
    BY <1>2, <2>3, <2>4 DEF ApplyAddFile, Attach
<1> QED
  BY <1>1, <1>2

LEMMA ItemsKeepBridge ==
  ASSUME TypeInv, DiskInv, BridgeInv, NEW i,
         CopyConflict(i) \/ ApplyAddFile(i) \/ ApplyFails(i) \/ ApplyReportsFailure(i)
  PROVE  BridgeInv'
<1>1. PICK outcome \in Outcomes : ItemDone(i, outcome)
  BY DEF CopyConflict, ApplyAddFile, ApplyFails, ApplyReportsFailure, Outcomes
<1>2. /\ i \in DOMAIN batch /\ i \in Ids /\ i \notin DOMAIN acks
      /\ phase = "applying" /\ phase' \in {"applying", "acking"}
      /\ DOMAIN acks' = DOMAIN acks \cup {i} /\ acks'[i] = outcome
      /\ \A j \in DOMAIN acks : acks'[j] = acks[j]
      /\ batch' = batch
  BY <1>1, ItemEffect
<1>3. /\ UNCHANGED <<write_queue, blobs, ackCalls, answered>> /\ Ids' = Ids
      /\ copied \subseteq copied' /\ bearFiles \subseteq bearFiles'
  BY <1>1 DEF CopyConflict, ApplyAddFile, ApplyFails, ApplyReportsFailure, Attach, ItemDone, vars, diskVars, Ids
<1>4. outcome = "applied" => i \in copied' \/ RowFile(write_queue[i]) \in bearFiles'
  <2>1. CASE CopyConflict(i) \/ ApplyAddFile(i)
    BY <2>1, ReportsAreTrue
  <2>2. CASE ApplyFails(i) \/ ApplyReportsFailure(i)
    <3>1. acks' = Put(acks, i, "failed")
      BY <2>2 DEF ApplyFails, ApplyReportsFailure, ItemDone
    <3>2. acks'[i] = "failed"
      BY <3>1 DEF Put
    <3> QED
      BY <1>2, <3>2
  <2> QED
    BY <2>1, <2>2
<1>5. InFlight = {} /\ InFlight' = {} /\ \A k \in AckCalls : ~ackCalls'[k].heard
  BY <1>2, <1>3 DEF BridgeInv, SentIsCurrent, InFlight, TypeInv, BlobTypeOK
<1>6. IdleHoldsNothing' /\ SentIsCurrent' /\ ListenedSettled'
  BY <1>2, <1>5 DEF IdleHoldsNothing, SentIsCurrent, ListenedSettled
<1>7. BatchHeld'
  BY <1>2, <1>3 DEF BridgeInv, BatchHeld
<1>8. OutcomesStand'
  BY <1>2, <1>3 DEF BridgeInv, BatchHeld, OutcomesStand
<1>9. AllBacked'
  BY <1>2, <1>3, <1>4, <1>5 DEF BridgeInv, AllBacked, Backed
<1>10. AppliedInBear' /\ AnsweredGone'
  BY <1>3 DEF BridgeInv, AppliedInBear, AnsweredGone
<1> QED
  BY <1>6, <1>7, <1>8, <1>9, <1>10 DEF BridgeInv

LEMMA SendKeepsBridge ==
  ASSUME TypeInv, BridgeInv, NEW k \in AckCalls, SendAck(k)
  PROVE  BridgeInv'
<1>1. /\ phase = "acking" /\ phase' = "waiting" /\ ackCalls[k].step = "idle"
      /\ UNCHANGED <<write_queue, blobs, batch, acks, bearFiles, copied, answered>> /\ Ids' = Ids
  BY DEF SendAck, vars, diskVars, noteVars, Ids
<1>2. /\ ackCalls'[k].step = "sent" /\ ackCalls'[k].acks = acks
      /\ \A l \in AckCalls \ {k} : ackCalls'[l] = ackCalls[l] /\ ~ackCalls[l].heard
  BY <1>1, CallMoves, CallFields DEF TypeInv, BlobTypeOK
<1>3. InFlight' = InFlight \cup {k}
  BY <1>2 DEF InFlight
<1>4. IdleHoldsNothing' /\ BatchHeld' /\ OutcomesStand' /\ AppliedInBear' /\ AnsweredGone'
  BY <1>1 DEF BridgeInv, IdleHoldsNothing, BatchHeld, OutcomesStand, AppliedInBear, AnsweredGone
<1>5. \A l \in InFlight' : ackCalls'[l].acks = acks
  BY <1>1, <1>2, <1>3 DEF BridgeInv, SentIsCurrent, InFlight
<1>6. SentIsCurrent'
  BY <1>1, <1>5 DEF SentIsCurrent
<1>7. AllBacked'
  <2>1. Backed(acks)'
    BY <1>1 DEF BridgeInv, AllBacked, Backed
  <2> QED
    BY <1>1, <1>5, <2>1 DEF AllBacked, Backed
<1>8. ListenedSettled'
  BY <1>2 DEF ListenedSettled
<1> QED
  BY <1>4, <1>6, <1>7, <1>8 DEF BridgeInv

LEMMA AckKeepsBridge ==
  ASSUME TypeInv, DiskInv, BridgeInv, BlobNext, NEW k \in AckCalls, AckRows(k)
  PROVE  BridgeInv'
<1> DEFINE as == ackCalls[k].acks
<1>0. TypeOK /\ DOMAIN write_queue = Ids
  BY TableShape DEF TypeInv, QueueInv
<1>1. /\ AckQueueItems(as) /\ k \in InFlight
      /\ UNCHANGED <<blobs, phase, batch, acks, bearFiles, copied, answered>>
  BY DEF AckRows, InFlight, OnlyHub, diskVars, bridgeVars
<1>2. /\ DOMAIN as \subseteq Ids /\ \A i \in DOMAIN as : as[i] \in {"applied", "failed"}
      /\ DOMAIN acks \subseteq Ids /\ \A l \in AckCalls : DOMAIN ackCalls[l].acks \subseteq Ids
  BY CallsFromInv, AckMapsDef DEF Outcomes
<1>3. Ids' = Ids
  <2>1. Steady \/ \E h \in Handlers : EnqueueFile(h)
    BY StepsAreSteady
  <2>2. \A h \in Handlers : ~EnqueueFile(h)
    <3>1. ackCalls'[k].step = "collect" /\ ackCalls[k].step = "sent"
      BY CallMoves, CallFields DEF AckRows
    <3> QED
      BY <3>1 DEF EnqueueFile, OnlyUpload
  <2> QED
    BY <2>1, <2>2 DEF Steady
<1>4. \A i \in Ids : /\ SameFile(write_queue[i], write_queue'[i])
                     /\ write_queue'[i].status = IF i \in DOMAIN as /\ write_queue[i].status = "processing"
                                                 THEN as[i] ELSE write_queue[i].status
  BY <1>0, <1>1, AckKeepsRow, SameWorkSameFile
<1>5. /\ ackCalls'[k].step = "collect" /\ ackCalls'[k].acks = as /\ ackCalls'[k].heard = ackCalls[k].heard
      /\ \A l \in AckCalls \ {k} : ackCalls'[l] = ackCalls[l]
  <2>1. CallMoved(k, "collect", as, ackCalls[k].ids, ackCalls[k].heard)
    BY CallMoves
  <2> QED
    BY <2>1, CallFields
<1>6. InFlight' = InFlight \ {k}
  BY <1>5 DEF InFlight
<1>7. phase # "applying" /\ (phase = "idle" => DOMAIN acks = {}) /\ (phase # "idle" => as = acks)
  BY <1>1 DEF BridgeInv, SentIsCurrent, IdleHoldsNothing, TypeInv, BlobTypeOK
<1> HIDE DEF as
<1>8. IdleHoldsNothing' /\ SentIsCurrent' /\ BatchHeld'
  BY <1>1, <1>5, <1>6, <1>7 DEF BridgeInv, IdleHoldsNothing, SentIsCurrent, BatchHeld, InFlight
<1>9. OutcomesStand'
  BY <1>1, <1>2, <1>4, <1>7 DEF BridgeInv, OutcomesStand
<1>10. AllBacked'
  <2>1. \A i \in Ids : write_queue'[i].status = "processing" =>
          write_queue[i].status = "processing" /\ RowFile(write_queue'[i]) = RowFile(write_queue[i])
    BY <1>2, <1>4 DEF SameFile
  <2>2. Backed(acks)'
    BY <1>1, <1>2, <2>1 DEF BridgeInv, AllBacked, Backed
  <2>3. ASSUME NEW l \in InFlight' PROVE Backed(ackCalls[l].acks)'
    <3>1. l \in InFlight /\ l \in AckCalls /\ ackCalls'[l] = ackCalls[l]
      BY <1>5, <1>6 DEF InFlight
    <3>2. Backed(ackCalls[l].acks)
      BY <3>1 DEF BridgeInv, AllBacked
    <3> QED
      BY <1>1, <1>2, <2>1, <3>1, <3>2 DEF Backed
  <2> QED
    BY <2>2, <2>3 DEF AllBacked
<1>11. ListenedSettled'
  <2> SUFFICES ASSUME NEW l \in AckCalls, ackCalls'[l].heard, ackCalls'[l].step \in {"collect", "clean"}
               PROVE  Settled(l)'
    BY DEF ListenedSettled
  <2>1. phase = "waiting" /\ as = acks
    BY <1>5, <1>7 DEF TypeInv, BlobTypeOK
  <2>2. \A i \in DOMAIN acks : i \in Ids /\ write_queue'[i].status # "processing"
                               /\ AttachmentID(write_queue'[i]) = AttachmentID(write_queue[i])
    BY <1>2, <1>4, <2>1 DEF SameFile
  <2>3. CASE l = k
    BY <1>1, <1>5, <2>1, <2>2, <2>3 DEF Settled
  <2>4. CASE l # k
    BY <1>1, <1>5, <2>2, <2>4 DEF BridgeInv, ListenedSettled, Settled
  <2> QED
    BY <2>3, <2>4
<1>12. AppliedInBear'
  <2>1. Backed(as)
    BY <1>1 DEF BridgeInv, AllBacked, as
  <2> QED
    BY <1>1, <1>2, <1>3, <1>4, <2>1 DEF BridgeInv, AppliedInBear, Backed, SameFile
<1>13. AnsweredGone'
  <2>1. answered \subseteq Ids
    BY DEF TypeInv, BlobTypeOK
  <2> QED
    BY <1>1, <1>4, <2>1 DEF BridgeInv, AnsweredGone, SameFile
<1> QED
  BY <1>8, <1>9, <1>10, <1>11, <1>12, <1>13 DEF BridgeInv

\* Steps after the transaction, and faults: no row changes, no call is sent.
LEMMA NothingSent ==
  ASSUME TypeInv, BridgeInv, UNCHANGED <<write_queue, bearFiles, copied>>,
         \A k \in InFlight' : k \in InFlight /\ ackCalls'[k].acks = ackCalls[k].acks,
         \/ UNCHANGED <<phase, batch, acks>>
         \/ phase = "waiting" /\ phase' = "acking" /\ UNCHANGED <<batch, acks>>
         \/ phase' = "idle" /\ DOMAIN batch' = {} /\ DOMAIN acks' = {}
  PROVE  /\ IdleHoldsNothing' /\ SentIsCurrent' /\ BatchHeld' /\ OutcomesStand'
         /\ AllBacked' /\ AppliedInBear'
<1>1. IdleHoldsNothing' /\ SentIsCurrent'
  BY DEF BridgeInv, IdleHoldsNothing, SentIsCurrent
<1>2. BatchHeld' /\ OutcomesStand'
  BY DEF BridgeInv, BatchHeld, OutcomesStand
<1>3. Backed(acks)'
  BY DEF BridgeInv, AllBacked, Backed
<1>4. ASSUME NEW k \in InFlight' PROVE Backed(ackCalls[k].acks)'
  <2>1. Backed(ackCalls[k].acks) /\ ackCalls'[k].acks = ackCalls[k].acks
    BY DEF BridgeInv, AllBacked
  <2> QED
    BY <2>1 DEF Backed
<1>5. AppliedInBear'
  BY DEF BridgeInv, AppliedInBear, Ids
<1> QED
  BY <1>1, <1>2, <1>3, <1>4, <1>5 DEF AllBacked

LEMMA CleaningKeepsBridge ==
  ASSUME TypeInv, DiskInv, BridgeInv, BlobNext, NEW k \in AckCalls, Collect(k) \/ CleanUp(k)
  PROVE  BridgeInv'
<1>1. /\ UNCHANGED <<write_queue, phase, batch, acks, bearFiles, copied, answered>> /\ Ids' = Ids
      /\ ackCalls[k].step \in {"collect", "clean"}
  BY DEF Collect, CleanUp, OnlyHub, vars, bridgeVars, Ids
<1>2. /\ ackCalls'[k].step = "clean" /\ ackCalls'[k].acks = ackCalls[k].acks
      /\ ackCalls'[k].heard = ackCalls[k].heard
      /\ \A l \in AckCalls \ {k} : ackCalls'[l] = ackCalls[l]
  <2>1. CASE Collect(k)
    <3>1. CallMoved(k, "clean", ackCalls[k].acks, CleanupIDs(ackCalls[k].acks), ackCalls[k].heard)
      BY <2>1, CallMoves
    <3> QED
      BY <3>1, CallFields
  <2>2. CASE CleanUp(k)
    <3>1. PICK b \in ackCalls[k].ids :
            CallMoved(k, "clean", ackCalls[k].acks, ackCalls[k].ids \ {b}, ackCalls[k].heard)
      BY <2>2, CallMoves
    <3> QED
      BY <3>1, CallFields
  <2> QED
    BY <2>1, <2>2
<1>3. \A l \in InFlight' : l \in InFlight /\ ackCalls'[l].acks = ackCalls[l].acks
  BY <1>2 DEF InFlight
<1>4. DOMAIN acks \subseteq Ids /\ answered \subseteq Ids
  BY DEF TypeInv, BlobTypeOK
<1>5. ListenedSettled'
  <2> SUFFICES ASSUME NEW l \in AckCalls, ackCalls'[l].heard, ackCalls'[l].step \in {"collect", "clean"}
               PROVE  Settled(l)'
    BY DEF ListenedSettled
  <2>1. Settled(l)
    BY <1>1, <1>2 DEF BridgeInv, ListenedSettled
  <2>2. CASE l # k
    BY <1>1, <1>2, <1>4, <2>1, <2>2, GoneStaysGone DEF Settled
  <2>3. CASE l = k /\ Collect(k)
    <3>1. ackCalls'[k].ids = CleanupIDs(acks)
      <4>1. CallMoved(k, "clean", ackCalls[k].acks, CleanupIDs(ackCalls[k].acks), ackCalls[k].heard)
        BY <2>3, CallMoves
      <4> QED
        BY <2>1, <2>3, <4>1, CallFields DEF Settled
    <3>2. \A i \in DOMAIN acks : acks[i] = "applied" => write_queue[i].status = "applied"
      BY <2>1 DEF BridgeInv, OutcomesStand, Settled
    <3>3. \A i \in DOMAIN acks : acks[i] = "applied" => AttachmentID(write_queue[i]) \in ackCalls'[k].ids
      BY <3>1, <3>2 DEF CleanupIDs
    <3> QED
      BY <1>1, <1>2, <2>1, <2>3, <3>3 DEF Settled
  <2>4. CASE l = k /\ CleanUp(k)
    <3>1. PICK b \in ackCalls[k].ids :
            /\ CallMoved(k, "clean", ackCalls[k].acks, ackCalls[k].ids \ {b}, ackCalls[k].heard)
            /\ blobs' = [blobs EXCEPT ![b] = "none"]
      BY <2>4, CallMoves
    <3>2. ackCalls'[k].ids = ackCalls[k].ids \ {b}
      BY <3>1, CallFields
    <3>3. blobs'[b] = "none"
      BY <3>1 DEF TypeInv, BlobTypeOK
    <3>4. ackCalls[k].step = "clean"
      BY <2>4 DEF CleanUp
    <3>5. \A i \in DOMAIN acks : acks[i] = "applied" =>
            AttachmentID(write_queue[i]) \in ackCalls'[k].ids \/ blobs'[AttachmentID(write_queue[i])] = "none"
      BY <1>4, <2>1, <2>4, <3>2, <3>3, <3>4, GoneStaysGone DEF Settled
    <3> QED
      BY <1>1, <1>2, <2>1, <2>4, <3>5 DEF Settled
  <2> QED
    BY <2>2, <2>3, <2>4
<1>6. AnsweredGone'
  BY <1>1, <1>4, GoneStaysGone DEF BridgeInv, AnsweredGone
<1> QED
  BY <1>1, <1>3, <1>5, <1>6, NothingSent DEF BridgeInv

LEMMA AnswerKeepsBridge ==
  ASSUME TypeInv, BridgeInv, NEW k \in AckCalls, AnswerAck(k) \/ AckLost(k)
  PROVE  BridgeInv'
<1>1. /\ UNCHANGED <<write_queue, blobs, bearFiles, copied>> /\ Ids' = Ids
  BY DEF AnswerAck, AckLost, OnlyHub, vars, diskVars, noteVars, Ids
<1>2. /\ ackCalls'[k].step = "idle" /\ ackCalls'[k].heard = FALSE
      /\ \A l \in AckCalls \ {k} : ackCalls'[l] = ackCalls[l]
  <2>1. CallMoved(k, "idle", NoItems, {}, FALSE)
    BY CallMoves
  <2> QED
    BY <2>1, CallFields
<1>3. \A l \in InFlight' : l \in InFlight /\ ackCalls'[l].acks = ackCalls[l].acks
  BY <1>2 DEF InFlight
<1>4. CASE AnswerAck(k) /\ ackCalls[k].heard
  <2>1. /\ phase' = "idle" /\ batch' = NoItems /\ acks' = NoItems
        /\ answered' = answered \cup {i \in DOMAIN acks : acks[i] = "applied"}
        /\ ackCalls[k].step = "clean" /\ ackCalls[k].ids = {}
    BY <1>4 DEF AnswerAck
  <2>2. DOMAIN batch' = {} /\ DOMAIN acks' = {}
    BY <2>1 DEF NoItems
  <2>3. Settled(k)
    BY <1>4, <2>1 DEF BridgeInv, ListenedSettled
  <2>4. \A i \in DOMAIN acks : acks[i] = "applied" =>
          write_queue[i].status = "applied" /\ blobs[AttachmentID(write_queue[i])] = "none"
    BY <2>1, <2>3 DEF BridgeInv, OutcomesStand, Settled
  <2>5. AnsweredGone'
    BY <1>1, <2>1, <2>4 DEF BridgeInv, AnsweredGone
  <2>6. ListenedSettled'
    BY <1>2, <1>4 DEF ListenedSettled, TypeInv, OneListener
  <2> QED
    BY <1>1, <1>3, <2>1, <2>2, <2>5, <2>6, NothingSent DEF BridgeInv
<1>5. CASE UNCHANGED <<phase, batch, acks, answered>>
  <2>1. AnsweredGone'
    BY <1>1, <1>5 DEF BridgeInv, AnsweredGone
  <2>2. ListenedSettled'
    BY <1>1, <1>2, <1>5 DEF BridgeInv, ListenedSettled, Settled
  <2> QED
    BY <1>1, <1>3, <1>5, <2>1, <2>2, NothingSent DEF BridgeInv
<1> QED
  BY <1>4, <1>5 DEF AnswerAck, AckLost, bridgeVars

LEMMA FaultsKeepBridge ==
  ASSUME TypeInv, BridgeInv, AckTimesOut \/ BridgeDies \/ HubDies
  PROVE  BridgeInv'
<1>1. UNCHANGED <<write_queue, blobs, bearFiles, copied, answered>>
  BY DEF AckTimesOut, BridgeDies, HubDies, vars, diskVars, noteVars
<1>2. \A k \in AckCalls : /\ ~ackCalls'[k].heard
                          /\ ackCalls'[k].step = "sent" =>
                               ackCalls[k].step = "sent" /\ ackCalls'[k].acks = ackCalls[k].acks
  <2>1. CASE ackCalls' = Unheard
    BY <2>1, CallsFromInv DEF Unheard, Call
  <2>2. CASE ackCalls' = [k \in AckCalls |-> NoAckCall]
    BY <2>2 DEF NoAckCall
  <2> QED
    BY <2>1, <2>2 DEF AckTimesOut, BridgeDies, HubDies
<1>3. \A l \in InFlight' : l \in InFlight /\ ackCalls'[l].acks = ackCalls[l].acks
  BY <1>2 DEF InFlight
<1>4. \/ UNCHANGED <<phase, batch, acks>>
      \/ phase = "waiting" /\ phase' = "acking" /\ UNCHANGED <<batch, acks>>
      \/ phase' = "idle" /\ DOMAIN batch' = {} /\ DOMAIN acks' = {}
  BY DEF AckTimesOut, BridgeDies, HubDies, NoItems
<1>5. AnsweredGone' /\ ListenedSettled'
  BY <1>1, <1>2 DEF BridgeInv, AnsweredGone, ListenedSettled
<1> QED
  BY <1>1, <1>3, <1>4, <1>5, NothingSent DEF BridgeInv

LEMMA BridgeInvariant == BlobSpec => []BridgeInv
<1>1. BlobInit => BridgeInv
  <2> SUFFICES ASSUME BlobInit PROVE BridgeInv
    OBVIOUS
  <2>1. Ids = {} /\ DOMAIN batch = {} /\ DOMAIN acks = {} /\ InFlight = {} /\ answered = {}
        /\ phase = "idle" /\ \A k \in AckCalls : ~ackCalls[k].heard
    BY DEF BlobInit, Init, Ids, NoItems, InFlight, NoAckCall
  <2> QED
    BY <2>1 DEF BridgeInv, IdleHoldsNothing, SentIsCurrent, BatchHeld, OutcomesStand, AllBacked, Backed,
                ListenedSettled, AppliedInBear, AnsweredGone
<1>2. BridgeInv /\ UNCHANGED blobVars => BridgeInv'
  BY DEF blobVars, vars, diskVars, bridgeVars, noteVars, BridgeInv, IdleHoldsNothing, SentIsCurrent,
         BatchHeld, OutcomesStand, AllBacked, Backed, ListenedSettled, Settled, AppliedInBear,
         AnsweredGone, InFlight, Ids
<1>3. TypeInv /\ DiskInv /\ BridgeInv /\ BlobNext => BridgeInv'
  <2> SUFFICES ASSUME TypeInv, DiskInv, BridgeInv, BlobNext PROVE BridgeInv'
    OBVIOUS
  <2> QED
    BY OthersKeepBridge, LeaseKeepsBridge, ItemsKeepBridge, SendKeepsBridge, AckKeepsBridge,
       CleaningKeepsBridge, AnswerKeepsBridge, FaultsKeepBridge
       DEF BlobNext, BridgeStep, AckStep
<1> QED
  BY <1>1, <1>2, <1>3, TypeInvariant, DiskInvariant, PTL DEF BlobSpec

\* The file of an accepted upload is on the disk, and complete, while its row
\* may be delivered, and in Bear once the row is applied, whatever uploads race,
\* whichever acknowledgements are lost, late or repeated, and whoever dies:
\* addFile removes only what it made, syncAck only what applied rows name.
THEOREM AcceptedFileKeptHolds == BlobSpec => []AcceptedFileKept
<1>1. DiskInv /\ BridgeInv => AcceptedFileKept
  BY DEF DiskInv, BridgeInv, WholeWhileActive, AppliedInBear, RowFile, AcceptedFileKept
<1> QED
  BY <1>1, DiskInvariant, BridgeInvariant, PTL

\* An acknowledgement the bridge has an answer to has removed the files of its
\* applied rows, also if an earlier attempt did the transaction and died.
THEOREM AnsweredMeansCleanHolds == BlobSpec => []AnsweredMeansClean
<1>1. BridgeInv => AnsweredMeansClean
  BY DEF BridgeInv, AnsweredGone, AnsweredMeansClean
<1> QED
  BY <1>1, BridgeInvariant, PTL

-----------------------------------------------------------------------------
(***************************************************************************)
(* CareInv is inductive.                                                   *)
(***************************************************************************)
LEMMA UploadsCare ==
  ASSUME TypeInv, NoneForgotten, NEW h \in Handlers,
         Reads(h) \/ Makes(h) \/ Fills(h) \/ Drops(h),
         UNCHANGED <<write_queue, ackCalls, replaced>>
  PROVE  NoneForgotten'
<1>0. /\ uploads \in [Handlers -> Upload] /\ blobs \in [Blobs -> {"none", "partial", "whole"}]
  BY DiskTypedFromInv DEF DiskTyped
<1>1. \A g \in Handlers \ {h} : uploads'[g] = uploads[g]
  BY <1>0 DEF Reads, Makes, Fills, Drops, Moved
<1>2. ASSUME NEW b PROVE (Wanted(b) => Wanted(b)') /\ \A k \in AckCalls : Doomed(b, k) => Doomed(b, k)'
  BY DEF Wanted, Doomed, CleanupIDs, Ids
<1>3. CASE Reads(h)
  <2>1. blobs' = blobs /\ (Holding(h) => Holding(h)' /\ uploads'[h].blob = uploads[h].blob)
    BY <1>0, <1>3 DEF Reads, Moved, Holding
  <2>2. \A b : Held(b) => Held(b)'
    BY <1>1, <2>1 DEF Held, Holding
  <2> QED
    BY <1>2, <2>1, <2>2 DEF NoneForgotten, Cared
<1>4. CASE Makes(h)
  <2>1. /\ ~Holding(h) /\ Holding(h)' /\ uploads'[h].blob = nextBlob
        /\ \A b \in Blobs : b # nextBlob => blobs'[b] = blobs[b]
    BY <1>0, <1>4 DEF Makes, Moved, Holding
  <2>2. \A b : b = nextBlob \/ Held(b) => Held(b)'
    BY <1>1, <2>1 DEF Held, Holding
  <2> QED
    BY <1>2, <2>1, <2>2 DEF NoneForgotten, Cared
<1>5. CASE Fills(h)
  <2>1. /\ Holding(h) /\ Holding(h)' /\ uploads'[h].blob = uploads[h].blob
        /\ \A b \in Blobs : b # uploads[h].blob => blobs'[b] = blobs[b]
    BY <1>0, <1>5 DEF Fills, Moved, Holding
  <2>2. \A b : b = uploads[h].blob \/ Held(b) => Held(b)'
    BY <1>1, <2>1 DEF Held, Holding
  <2> QED
    BY <1>2, <2>1, <2>2 DEF NoneForgotten, Cared
<1>6. CASE Drops(h)
  <2>1. /\ \A b \in Blobs : b # uploads[h].blob => blobs'[b] = blobs[b]
        /\ \A b \in Blobs : b = uploads[h].blob => blobs'[b] = "none"
    BY <1>0, <1>6 DEF Drops
  <2>2. \A b : b # uploads[h].blob /\ Held(b) => Held(b)'
    BY <1>1 DEF Held, Holding
  <2> QED
    BY <1>2, <2>1, <2>2 DEF NoneForgotten, Cared
<1> QED
  BY <1>3, <1>4, <1>5, <1>6

LEMMA EnqueueCares ==
  ASSUME TypeInv, DiskInv, NoneForgotten, BlobNext, NEW h \in Handlers, EnqueueFile(h)
  PROVE  NoneForgotten'
<1>0. /\ uploads \in [Handlers -> Upload] /\ uploads[h].step = "enqueue"
      /\ HeldUnnamed /\ UNCHANGED <<blobs, ackCalls>> /\ replaced \subseteq replaced'
      /\ \A k \in AckCalls : DOMAIN ackCalls[k].acks \subseteq Ids
  BY DiskTypedFromInv, CallsFromInv, AckMapsDef
     DEF DiskTyped, DiskInv, EnqueueFile, At, diskVars, OnlyUpload, Replace
<1>1. ASSUME NEW b, NEW k \in AckCalls, Doomed(b, k) PROVE Doomed(b, k)'
  <2>1. CleanupIDs(ackCalls[k].acks) \subseteq CleanupIDs(ackCalls[k].acks)'
    BY <1>0, AppliedKept DEF CleanupIDs, SameFile
  <2> QED
    BY <1>0, <1>1, <2>1 DEF Doomed
<1>2. CASE write_queue' = write_queue /\ Moved(h, "remove", uploads[h].call, uploads[h].blob)
  <2>1. /\ uploads'[h].step = "remove" /\ uploads'[h].blob = uploads[h].blob
        /\ \A g \in Handlers \ {h} : uploads'[g] = uploads[g]
    BY <1>0, <1>2 DEF Moved
  <2>2. \A b : Held(b) => Held(b)'
    BY <2>1 DEF Held, Holding
  <2>3. \A b : Wanted(b) => Wanted(b)'
    BY <1>2 DEF Wanted, Ids
  <2> QED
    BY <1>0, <1>1, <2>2, <2>3 DEF NoneForgotten, Cared
<1>3. ASSUME NEW i, Given(i, uploads[h].blob), Moved(h, "idle", NULL, NULL)
      PROVE  NoneForgotten'
  <2>1. \A g \in Handlers \ {h} : uploads'[g] = uploads[g]
    BY <1>0, <1>3 DEF Moved
  <2>2. ASSUME NEW b, b = uploads[h].blob PROVE Wanted(b)'
    BY <1>3, <2>2 DEF Wanted, Given
  <2>3. \A b : Held(b) => b = uploads[h].blob \/ Held(b)'
    BY <2>1 DEF Held, Holding
  <2>4. ASSUME NEW b, Wanted(b) PROVE Wanted(b)' \/ b \in replaced'
    <3>1. PICK j \in Ids : write_queue[j].status # "applied" /\ AttachmentID(write_queue[j]) = b
      BY <2>4 DEF Wanted
    <3>2. CASE j # i
      BY <1>3, <3>1, <3>2 DEF Wanted, Given
    <3>3. CASE j = i
      <4>1. AttachmentID(write_queue'[j]) # AttachmentID(write_queue[j])
        BY <1>0, <1>3, <3>3 DEF Given, HeldUnnamed, Holding
      <4> QED
        BY <3>1, <4>1 DEF EnqueueFile, Replace
    <3> QED
      BY <3>2, <3>3
  <2> QED
    BY <1>0, <1>1, <2>2, <2>3, <2>4 DEF NoneForgotten, Cared
<1> QED
  BY <1>0, <1>2, <1>3, FileEnqueued

\* The handlers are left alone and the rows keep their files.
LEMMA AsideCares ==
  ASSUME TypeInv, NoneForgotten, Steady, UNCHANGED <<uploads, replaced>>,
         \A b \in Blobs : blobs'[b] # "none" => blobs[b] # "none",
         \A b \in Blobs : \A k \in AckCalls : blobs'[b] # "none" /\ Doomed(b, k) => Doomed(b, k)',
         \A i \in Ids : write_queue'[i].status = "applied" =>
           \/ write_queue[i].status = "applied"
           \/ \E k \in AckCalls : Doomed(AttachmentID(write_queue[i]), k)'
  PROVE  NoneForgotten'
<1>1. \A b : Held(b) => Held(b)'
  BY DEF Held, Holding
<1>2. ASSUME NEW b, Wanted(b) PROVE Wanted(b)' \/ \E k \in AckCalls : Doomed(b, k)'
  <2>1. PICK i \in Ids : write_queue[i].status # "applied" /\ AttachmentID(write_queue[i]) = b
    BY <1>2 DEF Wanted
  <2> QED
    BY <2>1 DEF Wanted, Steady, SameFile
<1> QED
  BY <1>1, <1>2 DEF NoneForgotten, Cared

LEMMA StepsCare ==
  ASSUME TypeInv, DiskInv, NoneForgotten, BlobNext, faults' = 0,
         \A k \in AckCalls : ackCalls[k].step # "idle" => ackCalls[k].heard
  PROVE  NoneForgotten'
<1>0. /\ TypeOK /\ blobs \in [Blobs -> {"none", "partial", "whole"}] /\ uploads \in [Handlers -> Upload]
      /\ faults \in Nat /\ \A k \in AckCalls : DOMAIN ackCalls[k].acks \subseteq Ids
  BY DiskTypedFromInv, CallsFromInv, AckMapsDef, BlobAssumption DEF DiskTyped, TypeInv, QueueInv, BlobTypeOK
<1>1. ~Fault
  BY <1>0 DEF Fault
<1>2. ASSUME NEW h \in Handlers, UploadStep(h) PROVE NoneForgotten'
  <2>1. CASE EnqueueFile(h)
    BY <2>1, EnqueueCares
  <2>2. CASE ~EnqueueFile(h)
    <3>1. UNCHANGED <<write_queue, ackCalls, replaced>>
      BY <1>2, <2>2 DEF UploadStep, GetNote, CheckKey, MakeDir, CopyFile, CopyFails, EnqueueFails, RemoveOwn,
                        OnlyUpload, vars
    <3> QED
      BY <1>0, <1>2, <2>2, <3>1, UploadEffect, UploadsCare
  <2> QED
    BY <2>1, <2>2
<1>3. ASSUME NEW b, NEW k \in AckCalls, ackCalls'[k] = ackCalls[k], Doomed(b, k) PROVE Doomed(b, k)'
  <2>1. CleanupIDs(ackCalls[k].acks) \subseteq CleanupIDs(ackCalls[k].acks)'
    BY <1>0, <1>3, AppliedKept DEF CleanupIDs, SameFile
  <2> QED
    BY <1>3, <2>1 DEF Doomed
<1>4. ASSUME UNCHANGED <<blobs, uploads, replaced>>, Steady,
             \A k \in AckCalls : ackCalls'[k] = ackCalls[k] \/ ackCalls[k].step \in {"idle", "sent"}
                                 \/ (ackCalls[k].step = "clean" /\ ackCalls[k].ids = {}),
             \A i \in Ids : write_queue'[i].status = "applied" => write_queue[i].status = "applied"
      PROVE  NoneForgotten'
  <2>1. \A b \in Blobs : \A k \in AckCalls : Doomed(b, k) => Doomed(b, k)'
    BY <1>3, <1>4 DEF Doomed
  <2> QED
    BY <1>4, <2>1, AsideCares
<1>5. CASE LeaseBatch
  <2>1. LeaseQueueItems /\ UNCHANGED <<blobs, uploads, replaced, ackCalls>>
    BY <1>5 DEF LeaseBatch, diskVars
  <2>2. Ids' = Ids
    BY <1>0, <2>1, TableShape, IdsStay DEF Next, LeaseQueueItems
  <2>3. \A i \in Ids : write_queue'[i].status = "applied" => write_queue[i].status = "applied"
    BY <1>0, <2>1, LeaseKeepsRow DEF Active
  <2>4. Steady
    BY <1>0, <2>1, <2>2, LeaseKeepsRow, SameWorkSameFile DEF Steady, Active
  <2> QED
    BY <1>4, <2>1, <2>3, <2>4
<1>6. CASE TimePasses
  <2>1. Tick /\ UNCHANGED <<blobs, uploads, replaced, ackCalls>>
    BY <1>6 DEF TimePasses, diskVars
  <2>2. Ids' = Ids
    BY <1>0, <2>1, TableShape, IdsStay DEF Next, Tick
  <2>3. Steady
    BY <1>0, <2>1, <2>2, TickKeepsRow, SameWorkSameFile DEF Steady, Active
  <2> QED
    BY <1>0, <1>4, <2>1, <2>3, TickKeepsRow
<1>7. ASSUME NEW n \in NoteIds, PushDeletes(n) PROVE NoneForgotten'
  <2>1. FailQueueItemsForDeletedNotes({n}) /\ n # NULL /\ UNCHANGED <<blobs, uploads, replaced, ackCalls>>
    BY <1>7, BlobAssumption DEF PushDeletes, NoteIds, AddFile, diskVars
  <2>2. Ids' = Ids
    BY <1>0, <2>1, TableShape, IdsStay DEF Next, FailQueueItemsForDeletedNotes
  <2>3. Steady
    BY <1>0, <2>1, <2>2, DeleteKeepsRow, SameWorkSameFile DEF Steady, Active
  <2> QED
    BY <1>0, <1>4, <2>1, <2>3, DeleteKeepsRow
<1>8. ASSUME UNCHANGED vars, UNCHANGED <<blobs, uploads, replaced>>,
             \A k \in AckCalls : ackCalls'[k] = ackCalls[k] \/ ackCalls[k].step \in {"idle", "sent"}
                                 \/ (ackCalls[k].step = "clean" /\ ackCalls[k].ids = {})
      PROVE  NoneForgotten'
  <2>1. Steady
    BY <1>8 DEF vars, Steady, SameFile, Ids
  <2> QED
    BY <1>4, <1>8, <2>1 DEF vars
<1>9. ASSUME NEW i, CopyConflict(i) \/ ApplyAddFile(i) \/ ApplyFails(i) PROVE NoneForgotten'
  BY <1>8, <1>9 DEF CopyConflict, ApplyAddFile, ApplyFails, ItemDone, diskVars
<1>10. ASSUME NEW n \in NoteIds, PushConflicts(n) PROVE NoneForgotten'
  BY <1>8, <1>10 DEF PushConflicts, diskVars
<1>11. ASSUME NEW k \in AckCalls, SendAck(k) \/ AckLost(k) \/ AnswerAck(k) PROVE NoneForgotten'
  <2>1. \A l \in AckCalls \ {k} : ackCalls'[l] = ackCalls[l]
    BY <1>11, CallMoves, CallFields
  <2>2. UNCHANGED vars /\ UNCHANGED <<blobs, uploads, replaced>>
    BY <1>11 DEF SendAck, AckLost, AnswerAck, OnlyHub, diskVars
  <2> QED
    BY <1>8, <1>11, <2>1, <2>2 DEF SendAck, AckLost, AnswerAck
<1>12. ASSUME NEW k \in AckCalls, AckRows(k) PROVE NoneForgotten'
  <2>1. AckQueueItems(ackCalls[k].acks) /\ UNCHANGED <<blobs, uploads, replaced>> /\ ackCalls[k].step = "sent"
    BY <1>12 DEF AckRows, OnlyHub, diskVars
  <2>2. /\ ackCalls'[k].step = "collect" /\ ackCalls'[k].acks = ackCalls[k].acks
        /\ \A l \in AckCalls \ {k} : ackCalls'[l] = ackCalls[l]
    <3>1. CallMoved(k, "collect", ackCalls[k].acks, ackCalls[k].ids, ackCalls[k].heard)
      BY <1>12, CallMoves
    <3> QED
      BY <3>1, CallFields
  <2>3. Steady
    <3>1. \A h \in Handlers : ~EnqueueFile(h)
      BY <2>1, <2>2 DEF EnqueueFile, OnlyUpload
    <3> QED
      BY <3>1, StepsAreSteady
  <2>4. \A b \in Blobs : \A l \in AckCalls : Doomed(b, l) => Doomed(b, l)'
    BY <1>3, <2>1, <2>2 DEF Doomed
  <2>5. ASSUME NEW i \in Ids, write_queue'[i].status = "applied", write_queue[i].status # "applied"
        PROVE  Doomed(AttachmentID(write_queue[i]), k)'
    <3>1. i \in DOMAIN ackCalls[k].acks /\ ackCalls[k].acks[i] = "applied"
      BY <1>0, <2>1, <2>5, AckKeepsRow
    <3> QED
      BY <2>2, <2>5, <3>1 DEF Doomed, CleanupIDs
  <2> QED
    BY <2>1, <2>3, <2>4, <2>5, AsideCares
<1>13. ASSUME NEW k \in AckCalls, Collect(k) \/ CleanUp(k) PROVE NoneForgotten'
  <2>1. UNCHANGED <<write_queue, uploads, replaced>> /\ ackCalls[k].step \in {"collect", "clean"}
    BY <1>13 DEF Collect, CleanUp, OnlyHub, vars
  <2>2. Steady /\ \A i \in Ids : write_queue'[i].status = "applied" => write_queue[i].status = "applied"
    BY <2>1 DEF Steady, SameFile, Ids
  <2>3. CASE Collect(k)
    <3>1. CallMoved(k, "clean", ackCalls[k].acks, CleanupIDs(ackCalls[k].acks), ackCalls[k].heard)
      BY <2>3, CallMoves
    <3>2. /\ ackCalls'[k].step = "clean" /\ ackCalls'[k].ids = CleanupIDs(ackCalls[k].acks)
          /\ \A l \in AckCalls \ {k} : ackCalls'[l] = ackCalls[l]
      BY <3>1, CallFields
    <3>3. \A b \in Blobs : \A l \in AckCalls : Doomed(b, l) => Doomed(b, l)'
      <4>1. \A b \in Blobs : Doomed(b, k) => Doomed(b, k)'
        BY <2>3, <3>2 DEF Doomed, Collect
      <4> QED
        BY <1>3, <3>2, <4>1
    <3>4. blobs' = blobs
      BY <2>3 DEF Collect, diskVars
    <3> QED
      BY <2>1, <2>2, <3>3, <3>4, AsideCares
  <2>4. CASE CleanUp(k)
    <3>1. PICK b \in ackCalls[k].ids :
            /\ CallMoved(k, "clean", ackCalls[k].acks, ackCalls[k].ids \ {b}, ackCalls[k].heard)
            /\ blobs' = [blobs EXCEPT ![b] = "none"]
      BY <2>4, CallMoves
    <3>2. /\ ackCalls'[k].step = "clean" /\ ackCalls'[k].ids = ackCalls[k].ids \ {b}
          /\ \A l \in AckCalls \ {k} : ackCalls'[l] = ackCalls[l]
      BY <3>1, CallFields
    <3>3. \A c \in Blobs : blobs'[c] # "none" => c # b /\ blobs[c] # "none"
      BY <1>0, <3>1
    <3>4. \A c \in Blobs : c # b /\ Doomed(c, k) => Doomed(c, k)'
      BY <2>4, <3>2 DEF Doomed, CleanUp
    <3>5. \A c \in Blobs : \A l \in AckCalls : blobs'[c] # "none" /\ Doomed(c, l) => Doomed(c, l)'
      BY <1>3, <3>2, <3>3, <3>4
    <3> QED
      BY <2>1, <2>2, <3>3, <3>5, AsideCares
  <2> QED
    BY <1>13, <2>3, <2>4
<1> QED
  BY <1>1, <1>2, <1>5, <1>6, <1>7, <1>9, <1>10, <1>11, <1>12, <1>13
     DEF BlobNext, BridgeStep, AckStep, LeaseAnswerLost, AckTimesOut, BridgeDies, HubDies, ApplyReportsFailure

\* Without faults the bridge waits for every call it makes.
LEMMA CallsAwaited ==
  ASSUME TypeInv, BlobNext, faults' = 0,
         \A k \in AckCalls : ackCalls[k].step # "idle" => ackCalls[k].heard
  PROVE  \A k \in AckCalls : ackCalls'[k].step # "idle" => ackCalls'[k].heard
<1>0. faults \in Nat
  BY BlobAssumption DEF TypeInv, BlobTypeOK
<1>1. ~Fault
  BY <1>0 DEF Fault
<1>2. CASE ackCalls' = ackCalls
  BY <1>2
<1>3. ASSUME NEW k \in AckCalls, SendAck(k) \/ AckStep(k) \/ AckLost(k)
      PROVE  \A l \in AckCalls : ackCalls'[l].step # "idle" => ackCalls'[l].heard
  <2>1. CASE SendAck(k)
    BY <2>1, CallMoves, CallFields
  <2>2. CASE AnswerAck(k) \/ AckLost(k)
    <3>1. CallMoved(k, "idle", NoItems, {}, FALSE)
      BY <2>2, CallMoves
    <3>2. ackCalls'[k].step = "idle" /\ \A l \in AckCalls \ {k} : ackCalls'[l] = ackCalls[l]
      BY <3>1, CallFields
    <3> QED
      BY <3>2
  <2>3. ASSUME NEW s, NEW ids, CallMoved(k, s, ackCalls[k].acks, ids, ackCalls[k].heard),
               ackCalls[k].step # "idle"
        PROVE  \A l \in AckCalls : ackCalls'[l].step # "idle" => ackCalls'[l].heard
    BY <2>3, CallFields
  <2>4. CASE AckRows(k)
    <3>1. CallMoved(k, "collect", ackCalls[k].acks, ackCalls[k].ids, ackCalls[k].heard)
      BY <2>4, CallMoves
    <3> QED
      BY <2>3, <2>4, <3>1 DEF AckRows
  <2>5. CASE Collect(k)
    <3>1. CallMoved(k, "clean", ackCalls[k].acks, CleanupIDs(ackCalls[k].acks), ackCalls[k].heard)
      BY <2>5, CallMoves
    <3> QED
      BY <2>3, <2>5, <3>1 DEF Collect
  <2>6. CASE CleanUp(k)
    <3>1. PICK b \in ackCalls[k].ids :
            CallMoved(k, "clean", ackCalls[k].acks, ackCalls[k].ids \ {b}, ackCalls[k].heard)
      BY <2>6, CallMoves
    <3> QED
      BY <2>3, <2>6, <3>1 DEF CleanUp
  <2> QED
    BY <1>3, <2>1, <2>2, <2>4, <2>5, <2>6 DEF AckStep
<1>4. ASSUME NEW h \in Handlers, UploadStep(h) PROVE ackCalls' = ackCalls
  BY <1>4 DEF UploadStep, GetNote, CheckKey, MakeDir, CopyFile, CopyFails, EnqueueFile, EnqueueFails,
              RemoveOwn, OnlyUpload
<1>5. ASSUME NEW i, CopyConflict(i) \/ ApplyAddFile(i) \/ ApplyFails(i) PROVE ackCalls' = ackCalls
  BY <1>5 DEF CopyConflict, ApplyAddFile, ApplyFails, ItemDone
<1>6. ASSUME LeaseBatch \/ TimePasses \/ \E n \in NoteIds : PushDeletes(n) \/ PushConflicts(n)
      PROVE  ackCalls' = ackCalls
  BY <1>6 DEF LeaseBatch, TimePasses, PushDeletes, PushConflicts
<1> QED
  BY <1>1, <1>2, <1>3, <1>4, <1>5, <1>6
     DEF BlobNext, BridgeStep, LeaseAnswerLost, AckTimesOut, BridgeDies, HubDies, ApplyReportsFailure

LEMMA FaultsOnlyGrow ==
  ASSUME TypeInv, BlobNext, faults' = 0
  PROVE  faults = 0
<1>1. faults \in Nat
  BY BlobAssumption DEF TypeInv, BlobTypeOK
<1>2. Fault \/ NoFault
  BY DEF BlobNext, UploadStep, GetNote, CheckKey, MakeDir, CopyFile, CopyFails, EnqueueFile,
         EnqueueFails, RemoveOwn, OnlyUpload, BridgeStep, LeaseBatch, CopyConflict, ApplyAddFile,
         ApplyFails, ApplyReportsFailure, SendAck, AckStep, AckRows, Collect, CleanUp, AnswerAck,
         AckLost, OnlyHub, LeaseAnswerLost, AckTimesOut, BridgeDies, HubDies, PushDeletes,
         PushConflicts, TimePasses
<1> QED
  BY <1>1, <1>2 DEF Fault, NoFault

LEMMA CareInvariant == BlobSpec => []CareInv
<1>1. BlobInit => CareInv
  BY DEF BlobInit, CareInv, NoneForgotten, NoAckCall
<1>2. CareInv /\ UNCHANGED blobVars => CareInv'
  BY DEF blobVars, vars, diskVars, CareInv, NoneForgotten, Cared, Held, Wanted, Doomed, CleanupIDs, Holding, Ids
<1>3. TypeInv /\ DiskInv /\ CareInv /\ BlobNext => CareInv'
  BY FaultsOnlyGrow, CallsAwaited, StepsCare DEF CareInv
<1> QED
  BY <1>1, <1>2, <1>3, TypeInvariant, DiskInvariant, PTL DEF BlobSpec

\* In a quiet state, if nothing failed, every directory on the disk belongs to
\* a row that is not applied or to an attempt that a retry replaced: addFile and
\* syncAck between them remove all the others.
THEOREM NoOrphanFilesHolds == BlobSpec => []NoOrphanFiles
<1>1. CareInv => NoOrphanFiles
  <2> SUFFICES ASSUME CareInv, Quiet, faults = 0, NEW b \in Blobs, blobs[b] # "none"
               PROVE  b \in Named \cup replaced
    BY DEF NoOrphanFiles
  <2>1. ~Held(b) /\ \A k \in AckCalls : ~Doomed(b, k)
    BY DEF Quiet, At, Held, Holding, Doomed
  <2>2. Wanted(b) \/ b \in replaced
    BY <2>1 DEF CareInv, NoneForgotten, Cared
  <2> QED
    BY <2>2 DEF Wanted, Named
<1> QED
  BY <1>1, CareInvariant, PTL
=============================================================================
