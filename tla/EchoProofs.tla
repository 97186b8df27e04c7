----------------------------- MODULE EchoProofs -----------------------------
(***************************************************************************)
(* What the hub makes of the texts a push brings.  The bridge's own writes *)
(* come back in the next push and are recognised as echoes; an edit of     *)
(* Bear's user that the hub was told of is not overwritten unseen.  Both   *)
(* for every set of consumers' calls and however pushes, leases and        *)
(* handlers alternate.                                                     *)
(***************************************************************************)
EXTENDS SyncProofs, FiniteSetTheorems

-----------------------------------------------------------------------------
(***************************************************************************)
(* Without edits of the user and faults nothing is lost and nothing fails. *)
(***************************************************************************)
Calm == edits = 0 /\ faults = 0

ItemStep(i) ==
  \/ TargetLost(i) \/ SkipItem(i) \/ ChangeBear(i) \/ CopyConflict(i)
  \/ \E b \in BearIds : WriteBear(i, b)

CalmStep ==
  \/ \E h \in Handlers : Handle(h)
  \/ ReadDelta \/ PushDelta \/ LeaseBatch \/ AckBatch \/ AckRefused \/ LeaseTime
  \/ \E i \in 1..MaxRows : ItemStep(i) \/ Verify(i)
  \/ UNCHANGED syncVars

\* No new note is searched by its title: only a fault hides its id.
LEMMA NoSearch ==
  ASSUME BaseInv, faults = 0, NEW i
  PROVE  ~SearchFails(i) /\ \A b : ~SearchFinds(i, b)
<1>1. ~(Written(i) /\ acks[i].bear_id = NULL)
  BY DEF Written, LastAcked, BaseInv, BridgeInv, AckOK
<1> QED
  BY <1>1 DEF SearchFails, SearchFinds, Searched

LEMMA CalmSteps ==
  ASSUME BaseInv, [SyncNext]_syncVars, Calm'
  PROVE  Calm /\ CalmStep
<1>1. edits \in Nat /\ faults \in Nat /\ edits <= edits' /\ faults <= faults'
  BY CountersStep, SyncAssumption DEF BaseInv, CountersOK
<1>2. Calm
  BY <1>1 DEF Calm
<1>3. ~Fault
  BY <1>1 DEF Calm, Fault
<1>4. \A b \in BearIds : ~UserEdits(b) /\ ~UserDeletes(b)
  BY <1>1 DEF Calm, UserEdits, UserDeletes
<1>5. ~BridgeFault /\ \A h \in Handlers : ~HandleFault(h)
  BY <1>3 DEF BridgeFault, PushUnrecorded, BridgeDies, VerifyFails, ItemFails, WriteReportsFailure,
     CreateUnnamed, HandleFault
<1> QED
  BY <1>2, <1>4, <1>5, NoSearch DEF Calm, SyncNext, BridgeStep, CalmStep, ItemStep

\* Bear's notes stay, no row and no item fails, and what a row is about is in Bear.
NothingLost ==
  /\ \A b \in BearIds : bear[b] # GONE
  /\ \A b \in DOMAIN delta : delta[b] # GONE
  /\ \A i \in Ids : write_queue[i].status # "failed"
  /\ \A i \in DOMAIN acks : acks[i].outcome = "applied"

TargetsInBear ==
  \A i \in Ids : write_queue[i].payload.bear_id # NULL => bear[write_queue[i].payload.bear_id] # NULL

CalmInv == ProtectInv /\ TargetsInBear /\ (Calm => NothingLost)

\* The bridge's writes, as records.
LEMMA WrittenBear ==
  ASSUME BaseInv, NEW i \in Nat, NEW b \in BearIds, WriteBear(i, b)
  PROVE  \E new \in BearNote :
           /\ bear' = [bear EXCEPT ![b] = new] /\ bear'[b] = new
           /\ ActionOf(i) = "update" => /\ b = TargetOf(i) /\ new.body = BodyOf(i)
                                        /\ new.modified_at = clock'
<1>1. /\ Turn(i) /\ i \in DOMAIN batch /\ clock' \in Seconds /\ BearInv
      /\ BearUpdate(i, b) \/ BearCreate(i, b)
  BY DEF BaseInv, WriteBear, Turn, Todo, BearClock
<1>2. CASE BearUpdate(i, b)
  <2> DEFINE new == [bear[b] EXCEPT !.body = BodyOf(i), !.modified_at = clock']
  <2>1. bear[b] \in BearNote /\ BodyOf(i) \in Bodies
    BY <1>1, <1>2, BearCases, BatchItem DEF BearUpdate, TargetLives
  <2>2. new \in BearNote /\ new.body = BodyOf(i) /\ new.modified_at = clock'
    BY <1>1, <2>1 DEF BearNote
  <2>3. bear' = [bear EXCEPT ![b] = new] /\ b = TargetOf(i)
    BY <1>2 DEF BearUpdate, ChangesBear
  <2> HIDE DEF new
  <2>4. bear'[b] = new
    BY <1>1, <2>3 DEF BearInv
  <2> QED
    BY <2>2, <2>3, <2>4
<1>3. CASE BearCreate(i, b)
  <2> DEFINE new == [body |-> AsCreated(BodyOf(i)), trashed |-> FALSE, modified_at |-> clock']
  <2>1. AsCreated(BodyOf(i)) \in Bodies
    BY <1>1, <1>3, BatchItem DEF BearCreate
  <2>2. new \in BearNote
    BY <1>1, <2>1 DEF BearNote
  <2>3. bear' = [bear EXCEPT ![b] = new] /\ ActionOf(i) # "update"
    BY <1>3 DEF BearCreate, ChangesBear
  <2> HIDE DEF new
  <2>4. bear'[b] = new
    BY <1>1, <2>3 DEF BearInv
  <2> QED
    BY <2>2, <2>3, <2>4
<1> QED
  BY <1>1, <1>2, <1>3

LEMMA ChangedBear ==
  ASSUME BaseInv, NEW i \in Nat, ChangeBear(i)
  PROVE  \E new \in BearNote : bear' = [bear EXCEPT ![TargetOf(i)] = new]
<1> DEFINE b == TargetOf(i)
           new == [bear[b] EXCEPT !.trashed = @ \/ ActionOf(i) = "trash", !.modified_at = clock']
<1>1. i \in DOMAIN batch /\ clock' \in Seconds /\ BearInv
  BY DEF BaseInv, ChangeBear, Turn, Todo, BearClock
<1>2. b \in BearIds /\ Exists(bear[b])
  BY <1>1, BatchItem DEF ChangeBear, TargetLives
<1>3. bear[b] \in BearNote
  BY <1>1, <1>2, BearCases
<1>4. new \in BearNote
  BY <1>1, <1>3 DEF BearNote
<1>5. bear' = [bear EXCEPT ![b] = new]
  BY DEF ChangeBear, ChangesBear
<1> QED
  BY <1>4, <1>5

LEMMA CalmBear ==
  ASSUME BaseInv, NothingLost, CalmStep
  PROVE  /\ \A b \in BearIds : bear'[b] # GONE
         /\ \A b \in DOMAIN delta' : delta'[b] # GONE
<1>1. BearInv /\ \A new \in BearNote : new # GONE
  BY NotesAssumption DEF BaseInv
<1>2. ASSUME NEW i \in 1..MaxRows, NEW b \in BearIds, WriteBear(i, b)
      PROVE  \A c \in BearIds : bear'[c] # GONE
  BY <1>1, <1>2, WrittenBear DEF BearInv, NothingLost
<1>3. ASSUME NEW i \in 1..MaxRows, ChangeBear(i)
      PROVE  \A c \in BearIds : bear'[c] # GONE
  <2>1. PICK new \in BearNote : bear' = [bear EXCEPT ![TargetOf(i)] = new]
    BY <1>3, ChangedBear
  <2> QED
    BY <1>1, <2>1 DEF BearInv, NothingLost
<1>4. ASSUME ~(\E i \in 1..MaxRows : ChangeBear(i) \/ \E b \in BearIds : WriteBear(i, b))
      PROVE  UNCHANGED bear
  BY <1>4 DEF CalmStep, ItemStep, Handle, ReadDelta, PushDelta, Push, LeaseBatch, AckBatch, AckRefused,
     LeaseTime, TargetLost, SkipItem, CopyConflict, Verify, Verified, worldVars, syncVars
<1>5. \A b \in BearIds : bear'[b] # GONE
  BY <1>2, <1>3, <1>4 DEF NothingLost
<1>6. ReadDelta => \A b \in DOMAIN delta' : delta'[b] # GONE
  BY DEF ReadDelta, NothingLost, ChangedInBear
<1>7. PushDelta => DOMAIN delta' = {}
  BY DEF PushDelta, Push, Nothing
<1>8. ~ReadDelta /\ ~PushDelta => UNCHANGED delta
  BY DEF CalmStep, ItemStep, Handle, LeaseBatch, AckBatch, AckRefused, LeaseTime, bridgeVars,
     TargetLost, SkipItem, ChangeBear, WriteBear, CopyConflict, Verify, Verified, Applied, syncVars
<1> QED
  BY <1>5, <1>6, <1>7, <1>8 DEF NothingLost

\* No item's note is missing in Bear.
LEMMA TargetsFound ==
  ASSUME BaseInv, TargetsInBear, NothingLost, NEW i
  PROVE  ~TargetLost(i)
<1> SUFFICES ASSUME TargetLost(i) PROVE FALSE
  OBVIOUS
<1>1. i \in DOMAIN batch /\ ActionOf(i) # "create" /\ ~TargetLives(i)
  BY DEF TargetLost, Turn, Todo
<1>2. /\ TargetOf(i) # NULL /\ TargetOf(i) \in BearIds /\ i \in Ids
      /\ TargetOf(i) = write_queue[i].payload.bear_id
  BY <1>1, BatchItem
<1> QED
  BY <1>1, <1>2 DEF TargetsInBear, NothingLost, TargetLives, Exists

LEMMA CalmAcks ==
  ASSUME BaseInv, TargetsInBear, NothingLost, CalmStep
  PROVE  \A i \in DOMAIN acks' : acks'[i].outcome = "applied"
<1>1. \A i \in 1..MaxRows : ~TargetLost(i)
  BY TargetsFound
<1>2. ASSUME NEW i \in 1..MaxRows, ItemStep(i)
      PROVE  \E ack : acks' = Put(acks, i, ack) /\ ack.outcome = "applied"
  <2>1. Ack("applied").outcome = "applied"
    BY DEF Ack
  <2>2. SkipItem(i) \/ ChangeBear(i) \/ CopyConflict(i) \/ \E b \in BearIds : WriteBear(i, b)
    BY <1>1, <1>2 DEF ItemStep
  <2>3. \A stamp : [Ack("applied") EXCEPT !.bear_modified_at = stamp].outcome = "applied"
    BY DEF Ack
  <2>4. \A b : [Ack("applied") EXCEPT !.bear_id = b].outcome = "applied"
    BY DEF Ack
  <2>5. [Ack("applied") EXCEPT !.conflict_resolved = TRUE].outcome = "applied"
    BY DEF Ack
  <2> QED
    BY <2>1, <2>2, <2>3, <2>4, <2>5 DEF SkipItem, ChangeBear, CopyConflict, WriteBear, Applied
<1>3. ASSUME NEW i \in 1..MaxRows, Verify(i)
      PROVE  \A j \in DOMAIN acks' : acks'[j].outcome = "applied"
  <2>1. PICK ack : VerifiedAck(i, ack) /\ acks' = [acks EXCEPT ![i] = ack] /\ LastAcked(i)
    BY <1>3, VerifiedAcks
  <2> QED
    BY <2>1 DEF VerifiedAck, LastAcked, NothingLost
<1>4. ASSUME NEW i, NEW ack, acks' = Put(acks, i, ack), ack.outcome = "applied"
      PROVE  \A j \in DOMAIN acks' : acks'[j].outcome = "applied"
  BY <1>4 DEF Put, NothingLost
<1>5. CASE AckBatch \/ AckRefused
  BY <1>5 DEF AckBatch, AckRefused, Nothing
<1>6. ASSUME ~AckBatch, ~AckRefused, ~\E i \in 1..MaxRows : ItemStep(i) \/ Verify(i)
      PROVE  UNCHANGED acks
  BY <1>6 DEF CalmStep, Handle, ReadDelta, PushDelta, Push, LeaseBatch, LeaseTime, bridgeVars, syncVars
<1> QED
  BY <1>2, <1>3, <1>4, <1>5, <1>6 DEF NothingLost

\* Without faults a handler moves on.
LEMMA HandleMoves ==
  ASSUME BaseInv, NEW h \in Handlers, Handle(h)
  PROVE  Moves(h) /\ UNCHANGED <<bridgeVars, worldVars>>
BY HandlerStepMoves DEF BaseInv, CountersOK, Handle

LEMMA MovesKeepRowsUp ==
  ASSUME HubInv, NothingLost, NEW h \in Handlers, Moves(h), NEW i \in Ids'
  PROVE  write_queue'[i].status # "failed"
<1>1. CASE RowStays(i)
  BY <1>1 DEF RowStays, NothingLost
<1>2. CASE AskedRow(h, i, handlers[h].copy.bear_id) \/ AskedRow(h, i, NULL)
  BY <1>2 DEF AskedRow
<1>3. CASE i \in Ids /\ Merges(h, i)
  BY <1>3, MergesRows
<1> QED
  BY <1>1, <1>2, <1>3, RowsMoved

\* A push that deletes nothing leaves the queue as it is.
LEMMA CalmPush ==
  ASSUME BaseInv, NothingLost, PushDelta
  PROVE  /\ Ids' = Ids /\ \A i \in Ids : write_queue'[i] = write_queue[i]
         /\ \A n \in LiveNotes : n \in LiveNotes'
<1>1. TypeOK /\ BearInv /\ NotesTypeOK
  BY DEF BaseInv, HubInv
<1>2. \A n \in HubIds : PushFate(notes[n], notes'[n])
  BY <1>1, PushEffect DEF PushDelta, Push
<1>3. ASSUME NEW n \in LiveNotes
      PROVE  n \in LiveNotes' /\ notes'[n] # GONE
  <2>1. n \in HubIds /\ Exists(notes[n]) /\ notes[n] \in NoteRow
    BY <1>1, <1>3, NoteCases DEF LiveNotes
  <2>2. PushedNote(notes[n], notes'[n])
    BY <1>2, <2>1 DEF PushFate
  <2>3. CASE notes[n].bear_id \in DOMAIN delta
    <3>1. notes[n].bear_id \in BearIds /\ delta[notes[n].bear_id] \in BearNote
      BY <1>1, <2>3 DEF NothingLost, BearInv
    <3>2. notes'[n] = Upserted(notes[n], delta[notes[n].bear_id], notes[n].bear_id)
      BY <2>2, <2>3 DEF PushedNote, NothingLost
    <3>3. notes'[n] \in NoteRow
      BY <2>1, <3>1, <3>2, UpsertedTyped
    <3> QED
      BY <2>1, <3>3, NotesAssumption DEF LiveNotes, Exists
  <2>4. CASE notes[n].bear_id \notin DOMAIN delta
    BY <2>1, <2>2, <2>4 DEF PushedNote, LiveNotes, Exists
  <2> QED
    BY <2>3, <2>4
<1>4. PICK D \in SUBSET LiveNotes : FailQueueItemsForDeletedNotes(D) /\ \A n \in D : notes'[n] = GONE
  BY <1>1, PushEffect DEF PushDelta, Push
<1>5. D = {}
  BY <1>3, <1>4
<1> QED
  BY <1>1, <1>3, <1>4, <1>5, DeleteSettles DEF RowsSettle, RowsKept

LEMMA CalmRows ==
  ASSUME BaseInv, NothingLost, CalmStep, NEW i \in Ids'
  PROVE  write_queue'[i].status # "failed"
<1>1. TypeOK /\ HubInv /\ BearInv /\ NotesTypeOK
  BY DEF BaseInv, HubInv
<1>2. CASE \E h \in Handlers : Handle(h)
  BY <1>1, <1>2, HandleMoves, MovesKeepRowsUp
<1>3. CASE PushDelta
  BY <1>3, CalmPush DEF NothingLost
<1>4. CASE AckBatch
  BY <1>4, AckSettles DEF AckBatch, RowsSettle, RowsKept, NothingLost
<1>5. CASE LeaseBatch
  BY <1>1, <1>5, LeaseSettles DEF LeaseBatch, RowsSettle, RowsKept, Active, NothingLost
<1>6. CASE LeaseTime
  BY <1>1, <1>6, TickSettles DEF LeaseTime, RowsSettle, RowsKept, NothingLost
<1>7. CASE ReadDelta \/ AckRefused \/ (\E j \in 1..MaxRows : ItemStep(j) \/ Verify(j))
           \/ UNCHANGED syncVars
  <2>1. QuietStep
    BY <1>7 DEF QuietStep, ItemStep
  <2>2. UNCHANGED vars
    BY <2>1, QuietStepsLeaveHub DEF handlerVars
  <2> QED
    BY <2>2 DEF vars, Ids, NothingLost
<1> QED
  BY <1>2, <1>3, <1>4, <1>5, <1>6, <1>7 DEF CalmStep

LEMMA TargetsInBearStep ==
  ASSUME ProtectInv, TargetsInBear, [SyncNext]_syncVars
  PROVE  TargetsInBear'
<1>1. BaseInv /\ HubInv /\ IdsGivenByBear /\ RowsOK /\ BearGrow
  BY BearStep DEF ProtectInv, TargetInv, IdsInv, CreateInv, BaseInv, HubInv
<1> SUFFICES ASSUME NEW i \in Ids', write_queue'[i].payload.bear_id # NULL
             PROVE  bear'[write_queue'[i].payload.bear_id] # NULL
  BY DEF TargetsInBear
<1>2. ASSUME i \in Ids, write_queue'[i].payload.bear_id = write_queue[i].payload.bear_id
      PROVE  bear'[write_queue'[i].payload.bear_id] # NULL
  <2>1. write_queue[i].payload.bear_id \in BearIds
    BY <1>1, <1>2 DEF RowsOK, RowShape
  <2> QED
    BY <1>1, <1>2, <2>1 DEF TargetsInBear, BearGrow
<1>3. CASE HandlerMoves
  <2>1. PICK h \in Handlers : Moves(h) \/ Stumbles(h)
    BY <1>3 DEF HandlerMoves
  <2>2. CASE RowStays(i)
    BY <1>2, <2>2 DEF RowStays
  <2>3. CASE Asks(h, i) /\ AskedRow(h, i, handlers[h].copy.bear_id)
    <3>1. Updates(h) /\ handlers[h].copy.bear_id \in BearIds /\ handlers[h].copy.bear_id # NULL
      BY <1>1, <2>3, AsksRows
    <3> QED
      BY <1>1, <2>3, <3>1 DEF AskedRow, IdsGivenByBear, BearGrow
  <2>4. CASE AsksCreate(h, i) /\ AskedRow(h, i, NULL)
    BY <2>4 DEF AskedRow
  <2>5. CASE i \in Ids /\ Merges(h, i)
    BY <1>1, <1>2, <2>5, MergesRows
  <2> QED
    BY <1>1, <2>1, <2>2, <2>3, <2>4, <2>5, RowsMoved
<1>4. CASE PushDelta \/ PushUnrecorded \/ AckBatch \/ LeaseBatch \/ LeaseTime \/ QuietStep
  <2>1. i \in Ids /\ Work(write_queue'[i]) = Work(write_queue[i])
    BY <1>1, <1>4, TransactionsSettle DEF RowsSettle, RowsKept
  <2>2. write_queue'[i].payload = write_queue[i].payload
    BY <2>1 DEF Work
  <2> QED
    BY <1>2, <2>1, <2>2
<1> QED
  BY <1>1, <1>3, <1>4, StepCases

OneByOne == ~Interleaved /\ OneHandler

LEMMA CalmInvStep ==
  ASSUME OneByOne, CalmInv, [SyncNext]_syncVars
  PROVE  CalmInv'
<1>1. ProtectInv' /\ BaseInv /\ TargetsInBear'
  BY ProtectStep, TargetsInBearStep DEF OneByOne, CalmInv, ProtectInv, TargetInv, IdsInv, CreateInv
<1>2. ASSUME Calm' PROVE NothingLost'
  <2>1. NothingLost /\ CalmStep /\ TargetsInBear
    BY <1>1, <1>2, CalmSteps DEF CalmInv
  <2> QED
    BY <1>1, <2>1, CalmBear, CalmAcks, CalmRows DEF NothingLost
<1> QED
  BY <1>1, <1>2 DEF CalmInv

LEMMA CalmInit ==
  ASSUME SyncInit
  PROVE  CalmInv
<1>1. ProtectInv
  BY ProtectInit
<1>2. Ids = {} /\ DOMAIN acks = {} /\ DOMAIN delta = {}
  BY DEF SyncInit, Init, Ids, Nothing
<1>3. \A b \in BearIds : bear[b] # GONE
  <2>1. FirstNote \in BearNote
    BY NotesAssumption, SyncAssumption DEF FirstNote, BearNote, Seconds
  <2>2. FirstNote # GONE
    BY <2>1, NotesAssumption
  <2> QED
    BY <2>2, NotesAssumption DEF SyncInit
<1> QED
  BY <1>1, <1>2, <1>3 DEF CalmInv, TargetsInBear, NothingLost

-----------------------------------------------------------------------------
(***************************************************************************)
(* Echoes: only updates are queued and none was merged into an older one.  *)
(***************************************************************************)
OnlyUpdates ==
  \A i \in Ids : write_queue[i].action = "update" /\ write_queue[i].secondary = NULL

Plain == Calm /\ OnlyUpdates

\* With one handler nothing comes between its calls: its copy is the note as it
\* is, and its key was not used.
HandlerFacts(h) ==
  /\ Updates(h) => handlers[h].note_id \in LiveNotes
  /\ handlers[h].step \in {"check_key", "update_note"} =>
       handlers[h].copy = notes[handlers[h].note_id]
  /\ At(h, "enqueue") /\ handlers[h].call.action = "update" =>
       notes[handlers[h].note_id].body = handlers[h].call.body
  /\ handlers[h].step \in {"update_note", "enqueue"} => Found(handlers[h].call) = {}
  /\ handlers[h].step \notin {"delete_orphan", "restore"}
  /\ At(h, "delete_created") => \A i \in Ids : write_queue[i].note_id # handlers[h].note_id

RowsLive == \A i \in Ids : write_queue[i].note_id \in LiveNotes

NotesClean ==
  \A n \in LiveNotes :
    /\ notes[n].sync_status # "conflict"
    /\ notes[n].sync_status = "synced" => notes[n].pending_bear_body = NULL

\* A note with an active update has the body of the newest one, but for the time
\* a handler takes from its write to its enqueue.
NewestActive(n, i) ==
  /\ Active(write_queue[i]) /\ write_queue[i].note_id = n
  /\ \A j \in Ids : Active(write_queue[j]) /\ write_queue[j].note_id = n => j <= i

AboutToEnqueue(n) == \E h \in Handlers : At(h, "enqueue") /\ handlers[h].note_id = n

LastWord ==
  \A n \in LiveNotes : \A i \in Ids :
    NewestActive(n, i) /\ ~AboutToEnqueue(n) => notes[n].body = write_queue[i].payload.body

DeltaIsBear ==
  /\ phase = "push" => delta = [b \in ChangedInBear |-> bear[b]]
  /\ phase = "lease" => ChangedInBear = {}

\* What a push will bring of the bridge's writes: the hub expects the stamp or
\* has the body as the one it had from Bear.
EchoKnown ==
  phase \in {"start", "push"} =>
    \A n \in LiveNotes :
      LET b == notes[n].bear_id
      IN b # NULL /\ bear[b] # pushed[b] =>
           /\ notes[n].sync_status = "pending_to_bear" =>
                \/ notes[n].expected_bear_modified_at = bear[b].modified_at
                \/ notes[n].pending_bear_body = bear[b].body
           /\ notes[n].sync_status = "synced" => notes[n].body = bear[b].body

\* The batch has the oldest active rows, all that are leased.
BatchOldest ==
  /\ \A i \in DOMAIN batch : ~batch[i].conflict
  /\ \A i \in Ids : write_queue[i].status = "processing" => i \in DOMAIN batch
  /\ \A i \in DOMAIN batch, j \in Ids \ DOMAIN batch : Active(write_queue[j]) => i < j

\* The last acknowledgement for a note of Bear tells what Bear says of it.
Verifying(i) == phase = "verify" /\ LastAcked(i)

LastFor(i) == \A j \in DOMAIN acks : TargetOf(j) = TargetOf(i) => j <= i

AckTells(i) ==
  /\ ~acks[i].conflict_resolved
  /\ acks[i].bear_id = IF Verifying(i) THEN TargetOf(i) ELSE NULL
  /\ LastFor(i) =>
       /\ bear[TargetOf(i)].body = BodyOf(i)
       /\ Verifying(i) \/ acks[i].bear_modified_at = bear[TargetOf(i)].modified_at

WritesAcked ==
  phase \in {"apply", "verify", "ack"} =>
    \A b \in BearIds : bear[b] # pushed[b] => \E i \in DOMAIN acks : TargetOf(i) = b

EchoFacts ==
  /\ \A h \in Handlers : HandlerFacts(h)
  /\ RowsLive /\ NotesClean /\ LastWord
  /\ DeltaIsBear /\ EchoKnown
  /\ BatchOldest /\ (\A i \in DOMAIN acks : AckTells(i)) /\ WritesAcked

EchoInv == CalmInv /\ (Plain => EchoFacts)

\* What a handler does to the queue while it stays plain: it adds updates.
RowsAdded(h) ==
  /\ Moves(h) /\ UNCHANGED <<bridgeVars, worldVars>>
  /\ Ids \subseteq Ids' /\ \A i \in Ids : write_queue'[i] = write_queue[i]
  /\ \A i \in Ids' \ Ids : /\ Asks(h, i) /\ AskedRow(h, i, handlers[h].copy.bear_id)
                           /\ handlers[h].call.action = "update"

LEMMA HandlersAddRows ==
  ASSUME BaseInv, NothingLost, NEW h \in Handlers, Handle(h), OnlyUpdates'
  PROVE  RowsAdded(h)
<1>1. HubInv /\ Moves(h) /\ UNCHANGED <<bridgeVars, worldVars>>
  BY HandleMoves DEF BaseInv
<1>2. ASSUME NEW i \in Ids'
      PROVE  \/ RowStays(i)
             \/ /\ i \notin Ids /\ Asks(h, i) /\ AskedRow(h, i, handlers[h].copy.bear_id)
                /\ handlers[h].call.action = "update"
  <2>1. write_queue'[i].action = "update" /\ write_queue'[i].secondary = NULL
    BY <1>2 DEF OnlyUpdates
  <2>2. CASE Asks(h, i) /\ AskedRow(h, i, handlers[h].copy.bear_id)
    <3>1. /\ handlers[h].call \in Calls /\ handlers[h].note_id \in HubIds
          /\ handlers[h].copy.bear_id \in BearIds
      BY <1>1, <2>2, AsksRows
    <3>2. handlers[h].call.key # NULL
      BY <3>1, WriteFields, RequestsAssumption
    <3>3. i \notin Ids
      BY <2>1, <2>2, <3>2 DEF AskedRow, NothingLost
    <3> QED
      BY <2>1, <2>2, <3>3 DEF AskedRow
  <2>3. ~(AsksCreate(h, i) /\ AskedRow(h, i, NULL))
    BY <1>1, <2>1, AsksCreateRows DEF AskedRow
  <2>4. ~(i \in Ids /\ Merges(h, i))
    BY <1>1, <2>1, MergesRows
  <2> QED
    BY <1>1, <1>2, <2>2, <2>3, <2>4, RowsMoved
<1>3. Ids \subseteq Ids'
  <2>1. UNCHANGED vars => Ids' = Ids
    BY DEF vars, Ids
  <2> QED
    BY <1>1, <2>1, QueueMoves, AsksRows, AsksCreateRows, MergesRows
<1> QED
  BY <1>1, <1>2, <1>3 DEF RowsAdded, RowStays

LEMMA PlainSteps ==
  ASSUME CalmInv, [SyncNext]_syncVars, Plain'
  PROVE  /\ Plain /\ CalmStep /\ NothingLost /\ BaseInv
         /\ \A h \in Handlers : Handle(h) => RowsAdded(h)
<1>1. BaseInv
  BY DEF CalmInv, ProtectInv, TargetInv, IdsInv, CreateInv
<1>2. Calm /\ CalmStep /\ NothingLost
  BY <1>1, CalmSteps DEF Plain, CalmInv
<1>3. \A h \in Handlers : Handle(h) => RowsAdded(h)
  BY <1>1, <1>2, HandlersAddRows DEF Plain
<1>4. ASSUME NEW h \in Handlers, RowsAdded(h) PROVE OnlyUpdates
  <2>1. Ids \subseteq Ids' /\ \A i \in Ids : write_queue'[i] = write_queue[i]
    BY <1>4 DEF RowsAdded
  <2> QED
    BY <2>1 DEF OnlyUpdates, Plain
<1>5. ASSUME ~\E h \in Handlers : Handle(h) PROVE OnlyUpdates
  <2>1. PushDelta \/ AckBatch \/ LeaseBatch \/ LeaseTime \/ QuietStep
    BY <1>2, <1>5 DEF CalmStep, ItemStep, QuietStep
  <2>2. Ids' = Ids /\ \A i \in Ids : /\ Work(write_queue'[i]) = Work(write_queue[i])
                                     /\ write_queue'[i].secondary = write_queue[i].secondary
    BY <1>1, <2>1, TransactionsSettle DEF RowsSettle, RowsKept
  <2>3. \A i \in Ids : write_queue'[i].action = write_queue[i].action
    BY <2>2 DEF Work
  <2>4. \A i \in Ids' : write_queue'[i].action = "update" /\ write_queue'[i].secondary = NULL
    BY DEF OnlyUpdates, Plain
  <2> QED
    BY <2>2, <2>3, <2>4 DEF OnlyUpdates
<1> QED
  BY <1>1, <1>2, <1>3, <1>4, <1>5 DEF Plain

-----------------------------------------------------------------------------
(***************************************************************************)
(* The handler.                                                            *)
(***************************************************************************)
\* The step a handler comes to, and what brings it there.
LEMMA MoveSteps ==
  ASSUME HubInv, NEW h \in Handlers, Moves(h)
  PROVE  \/ At(h, "idle")'
         \/ At(h, "check_key")' /\ \E c \in Calls : ReadsNote(h, c)
         \/ /\ handlers'[h].step \in {"update_note", "enqueue", "find_create"}
            /\ ChoosesWrite(h) /\ At(h, "check_key") /\ SameHandler(h) /\ UNCHANGED <<vars, notes>>
            /\ At(h, "enqueue")' => handlers[h].call.action = "add_tag"
         \/ /\ At(h, "coalesce")' /\ At(h, "find_create") /\ SameHandler(h)
            /\ UNCHANGED <<vars, notes>>
         \/ /\ At(h, "enqueue")' /\ SameHandler(h)
            /\ Writes(h, "update_note", Changed(handlers[h].call, handlers[h].copy),
                      StepTo(handlers[h], "enqueue"))
         \/ At(h, "create_note")'
         \/ At(h, "delete_orphan")' /\ \E i \in Ids : /\ write_queue[i].status = "failed"
                                                      /\ write_queue[i].action = "create"
         \/ At(h, "delete_created")' /\ SameHandler(h) /\ \E i \in Nat : AsksCreate(h, i)
         \/ /\ At(h, "update_coalesced")' /\ At(h, "coalesce") /\ SameHandler(h)
            /\ UNCHANGED notes
         \/ At(h, "enqueue_create")'
<1> USE DEF At
<1>1. handlers'[h] = Idle => At(h, "idle")'
  BY DEF Idle
<1>2. \A to \in Steps : HandlerBecomes(h, StepTo(handlers[h], to)) => At(h, to)' /\ SameHandler(h)
  BY StepToFields DEF HandlerBecomes, SameHandler
<1>3. ASSUME Forgets(h) \/ \E i \in Nat : Asks(h, i)
      PROVE  At(h, "idle")'
  BY <1>1, <1>3 DEF Forgets, Asks, HandlerBecomes
<1>4. ASSUME NEW c \in Calls, ReadsNote(h, c)
      PROVE  At(h, "check_key")'
  BY <1>4 DEF ReadsNote, HandlerBecomes
<1>5. ASSUME NEW c \in Calls, StartsCreate(h, c)
      PROVE  \/ At(h, "create_note")'
             \/ At(h, "delete_orphan")' /\ \E i \in Ids : /\ write_queue[i].status = "failed"
                                                          /\ write_queue[i].action = "create"
  <2>1. CASE HandlerBecomes(h, [step |-> "create_note", call |-> c, note_id |-> NULL, copy |-> NULL])
    BY <2>1 DEF HandlerBecomes
  <2>2. ASSUME NEW i \in Ids, write_queue[i].status = "failed",
               HandlerBecomes(h, [step |-> "delete_orphan", call |-> c,
                                  note_id |-> write_queue[i].note_id, copy |-> NULL])
        PROVE  At(h, "delete_orphan")'
    BY <2>2 DEF HandlerBecomes
  <2> QED
    BY <1>5, <2>1, <2>2 DEF StartsCreate
<1>6. ASSUME ChoosesWrite(h)
      PROVE  /\ SameHandler(h) /\ UNCHANGED <<vars, notes>>
             /\ \/ /\ handlers'[h].step \in {"update_note", "enqueue", "find_create"}
                   /\ At(h, "check_key")
                \/ At(h, "coalesce")' /\ At(h, "find_create")
             /\ At(h, "enqueue")' => handlers[h].call.action = "add_tag"
  <2>1. PICK from \in {"check_key", "find_create"},
             to \in {"enqueue", "find_create", "coalesce", "update_note"} :
          /\ Turns(h, from, to)
          /\ to = "coalesce" <=> from = "find_create"
          /\ to = "enqueue" => handlers[h].call.action = "add_tag"
    BY <1>6 DEF ChoosesWrite
  <2>2. to \in Steps
    BY DEF Steps
  <2> QED
    BY <1>2, <2>1, <2>2 DEF Turns
<1>7. CASE WritesSome(h)
  <2>1. CASE Writes(h, "update_note", Changed(handlers[h].call, handlers[h].copy),
                    StepTo(handlers[h], "enqueue"))
    BY <1>2, <2>1 DEF Writes, Steps
  <2>2. CASE handlers'[h] = Idle
    BY <1>1, <2>2
  <2> QED
    BY <1>7, <2>1, <2>2 DEF WritesSome, Writes, HandlerBecomes
<1>8. CASE DeletesSome(h)
  BY <1>1, <1>2, <1>8 DEF DeletesSome, Deletes, HandlerBecomes, Steps
<1>9. ASSUME NEW i \in Nat, AsksCreate(h, i)
      PROVE  At(h, "idle")' \/ (At(h, "delete_created")' /\ SameHandler(h))
  BY <1>1, <1>2, <1>9 DEF AsksCreate, HandlerBecomes, Steps
<1>10. ASSUME NEW i \in Ids, Merges(h, i)
       PROVE  /\ At(h, "update_coalesced")' /\ At(h, "coalesce") /\ SameHandler(h)
              /\ UNCHANGED notes
  BY <1>2, <1>10 DEF Merges, Steps
<1>11. ASSUME NEW n \in HubIds, Inserts(h, n)
       PROVE  At(h, "enqueue_create")'
  BY <1>11 DEF Inserts, HandlerBecomes
<1> QED
  BY <1>3, <1>4, <1>5, <1>6, <1>7, <1>8, <1>9, <1>10, <1>11 DEF Moves

\* A handler at check_key or enqueue makes that store call.
LEMMA HandlerCalls ==
  ASSUME NEW h \in Handlers, Handle(h)
  PROVE  /\ At(h, "check_key") => CheckKey(h)
         /\ At(h, "enqueue") => Enqueue(h)
BY DEF Handle, HandlerStep, At, GetNote, CheckCreateKey, CheckKey, WriteNote, Enqueue, RestoreNote,
   FindCreate, Coalesce, UpdateCoalesced, DeleteOrphan, InsertNote, EnqueueCreate, DeleteCreated

\* No row answers to the key of a handler that writes.
LEMMA KeysUnused ==
  ASSUME HubInv, NothingLost, NEW h \in Handlers, Handle(h), Moves(h), HandlerFacts(h),
         handlers'[h].step \in {"update_note", "enqueue"}
  PROVE  Found(handlers[h].call)' = {}
<1>1. CASE ChoosesWrite(h) /\ At(h, "check_key") /\ SameHandler(h) /\ UNCHANGED <<vars, notes>>
  <2>1. CheckKey(h)
    BY <1>1, HandlerCalls
  <2>2. ~IsReplay(handlers[h].call)
    <3>1. SUFFICES ASSUME IsReplay(handlers[h].call) PROVE FALSE
      OBVIOUS
    <3>2. handlers' = [handlers EXCEPT ![h] = Idle]
      BY <2>1, <3>1 DEF CheckKey, Answer
    <3>3. handlers'[h] = Idle
      BY <3>2, HandlerSet DEF HubInv, HandlerBecomes
    <3> QED
      BY <3>3 DEF Idle
  <2>3. Found(handlers[h].call) = {}
    BY <2>2 DEF IsReplay, Answered, NothingLost, Found, RowsForKey
  <2> QED
    BY <1>1, <2>3 DEF SameHandler, Found, RowsForKey, vars, Ids
<1>2. CASE /\ SameHandler(h)
           /\ Writes(h, "update_note", Changed(handlers[h].call, handlers[h].copy),
                     StepTo(handlers[h], "enqueue"))
  <2>1. Found(handlers[h].call) = {} /\ UNCHANGED vars
    BY <1>2 DEF HandlerFacts, Writes, At
  <2> QED
    BY <1>2, <2>1 DEF SameHandler, Found, RowsForKey, vars, Ids
<1> QED
  BY <1>1, <1>2, MoveSteps DEF At

\* Its note is one Bear has.
LEMMA PlainCopies ==
  ASSUME CreateInv, OneHandler, Plain, NEW h \in Handlers, HandlerFacts(h), Updates(h)
  PROVE  handlers[h].copy.bear_id # NULL
<1>1. OwnersKnown /\ handlers[h].note_id \in LiveNotes
  BY DEF CreateInv, OrphanInv, Plain, Calm, HandlerFacts
<1>2. SUFFICES ASSUME handlers[h].copy.bear_id = NULL PROVE FALSE
  OBVIOUS
<1>3. Owned(handlers[h].note_id)
  BY <1>1, <1>2 DEF OwnersKnown
<1>4. \A i \in Ids : write_queue[i].action # "create"
  BY DEF Plain, OnlyUpdates
<1>5. PICK g \in Handlers : handlers[g].step \in {"enqueue_create", "delete_created"}
  BY <1>3, <1>4 DEF Owned
<1>6. g = h
  BY DEF OneHandler
<1> QED
  BY <1>5, <1>6 DEF Updates, UpdateSteps

\* What it does to a note.
LEMMA PlainNotes ==
  ASSUME CreateInv, OneHandler, Plain, NEW h \in Handlers, HandlerFacts(h), Moves(h),
         NEW n \in HubIds
  PROVE  \/ notes'[n] = notes[n]
         \/ /\ n = handlers[h].note_id /\ At(h, "update_note") /\ At(h, "enqueue")'
            /\ SameHandler(h) /\ UNCHANGED vars
            /\ handlers[h].call \in Calls /\ notes[n] \in NoteRow
            /\ notes'[n] = Changed(handlers[h].call, notes[n])
         \/ /\ n = handlers[h].note_id /\ At(h, "delete_created") /\ UNCHANGED vars
            /\ At(h, "idle")' /\ notes'[n] = GONE
         \/ NoteMade(h, n)
<1>1. BaseInv /\ HubInv /\ NotesTypeOK
  BY DEF CreateInv, BaseInv, HubInv
<1>2. CASE NoteWritten(h, n)
  <2>1. /\ UNCHANGED vars /\ handlers[h].call \in Calls /\ handlers[h].copy \in NoteRow
        /\ \/ /\ At(h, "update_note")
              /\ notes'[n] = Changed(handlers[h].call, handlers[h].copy)
              /\ HandlerBecomes(h, StepTo(handlers[h], "enqueue"))
           \/ At(h, "restore")
           \/ At(h, "update_coalesced") /\ handlers[h].copy.bear_id = NULL
    BY <1>1, <1>2, WrittenRow
  <2>2. ~At(h, "restore") /\ Updates(h) /\ handlers[h].copy.bear_id # NULL /\ n = handlers[h].note_id
    BY <1>2, PlainCopies DEF NoteWritten, HandlerFacts, At
  <2>3. /\ At(h, "update_note") /\ HandlerBecomes(h, StepTo(handlers[h], "enqueue"))
        /\ notes'[n] = Changed(handlers[h].call, handlers[h].copy)
    BY <2>1, <2>2
  <2>4. handlers[h].copy = notes[n]
    BY <2>2, <2>3 DEF HandlerFacts, At
  <2>5. At(h, "enqueue")' /\ SameHandler(h)
    BY <1>1, <2>3, StepToFields DEF HandlerBecomes, SameHandler, At, Steps
  <2> QED
    BY <2>1, <2>2, <2>3, <2>4, <2>5
<1>3. ASSUME notes'[n] = GONE, notes'[n] # notes[n]
      PROVE  n = handlers[h].note_id /\ At(h, "delete_created") /\ UNCHANGED vars /\ At(h, "idle")'
  <2>1. ~UNCHANGED notes
    BY <1>3
  <2>2. ~WritesSome(h)
    BY <1>3, NotesAssumption DEF WritesSome, Writes, NoteBecomes
  <2>3. \A m \in HubIds : ~Inserts(h, m)
    <3>1. SUFFICES ASSUME NEW m \in HubIds, Inserts(h, m) PROVE FALSE
      OBVIOUS
    <3>2. n = m /\ notes'[n] = NewNote(handlers[h].call, clock) /\ At(h, "create_note")
      BY <1>3, <3>1 DEF Inserts
    <3>3. handlers[h].call \in Calls /\ handlers[h].call.action = "create" /\ clock \in Seconds
      BY <1>1, <3>2, HandlerFields DEF At, CreateSteps, BaseInv, CountersOK
    <3> QED
      BY <1>3, <3>2, <3>3, NewNoteTyped, NotesAssumption
  <2>4. DeletesSome(h)
    BY <2>1, <2>2, <2>3 DEF Moves, Forgets, ReadsNote, StartsCreate, ChoosesWrite, Turns, Asks,
       AsksCreate, Merges
  <2>5. Deletes(h, "delete_created", Idle)
    BY <2>4 DEF DeletesSome, Deletes, HandlerFacts, At
  <2> QED
    BY <1>3, <2>5, IdleShape DEF Deletes, NoteBecomes, HandlerBecomes, At
<1> QED
  BY <1>1, <1>2, <1>3, NoteMoves

\* A note that is there stays, unless the handler takes its own creation back.
LEMMA PlainNotesStay ==
  ASSUME CreateInv, OneHandler, Plain, NEW h \in Handlers, HandlerFacts(h), Moves(h),
         NEW n \in LiveNotes, ~(n = handlers[h].note_id /\ At(h, "delete_created"))
  PROVE  n \in LiveNotes'
<1>1. n \in HubIds /\ Exists(notes[n])
  BY DEF LiveNotes
<1>2. \A c \in Calls, row \in NoteRow : Exists(Changed(c, row))
  BY ChangedTyped, RowsExist
<1>3. NoteMade(h, n) => Exists(notes'[n])
  BY RowsExist DEF NoteMade
<1> QED
  BY <1>1, <1>2, <1>3, PlainNotes DEF LiveNotes

LEMMA HandlerKeepsFacts ==
  ASSUME CreateInv, OneHandler, NothingLost, Plain, NEW h \in Handlers, Handle(h), RowsAdded(h),
         HandlerFacts(h)
  PROVE  HandlerFacts(h)'
<1>1. BaseInv /\ HubInv /\ NotesTypeOK /\ Moves(h)
  BY DEF CreateInv, BaseInv, HubInv, RowsAdded
<1>2. ASSUME Updates(h)' PROVE handlers'[h].note_id \in LiveNotes'
  <2>1. CASE Updates(h) /\ SameHandler(h)
    <3>1. handlers[h].note_id \in LiveNotes /\ ~At(h, "delete_created")
      BY <2>1 DEF HandlerFacts, Updates, UpdateSteps, At
    <3> QED
      BY <1>1, <2>1, <3>1, PlainNotesStay DEF SameHandler
  <2>2. CASE \E c \in Calls : ReadsNote(h, c) /\ handlers'[h].note_id = c.note_id
    BY <2>2 DEF ReadsNote, LiveNotes
  <2> QED
    BY <1>1, <1>2, <2>1, <2>2, UpdaterMoves
<1>3. ASSUME handlers'[h].step \in {"check_key", "update_note"}
      PROVE  handlers'[h].copy = notes'[handlers'[h].note_id]
  <2>1. CASE \E c \in Calls : ReadsNote(h, c)
    BY <2>1 DEF ReadsNote, HandlerBecomes
  <2>2. CASE At(h, "check_key") /\ SameHandler(h) /\ UNCHANGED <<vars, notes>>
    BY <2>2 DEF HandlerFacts, SameHandler, At
  <2> QED
    BY <1>1, <1>3, <2>1, <2>2, MoveSteps DEF At
<1>4. ASSUME At(h, "enqueue")', handlers'[h].call.action = "update"
      PROVE  notes'[handlers'[h].note_id].body = handlers'[h].call.body
  <2>1. /\ SameHandler(h)
        /\ Writes(h, "update_note", Changed(handlers[h].call, handlers[h].copy),
                  StepTo(handlers[h], "enqueue"))
    <3>1. SameHandler(h) => handlers[h].call.action # "add_tag"
      BY <1>4 DEF SameHandler
    <3> QED
      BY <1>1, <1>4, <3>1, MoveSteps DEF At
  <2>2. Updates(h) /\ handlers[h].note_id \in LiveNotes
    BY <2>1 DEF Writes, At, Updates, UpdateSteps, HandlerFacts
  <2>3. notes'[handlers[h].note_id] = Changed(handlers[h].call, handlers[h].copy)
    BY <2>1, <2>2 DEF Writes, NoteBecomes, LiveNotes
  <2>4. handlers[h].call \in Calls /\ handlers[h].copy \in NoteRow
    BY <1>1, <2>1, <2>2, HandlerFields DEF Writes, At
  <2> QED
    BY <1>4, <2>1, <2>3, <2>4, ChangedTyped DEF SameHandler
<1>5. ASSUME handlers'[h].step \in {"update_note", "enqueue"}
      PROVE  Found(handlers[h].call)' = {}
  BY <1>1, <1>5, KeysUnused
<1>6. handlers'[h].step \notin {"delete_orphan", "restore"}
  BY <1>1, MoveSteps DEF At, NothingLost
<1>7. ASSUME At(h, "delete_created")', NEW i \in Ids'
      PROVE  write_queue'[i].note_id # handlers'[h].note_id
  <2>1. SameHandler(h) /\ \E j \in Nat : AsksCreate(h, j)
    BY <1>1, <1>7, MoveSteps DEF At
  <2>2. At(h, "enqueue_create")
    BY <2>1 DEF AsksCreate
  <2>3. \A j : ~Asks(h, j)
    BY <2>2 DEF Asks, At
  <2>4. i \in Ids /\ write_queue'[i] = write_queue[i]
    BY <2>3 DEF RowsAdded
  <2> QED
    BY <2>1, <2>2, <2>4 DEF SameHandler, CreateInv, OrphanInv, CreatorsAlone
<1> QED
  BY <1>2, <1>3, <1>4, <1>5, <1>6, <1>7 DEF HandlerFacts, At, Updates

LEMMA ChangedEcho ==
  ASSUME NEW c, NEW note \in NoteRow
  PROVE  /\ Changed(c, note).expected_bear_modified_at = note.expected_bear_modified_at
         /\ Changed(c, note).pending_bear_body = SnapshotPendingBear(note)
BY DEF Changed, NoteRow

\* The enqueue adds a row.
LEMMA EnqueueAdds ==
  ASSUME BaseInv, NothingLost, NEW h \in Handlers, Handle(h), HandlerFacts(h), At(h, "enqueue"),
         OnlyUpdates'
  PROVE  \E i \in Ids' \ Ids : Active(write_queue'[i]) /\ write_queue'[i].note_id = handlers[h].note_id
<1> DEFINE w == Write(handlers[h].call, handlers[h].note_id, handlers[h].copy.bear_id)
<1>1. TypeOK /\ HubInv /\ EnqueueWrite(w) /\ Found(handlers[h].call) = {}
  BY HandlerCalls DEF BaseInv, HubInv, Enqueue, HandlerFacts, At
<1>2. w \in Requests /\ w.note_id = handlers[h].note_id
  <2>1. Updates(h) /\ ~At(h, "idle")
    BY DEF At, Updates, UpdateSteps
  <2>2. /\ handlers[h].call \in Calls /\ handlers[h].note_id \in HubIds
        /\ handlers[h].copy.bear_id \in BearIds \cup {NULL}
    BY <1>1, <2>1, HandlerFields
  <2> QED
    BY <2>2, WriteFields
<1>3. RowsForKey(w.key, w.consumer) = {}
  BY <1>1 DEF Found, Write
<1> HIDE DEF w
<1>4. ASSUME NEW i \in Ids, CoalesceUpdate(w, i) PROVE FALSE
  <2>1. write_queue' = [write_queue EXCEPT ![i].payload = w.payload, ![i].secondary = w.key]
    BY <1>4 DEF CoalesceUpdate
  <2>2. i \in Ids' /\ write_queue'[i].secondary = w.key
    BY <1>1, <2>1, TableShape DEF Ids, Row
  <2> QED
    BY <1>2, <2>2, RequestsAssumption DEF OnlyUpdates
<1>5. InsertRow(w)
  BY <1>1, <1>3, <1>4 DEF EnqueueWrite, IdempotencyHit
<1> DEFINE i == Len(write_queue) + 1
<1>6. Ids' = Ids \cup {i} /\ i \notin Ids /\ write_queue'[i] = NewRow(w)
  BY <1>1, <1>5, TableShape DEF InsertRow, Ids, TypeOK
<1> QED
  BY <1>2, <1>6 DEF NewRow, Active

LEMMA HandlerKeepsLastWord ==
  ASSUME CreateInv, OneHandler, NothingLost, Plain, OnlyUpdates', EchoFacts,
         NEW h \in Handlers, Handle(h), RowsAdded(h)
  PROVE  RowsLive' /\ LastWord'
<1>1. BaseInv /\ HubInv /\ Moves(h) /\ HandlerFacts(h) /\ RowsLive /\ LastWord
  BY DEF CreateInv, BaseInv, RowsAdded, EchoFacts
<1>2. \A i \in Ids : write_queue[i].note_id \in LiveNotes'
  BY <1>1, PlainNotesStay DEF RowsLive, HandlerFacts
<1>3. ASSUME NEW i \in Ids' \ Ids
      PROVE  /\ write_queue'[i].note_id = handlers[h].note_id /\ UNCHANGED notes
             /\ handlers[h].note_id \in LiveNotes
             /\ notes[handlers[h].note_id].body = write_queue'[i].payload.body
  <2>1. /\ At(h, "enqueue") /\ UNCHANGED notes /\ AskedRow(h, i, handlers[h].copy.bear_id)
        /\ handlers[h].call.action = "update"
    BY <1>3 DEF RowsAdded, Asks
  <2> QED
    BY <1>1, <2>1 DEF AskedRow, HandlerFacts, At, Updates, UpdateSteps
<1>4. RowsLive'
  <2>1. \A i \in Ids' \ Ids : write_queue'[i].note_id \in LiveNotes'
    BY <1>3 DEF LiveNotes
  <2> QED
    BY <1>2, <2>1 DEF RowsLive, RowsAdded
<1>5. ASSUME NEW n \in LiveNotes', NEW i \in Ids', NewestActive(n, i)', ~AboutToEnqueue(n)'
      PROVE  notes'[n].body = write_queue'[i].payload.body
  <2>1. CASE i \notin Ids
    BY <1>3, <1>5, <2>1 DEF NewestActive
  <2>2. CASE i \in Ids
    <3>1. Ids \subseteq Ids' /\ \A j \in Ids : write_queue'[j] = write_queue[j]
      BY DEF RowsAdded
    <3>2. NewestActive(n, i) /\ n \in LiveNotes
      BY <1>1, <1>5, <2>2, <3>1 DEF NewestActive, RowsLive
    <3>3. ~AboutToEnqueue(n)
      <4>1. SUFFICES ASSUME At(h, "enqueue"), handlers[h].note_id = n PROVE FALSE
        BY DEF AboutToEnqueue, OneHandler
      <4>2. PICK j \in Ids' \ Ids : Active(write_queue'[j]) /\ write_queue'[j].note_id = n
        BY <1>1, <4>1, EnqueueAdds
      <4>3. j <= i
        BY <1>5, <4>2 DEF NewestActive
      <4> QED
        BY <1>1, <2>2, <4>2, <4>3, TableShape DEF HubInv, Ids
    <3>4. notes[n].body = write_queue'[i].payload.body
      BY <1>1, <2>2, <3>1, <3>2, <3>3 DEF LastWord
    <3>5. notes'[n] = notes[n]
      <4>1. n \in HubIds /\ Exists(notes[n]) /\ Exists(notes'[n])
        BY <1>5, <3>2 DEF LiveNotes
      <4>2. ~(At(h, "enqueue")' /\ SameHandler(h) /\ n = handlers[h].note_id)
        BY <1>5 DEF AboutToEnqueue, SameHandler
      <4>3. notes[n] # NULL /\ notes'[n] # GONE
        BY <4>1 DEF Exists
      <4> QED
        BY <1>1, <4>1, <4>2, <4>3, PlainNotes DEF NoteMade
    <3> QED
      BY <3>4, <3>5
  <2> QED
    BY <2>1, <2>2
<1> QED
  BY <1>4, <1>5 DEF LastWord

LEMMA HandlerKeepsEchoes ==
  ASSUME IdsInv, OneHandler, NothingLost, Plain, EchoFacts, NEW h \in Handlers, RowsAdded(h)
  PROVE  NotesClean' /\ EchoKnown'
<1>1. /\ CreateInv /\ BaseInv /\ HubInv /\ Moves(h) /\ HandlerFacts(h) /\ NotesClean /\ EchoKnown
      /\ BearInv /\ IdsGivenByBear /\ UNCHANGED <<phase, bear, pushed>>
  BY DEF IdsInv, CreateInv, BaseInv, RowsAdded, EchoFacts, bridgeVars, worldVars
<1>2. ASSUME NEW n \in LiveNotes', notes'[n] # notes[n]
      PROVE  /\ notes'[n].sync_status = "pending_to_bear"
             /\ \/ notes'[n].bear_id = NULL
                \/ /\ handlers[h].call \in Calls /\ n \in LiveNotes /\ notes[n] \in NoteRow
                   /\ notes'[n] = Changed(handlers[h].call, notes[n])
  <2>1. n \in HubIds /\ Exists(notes'[n])
    BY DEF LiveNotes
  <2>2. notes'[n] # GONE
    BY <2>1 DEF Exists
  <2>3. CASE NoteMade(h, n)
    BY <2>3 DEF NoteMade
  <2>4. CASE /\ handlers[h].call \in Calls /\ notes[n] \in NoteRow
             /\ notes'[n] = Changed(handlers[h].call, notes[n])
    BY <2>1, <2>4, ChangedTyped, RowsExist DEF LiveNotes
  <2> QED
    BY <1>1, <1>2, <2>1, <2>2, <2>3, <2>4, PlainNotes
<1>3. NotesClean'
  <2>1. ASSUME NEW n \in LiveNotes', notes'[n] = notes[n] PROVE n \in LiveNotes
    BY <2>1 DEF LiveNotes
  <2> QED
    BY <1>1, <1>2, <2>1 DEF NotesClean
<1>4. ASSUME phase \in {"start", "push"}, NEW n \in LiveNotes', notes'[n].bear_id # NULL,
             bear[notes'[n].bear_id] # pushed[notes'[n].bear_id]
      PROVE  /\ notes'[n].sync_status = "pending_to_bear" =>
                  \/ notes'[n].expected_bear_modified_at = bear[notes'[n].bear_id].modified_at
                  \/ notes'[n].pending_bear_body = bear[notes'[n].bear_id].body
             /\ notes'[n].sync_status = "synced" => notes'[n].body = bear[notes'[n].bear_id].body
  <2>1. CASE notes'[n] = notes[n]
    <3>1. n \in LiveNotes
      BY <2>1 DEF LiveNotes
    <3> QED
      BY <1>1, <1>4, <2>1, <3>1 DEF EchoKnown
  <2>2. CASE notes'[n] # notes[n]
    <3> DEFINE row == notes[n]
               b == row.bear_id
    <3>1. /\ handlers[h].call \in Calls /\ n \in LiveNotes /\ row \in NoteRow
          /\ notes'[n] = Changed(handlers[h].call, row)
          /\ notes'[n].sync_status = "pending_to_bear"
      BY <1>2, <1>4, <2>2
    <3>2. /\ notes'[n].bear_id = b
          /\ notes'[n].expected_bear_modified_at = row.expected_bear_modified_at
          /\ notes'[n].pending_bear_body = SnapshotPendingBear(row)
      BY <3>1, ChangedTyped, ChangedEcho
    <3>3. b \in BearIds /\ bear[b] # NULL /\ bear[b] # GONE
      BY <1>1, <1>4, <3>1, <3>2 DEF NoteRow, IdsGivenByBear, NothingLost
    <3>4. bear[b].body # NULL
      BY <1>1, <3>3, BearCases, NotesAssumption DEF Exists, BearNote
    <3>5. row.sync_status # "conflict"
          /\ (row.sync_status = "synced" => row.pending_bear_body = NULL)
      BY <1>1, <3>1 DEF NotesClean
    <3>6. /\ row.sync_status = "pending_to_bear" =>
               \/ row.expected_bear_modified_at = bear[b].modified_at
               \/ row.pending_bear_body = bear[b].body
          /\ row.sync_status = "synced" => row.body = bear[b].body
      BY <1>1, <1>4, <3>1, <3>2 DEF EchoKnown
    <3>7. CASE row.sync_status = "pending_to_bear"
      BY <3>1, <3>2, <3>4, <3>6, <3>7 DEF SnapshotPendingBear
    <3>8. CASE row.sync_status = "synced"
      BY <3>1, <3>2, <3>5, <3>6, <3>8 DEF SnapshotPendingBear
    <3> QED
      BY <3>1, <3>5, <3>7, <3>8 DEF NoteRow, SyncStatuses
  <2> QED
    BY <2>1, <2>2
<1> QED
  BY <1>1, <1>3, <1>4 DEF EchoKnown

LEMMA HandlerKeepsEcho ==
  ASSUME IdsInv, OneHandler, NothingLost, Plain, OnlyUpdates', EchoFacts,
         NEW h \in Handlers, Handle(h), RowsAdded(h)
  PROVE  EchoFacts'
<1>1. /\ CreateInv /\ BaseInv /\ HubInv /\ BatchShape /\ HandlerFacts(h) /\ TypeOK
      /\ UNCHANGED <<phase, bear, pushed, delta, batch, acks>>
  BY DEF IdsInv, CreateInv, BaseInv, BridgeInv, HubInv, RowsAdded, EchoFacts, bridgeVars, worldVars
<1>2. \A g \in Handlers : HandlerFacts(g)'
  <2>1. HandlerFacts(h)'
    BY <1>1, HandlerKeepsFacts
  <2> QED
    BY <2>1 DEF OneHandler
<1>3. RowsLive' /\ LastWord' /\ NotesClean' /\ EchoKnown'
  BY <1>1, HandlerKeepsLastWord, HandlerKeepsEchoes
<1>4. BatchOldest'
  <2>1. BatchOldest /\ DOMAIN batch \subseteq Ids
    BY <1>1 DEF EchoFacts, BatchShape
  <2>2. ASSUME NEW i \in Ids' \ Ids
        PROVE  write_queue'[i].status = "pending" /\ \A j \in Ids : j < i
    <3>1. write_queue'[i].status = "pending"
      BY DEF RowsAdded, AskedRow
    <3>2. Len(write_queue) \in Nat /\ i \in Nat /\ i \notin 1..Len(write_queue) /\ i >= 1
      BY <1>1, TableShape DEF Ids
    <3> QED
      BY <3>1, <3>2 DEF Ids
  <2>3. Ids \subseteq Ids' /\ \A i \in Ids : write_queue'[i] = write_queue[i]
    BY DEF RowsAdded
  <2>4. \A i \in Ids' : write_queue'[i].status = "processing" => i \in DOMAIN batch
    BY <2>1, <2>2, <2>3 DEF BatchOldest
  <2>5. \A i \in DOMAIN batch, j \in Ids' \ DOMAIN batch : Active(write_queue'[j]) => i < j
    BY <2>1, <2>2, <2>3 DEF BatchOldest
  <2> QED
    BY <1>1, <2>1, <2>4, <2>5 DEF BatchOldest
<1>5. DeltaIsBear' /\ WritesAcked'
  BY <1>1 DEF EchoFacts, DeltaIsBear, ChangedInBear, WritesAcked, TargetOf
<1>6. \A i \in DOMAIN acks' : AckTells(i)'
  BY <1>1 DEF EchoFacts, AckTells, Verifying, LastAcked, LastFor, TargetOf, BodyOf
<1> QED
  BY <1>2, <1>3, <1>4, <1>5, <1>6 DEF EchoFacts

-----------------------------------------------------------------------------
(***************************************************************************)
(* The bridge's cycle up to the acknowledgement.                           *)
(***************************************************************************)
\* The rows as far as handlers and notes are concerned.
RowsSame ==
  /\ Ids' = Ids
  /\ \A i \in Ids :
       /\ write_queue'[i].key = write_queue[i].key
       /\ write_queue'[i].secondary = write_queue[i].secondary
       /\ write_queue'[i].consumer = write_queue[i].consumer
       /\ write_queue'[i].note_id = write_queue[i].note_id
       /\ write_queue'[i].payload = write_queue[i].payload
       /\ Active(write_queue'[i]) <=> Active(write_queue[i])

LEMMA HubFactsKept ==
  ASSUME EchoFacts, RowsSame, UNCHANGED <<notes, handlers>>
  PROVE  (\A h \in Handlers : HandlerFacts(h)') /\ RowsLive' /\ NotesClean' /\ LastWord'
<1>1. \A c : Found(c)' = Found(c)
  BY DEF RowsSame, Found, RowsForKey
<1>2. \A h \in Handlers : HandlerFacts(h)'
  <2> SUFFICES ASSUME NEW h \in Handlers PROVE HandlerFacts(h)'
    OBVIOUS
  <2>1. HandlerFacts(h) /\ Found(handlers[h].call)' = Found(handlers[h].call)
    BY <1>1 DEF EchoFacts
  <2> QED
    BY <2>1 DEF HandlerFacts, RowsSame, Updates, At, LiveNotes
<1>3. RowsLive' /\ NotesClean'
  BY DEF EchoFacts, RowsSame, RowsLive, NotesClean, LiveNotes
<1>4. LastWord'
  <2>1. \A n : \A i \in Ids : NewestActive(n, i)' => NewestActive(n, i)
    BY DEF RowsSame, NewestActive
  <2>2. \A n : AboutToEnqueue(n)' <=> AboutToEnqueue(n)
    BY DEF AboutToEnqueue, At
  <2>3. LastWord
    BY DEF EchoFacts
  <2> QED
    BY <2>1, <2>2, <2>3 DEF LastWord, RowsSame, LiveNotes
<1> QED
  BY <1>2, <1>3, <1>4

LEMMA UnchangedRowsSame ==
  ASSUME UNCHANGED vars
  PROVE  RowsSame
BY DEF RowsSame, vars, Ids

LEMMA TickRowsSame ==
  ASSUME TypeOK, Tick
  PROVE  RowsSame /\ \A i \in Ids : write_queue'[i].status = write_queue[i].status
<1>1. write_queue \in [Ids -> Row] /\ DOMAIN write_queue' = Ids
  BY TableShape DEF Tick
<1>2. Ids' = Ids
  BY TickSettles DEF RowsSettle, RowsKept
<1> QED
  BY <1>1, <1>2 DEF Tick, RowsSame, Row, Active

LEMMA LeaseRowsSame ==
  ASSUME TypeOK, LeaseQueueItems
  PROVE  RowsSame
<1>1. write_queue \in [Ids -> Row]
  BY TableShape
<1>2. Ids' = Ids /\ \A i \in Ids : Active(write_queue[i]) <=> Active(write_queue'[i])
  BY LeaseSettles DEF RowsSettle, RowsKept
<1>3. ASSUME NEW i \in Ids
      PROVE  /\ write_queue'[i].key = write_queue[i].key
             /\ write_queue'[i].secondary = write_queue[i].secondary
             /\ write_queue'[i].consumer = write_queue[i].consumer
             /\ write_queue'[i].note_id = write_queue[i].note_id
             /\ write_queue'[i].payload = write_queue[i].payload
  <2>1. write_queue'[i] = AfterLease(i) /\ write_queue[i] \in Row
    BY <1>1 DEF LeaseQueueItems
  <2> QED
    BY <2>1 DEF AfterLease, Row
<1> QED
  BY <1>2, <1>3 DEF RowsSame

LEMMA TimeKeepsEcho ==
  ASSUME BaseInv, EchoFacts, LeaseTime
  PROVE  EchoFacts'
<1>1. TypeOK
  BY DEF BaseInv, HubInv
<1>2. RowsSame /\ \A i \in Ids : write_queue'[i].status = write_queue[i].status
  BY <1>1, TickRowsSame DEF LeaseTime
<1>3. UNCHANGED <<notes, handlers, phase, bear, pushed, delta, batch, acks>>
  BY DEF LeaseTime, bridgeVars, worldVars
<1>4. (\A h \in Handlers : HandlerFacts(h)') /\ RowsLive' /\ NotesClean' /\ LastWord'
  BY <1>2, <1>3, HubFactsKept
<1>5. DeltaIsBear' /\ EchoKnown' /\ WritesAcked'
  BY <1>3 DEF EchoFacts, DeltaIsBear, ChangedInBear, EchoKnown, LiveNotes, WritesAcked, TargetOf
<1>6. BatchOldest'
  BY <1>2, <1>3 DEF EchoFacts, BatchOldest, RowsSame
<1>7. \A i \in DOMAIN acks' : AckTells(i)'
  BY <1>3 DEF EchoFacts, AckTells, Verifying, LastAcked, LastFor, TargetOf, BodyOf
<1> QED
  BY <1>4, <1>5, <1>6, <1>7 DEF EchoFacts

LEMMA ReadKeepsEcho ==
  ASSUME BaseInv, EchoFacts, ReadDelta
  PROVE  EchoFacts'
<1>1. /\ UNCHANGED vars /\ UNCHANGED <<notes, handlers, bear, pushed, batch, acks>>
      /\ phase = "start" /\ phase' \in {"push", "lease"} /\ DOMAIN acks = {}
  BY DEF ReadDelta, handlerVars, worldVars, BaseInv, BridgeInv, BatchShape
<1>2. (\A h \in Handlers : HandlerFacts(h)') /\ RowsLive' /\ NotesClean' /\ LastWord'
  BY <1>1, UnchangedRowsSame, HubFactsKept
<1>3. DeltaIsBear'
  BY <1>1 DEF ReadDelta, DeltaIsBear, ChangedInBear
<1>4. EchoKnown' /\ WritesAcked'
  BY <1>1 DEF EchoFacts, EchoKnown, LiveNotes, WritesAcked
<1>5. BatchOldest'
  BY <1>1 DEF EchoFacts, BatchOldest, vars, Ids
<1> QED
  BY <1>1, <1>2, <1>3, <1>4, <1>5 DEF EchoFacts

LEMMA StutterKeepsEcho ==
  ASSUME EchoFacts, UNCHANGED syncVars
  PROVE  EchoFacts'
<1>1. UNCHANGED vars /\ UNCHANGED <<notes, handlers, phase, bear, pushed, delta, batch, acks>>
  BY DEF syncVars, handlerVars, bridgeVars, worldVars
<1>2. (\A h \in Handlers : HandlerFacts(h)') /\ RowsLive' /\ NotesClean' /\ LastWord'
  BY <1>1, UnchangedRowsSame, HubFactsKept
<1>3. DeltaIsBear' /\ EchoKnown' /\ WritesAcked'
  BY <1>1 DEF EchoFacts, DeltaIsBear, ChangedInBear, EchoKnown, LiveNotes, WritesAcked, TargetOf
<1>4. BatchOldest'
  BY <1>1 DEF EchoFacts, BatchOldest, vars, Ids
<1>5. \A i \in DOMAIN acks' : AckTells(i)'
  BY <1>1 DEF EchoFacts, AckTells, Verifying, LastAcked, LastFor, TargetOf, BodyOf
<1> QED
  BY <1>2, <1>3, <1>4, <1>5 DEF EchoFacts

\* The rows that stay behind are newer than those leased.
LEMMA LeaseTakesOldRows ==
  ASSUME TypeOK, NEW i \in LeasedNow, NEW j \in Leasable \ LeasedNow
  PROVE  i < j
<1>1. Leasable \subseteq Ids /\ Len(write_queue) \in Nat /\ Ids = 1..Len(write_queue)
  BY TableShape DEF Leasable, Ids
<1> DEFINE A == {a \in Leasable : a < i}
           B == {a \in Leasable : a < j}
<1>2. i \in Ids /\ j \in Ids /\ i # j
  BY <1>1 DEF LeasedNow
<1>3. SUFFICES ASSUME j < i PROVE FALSE
  BY <1>1, <1>2
<1>4. B \subseteq A
  <2> SUFFICES ASSUME NEW a \in Leasable, a < j PROVE a < i
    OBVIOUS
  <2>1. a \in Ids
    BY <1>1
  <2> QED
    BY <1>1, <1>2, <1>3, <2>1
<1>5. IsFiniteSet(A)
  <2>1. A \subseteq 1..Len(write_queue)
    BY <1>1
  <2>2. IsFiniteSet(1..Len(write_queue))
    BY <1>1, FS_Interval
  <2> QED
    BY <2>1, <2>2, FS_Subset
<1>6. IsFiniteSet(B) /\ Cardinality(B) <= Cardinality(A)
  BY <1>4, <1>5, FS_Subset
<1>7. Cardinality(A) \in Nat /\ Cardinality(B) \in Nat
  BY <1>5, <1>6, FS_CardinalityType
<1>8. Cardinality(A) < LeaseLimit /\ ~(Cardinality(B) < LeaseLimit) /\ LeaseLimit \in Nat
  BY LeaseAssumption DEF LeasedNow
<1> QED
  BY <1>6, <1>7, <1>8

LEMMA LeaseKeepsEcho ==
  ASSUME BaseInv, EchoFacts, LeaseBatch
  PROVE  EchoFacts'
<1>1. /\ TypeOK /\ LeaseQueueItems /\ phase = "lease" /\ DOMAIN batch = {} /\ DOMAIN acks = {}
      /\ UNCHANGED <<notes, handlers, bear, pushed, delta, acks>> /\ DOMAIN batch' = LeasedNow
      /\ phase' \in {"start", "apply"}
  BY DEF LeaseBatch, BaseInv, HubInv, BridgeInv, BatchShape, worldVars
<1>2. RowsSame
  BY <1>1, LeaseRowsSame
<1>3. (\A h \in Handlers : HandlerFacts(h)') /\ RowsLive' /\ NotesClean' /\ LastWord'
  BY <1>1, <1>2, HubFactsKept
<1>4. ChangedInBear = {}
  BY <1>1 DEF EchoFacts, DeltaIsBear
<1>5. \A b \in BearIds : bear[b] = pushed[b]
  BY <1>4 DEF ChangedInBear
<1>6. DeltaIsBear' /\ WritesAcked'
  BY <1>1, <1>5 DEF DeltaIsBear, WritesAcked
<1>7. EchoKnown'
  <2>1. \A n \in LiveNotes' : notes'[n].bear_id # NULL => notes'[n].bear_id \in BearIds
    BY <1>1, LiveTyped DEF LiveNotes, BaseInv
  <2> QED
    BY <1>1, <1>5, <2>1 DEF EchoKnown
<1>8. ASSUME NEW i \in DOMAIN batch' PROVE ~batch'[i].conflict
  <2>1. i \in LeasedNow /\ batch'[i].conflict = InConflict(i)
    BY <1>1 DEF LeaseBatch
  <2> QED
    BY <2>1 DEF InConflict, EchoFacts, NotesClean
<1>9. \A i \in Ids : write_queue[i].status # "processing"
  BY <1>1 DEF EchoFacts, BatchOldest
<1>10. ASSUME NEW i \in Ids, write_queue'[i].status = "processing" PROVE i \in LeasedNow
  BY <1>1, <1>9, <1>10, TableShape DEF LeaseQueueItems, AfterLease, Row
<1>11. ASSUME NEW i \in LeasedNow, NEW j \in Ids \ LeasedNow, Active(write_queue'[j])
       PROVE  i < j
  <2>1. Active(write_queue[j])
    BY <1>2, <1>11 DEF RowsSame
  <2>2. j \in Leasable
    BY <1>9, <2>1 DEF Active, Leasable
  <2> QED
    BY <1>1, <1>11, <2>2, LeaseTakesOldRows
<1>12. BatchOldest'
  BY <1>1, <1>2, <1>8, <1>10, <1>11 DEF BatchOldest, RowsSame
<1> QED
  BY <1>1, <1>3, <1>6, <1>7, <1>12 DEF EchoFacts

\* An item is applied: Bear's note has the body that was asked for.
LEMMA ItemKeepsEcho ==
  ASSUME BaseInv, OnlyUpdates, EchoFacts, NEW i \in Nat, Turn(i), NEW ack,
         acks' = Put(acks, i, ack), UNCHANGED <<handlerVars, pushed, delta, batch>>,
         \A c \in BearIds \ {TargetOf(i)} : bear'[c] = bear[c],
         bear'[TargetOf(i)].body = BodyOf(i), ~ack.conflict_resolved,
         \/ /\ phase' \in {"apply", "ack"} /\ ack.bear_id = NULL
            /\ ack.bear_modified_at = bear'[TargetOf(i)].modified_at
         \/ phase' = "verify" /\ ack.bear_id = TargetOf(i)
  PROVE  EchoFacts'
<1>1. /\ UNCHANGED vars /\ UNCHANGED <<notes, handlers, pushed, delta, batch>> /\ phase = "apply"
      /\ phase' \in {"apply", "ack", "verify"}
  BY DEF handlerVars, Turn
<1>2. (\A h \in Handlers : HandlerFacts(h)') /\ RowsLive' /\ NotesClean' /\ LastWord'
  BY <1>1, UnchangedRowsSame, HubFactsKept
<1>3. DeltaIsBear' /\ EchoKnown'
  BY <1>1 DEF DeltaIsBear, EchoKnown
<1>4. BatchOldest'
  BY <1>1 DEF EchoFacts, BatchOldest, vars, Ids
<1>5. /\ i \in Todo /\ DOMAIN acks' = DOMAIN acks \cup {i} /\ acks'[i] = ack
      /\ \A k \in DOMAIN acks : acks'[k] = acks[k] /\ k # i
  BY DEF Turn, Todo, Put
<1>6. \A k \in DOMAIN acks : k < i /\ k \in Nat
  BY <1>5 DEF BaseInv, BridgeInv, BatchShape, Ids
<1>7. \A k : TargetOf(k)' = TargetOf(k) /\ BodyOf(k)' = BodyOf(k)
  BY <1>1 DEF TargetOf, BodyOf
<1>8. \A k \in DOMAIN acks \cup {i} : TargetOf(k) \in BearIds
  <2> SUFFICES ASSUME NEW k \in DOMAIN acks \cup {i} PROVE TargetOf(k) \in BearIds
    OBVIOUS
  <2>1. k \in DOMAIN batch
    BY <1>5 DEF Todo, BaseInv, BridgeInv, BatchShape
  <2>2. k \in Ids /\ ActionOf(k) = write_queue[k].action /\ TargetOf(k) \in BearIds \cup {NULL}
        /\ (TargetOf(k) = NULL => ActionOf(k) = "create")
    BY <2>1, BatchItem
  <2> QED
    BY <2>2 DEF OnlyUpdates
<1>9. WritesAcked'
  <2> SUFFICES ASSUME NEW b \in BearIds, bear'[b] # pushed[b]
               PROVE  \E k \in DOMAIN acks' : TargetOf(k) = b
    BY <1>1, <1>7 DEF WritesAcked
  <2>1. CASE b = TargetOf(i)
    BY <1>5, <2>1
  <2>2. CASE b # TargetOf(i)
    BY <1>1, <1>5, <2>2 DEF EchoFacts, WritesAcked
  <2> QED
    BY <2>1, <2>2
<1>10. AckTells(i)'
  <2>1. LastAcked(i)'
    BY <1>5, <1>6 DEF LastAcked
  <2> QED
    BY <1>5, <1>7, <2>1 DEF AckTells, Verifying
<1>11. ASSUME NEW k \in DOMAIN acks PROVE AckTells(k)'
  <2>1. ~LastAcked(k)'
    BY <1>5, <1>6 DEF LastAcked
  <2>2. ~Verifying(k)' /\ ~Verifying(k)
    BY <1>1, <2>1 DEF Verifying
  <2>3. AckTells(k)
    BY DEF EchoFacts
  <2>4. ASSUME LastFor(k)' PROVE LastFor(k) /\ TargetOf(k) # TargetOf(i)
    <3>1. \A j \in DOMAIN acks \cup {i} : TargetOf(j) = TargetOf(k) => j <= k
      BY <1>5, <1>7, <2>4 DEF LastFor
    <3> QED
      BY <1>6, <3>1 DEF LastFor
  <2>5. TargetOf(k) # TargetOf(i) => bear'[TargetOf(k)] = bear[TargetOf(k)]
    BY <1>8
  <2> QED
    BY <1>5, <1>7, <2>2, <2>3, <2>4, <2>5 DEF AckTells
<1>12. \A k \in DOMAIN acks' : AckTells(k)'
  BY <1>5, <1>10, <1>11
<1> QED
  BY <1>2, <1>3, <1>4, <1>9, <1>12 DEF EchoFacts

LEMMA ItemStepKeepsEcho ==
  ASSUME BaseInv, TargetsInBear, NothingLost, OnlyUpdates, EchoFacts, NEW i \in Nat, ItemStep(i)
  PROVE  EchoFacts'
<1>1. Turn(i) /\ i \in DOMAIN batch
  BY DEF ItemStep, TargetLost, SkipItem, ChangeBear, CopyConflict, WriteBear, Turn, Todo
<1>2. ActionOf(i) = "update" /\ ~batch[i].conflict /\ TargetOf(i) \in BearIds
  <2>1. i \in Ids /\ ActionOf(i) = write_queue[i].action /\ TargetOf(i) \in BearIds \cup {NULL}
        /\ (TargetOf(i) = NULL => ActionOf(i) = "create")
    BY <1>1, BatchItem
  <2> QED
    BY <1>1, <2>1 DEF OnlyUpdates, EchoFacts, BatchOldest
<1>3. SkipItem(i) \/ \E b \in BearIds : WriteBear(i, b)
  BY <1>2, TargetsFound DEF ItemStep, ChangeBear, CopyConflict
<1>4. CASE SkipItem(i)
  <2> DEFINE ack == [Ack("applied") EXCEPT !.bear_modified_at = Modified(TargetOf(i))]
  <2>1. /\ acks' = Put(acks, i, ack) /\ UNCHANGED <<handlerVars, pushed, delta, batch, bear>>
        /\ phase' \in {"apply", "ack"}
    BY <1>2, <1>4 DEF SkipItem, Applied
  <2>2. Exists(bear[TargetOf(i)]) /\ bear[TargetOf(i)].body = BodyOf(i)
    BY <1>2, <1>4 DEF SkipItem, TargetLives, InBearAlready
  <2>3. /\ ~ack.conflict_resolved /\ ack.bear_id = NULL
        /\ ack.bear_modified_at = bear[TargetOf(i)].modified_at
    BY <2>2 DEF Ack, Modified
  <2> HIDE DEF ack
  <2> QED
    BY <1>1, <2>1, <2>2, <2>3, ItemKeepsEcho
<1>5. ASSUME NEW b \in BearIds, WriteBear(i, b) PROVE EchoFacts'
  <2> DEFINE ack == [Ack("applied") EXCEPT !.bear_id = b]
  <2>1. /\ acks' = Put(acks, i, ack) /\ UNCHANGED <<handlerVars, pushed, delta, batch>>
        /\ phase' = "verify"
    BY <1>5 DEF WriteBear
  <2>2. PICK new \in BearNote :
          /\ bear' = [bear EXCEPT ![b] = new] /\ bear'[b] = new
          /\ b = TargetOf(i) /\ new.body = BodyOf(i)
    BY <1>2, <1>5, WrittenBear
  <2>3. \A c \in BearIds \ {TargetOf(i)} : bear'[c] = bear[c]
    BY <2>2 DEF BaseInv, BearInv
  <2>4. ~ack.conflict_resolved /\ ack.bear_id = TargetOf(i)
    BY <2>2 DEF Ack
  <2> HIDE DEF ack
  <2> QED
    BY <1>1, <2>1, <2>2, <2>3, <2>4, ItemKeepsEcho
<1> QED
  BY <1>3, <1>4, <1>5

LEMMA VerifyKeepsEcho ==
  ASSUME BaseInv, TargetsInBear, NothingLost, OnlyUpdates, EchoFacts, NEW i \in Nat, Verify(i)
  PROVE  EchoFacts'
<1>1. /\ UNCHANGED vars /\ UNCHANGED <<notes, handlers, bear, pushed, delta, batch>>
      /\ phase = "verify" /\ phase' \in {"apply", "ack"} /\ LastAcked(i)
  BY DEF Verify, Verified, Written, LastAcked, handlerVars
<1>2. (\A h \in Handlers : HandlerFacts(h)') /\ RowsLive' /\ NotesClean' /\ LastWord'
  BY <1>1, UnchangedRowsSame, HubFactsKept
<1>3. DeltaIsBear' /\ EchoKnown'
  BY <1>1 DEF DeltaIsBear, EchoKnown
<1>4. BatchOldest'
  BY <1>1 DEF EchoFacts, BatchOldest, vars, Ids
<1>5. i \in DOMAIN acks /\ i \in DOMAIN batch /\ acks[i] \in AckRecord /\ Verifying(i)
  BY <1>1 DEF LastAcked, Verifying, BaseInv, BridgeInv, BatchShape
<1>6. TargetOf(i) \in BearIds /\ Exists(bear[TargetOf(i)]) /\ ActionOf(i) = "update"
  <2>1. /\ i \in Ids /\ ActionOf(i) = write_queue[i].action /\ TargetOf(i) \in BearIds \cup {NULL}
        /\ (TargetOf(i) = NULL => ActionOf(i) = "create")
        /\ TargetOf(i) = write_queue[i].payload.bear_id
    BY <1>5, BatchItem
  <2> QED
    BY <2>1 DEF OnlyUpdates, TargetsInBear, NothingLost, Exists
<1> DEFINE old == acks[i]
           stamped == [old EXCEPT !.bear_modified_at = Modified(old.bear_id)]
           ack == [stamped EXCEPT !.bear_id = NULL]
<1>7. acks' = [acks EXCEPT ![i] = ack]
  BY <1>6 DEF Verify, Verified
<1>8. AckTells(i) /\ old.bear_id = TargetOf(i)
  BY <1>5 DEF EchoFacts, AckTells
<1>9. /\ ack.conflict_resolved = old.conflict_resolved /\ ack.bear_id = NULL
      /\ ack.bear_modified_at = bear[TargetOf(i)].modified_at
  BY <1>5, <1>6, <1>8 DEF AckRecord, Modified
<1> HIDE DEF ack
<1>10. /\ DOMAIN acks' = DOMAIN acks /\ acks'[i] = ack
       /\ \A k \in DOMAIN acks \ {i} : acks'[k] = acks[k]
  BY <1>5, <1>7
<1>11. \A k : /\ TargetOf(k)' = TargetOf(k) /\ BodyOf(k)' = BodyOf(k) /\ (LastFor(k)' <=> LastFor(k))
              /\ ~Verifying(k)'
  BY <1>1, <1>10 DEF TargetOf, BodyOf, LastFor, Verifying
<1>12. AckTells(i)'
  BY <1>1, <1>8, <1>9, <1>10, <1>11 DEF AckTells
<1>13. ASSUME NEW k \in DOMAIN acks \ {i} PROVE AckTells(k)'
  <2>1. ~Verifying(k)
    <3>1. DOMAIN acks \subseteq Nat
      BY DEF BaseInv, BridgeInv, BatchShape, Ids
    <3> QED
      BY <1>1, <1>13, <3>1 DEF Verifying, LastAcked
  <2>2. AckTells(k)
    BY DEF EchoFacts
  <2> QED
    BY <1>1, <1>10, <1>11, <2>1, <2>2 DEF AckTells
<1>14. \A k \in DOMAIN acks' : AckTells(k)'
  BY <1>10, <1>12, <1>13
<1>15. WritesAcked'
  BY <1>1, <1>10, <1>11 DEF EchoFacts, WritesAcked
<1> QED
  BY <1>2, <1>3, <1>4, <1>14, <1>15 DEF EchoFacts

-----------------------------------------------------------------------------
(***************************************************************************)
(* The push.                                                               *)
(***************************************************************************)
LEMMA PushKeepsEcho ==
  ASSUME ProtectInv, ~Interleaved, NothingLost, OnlyUpdates, EchoFacts, PushDelta
  PROVE  EchoFacts'
<1>1. /\ BaseInv /\ HubInv /\ BearInv /\ NotesTypeOK /\ ProtectedNotes /\ IdsGivenByBear
      /\ ProcessSyncPush(delta)
  BY DEF ProtectInv, TargetInv, IdsInv, CreateInv, BaseInv, HubInv, PushDelta, Push
<1>2. /\ UNCHANGED <<handlers, bear, batch, acks>> /\ phase = "push" /\ phase' = "lease"
      /\ DOMAIN batch = {} /\ DOMAIN acks = {} /\ BridgeMayCall
  BY <1>1 DEF PushDelta, Push, worldVars, BaseInv, BridgeInv, BatchShape
<1>3. \A h \in Handlers : At(h, "idle")
  BY <1>2 DEF BridgeMayCall, HandlersQuiet
<1>4. \A h \in Handlers : HandlerFacts(h)'
  BY <1>2, <1>3 DEF HandlerFacts, Updates, UpdateSteps, At
<1>5. /\ Ids' = Ids /\ \A i \in Ids : write_queue'[i] = write_queue[i]
      /\ \A n \in LiveNotes : n \in LiveNotes'
  BY <1>1, CalmPush
<1>6. RowsLive' /\ BatchOldest'
  BY <1>2, <1>5 DEF EchoFacts, RowsLive, BatchOldest
<1>7. delta = [b \in ChangedInBear |-> bear[b]]
  BY <1>2 DEF EchoFacts, DeltaIsBear
<1>8. DeltaIsBear' /\ EchoKnown' /\ WritesAcked'
  <2>1. \A b \in BearIds : pushed'[b] = bear[b]
    BY <1>7 DEF PushDelta, ChangedInBear
  <2> QED
    BY <1>2, <2>1 DEF DeltaIsBear, EchoKnown, WritesAcked, ChangedInBear
<1>9. ASSUME NEW n \in LiveNotes' \ LiveNotes
      PROVE  notes'[n].sync_status = "synced" /\ notes'[n].pending_bear_body = NULL
  <2>1. n \in HubIds /\ Exists(notes'[n]) /\ ~Exists(notes[n])
    BY <1>9 DEF LiveNotes
  <2>2. PushFate(notes[n], notes'[n])
    BY <1>1, <2>1, PushEffect
  <2>3. FreshNote(notes'[n])
    BY <1>1, <2>1, <2>2, NoteCases DEF PushFate, Exists
  <2> QED
    BY <2>3 DEF FreshNote, InsertedNote
<1>10. ASSUME NEW n \in LiveNotes
       PROVE  /\ notes'[n].sync_status # "conflict"
              /\ notes'[n].sync_status = "synced" => notes'[n].pending_bear_body = NULL
  <2> DEFINE row == notes[n]
             b == row.bear_id
  <2>1. n \in HubIds /\ Exists(row) /\ Exists(notes'[n]) /\ row \in NoteRow
    BY <1>1, <1>5, NoteCases DEF LiveNotes
  <2>2. row.sync_status # "conflict"
        /\ (row.sync_status = "synced" => row.pending_bear_body = NULL)
    BY DEF EchoFacts, NotesClean
  <2>3. CASE notes'[n] = row
    BY <2>2, <2>3
  <2>4. CASE /\ b \in DOMAIN delta /\ b \in BearIds /\ delta[b] \in BearNote
             /\ notes'[n] = Upserted(row, delta[b], b)
    <3>1. delta[b] = bear[b] /\ bear[b] # pushed[b]
      BY <1>7, <2>4 DEF ChangedInBear
    <3>2. b # NULL /\ bear[b].body # NULL
      BY <2>4, <3>1, NotesAssumption DEF BearNote
    <3>3. CASE row.sync_status = "pending_to_bear"
      <4>1. \/ row.expected_bear_modified_at = bear[b].modified_at
            \/ row.pending_bear_body = bear[b].body
        BY <1>2, <3>1, <3>2, <3>3 DEF EchoFacts, EchoKnown
      <4>2. notes'[n] = UpsertPending(row, bear[b])
        BY <2>4, <3>1, <3>3 DEF Upserted
      <4>3. IsEcho(row, bear[b]) \/ DetectContentConflict(row, bear[b]) = "pending_to_bear"
        BY <3>2, <4>1 DEF IsEcho, DetectContentConflict
      <4> QED
        BY <2>1, <3>3, <4>2, <4>3 DEF UpsertPending, NoteRow
    <3>4. CASE row.sync_status = "synced"
      <4>1. notes'[n] = UpsertSettled(row, bear[b], b)
        BY <2>4, <3>1, <3>4 DEF Upserted
      <4> QED
        BY <3>4, <4>1 DEF UpsertSettled
    <3> QED
      BY <2>1, <2>2, <3>3, <3>4 DEF NoteRow, SyncStatuses
  <2> QED
    BY <1>1, <2>1, <2>3, <2>4, PushedRow
<1>11. NotesClean'
  BY <1>9, <1>10 DEF NotesClean
<1>12. ASSUME NEW n \in LiveNotes', NEW i \in Ids, NewestActive(n, i)'
       PROVE  notes'[n].body = write_queue'[i].payload.body
  <2>1. NewestActive(n, i) /\ n \in LiveNotes
    BY <1>5, <1>12 DEF NewestActive, EchoFacts, RowsLive
  <2>2. ~AboutToEnqueue(n)
    BY <1>3 DEF AboutToEnqueue, At
  <2>3. notes[n].body = write_queue[i].payload.body
    BY <2>1, <2>2 DEF EchoFacts, LastWord
  <2>4. ActiveUpdate(n)
    BY <2>1 DEF NewestActive, ActiveUpdate, OnlyUpdates
  <2>5. n \in HubIds /\ Exists(notes[n]) /\ Exists(notes'[n]) /\ notes[n] \in NoteRow
    BY <1>1, <1>12, <2>1, NoteCases DEF LiveNotes
  <2>6. notes[n].sync_status = "pending_to_bear"
    BY <1>1, <2>1, <2>4, <2>5 DEF ProtectedNotes, EchoFacts, NotesClean, NoteRow, SyncStatuses
  <2>7. notes'[n].body = notes[n].body
    BY <1>1, <2>5, <2>6, PushedStatus
  <2> QED
    BY <1>5, <2>3, <2>7
<1>13. LastWord'
  BY <1>5, <1>12 DEF LastWord
<1> QED
  BY <1>2, <1>4, <1>6, <1>8, <1>11, <1>13 DEF EchoFacts

-----------------------------------------------------------------------------
(***************************************************************************)
(* The acknowledgement.                                                    *)
(***************************************************************************)
\* What the rows up to k leave of the note n: the last one of them counts.
LastAckedBy(n, i, k) == AckedBy(n, i) /\ \A j \in 1..k : AckedBy(n, j) => j <= i

LastAckFate(n, new, k) ==
  /\ new \in NoteRow /\ new.body = notes[n].body /\ new.bear_id = notes[n].bear_id
  /\ new.sync_status # "conflict"
  /\ new.sync_status = "synced" => new.pending_bear_body = NULL
  /\ \/ new = notes[n] /\ \A j \in 1..k : ~AckedBy(n, j)
     \/ \E i \in 1..k :
          /\ LastAckedBy(n, i, k)
          /\ IF OthersActive(acks, i) THEN new.expected_bear_modified_at = acks[i].bear_modified_at
             ELSE new.sync_status = "synced"

LEMMA AckedChangeTyped ==
  ASSUME AcksTypeOK, NEW row \in NoteRow, NEW i \in DOMAIN acks, NEW others \in BOOLEAN
  PROVE  LET new == AckedChange(row, acks[i], others)
         IN /\ new \in NoteRow /\ new.body = row.body /\ new.bear_id = row.bear_id
            /\ others => /\ new.sync_status = row.sync_status
                         /\ new.pending_bear_body = row.pending_bear_body
                         /\ new.expected_bear_modified_at = acks[i].bear_modified_at
            /\ ~others => new.sync_status = "synced" /\ new.pending_bear_body = NULL
<1>1. acks[i].bear_modified_at \in Seconds \cup {NULL}
  BY DEF AcksTypeOK, AckRecord
<1>2. CASE others
  BY <1>1, <1>2 DEF AckedChange, NoteRow
<1>3. CASE ~others
  BY <1>1, <1>3 DEF AckedChange, Settled, NoteRow, SyncStatuses
<1> QED
  BY <1>2, <1>3

LEMMA LastAckStays ==
  ASSUME NEW n, NEW new, NEW k \in Nat, LastAckFate(n, new, k), ~AckedBy(n, k + 1)
  PROVE  LastAckFate(n, new, k + 1)
<1>1. 1..(k + 1) = 1..k \cup {k + 1}
  OBVIOUS
<1>2. \A i \in 1..k : LastAckedBy(n, i, k) => LastAckedBy(n, i, k + 1)
  BY <1>1 DEF LastAckedBy
<1>3. (\A j \in 1..k : ~AckedBy(n, j)) => \A j \in 1..(k + 1) : ~AckedBy(n, j)
  BY <1>1
<1> QED
  BY <1>1, <1>2, <1>3 DEF LastAckFate

LEMMA LastAckStep ==
  ASSUME AcksTypeOK, NEW n \in LiveNotes, NEW mid, NEW k \in Nat, LastAckFate(n, mid, k),
         AckedBy(n, k + 1), ~acks[k + 1].conflict_resolved, acks[k + 1].bear_id = NULL
  PROVE  LastAckFate(n, AckedNote(mid, acks[k + 1], OthersActive(acks, k + 1)), k + 1)
<1> DEFINE others == OthersActive(acks, k + 1)
           new == AckedNote(mid, acks[k + 1], others)
<1>1. mid \in NoteRow /\ Exists(mid) /\ mid.sync_status # "conflict"
  BY RowsExist DEF LastAckFate
<1>2. new = AckedChange(mid, acks[k + 1], others)
  BY <1>1 DEF AckedNote
<1>3. k + 1 \in DOMAIN acks /\ others \in BOOLEAN
  BY DEF AckedBy, AckChangesNote, OthersActive
<1>4. LastAckedBy(n, k + 1, k + 1) /\ k + 1 \in 1..(k + 1)
  BY DEF LastAckedBy
<1> HIDE DEF others
<1>5. /\ new \in NoteRow /\ new.body = mid.body /\ new.bear_id = mid.bear_id
      /\ others => /\ new.sync_status = mid.sync_status
                   /\ new.pending_bear_body = mid.pending_bear_body
                   /\ new.expected_bear_modified_at = acks[k + 1].bear_modified_at
      /\ ~others => new.sync_status = "synced" /\ new.pending_bear_body = NULL
  BY <1>1, <1>2, <1>3, AckedChangeTyped
<1> HIDE DEF new
<1>6. LastAckFate(n, new, k + 1)
  BY <1>4, <1>5 DEF LastAckFate, others
<1> QED
  BY <1>6 DEF new, others

LEMMA LastAcks ==
  ASSUME TypeOK, NotesTypeOK, AcksTypeOK, NotesClean, AckItems(acks),
         \A i \in DOMAIN acks : ~acks[i].conflict_resolved /\ acks[i].bear_id = NULL
  PROVE  \A n \in LiveNotes : LastAckFate(n, notes'[n], Len(write_queue))
<1> DEFINE m == Len(write_queue)
           Good(k) == /\ AfterAcks(acks)[k] = [n \in HubIds |-> AfterAcks(acks)[k][n]]
                      /\ \A n \in LiveNotes : LastAckFate(n, AfterAcks(acks)[k][n], k)
           S == {k \in Nat : k <= m => Good(k)}
<1>1. m \in Nat /\ Ids = 1..m
  BY TableShape DEF Ids
<1>2. 0 \in S
  <2>1. AfterAcks(acks)[0] = notes /\ notes = [n \in HubIds |-> notes[n]]
    BY AfterAcksSteps DEF NotesTypeOK
  <2>2. ASSUME NEW n \in LiveNotes PROVE LastAckFate(n, notes[n], 0)
    <3>1. notes[n] \in NoteRow
      BY NoteCases DEF LiveNotes
    <3> QED
      BY <3>1 DEF LastAckFate, NotesClean
  <2> QED
    BY <2>1, <2>2
<1>3. ASSUME NEW k \in Nat, k \in S
      PROVE  k + 1 \in S
  <2> SUFFICES ASSUME k + 1 <= m PROVE Good(k + 1)
    OBVIOUS
  <2> DEFINE table == AfterAcks(acks)[k]
             i == k + 1
  <2>1. /\ table = [n \in HubIds |-> table[n]]
        /\ \A n \in LiveNotes : LastAckFate(n, table[n], k)
    BY <1>1, <1>3
  <2>2. i \in Ids /\ i - 1 = k
    BY <1>1
  <2>3. AfterAcks(acks)[i] = AckStep(acks, table, i)
    BY <2>2, AfterAcksSteps
  <2>4. CASE ~AckChangesNote(acks, i)
    <3>1. AfterAcks(acks)[i] = table
      BY <2>3, <2>4 DEF AckStep
    <3>2. \A n : ~AckedBy(n, k + 1)
      BY <2>4 DEF AckedBy
    <3> HIDE DEF table
    <3> QED
      BY <2>1, <3>1, <3>2, LastAckStays
  <2>5. CASE AckChangesNote(acks, i)
    <3> DEFINE q == write_queue[i].note_id
               new == AckedNote(table[q], acks[i], OthersActive(acks, i))
    <3>1. q \in HubIds /\ i \in DOMAIN acks /\ AckedBy(q, i)
      BY <2>5 DEF AckChangesNote, AckedBy
    <3>2. AfterAcks(acks)[i] = [table EXCEPT ![q] = new]
      BY <2>1, <2>3, <2>5, <3>1 DEF AckStep
    <3>3. ASSUME q \in LiveNotes PROVE LastAckFate(q, new, i)
      <4>1. LastAckFate(q, table[q], k) /\ ~acks[i].conflict_resolved /\ acks[i].bear_id = NULL
        BY <2>1, <3>1, <3>3
      <4> HIDE DEF table, q
      <4> QED
        BY <3>1, <3>3, <4>1, LastAckStep
    <3>4. \A n : n # q => ~AckedBy(n, k + 1)
      BY DEF AckedBy
    <3> HIDE DEF table, new, q
    <3>5. AfterAcks(acks)[i] = [n \in HubIds |-> AfterAcks(acks)[i][n]]
      BY <2>1, <3>1, <3>2
    <3>6. ASSUME NEW n \in LiveNotes PROVE LastAckFate(n, AfterAcks(acks)[i][n], i)
      <4>1. n \in HubIds
        BY DEF LiveNotes
      <4>2. CASE n = q
        BY <2>1, <3>1, <3>2, <3>3, <4>2
      <4>3. CASE n # q
        <5>1. AfterAcks(acks)[i][n] = table[n]
          BY <2>1, <3>2, <4>1, <4>3
        <5> QED
          BY <2>1, <3>4, <4>3, <5>1, LastAckStays
      <4> QED
        BY <4>2, <4>3
    <3> QED
      BY <3>5, <3>6
  <2> QED
    BY <2>4, <2>5
<1>4. m \in S
  <2> HIDE DEF S
  <2> QED
    BY <1>1, <1>2, <1>3, NatSetInduction
<1>5. notes' = AfterAcks(acks)[m]
  BY DEF AckItems
<1> QED
  BY <1>1, <1>4, <1>5

\* The rows of the batch are settled, the others stay.
LEMMA AckRows ==
  ASSUME BaseInv, NothingLost, AckBatch
  PROVE  /\ Ids' = Ids /\ DOMAIN acks = DOMAIN batch /\ phase = "ack"
         /\ \A i \in Ids : /\ write_queue'[i].note_id = write_queue[i].note_id
                           /\ write_queue'[i].payload = write_queue[i].payload
                           /\ write_queue'[i].action = write_queue[i].action
         /\ \A i \in Ids : i \in DOMAIN acks => write_queue'[i].status = "applied"
         /\ \A i \in Ids \ DOMAIN acks : write_queue'[i] = write_queue[i]
<1>1. phase = "ack" /\ DOMAIN acks = DOMAIN batch /\ AckItems(acks)
  BY DEF AckBatch, BaseInv, BridgeInv, BatchShape, Todo
<1>2. /\ RowsSettle
      /\ \A i \in Ids : \/ i \notin DOMAIN acks /\ write_queue'[i] = write_queue[i]
                        \/ i \in DOMAIN acks /\ write_queue'[i].status = acks[i].outcome
  BY <1>1, AckSettles
<1>3. Ids' = Ids /\ \A i \in Ids : Work(write_queue'[i]) = Work(write_queue[i])
  BY <1>2 DEF RowsSettle, RowsKept
<1> QED
  BY <1>1, <1>2, <1>3 DEF Work, NothingLost

\* What the acknowledged rows make of each note, the plain ones that they are.
LEMMA AckNotes ==
  ASSUME BaseInv, EchoFacts, AckBatch
  PROVE  /\ LiveNotes' = LiveNotes
         /\ \A n \in LiveNotes : LastAckFate(n, notes'[n], Len(write_queue))
<1>1. TypeOK /\ NotesTypeOK /\ AcksTypeOK /\ AckItems(acks) /\ phase = "ack"
  BY AcksTyped DEF AckBatch
<1>2. \A i \in DOMAIN acks : ~acks[i].conflict_resolved /\ acks[i].bear_id = NULL
  BY <1>1 DEF EchoFacts, AckTells, Verifying
<1>3. \A n \in LiveNotes : LastAckFate(n, notes'[n], Len(write_queue))
  BY <1>1, <1>2, LastAcks DEF EchoFacts
<1>4. \A n \in HubIds : Exists(notes'[n]) <=> Exists(notes[n])
  <2> SUFFICES ASSUME NEW n \in HubIds PROVE Exists(notes'[n]) <=> Exists(notes[n])
    OBVIOUS
  <2>1. CASE Exists(notes[n])
    BY <1>3, <2>1, RowsExist DEF LiveNotes, LastAckFate
  <2>2. CASE ~Exists(notes[n])
    BY <2>2, AckStepFate DEF AckFate
  <2> QED
    BY <2>1, <2>2
<1> QED
  BY <1>3, <1>4 DEF LiveNotes

\* The acknowledgement of a note's last item in the batch speaks of what Bear has.
LEMMA LastAckTold ==
  ASSUME TargetInv, NothingLost, OnlyUpdates, EchoFacts, phase = "ack", NEW n \in LiveNotes,
         NEW k \in Ids, LastAckedBy(n, k, Len(write_queue))
  PROVE  LET b == notes[n].bear_id
         IN /\ b \in BearIds /\ bear[b].body = write_queue[k].payload.body
            /\ acks[k].bear_modified_at = bear[b].modified_at
<1>1. BaseInv /\ RowTargets
  BY DEF TargetInv, IdsInv, CreateInv
<1>2. /\ k \in DOMAIN acks /\ k \in DOMAIN batch /\ write_queue[k].note_id = n
      /\ DOMAIN acks \subseteq DOMAIN batch
  BY <1>1 DEF LastAckedBy, AckedBy, AckChangesNote, BaseInv, BridgeInv, BatchShape
<1>3. ASSUME NEW j \in DOMAIN acks
      PROVE  /\ j \in Ids /\ write_queue[j].status = "processing"
             /\ TargetOf(j) \in BearIds /\ TargetOf(j) = write_queue[j].payload.bear_id
             /\ write_queue[j].note_id \in LiveNotes
             /\ notes[write_queue[j].note_id].bear_id = TargetOf(j)
             /\ BodyOf(j) = write_queue[j].payload.body
  <2>1. /\ j \in Ids /\ write_queue[j].status = "processing" /\ TargetOf(j) \in BearIds \cup {NULL}
        /\ TargetOf(j) = write_queue[j].payload.bear_id
        /\ ActionOf(j) = write_queue[j].action /\ (TargetOf(j) = NULL => ActionOf(j) = "create")
        /\ BodyOf(j) = write_queue[j].payload.body
    BY <1>1, <1>2, BatchItem
  <2>2. TargetOf(j) \in BearIds /\ TargetOf(j) # NULL
    BY <2>1 DEF OnlyUpdates
  <2> QED
    BY <1>1, <2>1, <2>2 DEF RowTargets, EchoFacts, RowsLive
<1>4. ASSUME NEW j \in DOMAIN acks, TargetOf(j) = TargetOf(k) PROVE j <= k
  <2>1. /\ write_queue[j].note_id \in LiveNotes
        /\ notes[write_queue[j].note_id].bear_id = notes[n].bear_id
        /\ notes[n].bear_id \in BearIds
    BY <1>2, <1>3, <1>4
  <2>2. write_queue[j].note_id = n
    BY <2>1, NotesAssumption DEF TargetInv, IdsInv, IdsDiffer
  <2>3. AckedBy(n, j)
    BY <1>3, <1>4, <2>2 DEF AckedBy, AckChangesNote, NothingLost, LiveNotes
  <2>4. j \in 1..Len(write_queue)
    BY <1>3, <1>4 DEF Ids
  <2> QED
    BY <2>3, <2>4 DEF LastAckedBy
<1>5. AckTells(k) /\ LastFor(k) /\ ~Verifying(k)
  BY <1>2, <1>4 DEF EchoFacts, LastFor, Verifying
<1> QED
  BY <1>2, <1>3, <1>5 DEF AckTells

LEMMA AckKeepsLastWord ==
  ASSUME BaseInv, ~Interleaved, NothingLost, EchoFacts, AckBatch
  PROVE  LastWord'
<1>1. /\ Ids' = Ids /\ DOMAIN acks = DOMAIN batch
      /\ \A i \in Ids : i \in DOMAIN acks => write_queue'[i].status = "applied"
      /\ \A i \in Ids \ DOMAIN acks : write_queue'[i] = write_queue[i]
      /\ \A i \in Ids : write_queue'[i].note_id = write_queue[i].note_id
  BY AckRows
<1>2. LiveNotes' = LiveNotes /\ \A n \in LiveNotes : notes'[n].body = notes[n].body
  BY AckNotes DEF LastAckFate
<1>3. \A h \in Handlers : At(h, "idle")
  BY TransactionsQuiet
<1> SUFFICES ASSUME NEW n \in LiveNotes, NEW i \in Ids, NewestActive(n, i)'
             PROVE  notes'[n].body = write_queue'[i].payload.body
  BY <1>1, <1>2 DEF LastWord
<1>4. i \notin DOMAIN acks /\ write_queue'[i] = write_queue[i] /\ Active(write_queue[i])
  BY <1>1 DEF NewestActive, Active
<1>5. ASSUME NEW j \in Ids, Active(write_queue[j]), write_queue[j].note_id = n
      PROVE  j <= i
  <2>1. CASE j \in DOMAIN batch
    <3>1. j < i
      BY <1>1, <1>4, <2>1 DEF EchoFacts, BatchOldest
    <3> QED
      BY <3>1 DEF Ids
  <2>2. CASE j \notin DOMAIN batch
    BY <1>1, <1>5, <2>2 DEF NewestActive
  <2> QED
    BY <2>1, <2>2
<1>6. NewestActive(n, i)
  BY <1>1, <1>4, <1>5 DEF NewestActive
<1>7. ~AboutToEnqueue(n)
  BY <1>3 DEF AboutToEnqueue, At
<1> QED
  BY <1>2, <1>4, <1>6, <1>7 DEF EchoFacts, LastWord

\* Every write of the bridge that is not pushed yet was acknowledged: the hub
\* expects its stamp, or has its body when nothing else is queued.
LEMMA AckMakesEchoKnown ==
  ASSUME ProtectInv, ProtectedNotes', ~Interleaved, NothingLost, OnlyUpdates, EchoFacts, AckBatch
  PROVE  EchoKnown'
<1>1. BaseInv /\ HubInv /\ TargetInv /\ UNCHANGED <<bear, pushed>>
  BY DEF ProtectInv, TargetInv, IdsInv, CreateInv, BaseInv, AckBatch, worldVars
<1>2. /\ Ids' = Ids /\ DOMAIN acks = DOMAIN batch /\ phase = "ack"
      /\ \A i \in Ids \ DOMAIN acks : write_queue'[i] = write_queue[i]
  BY <1>1, AckRows
<1>3. LiveNotes' = LiveNotes /\ \A n \in LiveNotes : LastAckFate(n, notes'[n], Len(write_queue))
  BY <1>1, AckNotes
<1>4. \A h \in Handlers : At(h, "idle")
  BY TransactionsQuiet
<1> SUFFICES ASSUME NEW n \in LiveNotes, notes'[n].bear_id # NULL,
                    bear[notes'[n].bear_id] # pushed[notes'[n].bear_id]
             PROVE  LET b == notes'[n].bear_id
                    IN /\ notes'[n].sync_status = "pending_to_bear" =>
                            \/ notes'[n].expected_bear_modified_at = bear[b].modified_at
                            \/ notes'[n].pending_bear_body = bear[b].body
                       /\ notes'[n].sync_status = "synced" => notes'[n].body = bear[b].body
  BY <1>1, <1>3 DEF EchoKnown
<1> DEFINE b == notes[n].bear_id
<1>5. notes'[n].bear_id = b /\ b \in BearIds /\ bear[b] # pushed[b] /\ n \in HubIds
      /\ notes'[n].body = notes[n].body
  BY <1>1, <1>3, LiveTyped DEF LastAckFate
<1>6. ASSUME NEW j \in DOMAIN acks
      PROVE  /\ j \in Ids /\ j \in 1..Len(write_queue) /\ write_queue[j].status = "processing"
             /\ write_queue[j].note_id = n => AckedBy(n, j)
  <2>1. j \in Ids /\ write_queue[j].status = "processing"
    BY <1>1, <1>2, BatchItem
  <2> QED
    BY <1>5, <2>1 DEF Ids, AckedBy, AckChangesNote, NothingLost
<1>7. PICK k \in Ids :
        /\ LastAckedBy(n, k, Len(write_queue))
        /\ IF OthersActive(acks, k)
           THEN notes'[n].expected_bear_modified_at = acks[k].bear_modified_at
           ELSE notes'[n].sync_status = "synced"
  <2>1. PICK i \in DOMAIN acks : TargetOf(i) = b
    BY <1>2, <1>5 DEF EchoFacts, WritesAcked
  <2>2. i \in Ids /\ write_queue[i].payload.bear_id = b /\ b # NULL
    BY <1>1, <1>2, <1>3, <1>5, <2>1, BatchItem, NotesAssumption
  <2>3. write_queue[i].note_id \in LiveNotes /\ notes[write_queue[i].note_id].bear_id = b
    BY <1>1, <2>2 DEF TargetInv, RowTargets, EchoFacts, RowsLive
  <2>4. write_queue[i].note_id = n
    BY <1>1, <2>2, <2>3 DEF TargetInv, IdsInv, IdsDiffer
  <2>5. AckedBy(n, i) /\ i \in 1..Len(write_queue)
    BY <1>6, <2>4
  <2>6. 1..Len(write_queue) = Ids
    BY DEF Ids
  <2> QED
    BY <1>3, <2>5, <2>6 DEF LastAckFate
<1>8. /\ bear[b].body = write_queue[k].payload.body
      /\ acks[k].bear_modified_at = bear[b].modified_at
  BY <1>1, <1>2, <1>7, LastAckTold
<1>9. k \in DOMAIN acks /\ write_queue[k].note_id = n /\ write_queue[k].status = "processing"
  BY <1>7 DEF LastAckedBy, AckedBy, AckChangesNote
<1>10. ASSUME NEW j \in Ids \ {k}, write_queue[j].note_id = n, Active(write_queue[j])
       PROVE  j \notin DOMAIN acks \/ j < k
  <2>1. j \in DOMAIN acks => j <= k
    BY <1>6, <1>7, <1>10 DEF LastAckedBy
  <2> QED
    BY <2>1 DEF Ids
<1>11. CASE OthersActive(acks, k)
  <2>1. notes'[n].expected_bear_modified_at = bear[b].modified_at
    BY <1>7, <1>8, <1>11
  <2>2. PICK j \in Ids \ {k} : /\ write_queue[j].note_id = n /\ Active(write_queue[j])
                               /\ ~(j \in DOMAIN acks /\ j < k /\ write_queue[j].status = "processing")
    BY <1>9, <1>11 DEF OthersActive
  <2>3. j \notin DOMAIN acks /\ write_queue'[j] = write_queue[j]
    BY <1>2, <1>6, <1>10, <2>2
  <2>4. ActiveUpdate(n)'
    BY <1>2, <2>2, <2>3 DEF ActiveUpdate, OnlyUpdates
  <2>5. notes'[n].sync_status # "synced"
    BY <1>3, <2>4 DEF ProtectedNotes
  <2> QED
    BY <1>5, <2>1, <2>5
<1>12. CASE ~OthersActive(acks, k)
  <2>1. \A j \in Ids : Active(write_queue[j]) /\ write_queue[j].note_id = n => j <= k
    <3>1. ASSUME NEW j \in Ids \ {k}, Active(write_queue[j]), write_queue[j].note_id = n PROVE j < k
      BY <1>9, <1>12, <3>1 DEF OthersActive
    <3> QED
      BY <3>1 DEF Ids
  <2>2. NewestActive(n, k)
    BY <1>9, <2>1 DEF NewestActive, Active
  <2>3. ~AboutToEnqueue(n)
    BY <1>4 DEF AboutToEnqueue, At
  <2>4. notes[n].body = bear[b].body
    BY <1>8, <2>2, <2>3 DEF EchoFacts, LastWord
  <2> QED
    BY <1>5, <1>7, <1>12, <2>4
<1> QED
  BY <1>11, <1>12

LEMMA AckKeepsEcho ==
  ASSUME ProtectInv, ProtectedNotes', ~Interleaved, NothingLost, OnlyUpdates, EchoFacts, AckBatch
  PROVE  EchoFacts'
<1>1. BaseInv /\ UNCHANGED handlers /\ phase' = "start" /\ DOMAIN batch' = {} /\ DOMAIN acks' = {}
  BY DEF ProtectInv, TargetInv, IdsInv, CreateInv, AckBatch, Nothing
<1>2. \A h \in Handlers : HandlerFacts(h)'
  <2>1. \A h \in Handlers : At(h, "idle")
    BY TransactionsQuiet
  <2> QED
    BY <1>1, <2>1 DEF HandlerFacts, Updates, UpdateSteps, At
<1>3. /\ Ids' = Ids /\ DOMAIN acks = DOMAIN batch
      /\ \A i \in Ids : write_queue'[i].note_id = write_queue[i].note_id
      /\ \A i \in Ids : i \in DOMAIN acks => write_queue'[i].status = "applied"
      /\ \A i \in Ids \ DOMAIN acks : write_queue'[i] = write_queue[i]
  BY <1>1, AckRows
<1>4. LiveNotes' = LiveNotes /\ \A n \in LiveNotes : LastAckFate(n, notes'[n], Len(write_queue))
  BY <1>1, AckNotes
<1>5. RowsLive' /\ NotesClean'
  BY <1>3, <1>4 DEF EchoFacts, RowsLive, NotesClean, LastAckFate
<1>6. BatchOldest'
  BY <1>1, <1>3 DEF EchoFacts, BatchOldest
<1>7. DeltaIsBear' /\ WritesAcked'
  BY <1>1 DEF DeltaIsBear, WritesAcked
<1>8. LastWord' /\ EchoKnown'
  BY <1>1, AckKeepsLastWord, AckMakesEchoKnown
<1> QED
  BY <1>1, <1>2, <1>5, <1>6, <1>7, <1>8 DEF EchoFacts

-----------------------------------------------------------------------------
(***************************************************************************)
(* Echoes are recognised in every state.                                   *)
(***************************************************************************)
LEMMA EchoInvStep ==
  ASSUME OneByOne, EchoInv, [SyncNext]_syncVars
  PROVE  EchoInv'
<1>1. CalmInv /\ CalmInv'
  BY CalmInvStep DEF EchoInv
<1> SUFFICES ASSUME Plain' PROVE EchoFacts'
  BY <1>1 DEF EchoInv
<1>2. /\ Plain /\ CalmStep /\ NothingLost /\ BaseInv /\ EchoFacts
      /\ \A h \in Handlers : Handle(h) => RowsAdded(h)
  BY <1>1, PlainSteps DEF EchoInv
<1>3. /\ ProtectInv /\ ProtectedNotes' /\ IdsInv /\ TargetsInBear /\ OnlyUpdates /\ OnlyUpdates'
      /\ ~Interleaved /\ OneHandler
  BY <1>1, <1>2 DEF CalmInv, ProtectInv, TargetInv, Plain, OneByOne
<1>4. ASSUME NEW h \in Handlers, Handle(h) PROVE EchoFacts'
  BY <1>2, <1>3, <1>4, HandlerKeepsEcho
<1>5. CASE ReadDelta \/ LeaseBatch \/ LeaseTime \/ UNCHANGED syncVars
  BY <1>2, <1>5, ReadKeepsEcho, LeaseKeepsEcho, TimeKeepsEcho, StutterKeepsEcho
<1>6. CASE PushDelta
  BY <1>2, <1>3, <1>6, PushKeepsEcho
<1>7. CASE AckBatch
  BY <1>2, <1>3, <1>7, AckKeepsEcho
<1>9. ~AckRefused
  <2>1. \A i \in DOMAIN acks : ~Given(i)
    BY <1>2, <1>3, BatchItem DEF Given, OnlyUpdates, BaseInv, BridgeInv, BatchShape
  <2> QED
    BY <1>3, <2>1, OwnIdsAccepted DEF AckRefused
<1>8. ASSUME NEW i \in 1..MaxRows, ItemStep(i) \/ Verify(i) PROVE EchoFacts'
  BY <1>2, <1>3, <1>8, ItemStepKeepsEcho, VerifyKeepsEcho
<1> QED
  BY <1>2, <1>4, <1>5, <1>6, <1>7, <1>8, <1>9 DEF CalmStep

LEMMA EchoInit ==
  ASSUME SyncInit
  PROVE  EchoInv
<1>1. CalmInv /\ BaseInv
  BY CalmInit, BaseInit
<1>2. /\ Ids = {} /\ DOMAIN acks = {} /\ DOMAIN batch = {} /\ phase = "start" /\ pushed = bear
      /\ \A h \in Handlers : handlers[h] = Idle
  BY DEF SyncInit, Init, Ids, Nothing
<1>3. \A h \in Handlers : HandlerFacts(h)
  BY <1>2, IdleShape DEF HandlerFacts, Updates, UpdateSteps, At
<1>4. NotesClean
  <2> SUFFICES ASSUME NEW n \in LiveNotes
               PROVE  notes[n].sync_status = "synced" /\ notes[n].pending_bear_body = NULL
    BY DEF NotesClean
  <2> DEFINE c == CHOOSE b \in DOMAIN Existing : Existing[b] = n
  <2>1. \E b \in DOMAIN Existing : Existing[b] = n
    BY DEF SyncInit, LiveNotes, Exists
  <2>2. notes[n] = InsertedNote(FirstNote, c)
    BY <2>1 DEF SyncInit, LiveNotes
  <2> HIDE DEF c
  <2> QED
    BY <2>2 DEF InsertedNote
<1>5. RowsLive /\ LastWord /\ BatchOldest /\ DeltaIsBear /\ EchoKnown /\ WritesAcked
  BY <1>2 DEF RowsLive, LastWord, BatchOldest, DeltaIsBear, EchoKnown, WritesAcked
<1> QED
  BY <1>1, <1>2, <1>3, <1>4, <1>5 DEF EchoInv, EchoFacts

\* With the bridge's transactions between the calls of one consumer's handlers:
\* while nothing but plain updates was queued, every write of the bridge that the
\* hub has not had back yet is one it will know (EchoKnown), and every note with
\* an active update has the body of the newest one (LastWord).
THEOREM EchoInvariant ==
  ASSUME OneByOne
  PROVE  SyncSpec => []EchoInv
<1>1. SyncInit => EchoInv
  BY EchoInit
<1>2. EchoInv /\ [SyncNext]_syncVars => EchoInv'
  BY EchoInvStep
<1> QED
  BY <1>1, <1>2, PTL DEF SyncSpec

\* updateExistingNote: the bridge's own writes raise no conflict when they come
\* back, however pushes, leases and updates alternate: either the stamp is the one
\* the acknowledgement left, or the body is the snapshot that snapshotPendingBear
\* took before the consumer's next write, or the note was settled and has it.
THEOREM EchoesRecognised ==
  ASSUME OneByOne
  PROVE  SyncSpec => []OwnUpdatesAreEchoes
<1>1. EchoInv => OwnUpdatesAreEchoes
  BY DEF EchoInv, Plain, Calm, OnlyUpdates, EchoFacts, NotesClean, OwnUpdatesAreEchoes
<1> QED
  BY <1>1, EchoInvariant, PTL

-----------------------------------------------------------------------------
(***************************************************************************)
(* Edits the hub knows of are not overwritten unseen.  Without faults, and *)
(* as long as the text of a note that waits for Bear is not its snapshot,  *)
(* what follows holds of every note that no mark excepts.                  *)
(***************************************************************************)
Excepted == Skipped \cup Marked("raced")

\* Bear's note b is as its user wrote it.
UserWrote(b) == b \in BearIds /\ Exists(bear[b]) /\ bear[b].body \in UserBodies

\* What a waiting note wants to say differs from what Bear had when it was written.
PendingTextsDiffer ==
  \A n \in LiveNotes :
    notes[n].sync_status = "pending_to_bear" => notes[n].body # notes[n].pending_bear_body

Past(stamp) == stamp # NULL => stamp <= clock

RowPast(row) == Past(row.modified_at) /\ Past(row.expected_bear_modified_at)

Clean(row) == row.sync_status = "synced" => row.pending_bear_body = NULL

\* The snapshot is the user's text, once the hub was told of it.
Snapshot(row) ==
  row.sync_status = "pending_to_bear" /\ UserWrote(row.bear_id) /\ ~Unpushed(row.bear_id) =>
    row.pending_bear_body = bear[row.bear_id].body

\* The user's text is not taken for an echo, nor for what the hub has already.
StampsHeld(row) ==
  UserWrote(row.bear_id) =>
    /\ row.expected_bear_modified_at # bear[row.bear_id].modified_at
    /\ Unpushed(row.bear_id) => row.modified_at # bear[row.bear_id].modified_at

RowGood(n, row) ==
  /\ RowPast(row) /\ Clean(row)
  /\ n \notin Excepted => Snapshot(row) /\ StampsHeld(row)

HandlerHolds(h) ==
  /\ Updates(h) => handlers[h].note_id \in LiveNotes
  /\ handlers[h].step \in {"check_key", "update_note", "find_create", "coalesce", "update_coalesced"} =>
       handlers[h].copy = notes[handlers[h].note_id]
  /\ handlers[h].step \notin {"delete_orphan", "restore"}
  /\ At(h, "delete_created") /\ handlers[h].note_id \in LiveNotes =>
       notes[handlers[h].note_id].bear_id = NULL

\* No acknowledgement tells the hub the stamp of a text of the user.
AckStamps(i) ==
  acks[i].outcome = "applied" /\ NoteOf(i) \notin Excepted /\ UserWrote(AckTarget(i)) =>
    /\ acks[i].bear_modified_at # bear[AckTarget(i)].modified_at
    /\ ActionOf(i) = "create" /\ NoteOf(i) \in LiveNotes =>
         notes[NoteOf(i)].modified_at # bear[AckTarget(i)].modified_at

AckGood(i) ==
  /\ Past(acks[i].bear_modified_at) /\ AckStamps(i)
  /\ Verifying(i) /\ ActionOf(i) # "create" => acks[i].bear_id = TargetOf(i)

\* What was leased without a conflict has none until it is acknowledged.
BatchCalm ==
  \A i \in DOMAIN batch :
    ~batch[i].conflict /\ NoteOf(i) \in LiveNotes => notes[NoteOf(i)].sync_status # "conflict"

\* A row of a note that is gone is about a note that is gone from Bear.
GoneTargets ==
  \A i \in Ids : /\ write_queue[i].payload.bear_id # NULL
                 /\ write_queue[i].note_id \notin LiveNotes
                 => bear[write_queue[i].payload.bear_id] = GONE

EditFacts ==
  /\ \A h \in Handlers : HandlerHolds(h)
  /\ \A n \in LiveNotes : RowGood(n, notes[n])
  /\ \A i \in DOMAIN acks : AckGood(i)
  /\ BatchCalm /\ GoneTargets /\ Marked("found") = {}

EditInv == ConvergeInv /\ ProtectInv /\ (faults = 0 => EditFacts)

LEMMA ExceptedGrows ==
  ASSUME [SyncNext]_syncVars, BaseInv
  PROVE  Excepted \subseteq Excepted'
BY MarksGrow DEF Excepted, Skipped, Marked

LEMMA MarkedExcepted ==
  ASSUME NEW n, NEW what \in {"copied", "trash", "update", "add_tag", "found", "raced"}, <<what, n>> \in marks
  PROVE  n \in Excepted
BY DEF Excepted, Skipped, Marked

FaultlessStep ==
  \/ \E h \in Handlers : Moves(h) /\ UNCHANGED <<bridgeVars, worldVars>>
  \/ \E b \in BearIds : UserEdits(b) \/ UserDeletes(b)
  \/ ReadDelta \/ PushDelta \/ LeaseBatch \/ AckBatch \/ AckRefused \/ LeaseTime
  \/ \E i \in 1..MaxRows : ItemStep(i) \/ Verify(i)
  \/ UNCHANGED syncVars

LEMMA FaultlessSteps ==
  ASSUME BaseInv, [SyncNext]_syncVars, faults' = 0
  PROVE  faults = 0 /\ FaultlessStep
<1>1. faults \in Nat /\ faults <= faults'
  BY CountersStep, SyncAssumption DEF BaseInv, CountersOK
<1>2. faults = 0 /\ ~Fault
  BY <1>1 DEF Fault
<1>3. ~BridgeFault /\ \A h \in Handlers : ~HandleFault(h)
  BY <1>2 DEF BridgeFault, PushUnrecorded, BridgeDies, VerifyFails, ItemFails, WriteReportsFailure,
     CreateUnnamed, HandleFault
<1>4. \A h \in Handlers : Handle(h) => Moves(h) /\ UNCHANGED <<bridgeVars, worldVars>>
  BY HandleMoves
<1> QED
  BY <1>2, <1>3, <1>4, NoSearch DEF SyncNext, BridgeStep, FaultlessStep, ItemStep

\* A row that stays as it is keeps what holds of it when Bear's note turns.
LEMMA RowTurns ==
  ASSUME BaseInv, BearStamps, 0 \notin Gaps, [SyncNext]_syncVars, UNCHANGED pushed,
         NEW n, NEW row \in NoteRow, RowGood(n, row)
  PROVE  RowGood(n, row)'
<1>1. /\ BearMoves /\ clock \in Seconds /\ clock' \in Seconds /\ clock <= clock'
      /\ Excepted \subseteq Excepted' /\ NULL \notin Seconds /\ Seconds \subseteq Nat
  BY BearStepMoves, CountersStep, ExceptedGrows, NotesAssumption DEF BaseInv, CountersOK, Seconds, BearMoves
<1>2. row.modified_at \in Seconds /\ row.expected_bear_modified_at \in Seconds \cup {NULL}
  BY DEF NoteRow
<1>3. RowPast(row)'
  <2>1. \A s \in Seconds : s <= clock => s <= clock'
    <3> SUFFICES ASSUME NEW s \in Seconds, s <= clock PROVE s <= clock'
      OBVIOUS
    <3>1. s \in Int /\ clock \in Int /\ clock' \in Int
      BY <1>1
    <3> QED
      BY <1>1, <3>1
  <2>2. Past(row.modified_at) /\ Past(row.expected_bear_modified_at)
    BY DEF RowGood, RowPast
  <2> QED
    BY <1>1, <1>2, <2>1, <2>2 DEF RowPast, Past
<1>4. ASSUME n \notin Excepted' PROVE Snapshot(row)' /\ StampsHeld(row)'
  <2> DEFINE b == row.bear_id
  <2>1. Snapshot(row) /\ StampsHeld(row)
    BY <1>1, <1>4 DEF RowGood
  <2> SUFFICES ASSUME UserWrote(b)' PROVE Snapshot(row)' /\ StampsHeld(row)'
    BY DEF Snapshot, StampsHeld
  <2>2. b \in BearIds
    BY DEF UserWrote
  <2>3. CASE BearTurns(b)
    <3>1. Unpushed(b)'
      BY <2>2, <2>3, UnpushedStays
    <3>2. bear'[b].modified_at = clock' /\ clock < clock'
      BY <2>3 DEF BearTurns, UserWrote, Exists
    <3>3. row.modified_at # clock' /\ row.expected_bear_modified_at # clock'
      BY <1>1, <1>2, <3>2 DEF RowGood, RowPast, Past
    <3> QED
      BY <3>1, <3>2, <3>3 DEF Snapshot, StampsHeld
  <2>4. CASE bear'[b] = bear[b]
    BY <2>1, <2>4 DEF Snapshot, StampsHeld, UserWrote, Unpushed
  <2> QED
    BY <1>1, <2>2, <2>3, <2>4 DEF BearMoves
<1> QED
  BY <1>3, <1>4 DEF RowGood, Clean

-----------------------------------------------------------------------------
(***************************************************************************)
(* The handlers' moves.                                                    *)
(***************************************************************************)
\* What a handler's move makes of a note.
NoteMove(h, n) ==
  \/ notes'[n] = notes[n]
  \/ notes'[n] = GONE
  \/ NoteMade(h, n)
  \/ /\ n \in LiveNotes /\ notes'[n] \in NoteRow /\ handlers[h].call \in Calls
     /\ notes'[n] = Changed(handlers[h].call, notes[n])
     /\ notes[n].sync_status # "conflict"
  \/ /\ n \in LiveNotes /\ notes'[n] \in NoteRow /\ notes[n].bear_id = NULL
     /\ notes'[n] = [notes[n] EXCEPT !.body = handlers[h].call.body]

LEMMA NotesMove ==
  ASSUME BaseInv, NEW h \in Handlers, HandlerHolds(h), Moves(h), NEW n \in HubIds
  PROVE  NoteMove(h, n)
<1>1. HubInv
  BY DEF BaseInv
<1>2. CASE NoteWritten(h, n)
  <2>1. Updates(h) /\ n = handlers[h].note_id /\ n \in LiveNotes /\ notes'[n] \in NoteRow
    BY <1>2 DEF NoteWritten, LiveNotes
  <2>2. /\ handlers[h].call \in Calls /\ handlers[h].copy.sync_status # "conflict"
        /\ \/ At(h, "update_note") /\ notes'[n] = Changed(handlers[h].call, handlers[h].copy)
           \/ At(h, "restore")
           \/ /\ At(h, "update_coalesced") /\ handlers[h].copy.bear_id = NULL
              /\ notes'[n] = [handlers[h].copy EXCEPT !.body = handlers[h].call.body]
    BY <1>1, <1>2, WrittenRow
  <2>3. ~At(h, "restore") /\ (At(h, "update_note") \/ At(h, "update_coalesced") =>
                                handlers[h].copy = notes[n])
    BY <2>1 DEF HandlerHolds, At
  <2> QED
    BY <2>1, <2>2, <2>3 DEF NoteMove
<1> QED
  BY <1>2, NoteMoves DEF NoteMove

LEMMA MadeRow ==
  ASSUME BaseInv, NEW h \in Handlers, NEW n \in HubIds, NoteMade(h, n)
  PROVE  /\ notes'[n].modified_at = clock /\ notes'[n].expected_bear_modified_at = NULL
         /\ notes'[n].sync_status = "pending_to_bear" /\ notes'[n].bear_id = NULL
BY DEF NoteMade, Inserts, NewNote

LEMMA ChangedGood ==
  ASSUME ConvergeInv, NEW n \in LiveNotes, RowGood(n, notes[n]), NEW c \in Calls,
         notes[n].sync_status # "conflict"
  PROVE  RowGood(n, Changed(c, notes[n]))
<1> DEFINE old == notes[n]
           new == Changed(c, old)
           b == old.bear_id
<1>1. BaseInv /\ HubInv /\ BearInv /\ BearStamps /\ SettledNotes
  BY DEF ConvergeInv, TargetInv, IdsInv, CreateInv, BaseInv
<1>2. old \in NoteRow
  BY <1>1, LiveTyped
<1>3. /\ new.bear_id = b /\ new.sync_status = "pending_to_bear"
      /\ new.expected_bear_modified_at = old.expected_bear_modified_at
      /\ new.pending_bear_body = SnapshotPendingBear(old)
  BY <1>2, ChangedTyped, ChangedEcho
<1>4. new.modified_at = old.modified_at
  BY <1>2 DEF Changed, NoteRow
<1> HIDE DEF new
<1>5. ASSUME n \notin Excepted, UserWrote(b), ~Unpushed(b)
      PROVE  SnapshotPendingBear(old) = bear[b].body
  <2>1. CASE old.sync_status = "pending_to_bear"
    <3>1. old.pending_bear_body = bear[b].body
      BY <1>5, <2>1 DEF RowGood, Snapshot
    <3>2. bear[b].body \in Bodies
      BY <1>1, <1>5, BearCases DEF UserWrote, BearNote
    <3> QED
      BY <3>1, <3>2, NotesAssumption DEF SnapshotPendingBear
  <2>2. CASE old.sync_status = "synced"
    <3>1. old.pending_bear_body = NULL
      BY <2>2 DEF RowGood, Clean
    <3>2. Mirrors(old)
      BY <1>1, <1>5, <2>2 DEF SettledNotes, Excepted
    <3>3. old.body = pushed[b].body /\ pushed[b] = bear[b]
      BY <1>1, <1>5, <3>2 DEF Mirrors, BearStamps, Older, Unpushed
    <3> QED
      BY <3>1, <3>3 DEF SnapshotPendingBear
  <2> QED
    BY <1>2, <2>1, <2>2 DEF NoteRow, SyncStatuses
<1> QED
  BY <1>3, <1>4, <1>5 DEF RowGood, RowPast, Clean, Snapshot, StampsHeld, new

LEMMA MovesKeepRows ==
  ASSUME ConvergeInv, 0 \notin Gaps, EditFacts, [SyncNext]_syncVars, NEW h \in Handlers, Moves(h),
         UNCHANGED <<bridgeVars, worldVars>>, NEW n \in LiveNotes'
  PROVE  RowGood(n, notes[n])'
<1>1. BaseInv /\ HubInv /\ n \in HubIds /\ Exists(notes'[n]) /\ HandlerHolds(h)
  BY DEF ConvergeInv, TargetInv, IdsInv, CreateInv, BaseInv, LiveNotes, EditFacts
<1>2. ASSUME NEW row, RowGood(n, row) PROVE RowGood(n, row)'
  BY <1>2 DEF bridgeVars, worldVars, RowGood, RowPast, Past, Clean, Snapshot, StampsHeld, UserWrote,
     Unpushed, Excepted, Skipped, Marked
<1>3. ASSUME n \in LiveNotes PROVE RowGood(n, notes[n]) /\ notes[n] \in NoteRow
  BY <1>1, <1>3, LiveTyped DEF EditFacts
<1>4. RowGood(n, notes'[n])
  <2>1. CASE notes'[n] = notes[n]
    BY <1>1, <1>3, <2>1 DEF LiveNotes
  <2>2. CASE NoteMade(h, n)
    BY <1>1, <2>2, MadeRow, NotesAssumption DEF RowGood, RowPast, Past, Clean, Snapshot, StampsHeld,
       UserWrote, BaseInv, CountersOK, Seconds
  <2>3. CASE /\ n \in LiveNotes /\ handlers[h].call \in Calls
             /\ notes'[n] = Changed(handlers[h].call, notes[n])
             /\ notes[n].sync_status # "conflict"
    BY <1>3, <2>3, ChangedGood
  <2>4. CASE /\ n \in LiveNotes /\ notes[n].bear_id = NULL
             /\ notes'[n] = [notes[n] EXCEPT !.body = handlers[h].call.body]
    <3>1. /\ notes'[n].bear_id = NULL /\ notes'[n].sync_status = notes[n].sync_status
          /\ notes'[n].modified_at = notes[n].modified_at
          /\ notes'[n].pending_bear_body = notes[n].pending_bear_body
          /\ notes'[n].expected_bear_modified_at = notes[n].expected_bear_modified_at
      BY <1>3, <2>4 DEF NoteRow
    <3> QED
      BY <1>3, <2>4, <3>1, NotesAssumption DEF RowGood, RowPast, Clean, Snapshot, StampsHeld, UserWrote
  <2> QED
    BY <1>1, <2>1, <2>2, <2>3, <2>4, NotesMove DEF NoteMove, Exists
<1> QED
  BY <1>2, <1>4

\* Only a note that Bear does not have is taken back by its handler.
LEMMA GoneByCreator ==
  ASSUME BaseInv, NEW h \in Handlers, HandlerHolds(h), Moves(h), NEW n \in LiveNotes,
         notes'[n] = GONE
  PROVE  notes[n].bear_id = NULL
<1>1. HubInv /\ n \in HubIds /\ notes'[n] # notes[n] /\ ~UNCHANGED notes
  BY DEF BaseInv, LiveNotes, Exists
<1>2. ~WritesSome(h)
  BY <1>1, NotesAssumption DEF WritesSome, Writes, NoteBecomes
<1>3. \A m \in HubIds : ~Inserts(h, m)
  BY <1>1, NotesAssumption DEF Inserts, LiveNotes, Exists
<1>4. DeletesSome(h)
  BY <1>1, <1>2, <1>3 DEF Moves, Forgets, ReadsNote, StartsCreate, ChoosesWrite, Turns, Asks,
     AsksCreate, Merges
<1>5. Deletes(h, "delete_created", Idle)
  BY <1>4 DEF DeletesSome, Deletes, HandlerHolds, At
<1> QED
  BY <1>1, <1>5 DEF Deletes, NoteBecomes, HandlerHolds

LEMMA MovesKeepHolds ==
  ASSUME CreateInv, OneHandler, faults = 0, NEW h \in Handlers, HandlerHolds(h), Moves(h),
         NEW g \in Handlers
  PROVE  HandlerHolds(g)'
<1>1. HubInv /\ NotesTypeOK /\ g = h
  BY DEF CreateInv, BaseInv, HubInv, OneHandler
<1>2. CASE At(h, "idle")' \/ At(h, "create_note")' \/ At(h, "enqueue_create")'
  BY <1>1, <1>2 DEF HandlerHolds, Updates, UpdateSteps, At
<1>3. CASE At(h, "check_key")' /\ \E c \in Calls : ReadsNote(h, c)
  <2>1. PICK c \in Calls : ReadsNote(h, c)
    BY <1>3
  <2>2. /\ c.note_id \in LiveNotes' /\ handlers'[h].note_id = c.note_id
        /\ handlers'[h].copy = notes'[c.note_id]
    BY <2>1 DEF ReadsNote, HandlerBecomes, LiveNotes
  <2> QED
    BY <1>1, <1>3, <2>2 DEF HandlerHolds, At
<1>4. CASE /\ handlers'[h].step \in {"update_note", "enqueue", "find_create", "coalesce", "update_coalesced"}
           /\ At(h, "check_key") \/ At(h, "find_create") \/ At(h, "coalesce")
           /\ SameHandler(h) /\ UNCHANGED notes
  BY <1>1, <1>4 DEF HandlerHolds, At, Updates, UpdateSteps, SameHandler, LiveNotes
<1>5. CASE /\ At(h, "enqueue")' /\ SameHandler(h)
           /\ Writes(h, "update_note", Changed(handlers[h].call, handlers[h].copy),
                     StepTo(handlers[h], "enqueue"))
  <2>1. /\ handlers[h].note_id \in LiveNotes /\ handlers'[h].note_id = handlers[h].note_id
    BY <1>5 DEF HandlerHolds, Writes, At, Updates, UpdateSteps, SameHandler
  <2>2. notes'[handlers[h].note_id] \in NoteRow
    BY <1>5, <2>1 DEF Writes, NoteBecomes, LiveNotes
  <2>3. handlers[h].note_id \in LiveNotes'
    BY <2>1, <2>2, RowsExist DEF LiveNotes
  <2> QED
    BY <1>1, <1>5, <2>1, <2>3 DEF HandlerHolds, At
<1>6. ~\E i \in Ids : write_queue[i].status = "failed" /\ write_queue[i].action = "create"
  BY DEF CreateInv, OrphanInv, CreatesSucceed
<1>7. CASE At(h, "delete_created")' /\ SameHandler(h) /\ \E i \in Nat : AsksCreate(h, i)
  <2>1. PICK i \in Nat : AsksCreate(h, i)
    BY <1>7
  <2>2. UNCHANGED notes /\ At(h, "enqueue_create") /\ handlers[h].note_id \in HubIds
    BY <1>1, <2>1, AsksCreateRows
  <2>3. PendingCreate(handlers[h].note_id)
    BY <2>2 DEF PendingCreate
  <2>4. handlers[h].note_id \in LiveNotes => notes[handlers[h].note_id].bear_id = NULL
    BY <2>2, <2>3 DEF CreateInv, OrphanInv, UnbornInBear
  <2> QED
    BY <1>1, <1>7, <2>2, <2>4 DEF HandlerHolds, Updates, UpdateSteps, At, SameHandler, LiveNotes
<1>8. \/ At(h, "idle")' \/ At(h, "create_note")' \/ At(h, "enqueue_create")'
      \/ At(h, "check_key")' /\ \E c \in Calls : ReadsNote(h, c)
      \/ /\ handlers'[h].step \in {"update_note", "enqueue", "find_create", "coalesce", "update_coalesced"}
         /\ At(h, "check_key") \/ At(h, "find_create") \/ At(h, "coalesce")
         /\ SameHandler(h) /\ UNCHANGED notes
      \/ /\ At(h, "enqueue")' /\ SameHandler(h)
         /\ Writes(h, "update_note", Changed(handlers[h].call, handlers[h].copy),
                   StepTo(handlers[h], "enqueue"))
      \/ At(h, "delete_created")' /\ SameHandler(h) /\ \E i \in Nat : AsksCreate(h, i)
  BY <1>1, <1>6, MoveSteps DEF At
<1> QED
  BY <1>2, <1>3, <1>4, <1>5, <1>7, <1>8

LEMMA MovesKeepBatchCalm ==
  ASSUME BaseInv, BatchCalm, NEW h \in Handlers, HandlerHolds(h), Moves(h), UnbornPending,
         UNCHANGED batch
  PROVE  BatchCalm'
<1> SUFFICES ASSUME NEW i \in DOMAIN batch, ~batch[i].conflict, NoteOf(i) \in LiveNotes'
             PROVE  notes'[NoteOf(i)].sync_status # "conflict"
  BY DEF BatchCalm, NoteOf
<1> DEFINE n == NoteOf(i)
<1>1. n \in HubIds /\ Exists(notes'[n]) /\ HubInv
  BY DEF LiveNotes, BaseInv
<1>2. CASE n \in LiveNotes
  <2>1. notes[n].sync_status # "conflict" /\ notes[n] \in NoteRow
    BY <1>1, <1>2, LiveTyped DEF BatchCalm
  <2>2. \A c \in Calls : Changed(c, notes[n]).sync_status = "pending_to_bear"
    BY <2>1, ChangedTyped
  <2>3. \A x : [notes[n] EXCEPT !.body = x].sync_status = notes[n].sync_status
    BY <2>1 DEF NoteRow
  <2>4. NoteMove(h, n)
    BY <1>1, NotesMove
  <2>5. notes'[n] # GONE /\ ~NoteMade(h, n)
    BY <1>1, <1>2 DEF LiveNotes, Exists, NoteMade
  <2>6. CASE notes'[n] = notes[n]
    BY <2>1, <2>6
  <2>7. CASE handlers[h].call \in Calls /\ notes'[n] = Changed(handlers[h].call, notes[n])
    <3>1. notes'[n].sync_status = "pending_to_bear"
      BY <2>2, <2>7
    <3> QED
      BY <3>1
  <2>8. CASE notes'[n] = [notes[n] EXCEPT !.body = handlers[h].call.body]
    <3>1. notes'[n].sync_status = notes[n].sync_status
      BY <2>3, <2>8
    <3> QED
      BY <2>1, <3>1
  <2> QED
    BY <2>4, <2>5, <2>6, <2>7, <2>8 DEF NoteMove
<1>3. CASE n \notin LiveNotes
  <2>1. NoteMade(h, n)
    BY <1>1, <1>3, NotesMove DEF NoteMove, Exists, LiveNotes
  <2> QED
    BY <1>1, <2>1, MadeRow
<1> QED
  BY <1>2, <1>3

LEMMA MovesKeepGoneTargets ==
  ASSUME TargetInv, GoneTargets, NEW h \in Handlers, HandlerHolds(h), Moves(h), UNCHANGED bear,
         CreateInv, OneHandler, faults = 0
  PROVE  GoneTargets'
<1>1. BaseInv /\ HubInv /\ RowTargets
  BY DEF TargetInv, IdsInv, CreateInv, BaseInv
<1> SUFFICES ASSUME NEW i \in Ids', write_queue'[i].payload.bear_id # NULL,
                    write_queue'[i].note_id \notin LiveNotes'
             PROVE  bear'[write_queue'[i].payload.bear_id] = GONE
  BY DEF GoneTargets
<1>2. CASE RowStays(i)
  <2> DEFINE n == write_queue[i].note_id
  <2>1. i \in Ids /\ write_queue[i].payload.bear_id # NULL /\ n \in HubIds /\ n \notin LiveNotes'
    BY <1>1, <1>2 DEF RowStays, HubInv, RowsOK, RowShape
  <2>2. CASE n \in LiveNotes
    <3>1. notes[n].bear_id # NULL /\ notes[n] \in NoteRow
      BY <1>1, <2>1, <2>2, LiveTyped DEF RowTargets
    <3>2. notes'[n] # notes[n]
      BY <2>1, <2>2 DEF LiveNotes
    <3>3. ~Exists(notes'[n])
      BY <2>1 DEF LiveNotes
    <3>4. notes'[n] = GONE
      BY <1>1, <2>1, <3>1, <3>2, <3>3, NotesMove, RowsExist DEF NoteMove, NoteMade
    <3> QED
      BY <1>1, <2>2, <3>1, <3>4, GoneByCreator
  <2>3. CASE n \notin LiveNotes
    BY <1>2, <2>1, <2>3 DEF GoneTargets, RowStays
  <2> QED
    BY <2>2, <2>3
<1>3. CASE Asks(h, i)
  <2>1. handlers[h].note_id \in LiveNotes /\ UNCHANGED notes
    BY <1>1, <1>3, AsksRows DEF HandlerHolds
  <2>2. RowStays(i) \/ write_queue'[i].note_id = handlers[h].note_id
    BY <1>1, <1>3, AsksRows DEF AskedRow
  <2> QED
    BY <1>2, <2>1, <2>2 DEF LiveNotes
<1>4. CASE AsksCreate(h, i) /\ AskedRow(h, i, NULL)
  BY <1>4 DEF AskedRow
<1>5. CASE i \in Ids /\ Merges(h, i)
  <2>1. /\ write_queue[i].action = "create" /\ RowShape(write_queue[i])
        /\ write_queue'[i].payload.bear_id = write_queue[i].payload.bear_id
    BY <1>1, <1>5, MergesRows DEF HubInv, RowsOK
  <2> QED
    BY <2>1 DEF RowShape
<1> QED
  BY <1>1, <1>2, <1>3, <1>4, <1>5, RowsMoved

-----------------------------------------------------------------------------
(***************************************************************************)
(* The push.                                                               *)
(***************************************************************************)
\* A row that takes over what the push says of Bear's note.
LEMMA ToldGood ==
  ASSUME BaseInv, BearStamps, PushDelta, NEW b \in DOMAIN delta, delta[b] \in BearNote,
         NEW n, NEW row, row.bear_id = b, row.modified_at = delta[b].modified_at,
         row.pending_bear_body = NULL, row.expected_bear_modified_at = NULL,
         row.sync_status # "pending_to_bear"
  PROVE  RowGood(n, row)'
<1>1. /\ BearInv /\ b \in BearIds /\ UNCHANGED <<bear, clock>> /\ pushed'[b] = delta[b]
      /\ NULL \notin Seconds
  BY NotesAssumption DEF BaseInv, BearInv, PushDelta, Push, worldVars
<1>2. Older(b, delta[b]) /\ Exists(delta[b]) /\ delta[b].modified_at \in Seconds
  BY <1>1, NotesAssumption DEF BearStamps, Exists, BearNote
<1>3. ASSUME UserWrote(b)'
      PROVE  /\ bear'[b].modified_at # NULL
             /\ Unpushed(b)' => delta[b].modified_at # bear'[b].modified_at
  <2>1. bear[b] \in BearNote /\ Exists(bear[b])
    BY <1>1, <1>3, BearCases DEF UserWrote
  <2>2. bear[b].modified_at \in Seconds
    BY <2>1 DEF BearNote
  <2>3. Unpushed(b)' => delta[b].modified_at < bear[b].modified_at
    BY <1>1, <1>2, <2>1 DEF Unpushed, Newer, Exists
  <2>4. \A s \in Seconds : ~(s < s)
    BY DEF Seconds
  <2> QED
    BY <1>1, <1>2, <2>2, <2>3, <2>4
<1>4. Past(row.modified_at)' /\ Past(row.expected_bear_modified_at)'
  BY <1>1, <1>2 DEF Past, Older
<1> QED
  BY <1>3, <1>4 DEF RowGood, RowPast, Clean, Snapshot, StampsHeld

\* A waiting row that a push reaches: when the user's text is new to the hub it is
\* no echo, so that only a snapshot that is this text avoids the conflict.
LEMMA WaitingPushed ==
  ASSUME BaseInv, BearStamps, PushDelta, NEW b \in DOMAIN delta, delta[b] \in BearNote,
         NEW n, NEW old \in NoteRow, old.bear_id = b, old.sync_status = "pending_to_bear",
         old.body # old.pending_bear_body, RowGood(n, old),
         NEW in, in = delta[b], NEW new, new = UpsertPending(old, in)
  PROVE  RowGood(n, new)'
<1>1. /\ BearInv /\ b \in BearIds /\ UNCHANGED <<bear, clock, marks>> /\ pushed'[b] = in
      /\ NULL \notin Seconds
  BY NotesAssumption DEF BaseInv, BearInv, PushDelta, Push, worldVars
<1>2. Older(b, in) /\ Exists(in) /\ in.modified_at \in Seconds /\ Unpushed(b)
  BY <1>1, NotesAssumption DEF BearStamps, Exists, BearNote
<1>3. /\ new.bear_id = b /\ new.modified_at = in.modified_at
      /\ new.pending_bear_body = old.pending_bear_body
      /\ new.expected_bear_modified_at \in {old.expected_bear_modified_at, NULL}
      /\ new.sync_status = IF ~IsEcho(old, in) /\ in.modified_at # old.modified_at
                           THEN DetectContentConflict(old, in) ELSE "pending_to_bear"
  BY DEF UpsertPending, NoteRow
<1>4. new.sync_status # "synced"
  BY <1>3 DEF DetectContentConflict
<1>5. Past(new.modified_at)' /\ Past(new.expected_bear_modified_at)'
  BY <1>1, <1>2, <1>3 DEF Past, Older, RowGood, RowPast
<1>6. ASSUME UserWrote(b)', n \notin Excepted'
      PROVE  Snapshot(new)' /\ StampsHeld(new)'
  <2>1. UserWrote(b) /\ n \notin Excepted /\ bear[b] \in BearNote /\ Exists(bear[b])
    BY <1>1, <1>6, BearCases DEF UserWrote, Excepted, Skipped, Marked
  <2>2. Snapshot(old) /\ StampsHeld(old)
    BY <2>1 DEF RowGood
  <2>3. bear[b].modified_at \in Seconds
    BY <2>1 DEF BearNote
  <2>4. new.expected_bear_modified_at # bear[b].modified_at
    BY <1>1, <1>3, <2>1, <2>2, <2>3 DEF StampsHeld
  <2>5. Unpushed(b)' => in.modified_at # bear[b].modified_at
    <3>1. Unpushed(b)' => in.modified_at < bear[b].modified_at
      BY <1>1, <1>2, <2>1 DEF Unpushed, Newer, Exists
    <3>2. \A s \in Seconds : ~(s < s)
      BY DEF Seconds
    <3> QED
      BY <2>3, <3>1, <3>2
  <2>6. ASSUME new.sync_status = "pending_to_bear", ~Unpushed(b)'
        PROVE  new.pending_bear_body = bear[b].body
    <3>1. in = bear[b]
      BY <1>1, <1>2, <2>6 DEF Older, Unpushed
    <3>2. ~IsEcho(old, in) /\ in.modified_at # old.modified_at
      BY <1>2, <2>1, <2>2, <3>1 DEF StampsHeld, IsEcho
    <3>3. DetectContentConflict(old, in) = "pending_to_bear"
      BY <1>3, <2>6, <3>2
    <3> QED
      BY <1>3, <3>1, <3>3 DEF DetectContentConflict
  <2> QED
    BY <1>1, <1>3, <2>4, <2>5, <2>6 DEF Snapshot, StampsHeld
<1> QED
  BY <1>3, <1>4, <1>5, <1>6 DEF RowGood, RowPast, Clean, Snapshot, StampsHeld

LEMMA PushKeepsRows ==
  ASSUME ConvergeInv, \A m \in LiveNotes : RowGood(m, notes[m]), PendingTextsDiffer, PushDelta,
         NEW n \in LiveNotes'
  PROVE  RowGood(n, notes[n])'
<1>1. /\ BaseInv /\ NotesTypeOK /\ BearInv /\ BearStamps
      /\ ProcessSyncPush(delta) /\ UNCHANGED <<bear, clock, marks>>
      /\ n \in HubIds /\ Exists(notes'[n])
  BY DEF ConvergeInv, TargetInv, IdsInv, CreateInv, BaseInv, HubInv, PushDelta,
     Push, worldVars, LiveNotes
<1>2. pushed' = [b \in BearIds |-> IF b \in DOMAIN delta THEN delta[b] ELSE pushed[b]]
  BY DEF PushDelta
<1>3. CASE Exists(notes[n])
  <2> DEFINE old == notes[n]
             b == old.bear_id
  <2>1. old \in NoteRow /\ RowGood(n, old) /\ n \in LiveNotes
    BY <1>1, <1>3, NoteCases
  <2>2. CASE b \notin DOMAIN delta /\ notes'[n] = old
    <3>1. UserWrote(b)' => pushed'[b] = pushed[b]
      BY <1>2, <2>2 DEF UserWrote
    <3> QED
      BY <1>1, <2>1, <2>2, <3>1 DEF RowGood, RowPast, Past, Clean, Snapshot, StampsHeld,
         UserWrote, Unpushed, Excepted, Skipped, Marked
  <2>3. CASE b \in DOMAIN delta /\ delta[b] \in BearNote /\ notes'[n] = Upserted(old, delta[b], b)
    <3>1. CASE old.sync_status = "pending_to_bear"
      <4>1. old.body # old.pending_bear_body
        BY <2>1, <3>1 DEF PendingTextsDiffer
      <4>2. notes'[n] = UpsertPending(old, delta[b])
        BY <2>3, <3>1 DEF Upserted
      <4> HIDE DEF old
      <4> QED
        BY <1>1, <2>1, <2>3, <3>1, <4>1, <4>2, WaitingPushed
    <3>2. CASE old.sync_status # "pending_to_bear"
      <4> DEFINE new == UpsertSettled(old, delta[b], b)
      <4>1. /\ new.bear_id = b /\ new.modified_at = delta[b].modified_at
            /\ new.pending_bear_body = NULL /\ new.expected_bear_modified_at = NULL
            /\ new.sync_status # "pending_to_bear"
        BY DEF UpsertSettled
      <4>2. notes'[n] = new
        BY <2>3, <3>2 DEF Upserted
      <4> HIDE DEF new
      <4> QED
        BY <1>1, <2>3, <4>1, <4>2, ToldGood
    <3> QED
      BY <3>1, <3>2
  <2> QED
    BY <1>1, <1>3, <2>2, <2>3, PushedRow
<1>4. CASE notes[n] = NULL
  <2>1. PICK b \in DOMAIN delta : delta[b] \in BearNote /\ notes'[n] = InsertedNote(delta[b], b)
    BY <1>1, <1>4, PushEffect DEF PushFate, FreshNote, Exists
  <2> DEFINE new == InsertedNote(delta[b], b)
  <2>2. /\ new.bear_id = b /\ new.modified_at = delta[b].modified_at
        /\ new.pending_bear_body = NULL /\ new.expected_bear_modified_at = NULL
        /\ new.sync_status # "pending_to_bear"
    BY DEF InsertedNote
  <2> HIDE DEF new
  <2> QED
    BY <1>1, <2>1, <2>2, ToldGood DEF new
<1>5. notes[n] # GONE
  BY <1>1, PushEffect DEF PushFate, Exists
<1> QED
  BY <1>1, <1>3, <1>4, <1>5, NoteCases

-----------------------------------------------------------------------------
(***************************************************************************)
(* The acknowledgements.                                                   *)
(***************************************************************************)
\* Where the stamp, the wait and the snapshot of a row come from after the rows
\* 1..k of the loop.
StampFate(n, old, new, k) ==
  \/ new.expected_bear_modified_at = NULL
  \/ /\ new.expected_bear_modified_at = old.expected_bear_modified_at
     /\ new.bear_id = old.bear_id
  \/ \E i \in 1..k : /\ AckedBy(n, i) /\ ~acks[i].conflict_resolved
                     /\ new.expected_bear_modified_at = acks[i].bear_modified_at

WaitFate(n, old, new, k) ==
  new.sync_status = "pending_to_bear" =>
    \/ /\ old.sync_status = "pending_to_bear" /\ new.bear_id = old.bear_id
       /\ new.pending_bear_body = old.pending_bear_body
    \/ \E i \in 1..k : GivesId(n, i, new.bear_id)

EditFate(n, old, new, k) ==
  IF Exists(old)
  THEN /\ new \in NoteRow /\ (Clean(old) => Clean(new))
       /\ StampFate(n, old, new, k) /\ WaitFate(n, old, new, k)
  ELSE new = old

LEMMA EditFateGrows ==
  ASSUME NEW n, NEW old, NEW new, NEW k \in Nat, EditFate(n, old, new, k)
  PROVE  EditFate(n, old, new, k + 1)
<1>1. 1..k \subseteq 1..(k + 1)
  OBVIOUS
<1>2. StampFate(n, old, new, k) => StampFate(n, old, new, k + 1)
  BY <1>1, Zenon DEF StampFate
<1>3. WaitFate(n, old, new, k) => WaitFate(n, old, new, k + 1)
  BY <1>1, Zenon DEF WaitFate
<1> QED
  BY <1>2, <1>3 DEF EditFate

LEMMA EditFateStep ==
  ASSUME AcksTypeOK, NEW n, NEW old, Exists(old), NEW mid, NEW k \in Nat,
         EditFate(n, old, mid, k), AckedBy(n, k + 1)
  PROVE  EditFate(n, old, AckedNote(mid, acks[k + 1], OthersActive(acks, k + 1)), k + 1)
<1> DEFINE i == k + 1
           ack == acks[i]
           others == OthersActive(acks, i)
           new == AckedNote(mid, ack, others)
<1>1. mid \in NoteRow /\ Exists(mid) /\ EditFate(n, old, mid, i)
  BY EditFateGrows, RowsExist DEF EditFate
<1>2. /\ i \in 1..i /\ i \in DOMAIN acks /\ ack \in AckRecord
      /\ AckedBy(n, i)
  BY DEF AckedBy, AckChangesNote, AcksTypeOK
<1> SUFFICES EditFate(n, old, new, i)
  OBVIOUS
<1> HIDE DEF i, ack, others
<1>3. CASE new = mid
  BY <1>1, <1>3
<1>4. CASE new = Settled(mid)
  <2>1. /\ new \in NoteRow /\ new.sync_status = "synced" /\ new.pending_bear_body = NULL
        /\ new.expected_bear_modified_at = NULL
    BY <1>1, <1>4 DEF Settled, NoteRow, SyncStatuses
  <2> HIDE DEF new
  <2> QED
    BY <1>1, <2>1 DEF EditFate, Clean, StampFate, WaitFate
<1>5. CASE ~ack.conflict_resolved /\ ack.bear_id # NULL /\ new = AckedCreate(mid, ack, others)
  <2>1. /\ new \in NoteRow /\ new.bear_id = ack.bear_id
        /\ new.sync_status = IF others THEN "pending_to_bear" ELSE "synced"
        /\ new.pending_bear_body = IF others THEN mid.body ELSE NULL
        /\ new.expected_bear_modified_at = ack.bear_modified_at
    BY <1>1, <1>2, <1>5 DEF AckedCreate, NoteRow, SyncStatuses, AckRecord
  <2> HIDE DEF new
  <2>2. GivesId(n, i, new.bear_id)
    BY <1>2, <1>5, <2>1 DEF GivesId, ack
  <2>3. StampFate(n, old, new, i)
    BY <1>2, <1>5, <2>1 DEF StampFate, ack
  <2>4. WaitFate(n, old, new, i) /\ Clean(new)
    BY <1>2, <2>1, <2>2 DEF WaitFate, Clean
  <2> QED
    BY <1>1, <2>1, <2>3, <2>4 DEF EditFate
<1>6. CASE /\ ~ack.conflict_resolved
           /\ new = [mid EXCEPT !.expected_bear_modified_at = ack.bear_modified_at]
  <2>1. /\ new \in NoteRow /\ new.bear_id = mid.bear_id /\ new.sync_status = mid.sync_status
        /\ new.pending_bear_body = mid.pending_bear_body
        /\ new.expected_bear_modified_at = ack.bear_modified_at
    BY <1>1, <1>2, <1>6 DEF NoteRow, AckRecord
  <2> HIDE DEF new
  <2>2. StampFate(n, old, new, i)
    BY <1>2, <1>6, <2>1 DEF StampFate, ack
  <2> QED
    BY <1>1, <2>1, <2>2 DEF EditFate, Clean, WaitFate
<1>7. ack.conflict_resolved \in BOOLEAN
  BY <1>2 DEF AckRecord
<1> QED
  BY <1>1, <1>3, <1>4, <1>5, <1>6, <1>7 DEF new, AckedNote, AckedConflictCopy, AckedChange

\* The loop's effect on every note.
LEMMA EditFates ==
  ASSUME TypeOK, NotesTypeOK, AcksTypeOK, AckItems(acks), NEW n \in HubIds
  PROVE  EditFate(n, notes[n], notes'[n], Len(write_queue))
<1> DEFINE m == Len(write_queue)
           T == [HubIds -> NoteRow \cup {NULL, GONE}]
           Good(k) == /\ AfterAcks(acks)[k] = [q \in HubIds |-> AfterAcks(acks)[k][q]]
                      /\ EditFate(n, notes[n], AfterAcks(acks)[k][n], k)
           S == {k \in Nat : k <= m => Good(k)}
<1>1. m \in Nat /\ Ids = 1..m
  BY TableShape DEF Ids
<1>2. 0 \in S
  <2>1. AfterAcks(acks)[0] = notes /\ notes \in T
    BY AfterAcksSteps DEF NotesTypeOK
  <2>2. EditFate(n, notes[n], notes[n], 0)
    BY <2>1 DEF EditFate, StampFate, WaitFate, Exists
  <2> QED
    BY <2>1, <2>2
<1>3. ASSUME NEW k \in Nat, k \in S
      PROVE  k + 1 \in S
  <2> SUFFICES ASSUME k + 1 <= m PROVE Good(k + 1)
    OBVIOUS
  <2> DEFINE table == AfterAcks(acks)[k]
             i == k + 1
  <2>1. /\ table = [r \in HubIds |-> table[r]]
        /\ EditFate(n, notes[n], table[n], k)
    BY <1>1, <1>3
  <2>2. i \in Ids /\ i - 1 = k
    BY <1>1
  <2>3. AfterAcks(acks)[i] = AckStep(acks, table, i)
    BY <2>2, AfterAcksSteps
  <2>4. CASE ~AckChangesNote(acks, i)
    <3>1. AfterAcks(acks)[i] = table
      BY <2>3, <2>4 DEF AckStep
    <3> HIDE DEF table
    <3> QED
      BY <2>1, <3>1, EditFateGrows
  <2>5. CASE AckChangesNote(acks, i)
    <3> DEFINE q == write_queue[i].note_id
               new == AckedNote(table[q], acks[i], OthersActive(acks, i))
    <3>1. q \in HubIds
      BY <2>5 DEF AckChangesNote
    <3>2. AfterAcks(acks)[i] = [table EXCEPT ![q] = new]
      BY <2>1, <2>3, <2>5, <3>1 DEF AckStep
    <3>3. CASE n = q
      <4>1. AckedBy(n, i)
        BY <2>5, <3>3 DEF AckedBy
      <4>2. EditFate(n, notes[n], new, i)
        <5>1. CASE Exists(notes[n])
          <6> HIDE DEF table
          <6> QED
            BY <2>1, <3>3, <4>1, <5>1, EditFateStep
        <5>2. CASE ~Exists(notes[n])
          <6>1. table[n] = notes[n]
            BY <2>1, <5>2 DEF EditFate
          <6>2. new = notes[n]
            BY <3>3, <5>2, <6>1 DEF AckedNote
          <6> QED
            BY <5>2, <6>2 DEF EditFate
        <5> QED
          BY <5>1, <5>2
      <4> HIDE DEF table, new, q
      <4> QED
        BY <2>1, <3>1, <3>2, <3>3, <4>2
    <3>4. CASE n # q
      <4> HIDE DEF table, new, q
      <4>1. AfterAcks(acks)[i][n] = table[n]
        BY <2>1, <3>2, <3>4
      <4> QED
        BY <2>1, <3>1, <3>2, <4>1, EditFateGrows
    <3> QED
      BY <3>3, <3>4
  <2> QED
    BY <2>4, <2>5
<1>4. m \in S
  <2> HIDE DEF S
  <2> QED
    BY <1>1, <1>2, <1>3, NatSetInduction
<1>5. notes' = AfterAcks(acks)[m]
  BY DEF AckItems
<1> QED
  BY <1>1, <1>4, <1>5

\* An acknowledgement that gives a note its bear_id.
LEMMA GivenGood ==
  ASSUME IdsInv, DoneUnpushed, phase = "ack", NEW n \in LiveNotes, NEW i, NEW b, GivesId(n, i, b)
  PROVE  /\ b \in BearIds /\ notes[n].bear_id = NULL /\ i \in DOMAIN acks /\ i \in Ids
         /\ acks[i].outcome = "applied" /\ ActionOf(i) = "create" /\ NoteOf(i) = n
         /\ write_queue[i].action = "create" /\ write_queue[i].note_id = n
         /\ AckTarget(i) = b
         /\ n \notin Skipped => Unpushed(b)
<1>1. BaseInv /\ n \in HubIds
  BY DEF IdsInv, CreateInv, LiveNotes
<1>2. /\ i \in DOMAIN acks /\ i \in Ids /\ acks[i].outcome = "applied" /\ b \in BearIds
      /\ ActionOf(i) = "create" /\ write_queue[i].action = "create"
      /\ NoteOf(i) = n /\ write_queue[i].note_id = n /\ acks[i].bear_id = b
  BY <1>1, GivenIds
<1>3. AckTarget(i) = b
  BY <1>2 DEF AckTarget
<1>4. write_queue[i].status = "processing"
  BY <1>1, <1>2 DEF BaseInv, BridgeInv, BatchShape, BatchLeased
<1>5. PendingCreate(n)
  BY <1>2, <1>4 DEF PendingCreate, Active
<1>6. notes[n].bear_id = NULL
  BY <1>1, <1>5 DEF IdsInv, CreateInv, OrphanInv, UnbornInBear
<1> QED
  BY <1>1, <1>2, <1>3, <1>6, NotesAssumption DEF DoneUnpushed

\* An acknowledgement whose stamp a row keeps is about the row's note of Bear.
LEMMA StampTarget ==
  ASSUME TargetInv, TargetInv', DoneUnpushed, AckBatch, NEW n \in LiveNotes, n \in LiveNotes',
         NEW i, AckedBy(n, i), ~acks[i].conflict_resolved, notes'[n].bear_id # NULL
  PROVE  /\ i \in DOMAIN acks /\ acks[i].outcome = "applied" /\ NoteOf(i) = n
         /\ AckTarget(i) = notes'[n].bear_id
<1>1. /\ BaseInv /\ IdsInv /\ RowTargets /\ phase = "ack" /\ n \in HubIds /\ OrphanInv
      /\ RowTargets' /\ AckItems(acks)
  BY DEF TargetInv, IdsInv, CreateInv, AckBatch, LiveNotes
<1>2. /\ i \in DOMAIN acks /\ i \in DOMAIN batch /\ acks[i].outcome = "applied" /\ AckOK(i)
      /\ write_queue[i].note_id = n /\ write_queue[i].status = "processing"
  BY <1>1 DEF AckedBy, AckChangesNote, BaseInv, BridgeInv, BatchShape
<1>3. /\ NoteOf(i) = n /\ i \in Ids /\ TargetOf(i) = write_queue[i].payload.bear_id
      /\ ActionOf(i) = write_queue[i].action /\ (ActionOf(i) = "create" <=> TargetOf(i) = NULL)
  BY <1>1, <1>2, BatchItem
<1>4. CASE ActionOf(i) # "create"
  <2>1. RowsKept
    BY <1>1, AckSettles DEF RowsSettle
  <2>2. i \in Ids' /\ write_queue'[i].payload = write_queue[i].payload
        /\ write_queue'[i].note_id = write_queue[i].note_id
    BY <1>3, <2>1 DEF RowsKept, Work
  <2>3. notes'[n].bear_id = TargetOf(i)
    BY <1>1, <1>2, <1>3, <1>4, <2>2 DEF RowTargets
  <2> QED
    BY <1>2, <1>3, <1>4, <2>3 DEF AckTarget
<1>5. CASE ActionOf(i) = "create"
  <2>1. AckFate(n, notes[n], notes'[n], Len(write_queue)) /\ Exists(notes[n])
    BY <1>1, AckStepFate DEF LiveNotes
  <2>2. PendingCreate(n)
    BY <1>2, <1>3, <1>5 DEF PendingCreate, Active
  <2>3. notes[n].bear_id = NULL
    BY <1>1, <2>2 DEF OrphanInv, UnbornInBear
  <2>4. PICK j \in 1..Len(write_queue) : GivesId(n, j, notes'[n].bear_id)
    BY <2>1, <2>3 DEF AckFate, IdFate
  <2>5. j \in Ids /\ write_queue[j].action = "create" /\ write_queue[j].note_id = n
        /\ AckTarget(j) = notes'[n].bear_id
    BY <1>1, <2>4, GivenGood
  <2>6. i = j
    BY <1>1, <1>2, <1>3, <1>5, <2>5 DEF OrphanInv, CreatesUnique
  <2> QED
    BY <1>2, <1>3, <2>5, <2>6
<1> QED
  BY <1>4, <1>5

LEMMA AckedRow ==
  ASSUME ConvergeInv, TargetInv', \A m \in LiveNotes : RowGood(m, notes[m]),
         \A i \in DOMAIN acks : AckGood(i), AckBatch, NEW n \in LiveNotes'
  PROVE  RowGood(n, notes'[n])
<1> DEFINE old == notes[n]
           new == notes'[n]
           k == Len(write_queue)
           b == new.bear_id
<1>1. /\ BaseInv /\ IdsInv /\ TargetInv /\ DoneUnpushed /\ phase = "ack" /\ n \in HubIds
      /\ UNCHANGED <<bear, pushed, clock, marks>> /\ Exists(notes'[n]) /\ NULL \notin Seconds
  BY NotesAssumption DEF ConvergeInv, TargetInv, IdsInv, CreateInv, AckBatch, worldVars, LiveNotes
<1>2. AckFate(n, old, new, k) /\ EditFate(n, old, new, k)
  BY <1>1, AckStepFate, AcksTyped, EditFates DEF AckBatch
<1>3. /\ n \in LiveNotes /\ RowGood(n, old) /\ new.modified_at = old.modified_at
      /\ IdFate(n, old, new, k)
      /\ StampFate(n, old, new, k) /\ WaitFate(n, old, new, k) /\ Clean(new)
  BY <1>1, <1>2 DEF AckFate, EditFate, LiveNotes, RowGood
<1> HIDE DEF old, new, k, b
<1>4. RowPast(new)
  <2>1. Past(new.expected_bear_modified_at)
    <3>1. \A i : AckedBy(n, i) => Past(acks[i].bear_modified_at)
      BY DEF AckedBy, AckChangesNote, AckGood
    <3> QED
      BY <1>3, <3>1 DEF StampFate, RowGood, RowPast, Past
  <2> QED
    BY <1>3, <2>1 DEF RowGood, RowPast
<1>5. ASSUME n \notin Excepted, UserWrote(b)
      PROVE  Snapshot(new) /\ StampsHeld(new)
  <2>1. /\ Snapshot(old) /\ StampsHeld(old) /\ n \notin Skipped /\ b \in BearIds /\ b # NULL
        /\ bear[b].modified_at # NULL
    <3>1. bear[b] \in BearNote
      BY <1>1, <1>5, BearCases DEF UserWrote, BaseInv
    <3> QED
      BY <1>1, <1>3, <1>5, <3>1, NotesAssumption DEF RowGood, Excepted, UserWrote, BearNote
  <2>2. ASSUME NEW i, GivesId(n, i, b)
        PROVE  Unpushed(b) /\ old.modified_at # bear[b].modified_at
    <3>1. /\ i \in DOMAIN acks /\ acks[i].outcome = "applied" /\ ActionOf(i) = "create"
          /\ NoteOf(i) = n /\ AckTarget(i) = b /\ Unpushed(b)
      BY <1>1, <1>3, <2>1, <2>2, GivenGood
    <3>2. AckStamps(i)
      BY <3>1 DEF AckGood
    <3> QED
      BY <1>3, <1>5, <3>1, <3>2 DEF AckStamps, old
  <2>3. new.expected_bear_modified_at # bear[b].modified_at
    <3>1. CASE new.expected_bear_modified_at = NULL
      BY <2>1, <3>1
    <3>2. CASE new.expected_bear_modified_at = old.expected_bear_modified_at /\ b = old.bear_id
      BY <1>5, <2>1, <3>2 DEF StampsHeld
    <3>3. ASSUME NEW i \in 1..k, AckedBy(n, i), ~acks[i].conflict_resolved,
                 new.expected_bear_modified_at = acks[i].bear_modified_at
          PROVE  new.expected_bear_modified_at # bear[b].modified_at
      <4>1. /\ i \in DOMAIN acks /\ acks[i].outcome = "applied" /\ NoteOf(i) = n
            /\ AckTarget(i) = b
        BY <1>1, <1>3, <2>1, <3>3, StampTarget DEF b, new
      <4>2. AckStamps(i)
        BY <4>1 DEF AckGood
      <4> QED
        BY <1>5, <3>3, <4>1, <4>2 DEF AckStamps
    <3> QED
      BY <1>3, <3>1, <3>2, <3>3 DEF StampFate, b
  <2>4. Unpushed(b) => new.modified_at # bear[b].modified_at
    <3>1. CASE b = old.bear_id
      BY <1>3, <1>5, <2>1, <3>1 DEF StampsHeld
    <3>2. CASE b # old.bear_id
      BY <1>3, <2>2, <3>2 DEF IdFate, b
    <3> QED
      BY <3>1, <3>2
  <2>5. Snapshot(new)
    <3> SUFFICES ASSUME new.sync_status = "pending_to_bear", ~Unpushed(b)
                 PROVE  new.pending_bear_body = bear[b].body
      BY DEF Snapshot, b
    <3>1. /\ old.sync_status = "pending_to_bear" /\ b = old.bear_id
          /\ new.pending_bear_body = old.pending_bear_body
      BY <1>3, <2>2 DEF WaitFate, b
    <3> QED
      BY <1>5, <2>1, <3>1 DEF Snapshot
  <2> QED
    BY <2>3, <2>4, <2>5 DEF StampsHeld, b
<1>6. ~UserWrote(b) => Snapshot(new) /\ StampsHeld(new)
  BY DEF Snapshot, StampsHeld, b
<1>7. RowGood(n, new)
  BY <1>3, <1>4, <1>5, <1>6 DEF RowGood
<1> QED
  BY <1>7 DEF new

LEMMA AckKeepsGood ==
  ASSUME ConvergeInv, EditFacts, AckBatch, NEW n \in LiveNotes', TargetInv'
  PROVE  RowGood(n, notes[n])'
<1>1. RowGood(n, notes'[n]) /\ UNCHANGED <<bear, pushed, clock, marks>>
  BY AckedRow DEF AckBatch, worldVars, EditFacts
<1>2. ASSUME NEW row, RowGood(n, row) PROVE RowGood(n, row)'
  BY <1>1, <1>2 DEF RowGood, RowPast, Past, Clean, Snapshot, StampsHeld, UserWrote, Unpushed,
     Excepted, Skipped, Marked
<1>3. RowGood(n, notes[n])'
  BY <1>1, <1>2
<1> QED
  BY <1>3

-----------------------------------------------------------------------------
(***************************************************************************)
(* What the acknowledgements say while the items are worked through.       *)
(***************************************************************************)
LEMMA AckGoodStays ==
  ASSUME BaseInv, BearStamps, EditFacts, 0 \notin Gaps, [SyncNext]_syncVars, NEW i \in DOMAIN acks,
         UNCHANGED batch, acks'[i] = acks[i], Verifying(i)' => Verifying(i),
         NoteOf(i) \in LiveNotes' =>
           /\ NoteOf(i) \in LiveNotes
           /\ notes'[NoteOf(i)].modified_at = notes[NoteOf(i)].modified_at
  PROVE  AckGood(i)'
<1>1. /\ BearMoves /\ clock \in Seconds /\ clock' \in Seconds /\ clock <= clock'
      /\ Excepted \subseteq Excepted' /\ NULL \notin Seconds
  BY BearStepMoves, CountersStep, ExceptedGrows, NotesAssumption DEF BaseInv, CountersOK, BearMoves
<1>2. AckGood(i) /\ HubInv /\ acks[i].bear_modified_at \in Seconds \cup {NULL}
  BY AcksTyped DEF EditFacts, AcksTypeOK, AckRecord, BaseInv
<1>3. /\ AckTarget(i)' = AckTarget(i) /\ NoteOf(i)' = NoteOf(i)
      /\ ActionOf(i)' = ActionOf(i) /\ TargetOf(i)' = TargetOf(i)
  BY DEF AckTarget, NoteOf, ActionOf, TargetOf
<1>4. \A s \in Seconds : s <= clock => s <= clock' /\ (clock < clock' => s # clock')
  BY <1>1 DEF Seconds
<1>5. Past(acks[i].bear_modified_at)'
  BY <1>1, <1>2, <1>4 DEF AckGood, Past
<1>6. ASSUME NEW b, b = AckTarget(i), NEW n, n = NoteOf(i),
             acks[i].outcome = "applied", n \notin Excepted', UserWrote(b)'
      PROVE  /\ acks[i].bear_modified_at # bear'[b].modified_at
             /\ ActionOf(i) = "create" /\ n \in LiveNotes' =>
                  notes'[n].modified_at # bear'[b].modified_at
  <2>1. b \in BearIds /\ n \notin Excepted
    BY <1>1, <1>6 DEF UserWrote
  <2>2. CASE bear'[b] = bear[b]
    BY <1>2, <1>6, <2>1, <2>2 DEF AckGood, AckStamps, UserWrote
  <2>3. CASE BearTurns(b)
    <3>1. bear'[b].modified_at = clock' /\ clock < clock'
      BY <1>6, <2>3 DEF BearTurns, UserWrote, Exists
    <3>2. acks[i].bear_modified_at # clock'
      BY <1>1, <1>2, <1>4, <3>1 DEF AckGood, Past
    <3>3. ASSUME n \in LiveNotes' PROVE notes'[n].modified_at # clock'
      <4>1. n \in LiveNotes /\ notes[n] \in NoteRow
        BY <1>2, <1>6, <3>3, LiveTyped
      <4>2. notes[n].modified_at \in Seconds /\ Past(notes[n].modified_at)
        BY <4>1 DEF EditFacts, RowGood, RowPast, NoteRow
      <4> QED
        BY <1>1, <1>4, <1>6, <3>1, <3>3, <4>2 DEF Past
    <3> QED
      BY <3>1, <3>2, <3>3
  <2> QED
    BY <1>1, <2>1, <2>2, <2>3 DEF BearMoves
<1>7. AckStamps(i)'
  BY <1>3, <1>6 DEF AckStamps
<1>8. (Verifying(i) /\ ActionOf(i) # "create" => acks[i].bear_id = TargetOf(i))'
  BY <1>2, <1>3 DEF AckGood
<1> QED
  BY <1>5, <1>7, <1>8 DEF AckGood

\* The acknowledgement of the item that has just been worked.
LEMMA ItemAckGood ==
  ASSUME BaseInv, BearStamps, EditFacts, 0 \notin Gaps, [SyncNext]_syncVars, NEW j \in Nat,
         ItemStep(j)
  PROVE  AckGood(j)'
<1>1. BearInv /\ BearInv' /\ HubInv /\ clock \in Seconds /\ clock' \in Seconds /\ NULL \notin Seconds
  BY BearStep, CountersStep, NotesAssumption DEF BaseInv, CountersOK
<1>2. /\ Turn(j) /\ j \in DOMAIN batch /\ UNCHANGED <<batch, notes>>
      /\ ActionOf(j)' = ActionOf(j) /\ NoteOf(j)' = NoteOf(j) /\ TargetOf(j)' = TargetOf(j)
  BY DEF ItemStep, TargetLost, SkipItem, ChangeBear, CopyConflict, WriteBear, Applied, handlerVars,
     Turn, Todo, ActionOf, NoteOf, TargetOf
<1>3. \A b : UserWrote(b)' => bear'[b].modified_at # NULL
  <2> SUFFICES ASSUME NEW b, UserWrote(b)' PROVE bear'[b].modified_at # NULL
    OBVIOUS
  <2>1. b \in BearIds /\ Exists(bear'[b])
    BY DEF UserWrote
  <2>2. bear'[b] \in BearNote
    BY <1>1, <2>1 DEF BearInv, Exists
  <2> QED
    BY <1>1, <2>2 DEF BearNote
<1>4. \A what : acks' = Put(acks, j, what) => acks'[j] = what
  BY DEF Put
<1>5. ASSUME acks'[j].bear_modified_at = NULL, phase' # "verify", ActionOf(j) # "create"
      PROVE  AckGood(j)'
  BY <1>2, <1>3, <1>5 DEF AckGood, AckStamps, Past, Verifying
<1>6. ASSUME acks'[j].bear_modified_at = NULL \/ Past(acks[j].bear_modified_at)',
             phase' # "verify", NoteOf(j) \in Excepted'
      PROVE  AckGood(j)'
  BY <1>2, <1>6 DEF AckGood, AckStamps, Past, Verifying
<1>7. CASE TargetLost(j)
  <2>1. acks'[j] = Ack("failed") /\ phase' # "verify" /\ ActionOf(j) # "create"
    BY <1>4, <1>7 DEF TargetLost, Applied
  <2> QED
    BY <1>5, <2>1 DEF Ack
<1>8. CASE ChangeBear(j)
  <2>1. acks'[j] = Ack("applied") /\ phase' # "verify" /\ ActionOf(j) # "create"
    BY <1>4, <1>8 DEF ChangeBear, Applied
  <2> QED
    BY <1>5, <2>1 DEF Ack
<1>9. CASE CopyConflict(j)
  <2>1. /\ acks'[j] = [Ack("applied") EXCEPT !.conflict_resolved = TRUE] /\ phase' # "verify"
        /\ <<"copied", NoteOf(j)>> \in marks'
    BY <1>4, <1>9 DEF CopyConflict, Applied
  <2>2. NoteOf(j) \in Excepted'
    BY <2>1 DEF Excepted, Skipped, Marked
  <2> QED
    BY <1>6, <2>1, <2>2 DEF Ack
<1>10. CASE SkipItem(j)
  <2>1. /\ acks'[j] = IF ActionOf(j) = "update"
                      THEN [Ack("applied") EXCEPT !.bear_modified_at = Modified(TargetOf(j))]
                      ELSE Ack("applied")
        /\ phase' # "verify" /\ ActionOf(j) \in {"update", "trash", "add_tag"}
        /\ <<ActionOf(j), NoteOf(j)>> \in marks' /\ UNCHANGED clock
    BY <1>2, <1>4, <1>10, BatchItem DEF SkipItem, Applied
  <2>2. NoteOf(j) \in Excepted'
    BY <2>1 DEF Excepted, Skipped, Marked
  <2>3. TargetOf(j) \in BearIds /\ Exists(bear[TargetOf(j)])
    BY <1>2, <1>10, BatchItem DEF SkipItem, TargetLives
  <2>4. Modified(TargetOf(j)) <= clock
    BY <2>3 DEF BearStamps, Older, Modified
  <2>5. acks'[j].bear_modified_at \in {NULL, Modified(TargetOf(j))}
    BY <2>1 DEF Ack
  <2>6. acks'[j].bear_modified_at = NULL \/ Past(acks[j].bear_modified_at)'
    BY <2>1, <2>4, <2>5 DEF Past
  <2> QED
    BY <1>6, <2>1, <2>2, <2>6
<1>11. ASSUME NEW b \in BearIds, WriteBear(j, b)
       PROVE  AckGood(j)'
  <2>1. /\ acks'[j] = [Ack("applied") EXCEPT !.bear_id = b]
        /\ ActionOf(j) # "create" => b = TargetOf(j)
        /\ BearTurns(b)
    BY <1>4, <1>11, WriteTurns DEF WriteBear, BearUpdate, BearCreate
  <2>2. acks'[j].bear_modified_at = NULL /\ acks'[j].bear_id = b
    BY <2>1 DEF Ack
  <2>3. ASSUME ActionOf(j) = "create", NoteOf(j) \in LiveNotes', UserWrote(b)'
        PROVE  notes'[NoteOf(j)].modified_at # bear'[b].modified_at
    <3>1. bear'[b].modified_at = clock' /\ clock < clock'
      BY <2>1, <2>3 DEF BearTurns, UserWrote, Exists
    <3>2. NoteOf(j) \in LiveNotes
      BY <1>2, <2>3 DEF LiveNotes
    <3>3. notes[NoteOf(j)].modified_at \in Seconds /\ Past(notes[NoteOf(j)].modified_at)
      BY <1>1, <3>2, LiveTyped DEF EditFacts, RowGood, RowPast, NoteRow
    <3> QED
      BY <1>1, <1>2, <3>1, <3>3 DEF Past, Seconds
  <2>4. AckTarget(j)' = b
    BY <1>2, <2>1, <2>2 DEF AckTarget
  <2> QED
    BY <1>2, <1>3, <2>1, <2>2, <2>3, <2>4 DEF AckGood, AckStamps, Past
<1> QED
  BY <1>7, <1>8, <1>9, <1>10, <1>11 DEF ItemStep

\* Reading a text of the user back is a race, which excepts the note.
LEMMA VerifiedAckGood ==
  ASSUME BaseInv, BearStamps, EditFacts, NEW j \in Nat, Verify(j)
  PROVE  AckGood(j)'
<1> DEFINE b == acks[j].bear_id
<1>1. /\ phase = "verify" /\ phase' # "verify" /\ LastAcked(j) /\ j \in DOMAIN acks
      /\ UNCHANGED <<batch, bear, clock>> /\ b \in BearIds
  BY VerifiedAcks DEF Verify, Verified, Written, LastAcked
<1>2. acks[j] \in AckRecord /\ BearInv /\ AckGood(j)
  BY <1>1 DEF BaseInv, BridgeInv, BatchShape, EditFacts
<1>3. /\ acks'[j].bear_modified_at = Modified(b)
      /\ acks'[j].bear_id = IF ActionOf(j) = "create" THEN b ELSE NULL
  BY <1>1, <1>2 DEF Verify, Verified, AckRecord
<1>4. AckTarget(j)' = b /\ NoteOf(j)' = NoteOf(j)
  <2>1. ActionOf(j)' = ActionOf(j) /\ TargetOf(j)' = TargetOf(j) /\ NoteOf(j)' = NoteOf(j)
    BY <1>1 DEF ActionOf, TargetOf, NoteOf
  <2>2. ActionOf(j) # "create" => b = TargetOf(j)
    BY <1>1, <1>2 DEF AckGood, Verifying
  <2> QED
    BY <1>3, <2>1, <2>2 DEF AckTarget
<1>5. Past(acks[j].bear_modified_at)'
  BY <1>1, <1>3 DEF Past, Modified, BearStamps, Older
<1>6. UserWrote(b) => NoteOf(j) \in Excepted'
  <2>1. UserWrote(b) => <<"raced", NoteOf(j)>> \in marks'
    BY DEF Verify, Verified, UserWrote
  <2> QED
    BY <2>1 DEF Excepted, Marked
<1> HIDE DEF b
<1>7. AckStamps(j)'
  BY <1>1, <1>4, <1>6 DEF AckStamps, UserWrote
<1> QED
  BY <1>1, <1>5, <1>7 DEF AckGood, Verifying

LEMMA AcksKeepGood ==
  ASSUME BaseInv, BearStamps, EditFacts, 0 \notin Gaps, [SyncNext]_syncVars, FaultlessStep,
         NEW i \in DOMAIN acks'
  PROVE  AckGood(i)'
<1>1. HubInv /\ BatchShape
  BY DEF BaseInv, BridgeInv
<1>2. ASSUME UNCHANGED <<batch, acks, notes>>, phase' = "verify" => phase = "verify"
      PROVE  AckGood(i)'
  <2>1. Verifying(i)' => Verifying(i)
    BY <1>2 DEF Verifying, LastAcked
  <2> QED
    BY <1>2, <2>1, AckGoodStays DEF LiveNotes
<1>3. ASSUME NEW h \in Handlers, Moves(h), UNCHANGED <<bridgeVars, worldVars>>
      PROVE  AckGood(i)'
  <2> DEFINE n == NoteOf(i)
  <2>1. UNCHANGED <<batch, acks, phase>> /\ i \in DOMAIN acks /\ i \in DOMAIN batch
    BY <1>1, <1>3 DEF bridgeVars, BatchShape
  <2>2. Verifying(i)' => Verifying(i)
    BY <2>1 DEF Verifying, LastAcked
  <2>3. n \in HubIds /\ notes[n] # NULL /\ HandlerHolds(h)
    BY <1>1, <2>1, BatchItem DEF HubInv, NotesKnown, EditFacts
  <2>4. NoteMove(h, n) /\ ~NoteMade(h, n)
    BY <1>3, <2>3, NotesMove DEF NoteMade
  <2>5. ASSUME n \in LiveNotes'
        PROVE  n \in LiveNotes /\ notes'[n].modified_at = notes[n].modified_at
    <3>1. notes'[n] # GONE
      BY <2>5 DEF LiveNotes, Exists
    <3>2. n \in LiveNotes
      BY <2>3, <2>4, <2>5, <3>1 DEF NoteMove, LiveNotes
    <3>3. notes[n] \in NoteRow
      BY <1>1, <3>2, LiveTyped
    <3>4. \A c : Changed(c, notes[n]).modified_at = notes[n].modified_at
      BY <3>3 DEF Changed, NoteRow
    <3>5. \A x : [notes[n] EXCEPT !.body = x].modified_at = notes[n].modified_at
      BY <3>3 DEF NoteRow
    <3> HIDE DEF n
    <3> QED
      BY <2>4, <3>1, <3>2, <3>4, <3>5 DEF NoteMove
  <2> QED
    BY <2>1, <2>2, <2>5, AckGoodStays
<1>4. CASE \/ \E b \in BearIds : UserEdits(b) \/ UserDeletes(b)
           \/ ReadDelta \/ LeaseTime \/ UNCHANGED syncVars
  BY <1>2, <1>4 DEF UserEdits, UserDeletes, ReadDelta, LeaseTime, syncVars, bridgeVars, handlerVars
<1>5. CASE PushDelta \/ LeaseBatch \/ AckBatch \/ AckRefused
  <2>1. DOMAIN acks' = {}
    BY <1>1, <1>5 DEF PushDelta, Push, LeaseBatch, AckBatch, AckRefused, BatchShape, Nothing
  <2> QED
    BY <2>1
<1>6. ASSUME NEW j \in 1..MaxRows, ItemStep(j)
      PROVE  AckGood(i)'
  <2>1. /\ UNCHANGED <<batch, notes>> /\ Turn(j) /\ \E ack : acks' = Put(acks, j, ack)
    BY <1>6 DEF ItemStep, TargetLost, SkipItem, ChangeBear, CopyConflict, WriteBear, Applied, handlerVars
  <2>2. CASE i = j
    <3>1. j \in Nat
      OBVIOUS
    <3> QED
      BY <1>6, <2>2, <3>1, ItemAckGood
  <2>3. CASE i # j
    <3>1. i \in DOMAIN acks /\ acks'[i] = acks[i] /\ j \in DOMAIN acks'
      BY <2>1, <2>3 DEF Put
    <3>2. i < j /\ i \in Nat
      BY <1>1, <2>1, <3>1 DEF BatchShape, Turn, Todo, Ids
    <3>3. ~Verifying(i)'
      BY <3>1, <3>2 DEF Verifying, LastAcked
    <3> QED
      BY <2>1, <3>1, <3>3, AckGoodStays DEF LiveNotes
  <2> QED
    BY <2>2, <2>3
<1>7. ASSUME NEW j \in 1..MaxRows, Verify(j)
      PROVE  AckGood(i)'
  <2>1. /\ UNCHANGED <<batch, notes>> /\ phase' # "verify" /\ j \in DOMAIN acks
        /\ \A k \in DOMAIN acks \ {j} : acks'[k] = acks[k]
        /\ DOMAIN acks' = DOMAIN acks /\ j \in Nat
    BY <1>7 DEF Verify, Verified, Written, handlerVars
  <2>2. CASE i = j
    BY <1>7, <2>1, <2>2, VerifiedAckGood
  <2>3. CASE i # j
    BY <2>1, <2>3, AckGoodStays DEF LiveNotes, Verifying
  <2> QED
    BY <2>2, <2>3
<1> QED
  BY <1>3, <1>4, <1>5, <1>6, <1>7 DEF FaultlessStep

-----------------------------------------------------------------------------
(***************************************************************************)
(* The steps.                                                              *)
(***************************************************************************)
\* The steps that leave the hub's notes and its handlers alone.
LEMMA OtherStepsLeaveNotes ==
  ASSUME FaultlessStep, \A h \in Handlers : ~(Moves(h) /\ UNCHANGED <<bridgeVars, worldVars>>),
         ~PushDelta, ~AckBatch
  PROVE  /\ UNCHANGED <<notes, handlers>>
         /\ LeaseBatch \/ LeaseTime \/ AckRefused \/ (QuietStep /\ UNCHANGED batch)
         /\ AckRefused => QuietStep
<1>1. CASE LeaseBatch \/ LeaseTime \/ AckRefused
  BY <1>1 DEF LeaseBatch, LeaseTime, AckRefused, QuietStep, handlerVars
<1>2. CASE \/ \E b \in BearIds : UserEdits(b) \/ UserDeletes(b)
           \/ ReadDelta \/ UNCHANGED syncVars
           \/ \E i \in 1..MaxRows : ItemStep(i) \/ Verify(i)
  <2>1. QuietStep
    BY <1>2, Zenon DEF QuietStep, ItemStep
  <2>2. UNCHANGED handlerVars
    BY <2>1, QuietStepsLeaveHub
  <2>3. UNCHANGED batch
    BY <1>2 DEF UserEdits, UserDeletes, ReadDelta, ItemStep, TargetLost, SkipItem, ChangeBear,
       CopyConflict, WriteBear, Verify, Verified, Applied, syncVars, bridgeVars
  <2> QED
    BY <2>1, <2>2, <2>3 DEF handlerVars
<1> QED
  BY <1>1, <1>2 DEF FaultlessStep

LEMMA BatchCalmStep ==
  ASSUME ConvergeInv, EditFacts, FaultlessStep
  PROVE  BatchCalm'
<1>1. BaseInv /\ BatchShape /\ UnbornPending /\ BatchCalm
  BY DEF ConvergeInv, TargetInv, IdsInv, CreateInv, BaseInv, BridgeInv, EditFacts
<1>2. ASSUME NEW h \in Handlers, Moves(h), UNCHANGED <<bridgeVars, worldVars>>
      PROVE  BatchCalm'
  BY <1>1, <1>2, MovesKeepBatchCalm DEF bridgeVars, EditFacts
<1>3. CASE PushDelta \/ AckBatch \/ AckRefused
  <2>1. DOMAIN batch' = {}
    BY <1>1, <1>3 DEF PushDelta, Push, AckBatch, AckRefused, BatchShape, Nothing
  <2> QED
    BY <2>1 DEF BatchCalm
<1>4. CASE LeaseBatch
  <2> SUFFICES ASSUME NEW i \in DOMAIN batch', ~batch'[i].conflict, NoteOf(i)' \in LiveNotes'
               PROVE  notes'[NoteOf(i)'].sync_status # "conflict"
    BY DEF BatchCalm
  <2>1. /\ i \in LeasedNow /\ UNCHANGED notes
        /\ batch'[i] = [work |-> Work(write_queue[i]), conflict |-> InConflict(i)]
    BY <1>4 DEF LeaseBatch
  <2>2. NoteOf(i)' = write_queue[i].note_id /\ ~InConflict(i)
    BY <2>1 DEF NoteOf, Work
  <2> QED
    BY <2>1, <2>2 DEF InConflict, LiveNotes
<1>5. CASE UNCHANGED <<notes, batch>>
  BY <1>1, <1>5 DEF BatchCalm, LiveNotes, NoteOf
<1>6. CASE LeaseTime
  BY <1>5, <1>6 DEF LeaseTime, bridgeVars
<1> QED
  BY <1>2, <1>3, <1>4, <1>5, <1>6, OtherStepsLeaveNotes

LEMMA GoneTargetsStep ==
  ASSUME OneByOne, 0 \notin Gaps, ConvergeInv, EditFacts, faults = 0, [SyncNext]_syncVars,
         FaultlessStep
  PROVE  GoneTargets'
<1>1. /\ TargetInv /\ CreateInv /\ BaseInv /\ HubInv /\ BearInv /\ BearStamps /\ RowTargets
      /\ GoneTargets /\ BearMoves
  BY BearStepMoves DEF ConvergeInv, TargetInv, IdsInv, CreateInv, BaseInv, EditFacts
<1>2. ASSUME NEW b \in BearIds, bear[b] = GONE PROVE bear'[b] = GONE
  BY <1>1, <1>2 DEF BearMoves, BearTurns, Exists
<1>3. ASSUME NEW h \in Handlers, Moves(h), UNCHANGED <<bridgeVars, worldVars>>
      PROVE  GoneTargets'
  <2>1. UNCHANGED bear /\ HandlerHolds(h) /\ OneHandler
    BY <1>3 DEF worldVars, EditFacts, OneByOne
  <2> QED
    BY <1>1, <1>3, <2>1, MovesKeepGoneTargets
<1>4. ASSUME RowsKept,
             \A n \in LiveNotes : n \in LiveNotes' \/ bear[notes[n].bear_id] = GONE
      PROVE  GoneTargets'
  <2> SUFFICES ASSUME NEW i \in Ids', write_queue'[i].payload.bear_id # NULL,
                      write_queue'[i].note_id \notin LiveNotes'
               PROVE  bear'[write_queue'[i].payload.bear_id] = GONE
    BY DEF GoneTargets
  <2>1. /\ i \in Ids /\ write_queue'[i].payload = write_queue[i].payload
        /\ write_queue'[i].note_id = write_queue[i].note_id
    BY <1>4 DEF RowsKept, Work
  <2>2. write_queue[i].payload.bear_id \in BearIds
    BY <1>1, <2>1 DEF HubInv, RowsOK, RowShape
  <2>3. bear[write_queue[i].payload.bear_id] = GONE
    BY <1>1, <1>4, <2>1 DEF RowTargets, GoneTargets
  <2> QED
    BY <1>2, <2>1, <2>2, <2>3
<1>5. CASE AckBatch
  <2>1. RowsKept
    BY <1>1, <1>5, TransactionsSettle DEF RowsSettle
  <2>2. \A n \in LiveNotes : n \in LiveNotes'
    BY <1>1, <1>5, AckStepFate, RowsExist DEF AckFate, LiveNotes
  <2> QED
    BY <1>4, <2>1, <2>2
<1>6. CASE PushDelta
  <2>1. RowsKept
    BY <1>1, <1>6, TransactionsSettle DEF RowsSettle
  <2>2. ASSUME NEW n \in LiveNotes PROVE n \in LiveNotes' \/ bear[notes[n].bear_id] = GONE
    <3> DEFINE old == notes[n]
               b == old.bear_id
    <3>1. n \in HubIds /\ old \in NoteRow /\ Exists(old) /\ NotesTypeOK
      BY <1>1, <2>2, LiveTyped DEF LiveNotes, HubInv
    <3>2. PushedNote(old, notes'[n])
      BY <1>1, <1>6, <3>1, PushEffect DEF PushFate, PushDelta, Push
    <3>3. CASE b \notin DOMAIN delta
      BY <3>1, <3>2, <3>3 DEF PushedNote, LiveNotes
    <3>4. CASE b \in DOMAIN delta /\ delta[b] = GONE
      <4>1. Older(b, GONE) /\ GONE # NULL
        BY <1>1, <3>4, NotesAssumption DEF BearStamps, BearInv
      <4> QED
        BY <4>1 DEF Older, Newer, Exists
    <3>5. CASE b \in DOMAIN delta /\ delta[b] # GONE
      <4>1. b \in BearIds /\ delta[b] \in BearNote
        BY <1>1, <3>5 DEF BearInv
      <4>2. notes'[n] = Upserted(old, delta[b], b)
        BY <3>2, <3>5 DEF PushedNote
      <4>3. notes'[n] \in NoteRow
        BY <3>1, <4>1, <4>2, UpsertedTyped
      <4> QED
        BY <3>1, <4>3, RowsExist DEF LiveNotes
    <3> QED
      BY <3>3, <3>4, <3>5
  <2> QED
    BY <1>4, <2>1, <2>2
<1>7. CASE UNCHANGED notes /\ (LeaseBatch \/ LeaseTime \/ QuietStep)
  <2>1. RowsKept
    BY <1>1, <1>7, TransactionsSettle DEF RowsSettle
  <2> QED
    BY <1>4, <1>7, <2>1 DEF LiveNotes
<1> QED
  BY <1>3, <1>5, <1>6, <1>7, OtherStepsLeaveNotes

LEMMA HoldsStep ==
  ASSUME OneByOne, ConvergeInv, EditFacts, faults = 0, FaultlessStep, NEW g \in Handlers
  PROVE  HandlerHolds(g)'
<1>1. CreateInv /\ HandlerHolds(g)
  BY DEF ConvergeInv, TargetInv, IdsInv, EditFacts
<1>2. ASSUME NEW h \in Handlers, Moves(h)
      PROVE  HandlerHolds(g)'
  <2>1. HandlerHolds(h) /\ OneHandler
    BY DEF EditFacts, OneByOne
  <2> QED
    BY <1>1, <1>2, <2>1, MovesKeepHolds
<1>3. CASE PushDelta \/ AckBatch
  <2>1. At(g, "idle") /\ UNCHANGED handlers
    BY <1>3, TransactionsQuiet DEF OneByOne, PushDelta, Push, AckBatch
  <2> QED
    BY <2>1 DEF HandlerHolds, Updates, UpdateSteps, At
<1>4. CASE UNCHANGED <<notes, handlers>>
  BY <1>1, <1>4 DEF HandlerHolds, Updates, At, LiveNotes
<1> QED
  BY <1>2, <1>3, <1>4, OtherStepsLeaveNotes

LEMMA RowsStep ==
  ASSUME OneByOne, 0 \notin Gaps, ConvergeInv, TargetInv', EditFacts, PendingTextsDiffer, faults = 0,
         [SyncNext]_syncVars, FaultlessStep, NEW n \in LiveNotes'
  PROVE  RowGood(n, notes[n])'
<1>1. /\ BaseInv /\ HubInv /\ BearStamps /\ (\A m \in LiveNotes : RowGood(m, notes[m]))
      /\ \A i \in DOMAIN acks : AckGood(i)
  BY DEF ConvergeInv, TargetInv, IdsInv, CreateInv, BaseInv, EditFacts
<1>2. ASSUME NEW h \in Handlers, Moves(h), UNCHANGED <<bridgeVars, worldVars>>
      PROVE  RowGood(n, notes[n])'
  BY <1>2, MovesKeepRows
<1>3. CASE PushDelta
  BY <1>1, <1>3, PushKeepsRows
<1>4. CASE AckBatch
  BY <1>1, <1>4, AckKeepsGood
<1>5. CASE UNCHANGED notes /\ ~PushDelta
  <2>1. n \in LiveNotes /\ notes[n] \in NoteRow /\ RowGood(n, notes[n]) /\ UNCHANGED pushed
    BY <1>1, <1>5, LiveTyped, PushedStays DEF LiveNotes
  <2>2. \A row \in NoteRow : RowGood(n, row) => RowGood(n, row)'
    BY <1>1, <2>1, RowTurns
  <2> QED
    BY <1>5, <2>1, <2>2
<1> QED
  BY <1>2, <1>3, <1>4, <1>5, OtherStepsLeaveNotes

LEMMA FaultlessFindsNone ==
  ASSUME FaultlessStep, BaseInv
  PROVE  Marked("found")' \subseteq Marked("found")
<1> SUFFICES ASSUME NEW mark \in marks', mark[1] = "found"
             PROVE  mark \in marks
  BY DEF Marked
<1>1. CASE UNCHANGED marks
  BY <1>1
<1>2. ASSUME NEW i \in 1..MaxRows, SkipItem(i) \/ CopyConflict(i) \/ Verify(i)
      PROVE  mark \in marks
  <2>1. ASSUME SkipItem(i) PROVE ActionOf(i) # "found"
    BY <2>1, BatchItem DEF SkipItem, Turn, Todo
  <2>2. ASSUME NEW what, NEW m, what # "found", marks' = marks \cup {<<what, m>>}
        PROVE  mark \in marks
    BY <2>2
  <2>3. CASE SkipItem(i)
    BY <2>1, <2>2, <2>3 DEF SkipItem
  <2>4. CASE CopyConflict(i)
    BY <2>2, <2>4 DEF CopyConflict
  <2>5. CASE Verify(i)
    BY <1>1, <2>2, <2>5 DEF Verify, Verified
  <2> QED
    BY <1>2, <2>3, <2>4, <2>5
<1> QED
  BY <1>1, <1>2 DEF FaultlessStep, ItemStep, UserEdits, UserDeletes, ReadDelta, PushDelta, Push,
     LeaseBatch, AckBatch, AckRefused, LeaseTime, TargetLost, ChangeBear, ChangesBear, WriteBear,
     BearUpdate, BearCreate, worldVars, syncVars

LEMMA EditInvStep ==
  ASSUME OneByOne, 0 \notin Gaps, EditInv, faults = 0 => PendingTextsDiffer, [SyncNext]_syncVars
  PROVE  EditInv'
<1>1. ConvergeInv' /\ ProtectInv'
  BY ConvergeStep, ProtectStep DEF EditInv, OneByOne
<1>2. ASSUME faults' = 0 PROVE EditFacts'
  <2>1. BaseInv /\ BearStamps /\ ConvergeInv /\ TargetInv'
    BY <1>1 DEF EditInv, ConvergeInv, TargetInv, IdsInv, CreateInv
  <2>2. faults = 0 /\ FaultlessStep /\ EditFacts
    BY <1>2, <2>1, FaultlessSteps DEF EditInv
  <2>3. \A h \in Handlers : HandlerHolds(h)'
    BY <2>1, <2>2, HoldsStep
  <2>4. \A n \in LiveNotes' : RowGood(n, notes[n])'
    BY <2>1, <2>2, RowsStep
  <2>5. \A i \in DOMAIN acks' : AckGood(i)'
    BY <2>1, <2>2, AcksKeepGood
  <2>6. BatchCalm' /\ GoneTargets'
    BY <2>1, <2>2, BatchCalmStep, GoneTargetsStep
  <2>7. Marked("found")' \subseteq Marked("found")
    BY <2>1, <2>2, FaultlessFindsNone
  <2>8. Marked("found")' = {}
    BY <2>2, <2>7 DEF EditFacts
  <2> QED
    BY <2>3, <2>4, <2>5, <2>6, <2>8 DEF EditFacts
<1> QED
  BY <1>1, <1>2 DEF EditInv

LEMMA EditInit ==
  ASSUME SyncInit
  PROVE  EditInv
<1>1. ConvergeInv /\ ProtectInv
  BY ConvergeInit, ProtectInit
<1>2. /\ Ids = {} /\ DOMAIN acks = {} /\ DOMAIN batch = {} /\ pushed = bear /\ clock = 0
      /\ \A h \in Handlers : handlers[h] = Idle
      /\ bear = [b \in BearIds |-> IF b \in DOMAIN Existing THEN FirstNote ELSE NULL]
  BY DEF SyncInit, Init, Ids, Nothing
<1>3. \A h \in Handlers : HandlerHolds(h)
  BY <1>2, IdleShape DEF HandlerHolds, Updates, UpdateSteps, At
<1>4. ASSUME NEW n \in LiveNotes
      PROVE  RowGood(n, notes[n])
  <2> DEFINE c == CHOOSE b \in DOMAIN Existing : Existing[b] = n
             row == notes[n]
  <2>1. \E b \in DOMAIN Existing : Existing[b] = n
    BY DEF SyncInit, LiveNotes, Exists
  <2>2. row = InsertedNote(FirstNote, c)
    BY <2>1 DEF SyncInit, LiveNotes
  <2>3. /\ row.bear_id = c /\ row.modified_at = 0 /\ row.sync_status = "synced"
        /\ row.pending_bear_body = NULL /\ row.expected_bear_modified_at = NULL
    BY <2>2 DEF InsertedNote, FirstNote
  <2>4. c \in DOMAIN Existing /\ c \in BearIds
    BY <2>1, SyncAssumption
  <2>5. bear[c] = FirstNote /\ pushed[c] = FirstNote /\ FirstNote.modified_at = 0
    BY <1>2, <2>4 DEF FirstNote
  <2>6. 0 # NULL /\ ~Unpushed(c)
    <3>1. 0 \in Seconds
      BY NotesAssumption DEF Seconds
    <3>2. FirstNote \in BearNote
      BY SyncAssumption, NotesAssumption DEF FirstNote, BearNote, Seconds
    <3>3. FirstNote # NULL
      BY <3>2, NotesAssumption
    <3> QED
      BY <2>5, <3>1, <3>3, NotesAssumption DEF Unpushed, Newer
  <2> HIDE DEF c, row
  <2> QED
    BY <1>2, <2>3, <2>5, <2>6 DEF RowGood, RowPast, Past, Clean, Snapshot, StampsHeld, row
<1>5. BatchCalm /\ GoneTargets /\ Marked("found") = {}
  BY <1>2 DEF BatchCalm, GoneTargets, Marked, SyncInit
<1> QED
  BY <1>1, <1>2, <1>3, <1>4, <1>5 DEF EditInv, EditFacts

\* Only an update replaces the text of a note of Bear by one its user did not write.
LEMMA BodyTurns ==
  ASSUME BaseInv, [SyncNext]_syncVars, NEW b \in BearIds, Exists(bear[b]), Exists(bear'[b]),
         bear[b].body \in UserBodies, bear'[b].body \notin UserBodies
  PROVE  \E i \in DOMAIN batch : /\ ~batch[i].conflict /\ ActionOf(i) = "update" /\ TargetOf(i) = b
<1>1. bear \in [BearIds -> BearNote \cup {NULL, GONE}] /\ bear[b] \in BearNote /\ bear'[b] # bear[b]
  BY BearCases DEF BaseInv, BearInv
<1>2. CASE HandlerMoves \/ PushDelta \/ PushUnrecorded \/ LeaseBatch \/ AckBatch \/ LeaseTime
  BY <1>1, <1>2 DEF HandlerMoves, PushDelta, PushUnrecorded, Push, LeaseBatch, AckBatch, LeaseTime, worldVars
<1>3. ASSUME NEW c \in BearIds, UserEdits(c) \/ UserDeletes(c)
      PROVE  FALSE
  <2>1. CASE UserDeletes(c)
    BY <1>1, <2>1 DEF UserDeletes, Exists
  <2>2. CASE UserEdits(c)
    <3>1. PICK body \in UserBodies :
            bear' = [bear EXCEPT ![c].body = body, ![c].modified_at = clock']
      BY <2>2 DEF UserEdits
    <3>2. c = b
      BY <1>1, <3>1
    <3>3. bear'[b].body = body
      BY <1>1, <3>1, <3>2 DEF BearNote
    <3> QED
      BY <3>1, <3>3
  <2> QED
    BY <1>3, <2>1, <2>2
<1>4. CASE \/ ReadDelta \/ BridgeDies \/ AckRefused \/ UNCHANGED syncVars
           \/ \E i \in 1..MaxRows : \/ TargetLost(i) \/ SkipItem(i) \/ Verify(i) \/ CopyConflict(i)
                                    \/ VerifyFails(i) \/ ItemFails(i) \/ SearchFails(i)
                                    \/ \E c \in BearIds : SearchFinds(i, c)
  BY <1>1, <1>4 DEF ReadDelta, BridgeDies, AckRefused, SearchFails, SearchFinds, Searched, TargetLost, SkipItem, Verify, CopyConflict, VerifyFails,
     Verified, ItemFails, syncVars, worldVars
<1>5. ASSUME NEW i \in 1..MaxRows, ChangeBear(i)
      PROVE  FALSE
  <2>1. bear' = [bear EXCEPT ![TargetOf(i)] =
                   [bear[TargetOf(i)] EXCEPT !.trashed = @ \/ ActionOf(i) = "trash",
                                             !.modified_at = clock']]
    BY <1>5 DEF ChangeBear, ChangesBear
  <2>2. bear'[b].body = bear[b].body
    BY <1>1, <2>1 DEF BearNote
  <2> QED
    BY <2>2
<1>6. ASSUME NEW i \in 1..MaxRows, NEW c \in BearIds,
             WriteBear(i, c) \/ WriteReportsFailure(i, c) \/ CreateUnnamed(i, c)
      PROVE  i \in DOMAIN batch /\ ~batch[i].conflict /\ ActionOf(i) = "update" /\ TargetOf(i) = b
  <2>1. Turn(i) /\ ~batch[i].conflict /\ (BearUpdate(i, c) \/ BearCreate(i, c))
    BY <1>6 DEF WriteBear, WriteReportsFailure, CreateUnnamed
  <2>2. c = b
    BY <1>1, <2>1 DEF BearUpdate, BearCreate, ChangesBear
  <2>3. BearUpdate(i, b)
    BY <1>1, <2>1, <2>2 DEF BearCreate, Exists
  <2> QED
    BY <2>1, <2>3 DEF BearUpdate, Turn, Todo
<1>7. CASE QuietStep
  <2>1. \/ \E c \in BearIds : UserEdits(c) \/ UserDeletes(c)
        \/ ReadDelta \/ BridgeDies \/ AckRefused \/ UNCHANGED syncVars
        \/ \E i \in 1..MaxRows : \/ TargetLost(i) \/ SkipItem(i) \/ Verify(i) \/ CopyConflict(i)
                                 \/ VerifyFails(i) \/ ItemFails(i) \/ SearchFails(i)
                                 \/ \E c \in BearIds : SearchFinds(i, c)
        \/ \E i \in 1..MaxRows : ChangeBear(i)
        \/ \E i \in 1..MaxRows, c \in BearIds :
             WriteBear(i, c) \/ WriteReportsFailure(i, c) \/ CreateUnnamed(i, c)
    BY <1>7, Zenon DEF QuietStep
  <2> QED
    BY <1>3, <1>4, <1>5, <1>6, <2>1
<1> QED
  BY <1>2, <1>7, StepCases

\* The conditions KnownEditsSurvive is proved under.
EditsAccountedFor ==
  faults = 0 => /\ PendingTextsDiffer
                /\ Marked("trash") \cup Marked("update") \cup Marked("add_tag") = {}

\* The update's item is one of a waiting note, whose snapshot is the text it replaces.
LEMMA KnownEdit ==
  ASSUME EditInv, [SyncNext]_syncVars, EditsAccountedFor, faults = 0,
         NEW b \in BearIds, Exists(bear[b]), bear[b].body \in UserBodies, pushed[b] = bear[b],
         Exists(bear'[b]), bear'[b].body \notin UserBodies,
         NEW n \in NoteOfBear(b) \ (Marked("copied") \cup Marked("raced"))
  PROVE  notes[n].pending_bear_body = bear[b].body
<1>1. /\ BaseInv /\ BearInv /\ HubInv /\ RowTargets /\ ProtectedNotes /\ IdsDiffer /\ EditFacts
  BY DEF EditInv, ConvergeInv, TargetInv, IdsInv, CreateInv, BaseInv, ProtectInv
<1>2. PICK i \in DOMAIN batch : ~batch[i].conflict /\ ActionOf(i) = "update" /\ TargetOf(i) = b
  BY <1>1, BodyTurns
<1>3. n \in LiveNotes /\ notes[n].bear_id = b /\ n \notin Excepted /\ notes[n] \in NoteRow
  BY <1>1, LiveTyped DEF NoteOfBear, EditsAccountedFor, EditFacts, Excepted, Skipped
<1>4. /\ i \in Ids /\ write_queue[i].status = "processing" /\ write_queue[i].action = "update"
      /\ write_queue[i].payload.bear_id = b /\ write_queue[i].note_id = NoteOf(i)
      /\ b # NULL
  BY <1>1, <1>2, BatchItem, NotesAssumption
<1>5. NoteOf(i) \in LiveNotes
  BY <1>1, <1>4 DEF EditFacts, GoneTargets, Exists
<1>6. notes[NoteOf(i)].bear_id = b
  BY <1>1, <1>4, <1>5 DEF RowTargets
<1>7. NoteOf(i) = n
  BY <1>1, <1>3, <1>4, <1>5, <1>6 DEF IdsDiffer
<1>8. notes[n].sync_status # "synced"
  BY <1>1, <1>3, <1>4, <1>7 DEF ProtectedNotes, ActiveUpdate, Active
<1>9. notes[n].sync_status = "pending_to_bear"
  BY <1>1, <1>2, <1>3, <1>5, <1>7, <1>8 DEF EditFacts, BatchCalm, NoteRow, SyncStatuses
<1>10. ~Unpushed(b)
  <2>1. bear[b].modified_at \in Seconds /\ bear[b] # GONE /\ bear[b] # NULL
    BY <1>1, BearCases DEF BearNote, Exists
  <2> QED
    BY <2>1 DEF Unpushed, Newer, Seconds
<1> QED
  BY <1>1, <1>3, <1>9, <1>10 DEF EditFacts, RowGood, Snapshot, UserWrote

\* Between the calls of one consumer's handlers, when every stamp is new, and as
\* long as the text of a note that waits is not its snapshot: without faults no
\* stamp of a text of the user reaches the hub by an acknowledgement, and once the
\* hub was told of that text it is the snapshot of the note, if the note waits.
THEOREM EditInvariant ==
  ASSUME OneByOne, 0 \notin Gaps
  PROVE  SyncSpec /\ [](faults = 0 => PendingTextsDiffer) => []EditInv
<1>1. SyncInit => EditInv
  BY EditInit
<1>2. EditInv /\ (faults = 0 => PendingTextsDiffer) /\ [SyncNext]_syncVars => EditInv'
  BY EditInvStep
<1> QED
  BY <1>1, <1>2, PTL DEF SyncSpec

\* detectContentConflict and snapshotPendingBear: a text of Bear's user that the
\* hub was told of is replaced by a consumer's update only when that update was
\* written over it, or else the note was in conflict when the update was leased
\* and Bear's note stays.  It holds as long as no item is skipped as done
\* and no waiting note says what its snapshot says, as it comes to do by a trash or by
\* an update to the text Bear had.
THEOREM EditsSurvive ==
  ASSUME OneByOne, 0 \notin Gaps
  PROVE  SyncSpec /\ []EditsAccountedFor => KnownEditsSurvive
<1> DEFINE Survives ==
       \A b \in BearIds :
         /\ faults = 0
         /\ Exists(bear[b]) /\ bear[b].body \in UserBodies /\ pushed[b] = bear[b]
         /\ Exists(bear'[b]) /\ bear'[b].body \notin UserBodies
         => \A n \in NoteOfBear(b) \ (Marked("copied") \cup Marked("raced")) :
              notes[n].pending_bear_body = bear[b].body
<1>1. EditsAccountedFor => (faults = 0 => PendingTextsDiffer)
  BY DEF EditsAccountedFor
<1>2. EditInv /\ EditsAccountedFor /\ [SyncNext]_syncVars => [Survives]_syncVars
  BY KnownEdit
<1>3. KnownEditsSurvive <=> [][Survives]_syncVars
  BY DEF KnownEditsSurvive
<1> HIDE DEF Survives
<1> QED
  BY <1>1, <1>2, <1>3, EditInvariant, PTL DEF SyncSpec
=============================================================================
