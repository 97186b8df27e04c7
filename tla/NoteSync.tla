------------------------------ MODULE NoteSync ------------------------------
(***************************************************************************)
(* The two-way synchronisation of notes: Bear and its user, the bridge's   *)
(* cycle (Run, deltaSync, processQueue in src/cmd/bridge) and the hub with *)
(* its consumers.                                                          *)
(*                                                                         *)
(* A cycle pushes what changed in Bear since the last push that was        *)
(* recorded, and then leases, applies and acknowledges queue items.  The   *)
(* window of deltaSync is the subject of module DeltaSync: here a push     *)
(* covers exactly what Bear had when it was read.                          *)
(*                                                                         *)
(* Left out: the [Conflict] note itself, once made, is an ordinary new     *)
(* note of Bear; only that it was made is recorded.                        *)
(***************************************************************************)
EXTENDS ConsumerHandlers

CONSTANTS
  Existing,    \* Bear notes that are synchronised at the start, with their hub ids
  FirstBody,   \* the body they have
  UserBodies,  \* bodies the user may give to a note
  Gaps,        \* seconds that may lie between two changes of Bear's database
  Interleaved, \* whether the bridge's transactions may come inside a handler
  MaxEdits,    \* bound: changes the user makes
  MaxFaults    \* bound: faults

VARIABLES
  bear,     \* Bear's database: Bear id -> note
  pushed,   \* the state file: Bear's notes as the last recorded push had them
  phase,    \* where the bridge is in its cycle
  delta,    \* the changed notes the bridge has read and not yet pushed
  batch,    \* leased items: row id -> [work, conflict]
  acks,     \* acknowledgements collected: row id -> ack
  marks,    \* history: <<"copied", n>> a conflict of note n was copied, <<"raced", n>>
            \* the bridge's verification of n read a later edit of the user,
            \* <<"update", n>>, <<"trash", n>> and <<"add_tag", n>> Bear had what such
            \* an item asked for, <<"found", n>> a note of Bear with the title of n's
            \* create was taken for it
  clock,    \* the second in which Bear's database changed last
  edits, faults

bridgeVars == <<pushed, phase, delta, batch, acks>>
worldVars == <<bear, marks, clock, edits>>
syncVars == <<handlerVars, bridgeVars, worldVars, faults>>

ASSUME SyncAssumption ==
  /\ Interleaved \in BOOLEAN /\ Gaps \subseteq Nat
  /\ MaxEdits \in Nat /\ MaxFaults \in Nat
  /\ DOMAIN Existing \subseteq BearIds
  /\ {FirstBody} \cup UserBodies \subseteq Bodies

\* applyCreate: the text Bear makes of a create has the title as first line.
AsCreated(body) == <<"title">> \o body

\* The bodies consumers send; an update may be merged into a create.
ASSUME BodiesAssumption ==
  \A c \in Calls : c.action \in {"create", "update"} =>
    {c.body, AsCreated(c.body)} \subseteq Bodies

Nothing == [i \in {} |-> NULL]
Put(f, i, v) == [j \in DOMAIN f \cup {i} |-> IF j = i THEN v ELSE f[j]]

Fault == faults < MaxFaults /\ faults' = faults + 1
NoFault == faults' = faults

\* Bear's database changes in the second of the last change or a later one.
BearClock == clock' \in {clock + d : d \in Gaps} \cap Seconds

HandlersQuiet == \A h \in Handlers : At(h, "idle")
BridgeMayCall == Interleaved \/ HandlersQuiet

-----------------------------------------------------------------------------
(***************************************************************************)
(* Bear's user                                                             *)
(***************************************************************************)
UserEdits(b) ==
  /\ Exists(bear[b]) /\ edits < MaxEdits
  /\ BearClock
  /\ \E body \in UserBodies \ {bear[b].body} :
       bear' = [bear EXCEPT ![b].body = body, ![b].modified_at = clock']
  /\ edits' = edits + 1
  /\ UNCHANGED <<handlerVars, bridgeVars, marks>> /\ NoFault

UserDeletes(b) ==
  /\ Exists(bear[b]) /\ edits < MaxEdits
  /\ bear' = [bear EXCEPT ![b] = GONE]
  /\ edits' = edits + 1
  /\ UNCHANGED <<handlerVars, bridgeVars, marks, clock>> /\ NoFault

-----------------------------------------------------------------------------
(***************************************************************************)
(* deltaSync                                                               *)
(***************************************************************************)
ChangedInBear == {b \in BearIds : bear[b] # pushed[b]}

ReadDelta ==
  /\ phase = "start"
  /\ delta' = [b \in ChangedInBear |-> bear[b]]
  /\ phase' = IF ChangedInBear = {} THEN "lease" ELSE "push"
  /\ UNCHANGED <<handlerVars, worldVars, pushed, batch, acks>> /\ NoFault

\* The state is saved after the push; a bridge that dies in between pushes the
\* same notes again.
Push(nextPhase) ==
  /\ phase = "push"
  /\ BridgeMayCall
  /\ ProcessSyncPush(delta)
  /\ delta' = Nothing
  /\ phase' = nextPhase
  /\ UNCHANGED <<handlers, worldVars, batch, acks>>

\* Mutant: the state file takes what Bear has when it is saved.
PushDeltaSavesBear ==
  /\ Push("lease")
  /\ pushed' = bear
  /\ NoFault

PushDelta ==
  /\ Push("lease")
  /\ pushed' = [b \in BearIds |-> IF b \in DOMAIN delta THEN delta[b] ELSE pushed[b]]
  /\ NoFault

PushUnrecorded == Push("start") /\ UNCHANGED pushed /\ Fault

-----------------------------------------------------------------------------
(***************************************************************************)
(* processQueue                                                            *)
(***************************************************************************)
InConflict(i) ==
  LET n == write_queue[i].note_id
  IN n \in LiveNotes /\ notes[n].sync_status = "conflict"

LeaseBatch ==
  /\ phase = "lease"
  /\ LeaseQueueItems
  /\ batch' = [i \in LeasedNow |-> [work |-> Work(write_queue[i]), conflict |-> InConflict(i)]]
  /\ phase' = IF LeasedNow = {} THEN "start" ELSE "apply"
  /\ UNCHANGED <<notes, handlers, worldVars, pushed, delta, acks>> /\ NoFault

Todo == DOMAIN batch \ DOMAIN acks
Turn(i) == phase = "apply" /\ i \in Todo /\ \A j \in Todo : i <= j

ActionOf(i) == batch[i].work[1]
NoteOf(i) == batch[i].work[2]
BodyOf(i) == batch[i].work[3].body
TargetOf(i) == batch[i].work[3].bear_id

Applied(i, ack) ==
  /\ acks' = Put(acks, i, ack)
  /\ phase' = IF Todo = {i} THEN "ack" ELSE "apply"
  /\ UNCHANGED <<handlerVars, pushed, delta, batch>>

ChangesBear(b, note) ==
  /\ bear' = [bear EXCEPT ![b] = note]
  /\ UNCHANGED <<edits, marks>>

\* findBearNoteForItem: the note must still be there.
TargetLives(i) == TargetOf(i) # NULL /\ Exists(bear[TargetOf(i)])

TargetLost(i) ==
  /\ Turn(i) /\ ~batch[i].conflict /\ ActionOf(i) # "create" /\ ~TargetLives(i)
  /\ Applied(i, Ack("failed"))
  /\ UNCHANGED worldVars /\ NoFault

\* What the look at Bear before the change may find: whether Bear has already
\* what the item asks for.  Tags and files of Bear's notes are not modelled, so
\* the tag of an add_tag, or a file of the name of an add_file, may be there.
InBearAlready(i) ==
  LET note == bear[TargetOf(i)]
  IN CASE ActionOf(i) = "update" -> {note.body = BodyOf(i)}
       [] ActionOf(i) = "trash" -> {note.trashed}
       [] OTHER -> BOOLEAN

Modified(b) == IF Exists(bear[b]) THEN bear[b].modified_at ELSE NULL

SkipItem(i) ==
  /\ Turn(i) /\ ~batch[i].conflict /\ ActionOf(i) # "create" /\ TargetLives(i)
  /\ TRUE \in InBearAlready(i)
  /\ Applied(i, IF ActionOf(i) = "update"
                THEN [Ack("applied") EXCEPT !.bear_modified_at = Modified(TargetOf(i))]
                ELSE Ack("applied"))
  /\ marks' = marks \cup {<<ActionOf(i), NoteOf(i)>>}
  /\ UNCHANGED <<bear, clock, edits>> /\ NoFault

\* applyUpdate.
BearUpdate(i, b) ==
  /\ ActionOf(i) = "update" /\ TargetLives(i) /\ b = TargetOf(i)
  /\ FALSE \in InBearAlready(i)
  /\ ChangesBear(b, [bear[b] EXCEPT !.body = BodyOf(i), !.modified_at = clock'])

\* Mutant: a note with the wanted text is taken for the one to create.
BearCreateFindsText(i, b) ==
  /\ ActionOf(i) = "create"
  /\ \/ /\ bear[b] = NULL
        /\ ChangesBear(b, [body |-> AsCreated(BodyOf(i)), trashed |-> FALSE,
                           modified_at |-> clock'])
     \/ /\ Exists(bear[b]) /\ bear[b].body = AsCreated(BodyOf(i))
        /\ ChangesBear(b, bear[b])

BearCreate(i, b) ==
  /\ ActionOf(i) = "create"
  /\ bear[b] = NULL
  /\ ChangesBear(b, [body |-> AsCreated(BodyOf(i)), trashed |-> FALSE, modified_at |-> clock'])

\* Bear takes the body; then the bridge waits and reads the note back.
WriteBear(i, b) ==
  /\ Turn(i) /\ ~batch[i].conflict
  /\ BearClock
  /\ BearUpdate(i, b) \/ BearCreate(i, b)
  /\ acks' = Put(acks, i, [Ack("applied") EXCEPT !.bear_id = b])
  /\ phase' = "verify"
  /\ UNCHANGED <<handlerVars, pushed, delta, batch>> /\ NoFault

\* Bear takes the body, and bear-xcall reports an error or the new note is not
\* found.
WriteReportsFailure(i, b) ==
  /\ Turn(i) /\ ~batch[i].conflict
  /\ BearClock
  /\ BearUpdate(i, b) \/ BearCreate(i, b)
  /\ Applied(i, Ack("failed")) /\ Fault

\* bear-xcall reports success and no id of the new note.
CreateUnnamed(i, b) ==
  /\ Turn(i) /\ ~batch[i].conflict
  /\ BearClock
  /\ BearCreate(i, b)
  /\ acks' = Put(acks, i, Ack("applied"))
  /\ phase' = "verify"
  /\ UNCHANGED <<handlerVars, pushed, delta, batch>> /\ Fault

\* The item that was written last, as long as its outcome is not complete.
Written(i) == phase = "verify" /\ i \in DOMAIN acks /\ \A j \in DOMAIN acks : j <= i

\* The verification reads modified_at, of whatever Bear has by then; only a
\* create acknowledges a bear_id.
Verified(i, ack) ==
  /\ Written(i) /\ acks[i].bear_id # NULL
  /\ acks' = [acks EXCEPT ![i] =
       [ack EXCEPT !.bear_id = IF ActionOf(i) = "create" THEN @ ELSE NULL]]
  /\ LET b == acks[i].bear_id
     IN marks' = IF Exists(bear[b]) /\ bear[b].body \in UserBodies
                 THEN marks \cup {<<"raced", NoteOf(i)>>} ELSE marks
  /\ phase' = IF Todo = {} THEN "ack" ELSE "apply"
  /\ UNCHANGED <<handlerVars, bear, clock, edits, pushed, delta, batch>>

Verify(i) ==
  /\ Verified(i, [acks[i] EXCEPT !.bear_modified_at = Modified(acks[i].bear_id)])
  /\ NoFault

VerifyFails(i) == Verified(i, acks[i]) /\ Fault

\* The notes of Bear with the title of a create, which is their first line.
Titled(i) == {b \in BearIds : Exists(bear[b]) /\ Head(bear[b].body) = Head(AsCreated(BodyOf(i)))}

Searched(i, ack) ==
  /\ Written(i) /\ acks[i].bear_id = NULL
  /\ acks' = [acks EXCEPT ![i] = ack]
  /\ phase' = IF Todo = {} THEN "ack" ELSE "apply"
  /\ UNCHANGED <<handlerVars, bear, clock, edits, pushed, delta, batch>> /\ NoFault

\* The fallback of applyCreate takes the one recent note with the title for the
\* new one.  How recent a note is and whether Bear's database shows it yet are
\* not modelled: any note with the title may be the only one found.
SearchFinds(i, b) ==
  /\ Searched(i, [acks[i] EXCEPT !.bear_id = b, !.bear_modified_at = Modified(b)])
  /\ b \in Titled(i)
  /\ marks' = marks \cup {<<"found", NoteOf(i)>>}

\* It finds none, or several.
SearchFails(i) == Searched(i, Ack("failed")) /\ UNCHANGED marks

\* trash, archive, add_tag, add_file: done without reading modified_at back.
ChangeBear(i) ==
  /\ Turn(i) /\ ~batch[i].conflict /\ ActionOf(i) \in {"trash", "add_tag"} /\ TargetLives(i)
  /\ FALSE \in InBearAlready(i)
  /\ BearClock
  /\ ChangesBear(TargetOf(i),
       [bear[TargetOf(i)] EXCEPT !.trashed = @ \/ ActionOf(i) = "trash",
                                 !.modified_at = clock'])
  /\ Applied(i, Ack("applied")) /\ NoFault

\* Mutant: the acknowledgement does not say that a copy was made.
CopyConflictUnmarked(i) ==
  /\ Turn(i) /\ batch[i].conflict
  /\ marks' = marks \cup {<<"copied", NoteOf(i)>>}
  /\ Applied(i, Ack("applied"))
  /\ UNCHANGED <<bear, clock, edits>> /\ NoFault

\* handleConflictItem: Bear's note stays, a [Conflict] note takes the payload.
CopyConflict(i) ==
  /\ Turn(i) /\ batch[i].conflict
  /\ marks' = marks \cup {<<"copied", NoteOf(i)>>}
  /\ Applied(i, [Ack("applied") EXCEPT !.conflict_resolved = TRUE])
  /\ UNCHANGED <<bear, clock, edits>> /\ NoFault

\* Bear or bear-xcall refuses, on either path.
ItemFails(i) ==
  /\ Turn(i)
  /\ Applied(i, Ack("failed"))
  /\ UNCHANGED worldVars /\ Fault

\* Mutant: the acknowledgements outlive their batch.
AckBatchKeepsAcks ==
  /\ phase = "ack"
  /\ BridgeMayCall
  /\ AckItems(acks)
  /\ phase' = "start" /\ batch' = Nothing
  /\ UNCHANGED <<handlers, worldVars, pushed, delta, acks>> /\ NoFault

AckBatch ==
  /\ phase = "ack"
  /\ BridgeMayCall
  /\ AckItems(acks)
  /\ phase' = "start" /\ batch' = Nothing /\ acks' = Nothing
  /\ UNCHANGED <<handlers, worldVars, pushed, delta>> /\ NoFault

\* UNIQUE(bear_id) refuses the acknowledgements as a whole: the hub answers with an
\* error and the cycle ends.
AckRefused ==
  /\ phase = "ack"
  /\ BridgeMayCall
  /\ ~AckAccepted(acks)
  /\ phase' = "start" /\ batch' = Nothing /\ acks' = Nothing
  /\ UNCHANGED <<handlerVars, worldVars, pushed, delta>> /\ NoFault

\* The bridge is killed, or the hub cannot be reached: the cycle is abandoned.
BridgeDies ==
  /\ phase # "start"
  /\ phase' = "start" /\ delta' = Nothing /\ batch' = Nothing /\ acks' = Nothing
  /\ UNCHANGED <<handlerVars, worldVars, pushed>> /\ Fault

-----------------------------------------------------------------------------
Handle(h) ==
  /\ HandlerStep(h, clock)
  /\ UNCHANGED <<bridgeVars, worldVars>> /\ NoFault

HandleFault(h) ==
  /\ HandlerFault(h)
  /\ UNCHANGED <<bridgeVars, worldVars>> /\ Fault

LeaseTime ==
  /\ Tick
  /\ UNCHANGED <<notes, handlers, bridgeVars, worldVars>> /\ NoFault

FirstNote == [body |-> FirstBody, trashed |-> FALSE, modified_at |-> 0]

SyncInit ==
  /\ Init
  /\ bear = [b \in BearIds |-> IF b \in DOMAIN Existing THEN FirstNote ELSE NULL]
  /\ pushed = bear
  /\ notes = [n \in HubIds |->
       IF \E b \in DOMAIN Existing : Existing[b] = n
       THEN InsertedNote(FirstNote, CHOOSE b \in DOMAIN Existing : Existing[b] = n)
       ELSE NULL]
  /\ handlers = [h \in Handlers |-> Idle]
  /\ phase = "start" /\ delta = Nothing /\ batch = Nothing /\ acks = Nothing
  /\ marks = {} /\ clock = 0 /\ edits = 0 /\ faults = 0

BridgeStep ==
  \/ ReadDelta \/ PushDelta
  \/ LeaseBatch
  \/ \E i \in 1..MaxRows :
       \/ TargetLost(i) \/ SkipItem(i) \/ ChangeBear(i)
       \/ \E b \in BearIds : WriteBear(i, b) \/ SearchFinds(i, b)
       \/ Verify(i) \/ SearchFails(i) \/ CopyConflict(i)
  \/ AckBatch \/ AckRefused

BridgeFault ==
  \/ PushUnrecorded \/ BridgeDies
  \/ \E i \in 1..MaxRows :
       \/ VerifyFails(i) \/ ItemFails(i)
       \/ \E b \in BearIds : WriteReportsFailure(i, b) \/ CreateUnnamed(i, b)

SyncNext ==
  \/ \E b \in BearIds : UserEdits(b) \/ UserDeletes(b)
  \/ BridgeStep \/ BridgeFault
  \/ \E h \in Handlers : Handle(h) \/ HandleFault(h)
  \/ LeaseTime

SyncSpec == SyncInit /\ [][SyncNext]_syncVars

\* Consumers and Bear's user owe nothing; the daemon goes on with its cycles,
\* handlers finish and leases run out.
FairSyncSpec ==
  /\ SyncSpec
  /\ WF_syncVars(BridgeStep) /\ WF_syncVars(LeaseTime)
  /\ \A h \in Handlers : WF_syncVars(~At(h, "idle") /\ Handle(h))

-----------------------------------------------------------------------------
\* Types of the state of this module and the ones it extends.
SyncTypeOK ==
  /\ NotesTypeOK /\ HandlersTypeOK
  /\ bear \in [BearIds -> BearNote \cup {NULL, GONE}]
  /\ pushed \in [BearIds -> BearNote \cup {NULL, GONE}]
  /\ phase \in {"start", "push", "lease", "apply", "verify", "ack"}
  /\ DOMAIN acks \subseteq DOMAIN batch /\ DOMAIN batch \subseteq Ids
  /\ clock \in Seconds /\ edits \in 0..MaxEdits /\ faults \in 0..MaxFaults

Marked(what) == {m[2] : m \in {k \in marks : k[1] = what}}

\* No push and no handler gives two notes of the hub one bear_id, and UNIQUE(bear_id)
\* refuses the acknowledgements of a batch, the good ones too, only if a create in
\* it was found by its title.
BearIDsUnique ==
  /\ BearIdsDiffer(notes)
  /\ phase = "ack" /\ ~AckAccepted(acks) =>
       \E i \in DOMAIN acks : ActionOf(i) = "create" /\ NoteOf(i) \in Marked("found")

NothingInFlight ==
  /\ phase = "start" /\ ChangedInBear = {} /\ HandlersQuiet
  /\ \A i \in Ids : ~Active(write_queue[i])

SaysWhatBearSays(n) ==
  LET b == notes[n].bear_id
  IN /\ b # NULL /\ Exists(bear[b])
     /\ notes[n].body = bear[b].body /\ notes[n].trashed = bear[b].trashed

SyncedNotes == {n \in LiveNotes : notes[n].sync_status = "synced"}

\* When nothing is in flight, every synced note of the hub says what Bear says.
\* Excepted is where it fails: a resolved conflict, a trash of a note that Bear
\* has in its trash and, after a fault or an edit that the verification read, a
\* tag that Bear's note has settle the note although Bear's note does not change
\* and no push brings Bear's body.
Converged ==
  NothingInFlight =>
    \A n \in SyncedNotes \ (Marked("copied") \cup Marked("trash")) :
      \/ SaysWhatBearSays(n)
      \/ n \in Marked("add_tag") /\ (faults > 0 \/ n \in Marked("raced"))

\* README: a conflict is raised only if Bear changed what the consumer also
\* changed; the bridge's own writes are echoes and raise none.
ConflictNeedsUserEdit ==
  edits = 0 => \A n \in LiveNotes : notes[n].sync_status # "conflict"

\* updateExistingNote: as long as only updates are queued and none was merged
\* into an older one, the bridge's own writes are recognised as echoes, however
\* pushes and updates alternate.
OwnUpdatesAreEchoes ==
  /\ edits = 0 /\ faults = 0
  /\ \A i \in Ids : write_queue[i].action = "update" /\ write_queue[i].secondary = NULL
  => \A n \in LiveNotes : notes[n].sync_status # "conflict"

\* createNote with the same key twice at the same time: the loser removes its
\* note.  A note Bear does not have is always the note of some create row.
NoOrphans ==
  HandlersQuiet /\ faults = 0 =>
    \A n \in LiveNotes : notes[n].bear_id = NULL =>
      \E i \in Ids : write_queue[i].action = "create" /\ write_queue[i].note_id = n

\* A conflict ends only by the acknowledgement of a [Conflict] note.
ConflictEndsByCopy ==
  [][\A n \in LiveNotes :
       notes[n].sync_status = "conflict" /\ Exists(notes'[n]) =>
         \/ notes'[n].sync_status = "conflict"
         \/ \E i \in DOMAIN acks : /\ write_queue[i].note_id = n
                                   /\ acks[i].conflict_resolved
                                   /\ write_queue'[i].status = "applied"]_syncVars

\* consumer-api.md: a consumer's body is preserved until it is applied: no push
\* replaces it while a queued update of the note is active.
ProtectedUntilApplied ==
  [][phase = "push" /\ phase' # "push" =>
       \A n \in LiveNotes :
         /\ notes[n].sync_status # "conflict" /\ Exists(notes'[n])
         /\ \E i \in Ids : /\ Active(write_queue[i])
                           /\ write_queue[i].note_id = n
                           /\ write_queue[i].action = "update"
         => notes'[n].body = notes[n].body]_syncVars

\* The hub's conflict detection: the bridge replaces a body that Bear's user
\* wrote and that the hub was told of only if the consumer's write is based on
\* it.  Excepted is where it fails: after a conflict was copied the hub keeps the
\* consumer's body; an edit that the bridge's verification read is taken for an
\* echo; a handler that dies before its enqueue leaves a body nobody wrote.  It
\* fails besides with calls that leave a waiting note with the text of its
\* snapshot, as an update to the text Bear had does (EditsSurvive in EchoProofs).
KnownEditsSurvive ==
  [][\A b \in BearIds :
       /\ faults = 0
       /\ Exists(bear[b]) /\ bear[b].body \in UserBodies /\ pushed[b] = bear[b]
       /\ Exists(bear'[b]) /\ bear'[b].body \notin UserBodies
       => \A n \in NoteOfBear(b) \ (Marked("copied") \cup Marked("raced")) :
            notes[n].pending_bear_body = bear[b].body]_syncVars

\* Every conflict is resolved some day.
ConflictsResolve ==
  \A n \in HubIds :
    (n \in LiveNotes /\ notes[n].sync_status = "conflict")
      ~> ~(n \in LiveNotes /\ notes[n].sync_status = "conflict")
=============================================================================
