# bear-sync: a TLA+ model

bear-sync keeps the notes of Bear (a macOS note application) and a *hub* in
step. The hub is a small HTTP service with a SQLite database: *consumers* read
notes there and queue writes. A *bridge* on the Mac reads Bear's own database
and pushes what changed to the hub, then takes the queued writes and performs
them in Bear through x-callback URLs. There is no shared lock, no shared clock
and no transaction across hub and Bear: what keeps them together is the state
machine of the write queue, the `sync_status` of each note and the bridge's
state file. These are what the modules here model.

## Inventory

| Component | State it keeps | Operations | Interacts with | What is hard | What makes it correct |
|---|---|---|---|---|---|
| Write queue (`internal/store/sqlite.go`) | `write_queue` rows: key, secondary key, action, payload, status, lease | `EnqueueWrite` (idempotency, coalescing), `CoalesceCreateUpdate`, `LeaseQueueItems`, `AckQueueItems`, `failQueueItemsForDeletedNotes` | handlers, bridge, pushes | retries, expired leases, late acknowledgements, a batch limit, two consumers | applied is final, leased work does not change, every write is settled, keys are idempotent |
| Notes table (same file) | per note: `bear_id`, text, `sync_status`, `pending_bear_*`, `expected_bear_modified_at` | `ProcessSyncPush`, the note part of `AckQueueItems`, `UpdateNote`, `CreateNote`, `DeleteNote` | handlers, bridge | echoes of own writes, conflicts, a consumer's text against Bear's | no false conflicts, no lost edits, convergence |
| Consumer API (`internal/api/notes_handler.go`, `tags_handler.go`) | none of its own; each request holds a copy of a row | create, update, trash, archive, tag, file requests | store, several requests at once | a handler is a sequence of store calls with no transaction | protection of pending text, no orphans |
| Tags, pairs and attachments (`internal/store/sqlite.go`) | tables with UNIQUE titles, foreign keys and cascades; `file_path` | `upsertTag`, `upsertAttachment`, `replaceNoteTags`, `deleteByBearIDs`, in the transaction of a push | pushes, uploads | the order of upserts and deletions, rows deleted by a cascade | a push is never refused for ever, a file that was uploaded can be served |
| Sync API (`internal/api/sync_handler.go`) | attachment files on disk | push, lease, acknowledge, upload, download, clean-up | bridge, store | disk and database change in separate steps, a crash or a repeated call in between | a file is there as long as its row may be delivered, and no longer |
| Bridge queue (`cmd/bridge/queue.go`) | the leased batch, the outcomes so far | apply, verify, copy a conflict, acknowledge | hub, Bear | death between performing and acknowledging, stamps read late | nothing acknowledged that was not done |
| Bridge sync (`cmd/bridge/sync.go`, `state.go`) | state file: `LastSyncAt`, file times, known ids, known pairs, counter | `initialSync`, `deltaSync`, full scan, deletions | Bear's database, hub | every read sees another Bear; death before the file is saved | the hub mirrors Bear |
| Daemon, lock, events (`daemon.go`, `main.go`, `events.go`) | lock file, deferred calls | tick, trigger, signal, shutdown, exit | IPC, bridge, app | launches and ends that overlap, several select cases ready | one bridge at a time, a signal ends it |
| Hub client (`internal/hubclient`) | none | requests with retries | hub | an answer lost after the hub acted | safe to repeat |
| Bear reader and driver (`internal/beardb`, `internal/xcallback`, `tools/bear-xcall`) | none | SQL reads, x-callback calls | Bear | a call that takes effect and reports an error | external |
| IPC (`internal/ipc`) | socket file, statistics, trigger and shutdown channels | status, logs, sync now, quit | daemon, app | a socket path that successive processes share, a full channel | a daemon that serves is reachable, no trigger is lost |
| Mapper and models | none | column conversion | bridge | - | field copying |
| MCP server (`cmd/mcp`, `internal/mcp`) | none | tools | consumer API | - | translation |
| Salmon Run app (`tools/salmon-run-app`) | process handle, launch generation, retry count | start, stop, restart, termination, scheduled retry | bridge process | callbacks of processes that were replaced, a retry scheduled before a restart | stopped means that no bridge is left running |
| Generated docs, routing, authentication | none | - | - | - | - |

`PROJECT.json` lists the components with their sources and what is modelled of
each, and the hazards of this code at the lines where they bite.

## Modules

    WriteQueue  <-- QueueDelivery                 queue + one bridge + Bear
        ^  \  \        implements Outbox (abstract)
        |   \  AttachmentBlobs                    files of add_file, disk and queue
        |   NotesTable <-- ConsumerHandlers <-- NoteSync    the whole write path
        |
    WriteQueueProofs <-- DeliveryProofs           theorems about the queue, its
                     <-- BlobProofs               bridge and the files
                     <-- SyncProofs               ... and the notes (NoteSync)
    DeliveryProofs   <-- NewestWriteProofs
    SyncProofs       <-- EchoProofs

    DeltaSync <-- DeltaProofs                     the read path
                       implements Replica (abstract)

    Daemon <-- ProcessManager <-- ProcessProofs   bridge processes and the app

`MCWriteQueue`, `MCQueueDelivery`, `MCBlobs` and `MCNoteSync` hold the sets of
requests that the configurations use; `DeltaSync` and `ProcessManager` need none.

**WriteQueue** is the table. The store has one SQLite connection
(`SetMaxOpenConns(1)`), so a store call is one atomic action. Rows are never
deleted and ids are AUTOINCREMENT: the table is a sequence. `lease_until` is
the time left, which is all `lease_until < now` looks at. The next-state
relation is the most general caller: any request at any time, any set of
acknowledgements for any rows, any deletion. `acceptedAs` is a history of the
answers. `EnqueueWrite` is the code's three cases: `IdempotencyHit`,
`CoalesceUpdate` and `InsertRow`. `CoalesceCreateUpdate` is not one transaction in
the code: here it is the guarded UPDATE, which decides; the SELECT before it is a
step of the handler (`FindCreate`).

**QueueDelivery** adds the bridge: `LeaseBatch`, `ApplyItem`, `AckBatch`, in the
order of `processQueue`, with the items in the order of their ids. What Bear has
of a note is its body; the other actions are known by whether they were done,
because the bridge looks for the tag, flag or file before it acts. `Faulty`
holds the answers lost on the way back, a call to Bear that works and reports an
error, and the death of the bridge.

**Outbox** is what a consumer may rely on, with no lease, batch or bridge in it:
an item waits, is carried out as it stands, is settled as done only if what it
asks for in the end was carried out, and stays done. QueueDelivery is shown to
implement it (`KeepsPromise`): pending and processing rows wait, `done` is what
was carried out. That the bridge acts for waiting rows only, and on the work
they have now, is the part that leases, coalescing and repeated acknowledgements
could break. Every action of
QueueDelivery conjoins an action of WriteQueue or leaves the table alone, so what
is proved of the table holds of it (`DeliveryIsWriteQueue`, a lemma).

**AttachmentBlobs** follows a file from `addFile` to the clean-up after its
acknowledgement: `GetNote`, `CheckKey`, `MakeDir`, `CopyFile`, `EnqueueFile` and
`RemoveOwn` are the steps of the handler, with two of them at work at the same
time; `AckRows`, `Collect`, `CleanUp` and `AnswerAck` those of `syncAck`, which
go on when the client is gone (the code detaches its context) and end anywhere
when the hub dies. A blob is a directory named by its attachment's id, which is
new for every upload. A row's payload names the file (`title`) and the blob
(`body`).

**NotesTable** adds the notes and the transactions on them. A body is a
sequence of lines only because a create puts the title before the body; the
title itself is the first line and is not kept apart. `trashed` stands for all
columns a push always takes from Bear. An acknowledgement settles the rows of a
batch in their order; the note's new status depends on the rows that are still
active at that point (`OthersActive`). UNIQUE(bear_id) is looked at after each
row (`AckAccepted`): a violation rolls the whole batch back. The same constraint
on UpdateNote and on the inserts of a push is not a guard of the model;
`BearIDsUnique` says that it is not met there, for the runs that keep handlers
and transactions apart.

**ConsumerHandlers** models each handler by the store call it makes next
(`step`), with the copy of the row it read. An update of a note that Bear does
not have yet is merged into its create in three of them, `FindCreate`, `Coalesce`
and `UpdateCoalesced`, and the create may be leased after each. `EnqueueFails`, `RestoreNote` and
their like are the compensations in the code. "trash" stands for trash and
archive, which set different columns; "add_tag" for the handlers that only
enqueue.

**NoteSync** closes the loop: Bear and its user, the bridge's cycle of push,
lease, apply, verify, acknowledge, and the handlers. Bear's modification stamps
are seconds of a clock that Bear's changes advance. `pushed` is what the bridge
has told the hub; here a cycle reads all that changed, how it finds that out is
DeltaSync.

Before it changes a note the bridge looks whether that is done already
(`InBearAlready`): an update compares the body, a trash the flag. The tags and
files of Bear's notes are not in the model, so an add_tag may find its tag at any
time and is then acknowledged with no change of the note (`SkipItem`). A create
whose id bear-xcall does not return (`CreateUnnamed`) is looked up by its title
after the delay: `SearchFinds` takes any note with that title, which is right or
the note of another create, `SearchFails` stands for none, several or an error.
The code restricts the search to notes made in the last seconds; the model has no
such limit and may find an old one. If the id found is another note's at the hub,
UNIQUE(bear_id) refuses the batch (`AckRefused`), its rows stay leased, and when the
lease has run out all of it is carried out again.

**DeltaSync** has the reads of Bear's database as steps of their own where the
properties tell them apart, since the code opens no read transaction around them:
notes, tags, files and pairs of a delta, and the reads for deletions and for the
known ids after the push. Reads that follow each other within one such step are
one: the tables after the notes in the first export (`ReadAllRest`), attachments
by date and by note (`ReadFiles`), the ids of the four tables in
`DetectDeletions` and in `UpdateKnownIDs`. A change of Bear between two of those is
not in the model. `changes` counts Bear's commits and
stands for the modification times of its files, which the bridge compares to
skip a cycle. Ids are never used again (they are UUIDs). A push is one
transaction (`Pushed`) that a violated constraint rolls back (`Refused`): the
title of a tag is UNIQUE and an attachment needs its note; a refused push ends
the cycle. `blobs` are the files on the hub's disk, `served` the attachments
whose `file_path` leads to one: Bear knows no path, so a push that repeats an
attachment clears it and only the upload that follows sets it again. Tags are
numbered by their primary key, which is the order a read returns them in and the
order in which they are upserted.

**Replica** is what the hub promises to be: the copy changes only by taking
values that the source has at that moment. DeltaSync implements it
(`ReplicaOfBear`) for notes, tags and attachments as long as Bear does not change
during a cycle. Pairs of notes and tags are not part of it: a delta leaves them
stale until a full scan (see MCJunction).

**Daemon** has the bridge as processes, numbered by their launch: `run` with its
lock file and `flock`, `ipc.Server` with its socket file, the select loop and
the deferred calls. The lock file is an inode at a path, because the question is
what happens when a path and an open file part. `owed` is a history: a
`sync_now` was answered and no cycle has begun since. A crash runs nothing
deferred; the system drops the process's flock.

**ProcessManager** adds the app's manager. It runs on the main thread, so its
functions are atomic; the end of a process (`exits`) and a scheduled retry
(`retries`) are calls that the main queue makes later, in any order. Delays are
left out: a retry may fire at once or long after, an uptime may count as stable
or not.

## Runs

| Run | What it asks | Bounds |
|---|---|---|
| MCQueueDelivery | delivery by one bridge, liveness, refinement of Outbox | create, two updates, a tag of another consumer under the same key; 3 rows, limit 2, one fault |
| MCNoteSync | the write path, one call of the hub at a time | two updates and a tag, which Bear may have, of two consumers, one user edit, one fault |
| MCInterleaved | every store call interleaved, liveness | an update and a trash, one user edit |
| MCCreates | creates in two handlers at once, a merge in separate store calls, ids found by title, refused batches | two creates with one title, an update; three hub ids, three Bear ids, three rows, one fault, no user edits; handlers, Bear ids and two hub ids symmetric |
| MCBlobs | the files of add_file, liveness | one upload sent again and again, two handlers and two acknowledgements at once, one row, three blobs, one fault |
| MCDelta | the read path, liveness, refinement of Replica | a note, two tags with two titles, a file, all kinds of change, 4 changes, full scan every second cycle, one crash, uploads that fail |
| MCProcess | the app and the bridge processes, liveness | 3 launches, one crash, one retry |

The bounds are the smallest at which the interesting cases happen: three rows
so that a batch of two leaves one behind (the theorems about the table have any
number); two creates and three Bear ids for a search that takes the other note and
for the create that is carried out again; three blobs for a race of two uploads and a retry; two
tags for one that keeps, gives up or takes over a title; four changes for a note
that is made, gets a file, loses it and is deleted, with a clock of three values
for changes before, in and after the second of a push; three launches for a process that
ends late, its successor and a retry. Each property is broken by a change of one
definition (`mutants` in PROJECT.json), within the same bounds.

What the properties say, in short:

- *AppliedIsFinal, LeasedWorkIsStable, LeaseIsHonoured, PrimaryKeysUnique* - the
  table; proved for any caller. MCCreates checks LeasedWorkIsStable where the
  merge into a create is interleaved with a lease.
- *BatchStillLeased* - the comment in `AckQueueItems` that relies on one
  sequential bridge: no outcome the bridge collects is stale.
- *DuplicatesNeedAFault* - Bear does a row's work once, unless something failed.
- *NewestWriteWins* - coalescing never loses the latest body of one consumer.
- *EventuallySettled* - no accepted write is stuck if retries end.
- *Converged* - in a quiet state a synced note says what Bear says.
- *OwnUpdatesAreEchoes, ConflictEndsByCopy, ProtectedUntilApplied,
  KnownEditsSurvive, ConflictsResolve* - the life of `sync_status`.
- *BearIDsUnique* - no two notes get one Bear id, and a batch is refused only on
  account of a create that was found by its title; *NoOrphans* - what a create
  leaves behind.
- *KeepsPromise* - the queue refines Outbox.
- *AcceptedFileKept* - no lost race, retry, repeated or late acknowledgement or
  crash takes away the file of a row that may still be delivered, and an applied
  row's file is in Bear; *AnsweredMeansClean, NoOrphanFiles, AppliedFilesGo* -
  and none stays on the disk.
- *NotesMirrored, NoGhosts, EventuallyMirrored, ReplicaOfBear* - the read path;
  *FilesServed, NoStrayBlobs* - its files, on the hub's disk and in its table.
- *OneBridge* - why the lock file is kept on disk; *ServedSocketIsThere* - why
  the server is stopped before the lock is given back.
- *NoTriggerLost, ToldProcessEnds* - what the select loop owes its callers.
- *StoppedMeansTold* - when the app says stopped, no bridge is left running that
  nobody told to end.

### Where the code departs from what it says

Five runs expect a violation. Each checks one sentence of the documentation, a
comment or a test, quoted in `findings`.

| Run | Property | In short |
|---|---|---|
| MCReplay | ReplayHasNoSideEffects | a row remembers one secondary key; the middle one of three keys is forgotten |
| MCFalseConflict | ConflictNeedsUserEdit | the acknowledgement of a tag forgets the stamp an update waits for |
| MCDeltaWindow | NotesMirrored | an edit between the read and the time that is stored |
| MCJunction | TagsAfterFullScan | a push stores pairs as known that were not pushed |
| MCTagTitle | EventuallyMirrored | a tag created again with its title before the hub was told: tags are upserted before deletions, every later push is refused |

Other departures found on the way have no run of their own; they are the
conditions the properties carry:

- A bridge that dies between a create and its acknowledgement creates the note
  again (`applyCreate`, queue.go:255, looks at nothing first): the condition
  `faults = 0` of DuplicatesNeedAFault.
- A second consumer's update can be overtaken: a later write is merged into the
  first consumer's older row. NewestWriteWins is about one consumer.
- After a conflict copy the hub keeps the consumer's body as synced while Bear
  has the other (sqlite.go:2000): Converged leaves out the notes marked
  "copied".
- A trash that Bear has already done settles its note without a change of Bear,
  so no push follows that would bring Bear's text. Two consumers that trash a
  note with an update in between leave it so, and so does a trash that was
  performed and not acknowledged, an edit by the user and the repeated trash.
  Converged leaves out the notes marked "trash".
- An update whose body Bear has already settles its note in the same way. The
  body of the hub's row is then another one only if a handler died between
  UpdateNote and EnqueueWrite, or two handlers wrote in one order and enqueued
  in the other, and a row failed as well. This takes more faults or handlers than
  a run has; the theorem Convergence carries it as a condition (see below).
- A tag that Bear's note has is acknowledged as applied with no change of the
  note (queue.go:360). If an update of the note failed before it, or the hub took
  an edit of the user for the update's echo, the acknowledgement makes the note
  synced with a body that Bear does not have, and no push brings Bear's. Converged
  leaves out the notes marked "add_tag" after a fault, or if they are marked "raced"
  too; in a run without either it does not.
- The search by title can take the note of another create (queue.go:290). If the
  hub has that note's id already, or the same batch brings it, the whole batch of
  acknowledgements is refused, and its items, the creates too, are carried out a
  second time. If the hub has it not yet, the create is acknowledged with the
  wrong note, and the right one arrives as a new note with the next push.
- A failed enqueue writes back the row as it was read at the start
  (notes_handler.go:427). With `Interleaved = TRUE` and one fault Converged and
  ConflictsResolve fail: the stale copy replaces what a push or an
  acknowledgement has brought in the meantime. MCInterleaved has no faults.
- handleCreateUpdateCoalesce writes back the row it read before the merge
  (notes_handler.go:836). With `Interleaved = TRUE` the create may be acknowledged
  in between: the note's bear_id is NULL again, the note stays pending, and a push
  inserts Bear's note a second time. MCCreates keeps handlers and transactions
  apart.
- With two handlers OwnUpdatesAreEchoes fails: two updates of a note write the
  hub's row in one order (notes_handler.go:403) and enqueue in the other (417).
  Bear ends with the older text, the hub settles on the newer one, and the next
  update takes a snapshot that is not what Bear has: the push of the bridge's own
  write is taken for a conflict. A write merged into an older row of another
  consumer's, as above, ends the same way: OwnUpdatesAreEchoes leaves out merged
  rows.
- With `Interleaved = TRUE` it fails too, with one handler: an update that read its
  copy of the row before an acknowledgement writes the old snapshot and no stamp
  over what the acknowledgement left, and the push that brings the acknowledged
  text back is taken for a conflict.
- With `Interleaved = TRUE` an acknowledgement between a handler's UpdateNote
  (notes_handler.go:403) and EnqueueWrite (417) ends the protection of the text
  the handler has just written, and ProtectedUntilApplied fails, against
  "protected from being overwritten" (docs/consumer-api.md:230).
- With `Interleaved = TRUE` a handler writes back a full row it read before a
  conflict was raised (ConflictEndsByCopy fails), and KnownEditsSurvive fails.
- The stamp acknowledged for an update is read after the verification delay
  (queue.go:335). An edit of Bear's user in the meantime has that stamp, is
  taken for an echo, and the next update replaces it: KnownEditsSurvive leaves
  out the notes marked "raced".
- An update to the text Bear has, or back to the text Bear had, waits with a body
  that is its snapshot. If Bear's user edits the note now, a push finds the
  consumer's body unchanged and raises no conflict (sqlite.go:1088), and the
  queued update replaces the edit, unseen. With such calls KnownEditsSurvive
  fails; those of MCNoteSync have none, and the theorem EditsSurvive has it as a
  condition (`PendingTextsDiffer`).
- A trash or archive waits with such a body, too: a push of the user's edit leaves
  the hub's old text and its snapshot, and an update that is leased in one batch
  with the trash replaces the edit. KnownEditsSurvive does not speak of this loss:
  it takes an edit as known while Bear's note is exactly as it was pushed, and
  the trash has just changed the note's stamp.
- KnownEditsSurvive fails, and nothing is lost, where a consumer and Bear's user
  write the same text: the update is skipped as done, and the consumer's next one
  replaces the common text with an older snapshot.
- A retry block of the app asks only whether the manager is stopped
  (BridgeProcessManager.swift:216). If it fires after a restart, or after stop
  and start, a second process is launched beside the first, fails on the lock,
  and the manager has lost the handle of the first: it says stopped while a
  bridge runs, against "Terminates cleanly on stop()" (line 39). This is the
  condition `~strays` of StoppedMeansTold.
- With `Gaps = {0, 1}` two changes share a stamp and KnownEditsSurvive fails
  (sqlite.go:999 compares stamps for equality).
- With `OpenPhases` as in MCDeltaWindow and all Kinds, NoGhosts and FilesServed
  fail: `updateKnownIDs` reads Bear again after the push. A death between the
  push and the saving of the state leaves ghosts too; NoGhosts has
  `crashes = 0`. So has NoStrayBlobs: the deletion of a note cascades to
  attachments the bridge does not know, whose files stay.
- A failed upload is logged and not repeated (sync.go:736): FilesServed leaves
  out the files in `missed`.
- An attachment whose note the hub does not have violates the foreign key and
  refuses the whole push (`Dangling`): one added between the read of the notes
  and that of the attachments, or one that belongs to no note, whose `note_id` is
  the empty string and not NULL (scan.go:435).
- An add_file row of a note in conflict is settled by a [Conflict] note without
  text and acknowledged as applied, and its file is removed (queue.go:202):
  AcceptedFileKept leaves out the rows in `copied`.
- A retry of a failed add_file uploads a new blob; the old one stays for ever,
  as do the blobs of rows that fail and are not retried: `replaced` and `Named`
  in NoOrphanFiles. With two faults, a hub that dies before the clean-up and a
  bridge that dies before it repeats the acknowledgement, an applied row's file
  stays too; AppliedFilesGo is checked for one.

### Hypotheses of the runs

- `Interleaved = FALSE`: a push or an acknowledgement does not fall between two
  store calls of a handler. The runs that say so show what holds when requests
  and the bridge's calls are apart; MCInterleaved drops it.
- `Gaps = {1}`: no two changes of Bear share a second.
- `OpenPhases = {}`: Bear's user changes nothing while a cycle reads.
  MCDeltaWindow drops it; MCJunction and MCTagTitle keep it, and fail all the
  same.
- `Kinds` without "reuse_title": no tag takes a title that the hub still has
  under another id. MCTagTitle drops it.
- AttachmentBlobs: an acknowledgement that is still on its way has arrived or is
  lost before the hub answers the next lease; the transaction of an
  acknowledgement happens as a whole or not at all, its clean-up may lag behind.
  That a file of the same name in Bear's note is taken for the uploaded one is
  the code's documented trade-off.
- DeltaSync: the hub does not die between the transaction of a push and the
  clean-up of its files; AttachmentBlobs has that case for acknowledgements.
- `MaxFaults`, `MaxCrashes`, `MaxEdits`, `MaxChanges`, `MaxClock`, `MaxRows`
  bound the behaviours. The clock of NoteSync stops at MaxClock; Bear's writes
  then stop as well, which is why deadlock is not checked: the bounded system
  may really stop.

### Fairness

- `WF(BridgeStep)`, `WF(CycleStep)`: the daemon's ticker starts a cycle for
  ever and a cycle has no step that waits. In QueueDelivery a step of
  BridgeStep may be ApplyItemFails: nothing says that Bear accepts.
- `WF(AckStep)`: the hub runs a handler to its end, also when the client has
  gone.
- `WF(TimePasses)`, `WF(LeaseTime)`: the clock goes on.
- `WF` of a handler's steps: a request that was begun is finished; none need
  begin.
- `WF` of a bridge process's steps: it is a running program, and a cycle ends
  (every call in it has a timeout). `SF(Cancelled)`: Go's select chooses at
  random among the cases that are ready, so a cancelled context is not passed
  over for ever in favour of a ticker or of triggers that keep coming.
- Nothing is assumed of consumers, of users or of faults.
  EventuallySettled assumes that failed rows are not retried for ever
  (`RetriesEnd`): the code orders the batch by id, so a row that is retried
  without end is always ahead of the newer ones.

## Proofs

`WriteQueueProofs` proves, for every set of requests and all bounds that meet
`RequestsAssumption` and `LeaseAssumption`, the invariants TypeOK,
LeaseDiscipline, PrimaryKeysUnique and AcceptedRowExists, and the action
properties AppliedIsFinal, LeasedWorkIsStable and LeaseIsHonoured. The
assumptions are that requests are records of the five fields with a key that is
not NULL (the API answers 400 without one), that the lease and the bounds are
natural numbers, and that NULL is no lease.

The inductive invariant is `QueueInv`, the conjunction of the four invariants.
They need each other: without TypeOK a table is not even a sequence, and
AcceptedRowExists needs that rows keep their consumer and that the table only
grows. The argument has two halves. First, every transaction either leaves the
ids alone and changes each row in one of a few ways (`RowChange`: leased,
acknowledged, failed by a deletion, reset, merged into, one unit of time older),
or appends one row for a request whose key was not found. Second, what a
`RowChange` preserves is shown once for all transactions. PrimaryKeysUnique is
then a matter of the append alone, whose guard is that the key is not found
among primary or secondary keys, whatever the status of the row. The action
properties read off `RowChange` which statuses allow which change;
LeaseIsHonoured is where LeaseDiscipline matters, since a processing row without
a term would never run out.

`ProcessProofs` proves, for any number of launches, crashes and retries
(`DaemonAssumption`, `RetriesAssumption`: they are natural numbers and NULL is no
launch), OneBridge, ServedSocketIsThere, NoTriggerLost, StoppedMeansTold and the
types of the manager. None of them is inductive by itself. `AppInv`
adds:

- `LockInv`: whoever has a lock file open has the one at the path open, and
  between the flock and its release a process is the holder of that file.
  OneBridge follows, since a file has one holder; so does the socket's
  invariant, since who starts or stops a server holds the lock. This is the
  sentence that removing the lock file would break.
- `TriggerInv`: nothing is owed by a process that does not serve yet.
- `LaunchInv`: numbers of launches are fresh, and a process whose end is
  reported is gone, so the report of the current generation means that nobody
  is in the manager's hand.
- `HandInv`: a live process that was not told and is not ending is the one
  launched last, whose handle the manager has, and the manager does not say
  stopped.
- `RetryInv`: only a manager that gave up has counted past the limit.

`DeliveryProofs` proves, for any number of faults and rows, the types of
QueueDelivery, BatchStillLeased and DuplicatesNeedAFault, and that QueueDelivery
implements Outbox.
`DeliveryInv` adds to the invariant of the table that an idle bridge holds
nothing, that an item of a batch that is being acknowledged, if it is still
leased, says what the bridge read (the first attempt of an acknowledgement may
have settled it, and a consumer may have reset it since), and that the bridge
reports "applied" only for what it did. BatchStillLeased needs the order of
`processQueue`: a push that deletes notes comes before the lease, never during
the batch. The step that confirms a row in Outbox is the acknowledgement, and the
three additions are exactly what it needs. DuplicatesNeedAFault needs more:
without faults the batch is all that is leased, so no other lease can run out,
and a row that Bear has performed is applied or about to be reported so
(`FaultlessInv`).

`NewestWriteProofs` proves NewestWriteWins for every set of requests that orderly
consumers make (`OrderlyRequests`): a key of a consumer stands for one kind of
write to one note, a note is created by one request (`createNote` makes its id),
and bodies belong to notes. The first cannot be dropped: a failed row that is
retried under its key for another note keeps its old id and would be performed
before that note's newer writes. MCQueueDelivery assumes the same of its requests. `KeysInv` says which keys
a row may have, that a failure marks its note, that a note with updates has had
its create, and that a batch is worked through in the order of the ids.
`NewestInv` is about notes without failures, while nothing is lost: their rows
are leased and applied in the order of their ids (a lease takes the oldest rows
that wait, and nothing returns to pending), Bear has the body of the last row
performed, only the last row with a body may still be merged into, and that row
has the newest body. The third is where one consumer is needed: a second
consumer's update is not merged and comes after a row that still waits.

`BlobProofs` proves, for all calls, handlers, blobs and faults, the types of
AttachmentBlobs, AcceptedFileKept, AnsweredMeansClean and NoOrphanFiles. Beside
RequestsAssumption it uses `BlobAssumption`: the requests are the add_file
requests of the calls, one for each blob, and an upload is for a note. The
invariant has three parts:

- `DiskInv`: who may remove which directory. A directory that a handler holds is
  held by no other and named by no row; two rows name two directories; the
  directories that a clean-up is about to remove belong to applied rows. So no
  step removes the file of a row that waits, and a waiting row's file is whole.
- `BridgeInv`: what the bridge holds and has told the hub. Outcomes on their way
  were true when they were sent, and still are if they can still be applied; what
  a call that the bridge listens to was sent for is settled when it answers.
- `CareInv`: without faults, every directory is held by a handler, named by a row
  that is not applied, left behind by a retry, or about to be removed.

`DeltaProofs` proves, for all sets of notes, tags and files and all bounds, the
types of DeltaSync, NotesMirrored, FilesServed, NoGhosts, NoStrayBlobs and the
refinement of Replica. It uses `DeltaAssumption` (tags are numbered, the file's
note is a note, bounds are natural numbers) and `KindsApart` (ids of the three
tables differ and NULL is none of the values). The types and the shape of the
tables need no hypothesis. NotesMirrored is proved where Bear does not change in
`NotesWindow`, the phases between the read of the notes and the time that is
stored for the next read: Bear may change during the push, the uploads and the
second read of the ids. That is wider than the run MCDelta checks, and as wide as
it can be: MCDeltaWindow opens that window and fails. The others are proved
where Bear does not change during a cycle, as in MCDelta; with other phases open
they fail (see above). The invariants:

- `NotesInv`: a note of Bear's that the hub lacks or has in an old revision is
  one that the date of the last cycle finds; between the read and the push it is
  in the request; after the push it is in the hub, or came later than both the
  time and the file times that the bridge will store.
- `RequestInv`: what a request says is what Bear says, and it names the notes of
  all its attachments, so that the first export is never refused.
- `FilesInv`: an attachment that cannot be served is found by its date, or is
  unknown to the bridge, or its upload failed.
- `CleanInv`: without crashes, what the hub has is known to the bridge. It is the
  part that a death between the push and the saving of the state breaks.

The step that copies values in Replica is the push; that it takes Bear's values
of that moment is `RequestInv`. FilesServed and the refinement hold with crashes:
a cycle that was cut short is found again by its date, since the date is stored
last.

`SyncProofs` is about NoteSync, for all calls, notes, ids and handlers and any
number of edits and faults. Its assumptions are those on the constants, which
say what the data is: `NotesAssumption` (NULL and GONE are no values of a column,
the clock is bounded), `CallsAssumption` (what the handlers ask for are requests),
`BodiesAssumption` (what they send, and a create's text with its title, are
bodies) and `SyncAssumption` (the notes of the start are Bear's). An
acknowledgement settles the rows of a batch one after the other, each in the
table the one before it left (`AfterAcks`). What it does to a note is therefore an
induction over the batch: `NatSetInduction` derives it from the well-foundedness
of the naturals, `AckItemsFate` says that a note goes through a chain of
acknowledgements of rows that were processing and applied, and of its rows only.
The invariants build on each other:

- `BaseInv`: the types, and what a batch is: leased rows whose work did not
  change, with outcomes for a part of them. It gives SyncTypeOK.
- `OrphanInv`: who has made a note that Bear does not have. Two create rows never
  share a note, a note that is not in Bear has a create row or a handler that is
  about to enqueue one or to remove the note. NoOrphans follows, without further
  hypotheses: the loser of a race for a key removes its own note only.
- `IdsInv`: no two notes of the hub have one id of Bear (`IdsDiffer`); what the
  bridge is about to acknowledge for a create that it did not look up by title is
  the id of a note that Bear made for it, which no other outcome and no note has
  (`IdsGivenByBear`, `NewIdsUnused`); and a copy that a handler writes back brings no id of
  another note. An acknowledgement keeps IdsDiffer by its guard; that the guard
  holds unless a create was found by its title (`OwnIdsAccepted`, an induction over
  the batch) is where the other parts are needed. It gives BearIDsUnique, with one
  hypothesis, `OneAtATime`: a handler's steps are not interleaved with the bridge's
  transactions, or there is one handler. Otherwise a stale copy writes the id of a
  created note back to NULL, a push inserts the note anew, and a second stale copy
  writes the id again.
- `TargetInv`: a row's `bear_id` is its note's.
- `ConflictUntouched`: a note that a handler is about to write is not in conflict, so only an
  acknowledgement ends it: ConflictEndsByCopy, where handlers and transactions are
  apart (with them interleaved it fails, see above).
- `ProtectedNotes`: a live note with an active update is pending or in conflict.
  ProtectedUntilApplied follows, where handlers and transactions are apart and
  there is one handler or no fault: with two handlers and a failed enqueue, the
  compensation writes back a settled copy over the other handler's pending text.
- `ConvergeInv`: a settled note says what Bear said at the last push, or Bear has
  changed since in a way that the next push will bring (`SettledNotes`, and
  `SettledCopies` for the rows handlers will write back); what was carried out is
  such a change (`DoneUnpushed`); stamps of Bear never go back (`BearStamps`).
  NotesConverge says that a settled note says what Bear says whenever what Bear
  has was pushed, in the middle of a cycle too; Convergence is Converged as the
  runs have it. Both need handlers and transactions apart and changes of Bear in
  different seconds (`0 \notin Gaps`). NotesConverge leaves out the notes that an
  item settled without a change of Bear: conflict copies, trashes, updates and
  tags that were skipped as done, and creates that were found by their title.
  Convergence is about behaviours in which no update and no tag was skipped and no
  create found by its title. Converged itself leaves out less: its cases of a
  skipped tag without a fault, of a skipped update and of a found create are
  checked in the runs' bounds and not proved.

`EchoProofs` proves OwnUpdatesAreEchoes, for all calls, notes and rows, with two
hypotheses (`OneByOne`): there is one handler, and handlers and transactions are
apart. Without either it fails (see above). Its precondition, no edits and no
faults so far and only updates in the queue, is one on the past: a state that
has it had it in every step before (`PlainSteps`). Two invariants rest on that:

- `CalmInv`: without edits and faults no note of Bear is lost, no row fails and
  every item of a batch is applied.
- `EchoInv`: while the queue is plain, besides, the hub will know each write of the
  bridge it has not had back. What that means moves along with the cycle. A write
  that is not acknowledged is in the batch, and the last acknowledgement for its
  note tells Bear's text and stamp (`WritesAcked`, `AckTells`). Acknowledged, the
  note either waits for that stamp, or has Bear's text as its snapshot, or is
  settled with Bear's text (`EchoKnown`). That a settled note has Bear's text
  needs that a note's text is that of its newest active row (`LastWord`), which
  two handlers would break, and that the batch has the oldest active rows
  (`BatchOldest`). That the next update's snapshot is Bear's text needs that the
  handler's copy is the row as it is (`HandlerFacts`), which a transaction in
  between would break.

`EchoProofs` also proves KnownEditsSurvive (`EditsSurvive`), under `OneByOne`,
changes of Bear in different seconds, and `EditsAccountedFor`: in every state
without faults, a waiting note's text is not its snapshot and no trash, update or
tag was skipped as done. Without the first part it fails (see above); of the
second, a skipped update is the harmless case of equal texts, and a skipped tag is
left to the run. TLC finds the condition in every state of MCNoteSync but for the
tags, which may always be in Bear there. The theorem assumes it of a behavior and not of the constants, since it
depends on what texts consumers send and when. The argument is about the row of a
note, and about every text of Bear's user that Bear has:

- `EditInv` adds to the convergence and protection invariants, as long as nothing
  failed, the facts `EditFacts`. Of a row (`RowGood`): it is never told the
  stamp of the user's text as one to expect, nor as one it has before the push
  that brings that text (`StampsHeld`), so that push is compared with the snapshot;
  and once the text was pushed, a waiting note has it as its snapshot (`Snapshot`),
  or is in conflict. Stamps are never ahead of the clock (`RowPast`), so a new edit
  has a stamp no row has; a settled row has no snapshot (`Clean`), so the next
  update takes a new one.
- Acknowledgements do not disturb this: they tell no stamp of a user's text, but
  for the notes marked "raced" (`AckGood`). A handler does not either: the
  copy it writes back is the row as it is (`HandlerHolds`).
- An item that was leased without a conflict has none until it is acknowledged
  (`BatchCalm`), so the item that replaces a text is one of a note that waits and
  is not in conflict; its row's target is the note's (TargetInv), the note is there
  (`GoneTargets`) and is not settled (`ProtectedNotes`). By `Snapshot` it was
  written over the text it replaces.

Only model-checked:

- Converged and KnownEditsSurvive where a tag was skipped because Bear had it,
  Converged where an update was skipped or a create found by its title, for the
  bounds of the runs.
- All liveness (EventuallySettled, ConflictsResolve, EventuallyMirrored,
  AppliedFilesGo, ToldProcessEnds), which the prover does not do under fairness.

## Not modelled

Backlinks and pinned pairs, which are read, pushed and deleted as tags and pairs
are; the `permanently_deleted` and `encrypted` flags of attachments, which keep
files from being uploaded or remove them; the full-text index, which triggers
keep; search, lists and counts, which read; the text of [Conflict] notes; the
statistics and the log buffer of the IPC server, which only displays read; the
views of the app; the MCP server; HTTP, authentication and column conversion.
Requests that are refused before their first write change nothing and are left
out.

## Plan

1. *Done*: WriteQueue, QueueDelivery, NotesTable, ConsumerHandlers, NoteSync,
   DeltaSync with tags, attachments and uploads, AttachmentBlobs, Daemon,
   ProcessManager; Outbox and Replica with the refinements; theorems of
   WriteQueue, QueueDelivery, AttachmentBlobs, DeltaSync and ProcessManager.
   Theorems of NoteSync: SyncTypeOK, NoOrphans, BearIDsUnique, ConflictEndsByCopy,
   ProtectedUntilApplied, OwnUpdatesAreEchoes, KnownEditsSurvive and convergence.
2. The full scan's pure functions (changed notes, merging pairs) as lemmas.
