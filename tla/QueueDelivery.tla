---------------------------- MODULE QueueDelivery ----------------------------
(***************************************************************************)
(* The write queue with the one bridge that empties it.                    *)
(*                                                                         *)
(* The bridge (cmd/bridge/queue.go) works in one goroutine: it leases a    *)
(* batch, applies the items one after the other and acknowledges the whole *)
(* batch in one call.  Around it, the things that go wrong: an answer of   *)
(* the hub that is lost after the hub did its part, a call to Bear that    *)
(* reports an error although Bear did the work, a bridge that dies.  Each  *)
(* of them is a fault; MaxFaults bounds how many happen.                   *)
(*                                                                         *)
(* Left out here: the notes table (module NoteSync), so Bear is what the   *)
(* bridge performed for each row.                                          *)
(***************************************************************************)
EXTENDS WriteQueue

CONSTANT MaxFaults \* bound: faults in one behaviour

ASSUME FaultAssumption == MaxFaults \in Nat

VARIABLES
  phase,      \* where the bridge is in processQueue
  batch,      \* the leased items, as they were read: row id -> work
  acks,       \* outcomes of the items applied so far: row id -> outcome
  bearBody,   \* the body of each note in Bear, NULL while Bear has no such note
  done,       \* per row, the works the bridge performed or found performed
  runs,       \* history: per row, how often Bear performed its work
  wanted,     \* history: per note, the body of the latest accepted write
  troubled,   \* history: the notes one of whose writes failed
  faults      \* history: faults so far

bridgeVars == <<phase, batch, acks>>
bearVars == <<bearBody, done, runs>>
deliveryVars == <<vars, bridgeVars, bearVars, wanted, troubled, faults>>

Works == Actions \X NoteIds \X Payloads
Bodies == {r.payload.body : r \in Requests} \cup {NULL}
Writes == {"create", "update"} \* the actions that set a body

NoItems == [i \in {} |-> NULL]
Put(f, i, v) == [j \in DOMAIN f \cup {i} |-> IF j = i THEN v ELSE f[j]]

Fault == faults < MaxFaults /\ faults' = faults + 1
NoFault == faults' = faults

-----------------------------------------------------------------------------
(***************************************************************************)
(* processQueue                                                            *)
(***************************************************************************)
\* LeaseQueue: the answer carries the rows as the transaction read them; an
\* empty batch ends the cycle.
LeaseBatch ==
  /\ phase = "idle"
  /\ LeaseQueueItems
  /\ batch' = [i \in LeasedNow |-> Work(write_queue[i])]
  /\ phase' = IF LeasedNow = {} THEN "idle" ELSE "applying"
  /\ acks' = NoItems
  /\ UNCHANGED <<bearVars, wanted, troubled>> /\ NoFault

\* The hub leased the rows but the answer was lost.
LeaseAnswerLost ==
  /\ phase = "idle"
  /\ LeasedNow # {}
  /\ LeaseQueueItems
  /\ UNCHANGED <<bridgeVars, bearVars, wanted, troubled>> /\ Fault

Todo == DOMAIN batch \ DOMAIN acks

\* The loop takes the items in the order of their ids; after the last one it
\* acknowledges.
ItemDone(i, outcome) ==
  /\ phase = "applying"
  /\ i \in Todo
  /\ \A j \in Todo : i <= j
  /\ acks' = Put(acks, i, outcome)
  /\ phase' = IF Todo = {i} THEN "acking" ELSE "applying"
  /\ UNCHANGED <<vars, batch, wanted>>

\* The effect of an item: its work is a triple <<action, note_id, payload>>.
ActionOf(work) == work[1]
NoteOf(work) == work[2]
BodyOf(work) == work[3].body

Done(i) == done' = [done EXCEPT ![i] = @ \cup {batch[i]}]

Perform(i) ==
  /\ bearBody' = IF ActionOf(batch[i]) \in Writes
                 THEN [bearBody EXCEPT ![NoteOf(batch[i])] = BodyOf(batch[i])]
                 ELSE bearBody
  /\ runs' = [runs EXCEPT ![i] = @ + 1]
  /\ Done(i)

\* What the bridge looks at before it acts: the body for an update, the tag,
\* flag or file for the others, nothing for a create or a tag rename.
AlreadyApplied(i) ==
  CASE ActionOf(batch[i]) = "update" -> bearBody[NoteOf(batch[i])] = BodyOf(batch[i])
    [] ActionOf(batch[i]) \in {"create", "rename_tag"} -> FALSE
    [] OTHER -> \E j \in 1..MaxRows : batch[i] \in done[j]

ApplyItem(i) ==
  /\ ItemDone(i, "applied")
  /\ IF AlreadyApplied(i) THEN Done(i) /\ UNCHANGED <<bearBody, runs>> ELSE Perform(i)
  /\ UNCHANGED troubled /\ NoFault

Troubles(i) == troubled' = troubled \cup {NoteOf(batch[i])}

\* Bear refused, the note is gone, or the body is too large.
ApplyItemFails(i) ==
  /\ ItemDone(i, "failed")
  /\ ~AlreadyApplied(i)
  /\ Troubles(i)
  /\ UNCHANGED bearVars /\ NoFault

\* bear-xcall times out, or the created note is not found, after Bear did it.
ApplyItemReportsFailure(i) ==
  /\ ItemDone(i, "failed")
  /\ ~AlreadyApplied(i)
  /\ Perform(i) /\ Troubles(i) /\ Fault

\* Mutant: the outcomes of the batch outlive it.
AckBatchKeepsAcks ==
  /\ phase = "acking"
  /\ AckQueueItems(acks)
  /\ phase' = "idle" /\ batch' = NoItems
  /\ UNCHANGED <<acks, bearVars, wanted, troubled>> /\ NoFault

AckBatch ==
  /\ phase = "acking"
  /\ AckQueueItems(acks)
  /\ phase' = "idle" /\ batch' = NoItems /\ acks' = NoItems
  /\ UNCHANGED <<bearVars, wanted, troubled>> /\ NoFault

\* The hub acknowledged the batch but the answer was lost: doWithRetry sends
\* the same request again.
AckAnswerLost ==
  /\ phase = "acking"
  /\ AckQueueItems(acks)
  /\ UNCHANGED <<bridgeVars, bearVars, wanted, troubled>> /\ Fault

\* The bridge is killed, or its calls to the hub fail three times: the batch
\* it held is forgotten.
BridgeDies ==
  /\ phase # "idle"
  /\ phase' = "idle" /\ batch' = NoItems /\ acks' = NoItems
  /\ UNCHANGED <<vars, bearVars, wanted, troubled>> /\ Fault

-----------------------------------------------------------------------------
(***************************************************************************)
(* The bridge's environment.                                               *)
(***************************************************************************)
\* A note that a create introduces has no bear_id before that create is
\* acknowledged: until then updates can only be merged into the create, and
\* afterwards only be enqueued (updateNote).
HasBearID(n) ==
  /\ \A r \in Requests : r.action = "create" /\ r.note_id = n => acceptedAs[r] # 0
  /\ \A i \in Ids : write_queue[i].action = "create" /\ write_queue[i].note_id = n
                    => write_queue[i].status = "applied"

Submit(r) ==
  /\ IF r.action = "update" /\ ~HasBearID(r.note_id)
     THEN CoalesceCreateUpdate(r)
     ELSE EnqueueWrite(r)
  /\ wanted' = IF r.action \in Writes /\ write_queue' # write_queue
               THEN [wanted EXCEPT ![r.note_id] = r.payload.body]
               ELSE wanted
  /\ UNCHANGED <<bridgeVars, bearVars, troubled>> /\ NoFault

\* Mutant: pushes and the queue run in two goroutines.
PushDeletesAnytime(n) ==
  /\ HasBearID(n)
  /\ FailQueueItemsForDeletedNotes({n})
  /\ troubled' = troubled \cup {n}
  /\ UNCHANGED <<bridgeVars, bearVars, wanted>> /\ NoFault

\* The delta push comes before the lease in the same goroutine.
PushDeletes(n) ==
  /\ phase = "idle"
  /\ HasBearID(n)
  /\ FailQueueItemsForDeletedNotes({n})
  /\ troubled' = troubled \cup {n}
  /\ UNCHANGED <<bridgeVars, bearVars, wanted>> /\ NoFault

TimePasses ==
  /\ Tick
  /\ UNCHANGED <<bridgeVars, bearVars, wanted, troubled>> /\ NoFault

DeliveryInit ==
  /\ Init
  /\ phase = "idle" /\ batch = NoItems /\ acks = NoItems
  /\ bearBody = [n \in NoteIds |-> NULL]
  /\ done = [i \in 1..MaxRows |-> {}]
  /\ runs = [i \in 1..MaxRows |-> 0]
  /\ wanted = [n \in NoteIds |-> NULL]
  /\ troubled = {} /\ faults = 0

BridgeStep ==
  \/ LeaseBatch
  \/ \E i \in 1..MaxRows : ApplyItem(i) \/ ApplyItemFails(i)
  \/ AckBatch

Faulty ==
  \/ LeaseAnswerLost
  \/ \E i \in 1..MaxRows : ApplyItemReportsFailure(i)
  \/ AckAnswerLost
  \/ BridgeDies

DeliveryNext ==
  \/ BridgeStep
  \/ Faulty
  \/ \E r \in Requests : Submit(r)
  \/ \E n \in NoteIds \ {NULL} : PushDeletes(n)
  \/ TimePasses

DeliverySpec == DeliveryInit /\ [][DeliveryNext]_deliveryVars

\* The daemon's ticker starts a cycle again and again and the clock goes on;
\* nothing obliges consumers, Bear's user or the faults.
FairDeliverySpec ==
  DeliverySpec /\ WF_deliveryVars(BridgeStep) /\ WF_deliveryVars(TimePasses)

-----------------------------------------------------------------------------
\* Types of the table, the bridge's and Bear's part of the state.
DeliveryTypeOK ==
  /\ TypeOK
  /\ phase \in {"idle", "applying", "acking"}
  /\ DOMAIN batch \subseteq Ids /\ \A i \in DOMAIN batch : batch[i] \in Works
  /\ DOMAIN acks \subseteq DOMAIN batch /\ \A i \in DOMAIN acks : acks[i] \in Outcomes
  /\ bearBody \in [NoteIds -> Bodies] /\ wanted \in [NoteIds -> Bodies]
  /\ done \in [1..MaxRows -> SUBSET Works]
  /\ troubled \subseteq NoteIds
  /\ runs \in [1..MaxRows -> Nat]
  /\ faults \in 0..MaxFaults

\* sqlite.go's "safety invariant" of AckQueueItems: with one sequential bridge
\* no acknowledgement is stale.  Until the hub has processed the batch's
\* acknowledgement, every item of it is still leased and still says what the
\* bridge read.  (A retried acknowledgement finds no such row processing.)
BatchStillLeased ==
  phase = "applying" =>
    \A i \in DOMAIN batch : /\ write_queue[i].status = "processing"
                            /\ Work(write_queue[i]) = batch[i]

\* The same system seen by consumers: a leased row still waits.
Standing == [i \in 1..MaxRows |->
  IF i \notin Ids THEN "none"
  ELSE IF Active(write_queue[i]) THEN "queued"
  ELSE IF write_queue[i].status = "applied" THEN "done" ELSE "failed"]

Asked == [i \in 1..MaxRows |-> IF i \in Ids THEN Work(write_queue[i]) ELSE NULL]

O == INSTANCE Outbox WITH
  Items <- 1..MaxRows, None <- NULL,
  status <- Standing, asked <- Asked, performed <- done

\* The queue with its bridge keeps the hub's promise: under lost answers,
\* deaths, expired leases and repeated acknowledgements the bridge acts for
\* waiting rows only, on what they ask for, and a row is confirmed only after
\* what it asks for was done: a row reset with a new payload after its first
\* attempt is not marked applied by the answer to that attempt.
KeepsPromise == O!Spec

\* Without faults Bear performs the work of a row once, whatever consumers
\* replay, coalesce and retry and however late the bridge is.
DuplicatesNeedAFault ==
  faults = 0 => \A i \in 1..MaxRows : runs[i] <= 1

RowsOf(n) == {i \in Ids : write_queue[i].note_id = n}

\* When all writes of a note are applied, Bear has the body of the latest one
\* the hub accepted, if one consumer wrote them, none failed and no fault
\* happened in between.  (A second consumer breaks it: a write merged into a
\* pending row takes the place of that row, before the other's later write.)
NewestWriteWins ==
  \A n \in NoteIds \ troubled :
    /\ faults = 0
    /\ wanted[n] # NULL
    /\ \A i \in RowsOf(n) : write_queue[i].status = "applied"
    /\ Cardinality({write_queue[i].consumer : i \in RowsOf(n)}) = 1
    => bearBody[n] = wanted[n]

\* Orderly consumers: a key stands for one kind of write to one note, a note is
\* created by one request (its id is made for it), and a body is a note's.
OrderlyRequests ==
  \A r, s \in Requests :
    /\ r.key = s.key /\ r.consumer = s.consumer => r.action = s.action /\ r.note_id = s.note_id
    /\ r.action = "create" /\ s.action = "create" /\ r.note_id = s.note_id =>
         r.key = s.key /\ r.consumer = s.consumer
    /\ r.action \in Writes => r.note_id # NULL

\* Consumers stop resubmitting failed writes at some time.
RetriesEnd ==
  <>[][\A i \in Ids : write_queue[i].status = "failed" =>
         write_queue'[i].status = "failed"]_deliveryVars

\* Every accepted write is settled if retries end: the leased rows of a dead
\* bridge or a lost answer run out and are leased again, and no row starves
\* behind the limit of a batch.  (A row that fails and is retried forever is
\* older than the rows behind it and would starve them under LIMIT.)
EventuallySettled ==
  RetriesEnd =>
    \A i \in 1..MaxRows :
      (i \in Ids /\ Active(write_queue[i])) ~> (i \in Ids /\ ~Active(write_queue[i]))
=============================================================================
