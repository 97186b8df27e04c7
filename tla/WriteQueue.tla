----------------------------- MODULE WriteQueue -----------------------------
(***************************************************************************)
(* The hub's write queue: the write_queue table of                         *)
(* src/internal/store/sqlite.go and the transactions that change it.       *)
(*                                                                         *)
(* The store opens SQLite with a single connection, so every store call    *)
(* below is one atomic step.  A row is never deleted and its id is         *)
(* AUTOINCREMENT, so the table is a sequence and the id of a row is its    *)
(* index.                                                                  *)
(*                                                                         *)
(* The environment of this module is the most general one: any consumer    *)
(* request at any time, any batch of acknowledgements, notes deleted at    *)
(* any time.  The modules that add the bridge restrict it.                 *)
(*                                                                         *)
(* Left out: processing_by (always "bridge"), created_at, applied_at,      *)
(* error (written, never read by a transaction).  lease_until is kept      *)
(* relative to the clock: the time left, saturating at Expired.            *)
(***************************************************************************)
EXTENDS Integers, Sequences, FiniteSets

CONSTANTS
  Requests,       \* the enqueue requests consumers may submit
  NULL,           \* SQL NULL, and the empty note_id of tag requests
  LeaseDuration,  \* ticks a lease lasts (5 minutes in the code)
  LeaseLimit,     \* rows leased by one call (100 in the code)
  MaxRows         \* bound: rows ever inserted

VARIABLES
  write_queue,    \* the table
  acceptedAs      \* history: the row each accepted request was answered with

vars == <<write_queue, acceptedAs>>

(***************************************************************************)
(* The part of the requests the queue looks at.                            *)
(***************************************************************************)
Statuses == {"pending", "processing", "applied", "failed"}
Keys == {r.key : r \in Requests}
Consumers == {r.consumer : r \in Requests}
Actions == {r.action : r \in Requests}
NoteIds == {r.note_id : r \in Requests}
\* A payload is its title (creates only), its body (creates and updates) and
\* the bear_id of the note as the hub knew it; what a request lacks is NULL.
\* For add_file the first two are the file's name and the attachment's id.
Payloads == [title : {r.payload.title : r \in Requests},
             body : {r.payload.body : r \in Requests},
             bear_id : {r.payload.bear_id : r \in Requests}]

Expired == -1
Leases == Expired..LeaseDuration

Row == [key : Keys, secondary : Keys \cup {NULL}, consumer : Consumers,
        action : Actions, note_id : NoteIds, payload : Payloads,
        status : Statuses, lease_until : Leases \cup {NULL}]

\* Idempotency keys are non-empty strings (the API answers 400 otherwise), so
\* a NULL secondary key equals none of them.
ASSUME RequestsAssumption ==
  \A r \in Requests :
    /\ r = [key |-> r.key, consumer |-> r.consumer, action |-> r.action,
            note_id |-> r.note_id,
            payload |-> [title |-> r.payload.title, body |-> r.payload.body,
                         bear_id |-> r.payload.bear_id]]
    /\ r.key # NULL

ASSUME LeaseAssumption ==
  /\ LeaseDuration \in Nat
  /\ LeaseLimit \in Nat \ {0}
  /\ MaxRows \in Nat
  /\ NULL \notin Leases

-----------------------------------------------------------------------------
Ids == 1..Len(write_queue)

Active(row) == row.status \in {"pending", "processing"}

\* Mutant: the key looked up among active rows only.
RowsForKeyActiveOnly(key, consumer) ==
  {i \in Ids : /\ write_queue[i].consumer = consumer
               /\ key \in {write_queue[i].key, write_queue[i].secondary}
               /\ Active(write_queue[i])}

\* GetQueueItemByIdempotencyKey: rows a key of a consumer resolves to.
RowsForKey(key, consumer) ==
  {i \in Ids : /\ write_queue[i].consumer = consumer
               /\ key \in {write_queue[i].key, write_queue[i].secondary}}

\* Mutant: a leased row is still merged into.
PendingRowsOrLeased(action, note, consumer) ==
  {i \in Ids : /\ write_queue[i].note_id = note
               /\ write_queue[i].action = action
               /\ Active(write_queue[i])
               /\ write_queue[i].consumer = consumer}

\* Rows a later write for the same note and consumer may be merged into.
PendingRows(action, note, consumer) ==
  {i \in Ids : /\ write_queue[i].note_id = note
               /\ write_queue[i].action = action
               /\ write_queue[i].status = "pending"
               /\ write_queue[i].consumer = consumer}

CoalesceCandidates(r) ==
  IF r.action = "update" /\ r.note_id # NULL
  THEN PendingRows("update", r.note_id, r.consumer)
  ELSE {}

ResetRow(row, r) ==
  [row EXCEPT !.status = "pending", !.action = r.action, !.note_id = r.note_id,
              !.payload = r.payload, !.lease_until = NULL]

NewRow(r) ==
  [key |-> r.key, secondary |-> NULL, consumer |-> r.consumer,
   action |-> r.action, note_id |-> r.note_id, payload |-> r.payload,
   status |-> "pending", lease_until |-> NULL]

Accept(r, i) == acceptedAs' = [acceptedAs EXCEPT ![r] = i]

-----------------------------------------------------------------------------
(***************************************************************************)
(* EnqueueWrite: one transaction with three outcomes.                      *)
(***************************************************************************)
\* Mutant: every settled row is reset, the applied ones too.
IdempotencyHitResetsApplied(r, i) ==
  /\ i \in RowsForKey(r.key, r.consumer)
  /\ write_queue' = IF Active(write_queue[i]) THEN write_queue
                    ELSE [write_queue EXCEPT ![i] = ResetRow(@, r)]
  /\ Accept(r, i)

\* handleIdempotencyHit: a failed row is reset for a retry, any other row is
\* returned as it is.
IdempotencyHit(r, i) ==
  /\ i \in RowsForKey(r.key, r.consumer)
  /\ write_queue' = IF write_queue[i].status = "failed"
                    THEN [write_queue EXCEPT ![i] = ResetRow(@, r)]
                    ELSE write_queue
  /\ Accept(r, i)

\* Mutant: the key is remembered and the payload is not.
CoalesceUpdateKeyOnly(r, i) ==
  /\ RowsForKey(r.key, r.consumer) = {}
  /\ i \in CoalesceCandidates(r)
  /\ write_queue' = [write_queue EXCEPT ![i].secondary = r.key]
  /\ Accept(r, i)

\* coalesceUpdateTx: the pending update takes the new payload and remembers
\* the new key as its (only) secondary key.
CoalesceUpdate(r, i) ==
  /\ RowsForKey(r.key, r.consumer) = {}
  /\ i \in CoalesceCandidates(r)
  /\ write_queue' = [write_queue EXCEPT ![i].payload = r.payload,
                                        ![i].secondary = r.key]
  /\ Accept(r, i)

InsertRow(r) ==
  /\ RowsForKey(r.key, r.consumer) = {}
  /\ CoalesceCandidates(r) = {}
  /\ Len(write_queue) < MaxRows
  /\ write_queue' = Append(write_queue, NewRow(r))
  /\ Accept(r, Len(write_queue) + 1)

EnqueueWrite(r) ==
  \/ \E i \in Ids : IdempotencyHit(r, i) \/ CoalesceUpdate(r, i)
  \/ InsertRow(r)

\* The guarded UPDATE of CoalesceCreateUpdate: an update of a note Bear does not
\* have yet is merged into the create, if that is still pending.  The SELECT
\* before it is a call of its own (FindCreate in ConsumerHandlers); of what it
\* read only the body is replaced, and the rest of a create's payload changes
\* no more.  The key was not looked up in this call.
CoalesceCreateUpdate(r) ==
  /\ r.action = "update"
  /\ \E i \in PendingRows("create", r.note_id, r.consumer) :
       /\ write_queue' = [write_queue EXCEPT ![i].payload.body = r.payload.body,
                                             ![i].secondary = r.key]
       /\ Accept(r, i)

(***************************************************************************)
(* LeaseQueueItems: expired leases return to pending and the oldest        *)
(* LeaseLimit pending rows are leased, in one transaction.                 *)
(***************************************************************************)
\* Mutants: every lease is taken back, or none ever is.
LeaseRunOutAlways(row) == row.status = "processing"
LeaseRunOutNever(row) == FALSE

LeaseRunOut(row) == row.status = "processing" /\ row.lease_until = Expired

Leasable == {i \in Ids : \/ write_queue[i].status = "pending"
                         \/ LeaseRunOut(write_queue[i])}

LeasedNow == {i \in Leasable : Cardinality({j \in Leasable : j < i}) < LeaseLimit}

AfterLease(i) ==
  CASE i \in LeasedNow -> [write_queue[i] EXCEPT !.status = "processing",
                                                 !.lease_until = LeaseDuration]
    [] i \in Leasable \ LeasedNow -> [write_queue[i] EXCEPT !.status = "pending",
                                                            !.lease_until = NULL]
    [] OTHER -> write_queue[i]

LeaseQueueItems ==
  /\ write_queue' = [i \in Ids |-> AfterLease(i)]
  /\ UNCHANGED acceptedAs

(***************************************************************************)
(* AckQueueItems: one transaction for the batch; only rows still           *)
(* processing take their outcome.                                          *)
(***************************************************************************)
Outcomes == {"applied", "failed"}

\* Mutant: an acknowledgement that comes after the lease ran out is dropped.
AckQueueItemsInLease(acks) ==
  /\ write_queue' = [i \in Ids |->
       IF /\ i \in DOMAIN acks
          /\ write_queue[i].status = "processing"
          /\ write_queue[i].lease_until # Expired
       THEN [write_queue[i] EXCEPT !.status = acks[i]]
       ELSE write_queue[i]]
  /\ UNCHANGED acceptedAs

AckQueueItems(acks) ==
  /\ write_queue' = [i \in Ids |->
       IF i \in DOMAIN acks /\ write_queue[i].status = "processing"
       THEN [write_queue[i] EXCEPT !.status = acks[i]]
       ELSE write_queue[i]]
  /\ UNCHANGED acceptedAs

\* failQueueItemsForDeletedNotes, called by a push that deletes the notes.
FailQueueItemsForDeletedNotes(deleted) ==
  /\ write_queue' = [i \in Ids |->
       IF Active(write_queue[i]) /\ write_queue[i].note_id \in deleted
       THEN [write_queue[i] EXCEPT !.status = "failed"]
       ELSE write_queue[i]]
  /\ UNCHANGED acceptedAs

\* Time passes for every lease that has some left.
Elapsed(lease) == IF lease \in 0..LeaseDuration THEN lease - 1 ELSE lease

Tick ==
  /\ write_queue' = [i \in Ids |->
       [write_queue[i] EXCEPT !.lease_until = Elapsed(@)]]
  /\ UNCHANGED acceptedAs

-----------------------------------------------------------------------------
Init ==
  /\ write_queue = <<>>
  /\ acceptedAs = [r \in Requests |-> 0]

Next ==
  \/ \E r \in Requests : EnqueueWrite(r) \/ CoalesceCreateUpdate(r)
  \/ LeaseQueueItems
  \/ \E S \in SUBSET Ids : \E acks \in [S -> Outcomes] : AckQueueItems(acks)
  \/ \E n \in NoteIds \ {NULL} : FailQueueItemsForDeletedNotes({n})
  \/ Tick

Spec == Init /\ [][Next]_vars

-----------------------------------------------------------------------------
\* The shape of the table and of the history.
TypeOK ==
  /\ write_queue \in Seq(Row)
  /\ acceptedAs \in [Requests -> Nat]

\* A row is leased exactly with a term that can run out, and a pending row has
\* none: otherwise the expiry test `lease_until < now` would never free it.
LeaseDiscipline ==
  \A i \in Ids : /\ write_queue[i].status = "processing" => write_queue[i].lease_until \in Leases
                 /\ write_queue[i].status = "pending" => write_queue[i].lease_until = NULL

\* UNIQUE(idempotency_key, consumer_id) is never what refuses an insert: the
\* lookup of EnqueueWrite has already answered with the existing row.
PrimaryKeysUnique ==
  \A i, j \in Ids : /\ write_queue[i].key = write_queue[j].key
                    /\ write_queue[i].consumer = write_queue[j].consumer
                    => i = j

\* An accepted request was answered with a row of the table that belongs to
\* its consumer.
AcceptedRowExists ==
  \A r \in Requests : acceptedAs[r] # 0 =>
    /\ acceptedAs[r] \in Ids
    /\ write_queue[acceptedAs[r]].consumer = r.consumer

Work(row) == <<row.action, row.note_id, row.payload>>

\* A row acknowledged as applied never changes again but for its lease clock:
\* no retry, expiry, deletion or late acknowledgement revives it.
AppliedIsFinal ==
  [][\A i \in Ids : write_queue[i].status = "applied" =>
       /\ write_queue'[i].status = "applied"
       /\ Work(write_queue'[i]) = Work(write_queue[i])]_vars

\* While a row is leased nothing changes what it asks for, so what the bridge
\* executes is what its acknowledgement confirms.
LeasedWorkIsStable ==
  [][\A i \in Ids : write_queue[i].status = "processing" =>
       Work(write_queue'[i]) = Work(write_queue[i])]_vars

\* A lease is not taken away from its holder before it runs out, and only an
\* acknowledgement or a deletion ends it early.
LeaseIsHonoured ==
  [][\A i \in Ids : write_queue[i].status = "processing" /\ write_queue[i].lease_until # Expired =>
       /\ write_queue'[i].status # "pending"
       /\ write_queue'[i].status = "processing" =>
            write_queue'[i].lease_until <= write_queue[i].lease_until]_vars

\* consumer-api.md: "Replaying the same key returns the original result
\* without side effects": a request accepted before, whose row has not failed,
\* adds no row and changes no row's work.
ReplayHasNoSideEffects ==
  [][\A r \in Requests :
       /\ acceptedAs[r] # 0
       /\ write_queue[acceptedAs[r]].status # "failed"
       /\ EnqueueWrite(r)
       => write_queue' = write_queue]_vars
=============================================================================
