------------------------- MODULE NewestWriteProofs -------------------------
(***************************************************************************)
(* The newest write of a note wins: NewestWriteWins for every set of       *)
(* requests that orderly consumers make, every lease, limit and number of  *)
(* rows.                                                                   *)
(***************************************************************************)
EXTENDS DeliveryProofs, FiniteSetTheorems

(***************************************************************************)
(* The inductive invariant.                                                *)
(***************************************************************************)
\* The keys of a row are those of requests for its note; a secondary key is that
\* of an update.
KeysOfNote ==
  \A i \in Ids : \A r \in Requests : r.consumer = write_queue[i].consumer =>
    /\ r.key = write_queue[i].key => r.note_id = write_queue[i].note_id
    /\ r.key = write_queue[i].secondary => r.note_id = write_queue[i].note_id /\ r.action = "update"

\* A failure is remembered of the note.
FailuresTrouble ==
  /\ \A i \in Ids : write_queue[i].status = "failed" => write_queue[i].note_id \in troubled
  /\ \A i \in DOMAIN acks : acks[i] = "failed" => NoteOf(batch[i]) \in troubled

\* A row of a note without failures is still what the request of its key made.
RowsAsInserted ==
  \A i \in Ids : write_queue[i].note_id \notin troubled =>
    \E r \in Requests : /\ r.key = write_queue[i].key /\ r.consumer = write_queue[i].consumer
                        /\ r.action = write_queue[i].action /\ r.note_id = write_queue[i].note_id

HasRow(r) == \E i \in Ids : write_queue[i].key = r.key /\ write_queue[i].consumer = r.consumer

\* An accepted create has its row, and so has the create of a note with updates.
CreatesHaveRows ==
  \A r \in Requests : r.action = "create" =>
    /\ acceptedAs[r] # 0 => HasRow(r)
    /\ \A i \in Ids : /\ write_queue[i].action = "update" /\ write_queue[i].note_id = r.note_id
                      /\ r.note_id \notin troubled
                      => HasRow(r)

\* The bridge works through its batch in the order of the ids.
AcksInOrder == \A i \in DOMAIN batch : \A j \in DOMAIN acks : i < j => i \in DOMAIN acks

KeysInv ==
  /\ KeysOfNote /\ FailuresTrouble /\ RowsAsInserted /\ CreatesHaveRows /\ AcksInOrder

\* Rows of a note are leased and applied in the order of their ids.
InOrder ==
  \A i, j \in Ids :
    /\ i < j /\ write_queue[i].note_id = write_queue[j].note_id
    /\ write_queue[i].note_id \notin troubled
    => /\ write_queue[j].status = "applied" => write_queue[i].status = "applied"
       /\ write_queue[j].status = "processing" => write_queue[i].status # "pending"

BodyRows(n) == {i \in RowsOf(n) : write_queue[i].action \in Writes}

\* Bear has the body of the last row that it performed.
BearHasLast ==
  \A n \in NoteIds \ troubled : \A i \in BodyRows(n) :
    /\ Reported(i)
    /\ \A j \in BodyRows(n) : i < j => ~Reported(j)
    => bearBody[n] = write_queue[i].payload.body

OneConsumer(n) == \A i, j \in RowsOf(n) : write_queue[i].consumer = write_queue[j].consumer

\* Only the last of the rows may still be merged into.
OnlyLastPends ==
  \A n \in NoteIds \ troubled : OneConsumer(n) =>
    \A i, j \in BodyRows(n) : i < j => write_queue[i].status # "pending"

IsLast(n, i) == i \in BodyRows(n) /\ \A j \in BodyRows(n) : j <= i

\* The last row has the newest body.
LastIsWanted ==
  \A n \in NoteIds \ troubled : OneConsumer(n) =>
    \/ wanted[n] = NULL /\ BodyRows(n) = {}
    \/ \E i \in Ids : IsLast(n, i) /\ wanted[n] = write_queue[i].payload.body

NewestInv ==
  faults = 0 => InOrder /\ BearHasLast /\ OnlyLastPends /\ LastIsWanted

-----------------------------------------------------------------------------
(***************************************************************************)
(* Steps and the text of the rows.                                         *)
(***************************************************************************)
SameText(i) ==
  /\ write_queue'[i].key = write_queue[i].key
  /\ write_queue'[i].secondary = write_queue[i].secondary
  /\ write_queue'[i].consumer = write_queue[i].consumer
  /\ write_queue'[i].action = write_queue[i].action
  /\ write_queue'[i].note_id = write_queue[i].note_id
  /\ write_queue'[i].payload = write_queue[i].payload

LEMMA Shape ==
  ASSUME DeliveryInv
  PROVE  /\ TypeOK /\ Len(write_queue) \in Nat /\ Ids \subseteq Nat
         /\ \A i \in Ids : write_queue[i] \in Row
         /\ DOMAIN batch \subseteq Ids /\ DOMAIN acks \subseteq DOMAIN batch
         /\ faults \in Nat
         /\ \A i \in DOMAIN acks : acks[i] \in {"applied", "failed"}
         /\ wanted \in [NoteIds -> Bodies] /\ bearBody \in [NoteIds -> Bodies]
         /\ Ids \subseteq 1..MaxRows
<1>1. TypeOK /\ Bounded
  BY DEF DeliveryInv, DeliveryTypeOK
<1>2. Len(write_queue) \in Nat /\ MaxRows \in Nat /\ \A i \in Ids : write_queue[i] \in Row
  BY <1>1, TableShape, LeaseAssumption
<1>3. Ids \subseteq Nat /\ Ids \subseteq 1..MaxRows
  BY <1>1, <1>2 DEF Ids, Bounded
<1>4. \A i \in DOMAIN acks : acks[i] \in {"applied", "failed"}
  BY DEF DeliveryInv, DeliveryTypeOK, Outcomes
<1> QED
  BY <1>1, <1>2, <1>3, <1>4 DEF DeliveryInv, DeliveryTypeOK

\* Everything but a request leaves the text of the rows alone.
LEMMA TransactionsKeepText ==
  ASSUME TypeOK, NEW i \in Ids,
         \/ LeaseQueueItems \/ Tick
         \/ \E as : AckQueueItems(as)
         \/ \E D : FailQueueItemsForDeletedNotes(D)
  PROVE  SameText(i)
<1>1. write_queue[i] \in Row
  BY TableShape
<1>2. CASE LeaseQueueItems
  <2>1. write_queue'[i] = AfterLease(i)
    BY <1>2 DEF LeaseQueueItems
  <2>2. CASE i \in LeasedNow
    BY <1>1, <2>1, <2>2 DEF AfterLease, Row, SameText
  <2>3. CASE i \in Leasable \ LeasedNow
    <3>1. AfterLease(i) = [write_queue[i] EXCEPT !.status = "pending", !.lease_until = NULL]
      BY <2>3 DEF AfterLease
    <3> QED
      BY <1>1, <2>1, <3>1 DEF Row, SameText
  <2>4. CASE i \notin LeasedNow /\ i \notin Leasable
    <3>1. AfterLease(i) = write_queue[i]
      BY <2>4 DEF AfterLease
    <3> QED
      BY <2>1, <3>1 DEF SameText
  <2> QED
    BY <2>2, <2>3, <2>4
<1>3. CASE Tick
  BY <1>1, <1>3 DEF Tick, Row, SameText
<1>4. ASSUME NEW as, AckQueueItems(as) PROVE SameText(i)
  BY <1>1, <1>4 DEF AckQueueItems, Row, SameText
<1>5. ASSUME NEW D, FailQueueItemsForDeletedNotes(D) PROVE SameText(i)
  BY <1>1, <1>5 DEF FailQueueItemsForDeletedNotes, Row, SameText
<1> QED
  BY <1>2, <1>3, <1>4, <1>5

Requested == \E r \in Requests : Submit(r)

TextStays == /\ Ids' = Ids /\ acceptedAs' = acceptedAs /\ wanted' = wanted
             /\ \A i \in Ids : SameText(i)

LEMMA OtherStepsKeepText ==
  ASSUME DeliveryInv, DeliveryNext, ~Requested
  PROVE  TextStays
<1>1. TypeOK
  BY DEF DeliveryInv, DeliveryTypeOK
<1>2. CASE UNCHANGED vars
  BY <1>2 DEF vars, Ids, SameText, DeliveryNext, Requested, TextStays, BridgeStep, Faulty,
              LeaseBatch, LeaseAnswerLost, AckBatch, AckAnswerLost, BridgeDies, ApplyItem,
              ApplyItemFails, ApplyItemReportsFailure, ItemDone, PushDeletes, TimePasses
<1>3. CASE \/ LeaseQueueItems \/ Tick
           \/ \E as : AckQueueItems(as)
           \/ \E D : FailQueueItemsForDeletedNotes(D)
  <2>1. DOMAIN write_queue' = Ids /\ acceptedAs' = acceptedAs
    BY <1>3 DEF LeaseQueueItems, Tick, AckQueueItems, FailQueueItemsForDeletedNotes
  <2>2. [Next]_vars
    BY StepsAreQueueSteps
  <2>3. Ids' = Ids
    BY <1>1, <2>1, <2>2, IdsStay DEF vars, Ids
  <2>4. wanted' = wanted
    BY DEF DeliveryNext, Requested, BridgeStep, Faulty, LeaseBatch, LeaseAnswerLost, AckBatch,
           AckAnswerLost, BridgeDies, ApplyItem, ApplyItemFails, ApplyItemReportsFailure, ItemDone,
           PushDeletes, TimePasses
  <2> QED
    BY <1>1, <1>3, <2>1, <2>3, <2>4, TransactionsKeepText DEF TextStays
<1> QED
  BY <1>2, <1>3 DEF DeliveryNext, Requested, BridgeStep, Faulty, LeaseBatch, LeaseAnswerLost,
                    AckBatch, AckAnswerLost, BridgeDies, ApplyItem, ApplyItemFails,
                    ApplyItemReportsFailure, ItemDone, PushDeletes, TimePasses

LEMMA TroubleStays ==
  ASSUME DeliveryNext
  PROVE  troubled \subseteq troubled'
BY DEF DeliveryNext, Submit, BridgeStep, Faulty, LeaseBatch, LeaseAnswerLost, AckBatch,
       AckAnswerLost, BridgeDies, ApplyItem, ApplyItemFails, ApplyItemReportsFailure, Troubles,
       PushDeletes, TimePasses

-----------------------------------------------------------------------------
(***************************************************************************)
(* What a request of an orderly consumer does.                             *)
(***************************************************************************)
\* The row of a failed write is reset.
RetriesRow(r, i) ==
  /\ write_queue[i].status = "failed" /\ write_queue[i].consumer = r.consumer
  /\ write_queue[i].note_id = r.note_id
  /\ write_queue' = [write_queue EXCEPT ![i] = ResetRow(write_queue[i], r)]

\* An update is merged into a row that waits for the same note.
MergesInto(r, i) ==
  /\ r.action = "update" /\ write_queue[i].status = "pending"
  /\ write_queue[i].note_id = r.note_id /\ write_queue[i].consumer = r.consumer
  /\ write_queue[i].action \in Writes
  /\ \E p \in Payloads :
       /\ p.body = r.payload.body
       /\ write_queue' = [write_queue EXCEPT ![i] = [write_queue[i] EXCEPT !.payload = p, !.secondary = r.key]]

LEMMA SubmitCases ==
  ASSUME DeliveryInv, KeysOfNote, OrderlyRequests, NEW r \in Requests, Submit(r)
  PROVE  \/ write_queue' = write_queue
         \/ \E i \in Ids : RetriesRow(r, i)
         \/ \E i \in Ids : MergesInto(r, i)
         \/ InsertRow(r) /\ (r.action = "update" => HasBearID(r.note_id))
<1>t. TypeOK /\ \A i \in Ids : write_queue[i] \in Row
  BY Shape
<1>p. r.payload \in Payloads
  BY RequestFields
<1>1. ASSUME NEW i \in Ids, IdempotencyHit(r, i), write_queue' # write_queue
      PROVE  RetriesRow(r, i)
  <2>1. /\ write_queue[i].status = "failed" /\ i \in RowsForKey(r.key, r.consumer)
        /\ write_queue' = [write_queue EXCEPT ![i] = ResetRow(write_queue[i], r)]
    BY <1>1 DEF IdempotencyHit
  <2>2. write_queue[i].consumer = r.consumer /\ write_queue[i].note_id = r.note_id
    BY <2>1 DEF RowsForKey, KeysOfNote
  <2> QED
    BY <2>1, <2>2 DEF RetriesRow
<1>2. ASSUME NEW i \in Ids, CoalesceUpdate(r, i)
      PROVE  MergesInto(r, i)
  <2>1. /\ r.action = "update" /\ write_queue[i].status = "pending"
        /\ write_queue[i].note_id = r.note_id /\ write_queue[i].consumer = r.consumer
        /\ write_queue[i].action = "update"
    BY <1>2 DEF CoalesceUpdate, CoalesceCandidates, PendingRows
  <2>2. write_queue' = [write_queue EXCEPT ![i] = [write_queue[i] EXCEPT !.payload = r.payload, !.secondary = r.key]]
    BY <1>t, <1>2, TableShape DEF CoalesceUpdate, Row
  <2> QED
    BY <1>p, <2>1, <2>2 DEF MergesInto, Writes
<1>3. ASSUME CoalesceCreateUpdate(r)
      PROVE  \E i \in Ids : MergesInto(r, i)
  <2>1. PICK i \in PendingRows("create", r.note_id, r.consumer) :
          write_queue' = [write_queue EXCEPT ![i].payload.body = r.payload.body,
                                             ![i].secondary = r.key]
    BY <1>3 DEF CoalesceCreateUpdate
  <2>2. /\ i \in Ids /\ write_queue[i].status = "pending" /\ write_queue[i].action = "create"
        /\ write_queue[i].note_id = r.note_id /\ write_queue[i].consumer = r.consumer
    BY DEF PendingRows
  <2> DEFINE p == [write_queue[i].payload EXCEPT !.body = r.payload.body]
  <2>3. p \in Payloads /\ p.body = r.payload.body
    <3>1. write_queue[i].payload \in Payloads
      BY <1>t, <2>2 DEF Row
    <3> QED
      BY <3>1, RequestFields DEF Payloads
  <2>4. write_queue' = [write_queue EXCEPT ![i] = [write_queue[i] EXCEPT !.payload = p, !.secondary = r.key]]
    BY <1>t, <2>1, <2>2, TableShape DEF Row
  <2> HIDE DEF p
  <2>5. MergesInto(r, i)
    BY <1>3, <2>2, <2>3, <2>4 DEF MergesInto, Writes, CoalesceCreateUpdate
  <2> QED
    BY <2>2, <2>5
<1>4. CASE r.action = "update" /\ ~HasBearID(r.note_id)
  BY <1>3, <1>4 DEF Submit
<1>5. CASE ~(r.action = "update" /\ ~HasBearID(r.note_id))
  <2>1. EnqueueWrite(r)
    BY <1>5 DEF Submit
  <2> QED
    BY <1>1, <1>2, <1>5, <2>1 DEF EnqueueWrite
<1> QED
  BY <1>4, <1>5

\* The rows after each of them.
LEMMA RetriedRows ==
  ASSUME DeliveryInv, NEW r \in Requests, NEW i \in Ids, RetriesRow(r, i)
  PROVE  /\ Ids' = Ids
         /\ \A j \in Ids \ {i} : write_queue'[j] = write_queue[j]
         /\ write_queue'[i].key = write_queue[i].key
         /\ write_queue'[i].secondary = write_queue[i].secondary
         /\ write_queue'[i].consumer = write_queue[i].consumer
         /\ write_queue'[i].note_id = write_queue[i].note_id
         /\ write_queue'[i].status = "pending"
<1>1. TypeOK /\ write_queue[i] \in Row
  BY Shape
<1>2. RowChange(write_queue[i], ResetRow(write_queue[i], r))
  BY DEF RetriesRow, RowChange, Reset
<1>3. Ids' = Ids
  BY <1>1, <1>2, OneRowChanged DEF RetriesRow, Ids
<1> QED
  BY <1>1, <1>3, TableShape DEF RetriesRow, ResetRow, Row

LEMMA MergedRows ==
  ASSUME DeliveryInv, NEW r \in Requests, NEW i \in Ids, MergesInto(r, i)
  PROVE  /\ Ids' = Ids
         /\ \A j \in Ids \ {i} : write_queue'[j] = write_queue[j]
         /\ write_queue'[i].key = write_queue[i].key
         /\ write_queue'[i].secondary = r.key
         /\ write_queue'[i].consumer = write_queue[i].consumer
         /\ write_queue'[i].action = write_queue[i].action
         /\ write_queue'[i].note_id = write_queue[i].note_id
         /\ write_queue'[i].status = "pending"
         /\ write_queue'[i].payload.body = r.payload.body
<1>1. TypeOK /\ write_queue[i] \in Row /\ DOMAIN write_queue = Ids
  BY Shape, TableShape
<1>2. PICK p \in Payloads :
        /\ p.body = r.payload.body
        /\ write_queue' = [write_queue EXCEPT ![i] = [write_queue[i] EXCEPT !.payload = p, !.secondary = r.key]]
  BY DEF MergesInto
<1>3. [write_queue[i] EXCEPT !.payload = p, !.secondary = r.key] \in Row
  BY <1>1, RequestFields DEF Row
<1>4. write_queue' \in [Ids -> Row]
  BY <1>1, <1>2, <1>3, TableShape
<1>5. Ids' = Ids
  BY <1>1, <1>4, RowsMapped DEF Ids
<1> QED
  BY <1>1, <1>2, <1>5 DEF Row, MergesInto

LEMMA InsertedRows ==
  ASSUME DeliveryInv, NEW r \in Requests, InsertRow(r)
  PROVE  LET k == Len(write_queue) + 1
         IN  /\ Ids' = Ids \cup {k} /\ k \in Nat /\ k \notin Ids /\ \A i \in Ids : i < k
             /\ \A i \in Ids : write_queue'[i] = write_queue[i]
             /\ write_queue'[k] = NewRow(r)
BY Shape, InsertAddsRow DEF Ids

-----------------------------------------------------------------------------
(***************************************************************************)
(* Keys, failures and the order of the acknowledgements.                   *)
(***************************************************************************)
LEMMA InitKeysInv == DeliveryInit => KeysInv
<1> SUFFICES ASSUME DeliveryInit PROVE KeysInv
  OBVIOUS
<1>1. Ids = {} /\ DOMAIN batch = {} /\ DOMAIN acks = {} /\ \A r \in Requests : acceptedAs[r] = 0
  BY DEF DeliveryInit, Init, Ids, NoItems
<1> QED
  BY <1>1 DEF KeysInv, KeysOfNote, FailuresTrouble, RowsAsInserted, CreatesHaveRows, AcksInOrder

\* A row stays with its key and its consumer.
LEMMA HasRowStays ==
  ASSUME DeliveryInv, DeliveryNext, NEW r \in Requests, HasRow(r)
  PROVE  HasRow(r)'
<1>1. PICK i \in Ids : write_queue[i].key = r.key /\ write_queue[i].consumer = r.consumer
  BY DEF HasRow
<1>2. TypeOK /\ [Next]_vars
  BY Shape, StepsAreQueueSteps
<1>3. CASE Next
  <2>1. i \in Ids'
    BY <1>2, <1>3, NextKeepsRows DEF Ids
  <2> QED
    BY <1>1, <1>2, <1>3, <2>1, NextKeepsRows DEF HasRow
<1>4. CASE UNCHANGED vars
  BY <1>4 DEF vars, HasRow, Ids
<1> QED
  BY <1>2, <1>3, <1>4

\* A create that was answered has its row.
LEMMA CreateGetsRow ==
  ASSUME DeliveryInv, KeysOfNote, NEW r \in Requests, Submit(r), r.action = "create"
  PROVE  HasRow(r)'
<1>1. EnqueueWrite(r)
  BY DEF Submit
<1>2. ASSUME NEW i \in Ids, IdempotencyHit(r, i) PROVE HasRow(r)
  BY <1>2 DEF IdempotencyHit, RowsForKey, KeysOfNote, HasRow
<1>3. ASSUME NEW i \in Ids, CoalesceUpdate(r, i) PROVE FALSE
  BY <1>3 DEF CoalesceUpdate, CoalesceCandidates
<1>4. ASSUME InsertRow(r) PROVE HasRow(r)'
  <2> DEFINE k == Len(write_queue) + 1
  <2>1. k \in Ids' /\ write_queue'[k] = NewRow(r)
    BY <1>4, InsertedRows
  <2> HIDE DEF k
  <2> QED
    BY <2>1 DEF HasRow, NewRow
<1>5. DeliveryNext
  BY DEF DeliveryNext
<1> QED
  BY <1>1, <1>2, <1>3, <1>4, <1>5, HasRowStays DEF EnqueueWrite

\* The consumer's request is the only one whose answer changes.
LEMMA SubmitAccepts ==
  ASSUME DeliveryInv, NEW r \in Requests, Submit(r), NEW s \in Requests, s # r
  PROVE  acceptedAs'[s] = acceptedAs[s]
<1>1. \E i : Accept(r, i)
  BY DEF Submit, EnqueueWrite, IdempotencyHit, CoalesceUpdate, InsertRow, CoalesceCreateUpdate
<1>2. acceptedAs \in [Requests -> Nat]
  BY Shape DEF TypeOK
<1> QED
  BY <1>1, <1>2 DEF Accept

LEMMA SubmitKeepsKeys ==
  ASSUME DeliveryInv, KeysInv, OrderlyRequests, NEW r \in Requests, Submit(r)
  PROVE  KeysInv'
<1> USE DEF KeysInv
<1>t. TypeOK /\ Len(write_queue) \in Nat
  BY Shape
<1>u. UNCHANGED <<phase, batch, acks, troubled>>
  BY DEF Submit, bridgeVars
<1>n. DeliveryNext
  BY DEF DeliveryNext
<1>1. AcksInOrder'
  BY <1>u DEF AcksInOrder
<1> DEFINE Old(i) == /\ write_queue'[i].key = write_queue[i].key
                     /\ write_queue'[i].consumer = write_queue[i].consumer
                     /\ write_queue'[i].note_id = write_queue[i].note_id
                     /\ \/ write_queue'[i].secondary = write_queue[i].secondary
                        \/ /\ write_queue'[i].secondary = r.key
                           /\ r.action = "update" /\ r.note_id = write_queue[i].note_id
                           /\ r.consumer = write_queue[i].consumer
                     /\ \/ write_queue'[i].action = write_queue[i].action
                        \/ write_queue[i].note_id \in troubled
                     /\ \/ write_queue'[i].status = write_queue[i].status
                        \/ write_queue'[i].status = "pending"
           k == Len(write_queue) + 1
           New == /\ Ids' = Ids \cup {k} /\ k \notin Ids /\ write_queue'[k] = NewRow(r)
                  /\ r.action = "update" => HasBearID(r.note_id)
<1>2. (\A i \in Ids : Old(i)) /\ (Ids' = Ids \/ New)
  <2>1. CASE write_queue' = write_queue
    BY <2>1 DEF Ids
  <2>2. ASSUME NEW i \in Ids, RetriesRow(r, i) PROVE (\A j \in Ids : Old(j)) /\ Ids' = Ids
    <3>1. write_queue[i].note_id \in troubled
      BY <2>2 DEF RetriesRow, FailuresTrouble
    <3> QED BY <2>2, <3>1, RetriedRows
  <2>3. ASSUME NEW i \in Ids, MergesInto(r, i) PROVE (\A j \in Ids : Old(j)) /\ Ids' = Ids
    <3>1. /\ r.action = "update" /\ r.note_id = write_queue[i].note_id
          /\ r.consumer = write_queue[i].consumer
      BY <2>3 DEF MergesInto
    <3> QED BY <2>3, <3>1, MergedRows
  <2>4. CASE InsertRow(r) /\ (r.action = "update" => HasBearID(r.note_id))
    BY <2>4, InsertedRows
  <2> QED BY <2>1, <2>2, <2>3, <2>4, SubmitCases
<1>k. New => /\ write_queue'[k].key = r.key /\ write_queue'[k].secondary = NULL
             /\ write_queue'[k].consumer = r.consumer /\ write_queue'[k].action = r.action
             /\ write_queue'[k].note_id = r.note_id /\ write_queue'[k].status = "pending"
  <2> HIDE DEF k
  <2> QED BY DEF NewRow
<1> HIDE DEF k
<1>3. KeysOfNote'
  <2> SUFFICES ASSUME NEW i \in Ids', NEW s \in Requests, s.consumer = write_queue'[i].consumer
               PROVE  /\ s.key = write_queue'[i].key => s.note_id = write_queue'[i].note_id
                      /\ s.key = write_queue'[i].secondary =>
                           s.note_id = write_queue'[i].note_id /\ s.action = "update"
    BY DEF KeysOfNote
  <2>1. s.key = r.key /\ s.consumer = r.consumer => s.note_id = r.note_id /\ s.action = r.action
    BY DEF OrderlyRequests
  <2>2. CASE i \in Ids
    BY <1>2, <2>1, <2>2 DEF KeysOfNote
  <2>3. CASE i = k /\ New
    BY <1>k, <2>1, <2>3, RequestsAssumption
  <2> QED BY <1>2, <2>2, <2>3
<1>4. FailuresTrouble'
  <2>1. ASSUME NEW i \in Ids', write_queue'[i].status = "failed" PROVE write_queue'[i].note_id \in troubled
    <3>1. i \in Ids
      BY <1>2, <1>k, <2>1
    <3> QED BY <1>2, <2>1, <3>1 DEF FailuresTrouble
  <2> QED BY <1>u, <2>1 DEF FailuresTrouble
<1>5. RowsAsInserted'
  <2> SUFFICES ASSUME NEW i \in Ids', write_queue'[i].note_id \notin troubled
               PROVE  \E s \in Requests :
                        /\ s.key = write_queue'[i].key /\ s.consumer = write_queue'[i].consumer
                        /\ s.action = write_queue'[i].action /\ s.note_id = write_queue'[i].note_id
    BY <1>u DEF RowsAsInserted
  <2>1. CASE i \in Ids
    BY <1>2, <2>1 DEF RowsAsInserted
  <2>2. CASE i = k /\ New
    BY <1>k, <2>2
  <2> QED BY <1>2, <2>1, <2>2
<1>6. CreatesHaveRows'
  <2> SUFFICES ASSUME NEW s \in Requests, s.action = "create"
               PROVE  /\ acceptedAs'[s] # 0 => HasRow(s)'
                      /\ \A i \in Ids' : /\ write_queue'[i].action = "update"
                                         /\ write_queue'[i].note_id = s.note_id
                                         /\ s.note_id \notin troubled
                                         => HasRow(s)'
    BY <1>u DEF CreatesHaveRows
  <2>1. HasRow(s) => HasRow(s)'
    BY <1>n, HasRowStays
  <2>2. acceptedAs'[s] # 0 => HasRow(s)'
    BY <2>1, CreateGetsRow, SubmitAccepts DEF CreatesHaveRows
  <2>3. ASSUME NEW i \in Ids', write_queue'[i].action = "update", write_queue'[i].note_id = s.note_id,
               s.note_id \notin troubled
        PROVE  HasRow(s)'
    <3>1. CASE i \in Ids
      BY <1>2, <2>1, <2>3, <3>1 DEF CreatesHaveRows
    <3>2. CASE i = k /\ New
      <4>1. r.action = "update" /\ r.note_id = s.note_id
        BY <1>k, <2>3, <3>2
      <4>2. acceptedAs[s] # 0
        BY <3>2, <4>1 DEF HasBearID
      <4> QED BY <2>1, <4>2 DEF CreatesHaveRows
    <3> QED BY <1>2, <3>1, <3>2
  <2> QED BY <2>2, <2>3
<1> QED BY <1>1, <1>3, <1>4, <1>5, <1>6

\* The bridge, the clock and deletions.
LEMMA OthersKeepFailures ==
  ASSUME DeliveryInv, FailuresTrouble, AcksInOrder, DeliveryNext, ~Requested
  PROVE  FailuresTrouble' /\ AcksInOrder'
<1>t. TypeOK /\ Ids \subseteq Nat /\ DOMAIN batch \subseteq Ids /\ DOMAIN acks \subseteq DOMAIN batch
  BY Shape
<1>x. Ids' = Ids /\ \A i \in Ids : SameText(i)
  BY OtherStepsKeepText DEF TextStays
<1>y. troubled \subseteq troubled'
  BY TroubleStays
<1> DEFINE NewFailures == \A i \in Ids :
             write_queue'[i].status = "failed" =>
               write_queue[i].status = "failed" \/ write_queue[i].note_id \in troubled'
<1>r. NewFailures => \A i \in Ids' : write_queue'[i].status = "failed" => write_queue'[i].note_id \in troubled'
  BY <1>x, <1>y DEF FailuresTrouble, SameText
<1>1. ASSUME UNCHANGED bridgeVars \/ (DOMAIN acks' = {}), NewFailures
      PROVE  FailuresTrouble' /\ AcksInOrder'
  BY <1>r, <1>y, <1>1 DEF bridgeVars, FailuresTrouble, AcksInOrder
<1>2. ASSUME LeaseQueueItems PROVE NewFailures
  BY <1>t, <1>2, LeaseKeepsRow DEF Active
<1>3. CASE LeaseBatch \/ LeaseAnswerLost
  BY <1>1, <1>2, <1>3 DEF LeaseBatch, LeaseAnswerLost, NoItems
<1>4. CASE TimePasses
  <2>1. NewFailures
    BY <1>t, <1>4, TickKeepsRow DEF TimePasses
  <2> QED BY <1>1, <1>4, <2>1 DEF TimePasses
<1>5. CASE AckBatch \/ AckAnswerLost
  <2>1. NewFailures
    <3> SUFFICES ASSUME NEW i \in Ids, write_queue'[i].status = "failed", write_queue[i].status # "failed"
                 PROVE  write_queue[i].note_id \in troubled'
      OBVIOUS
    <3>1. phase = "acking" /\ AckQueueItems(acks)
      BY <1>5 DEF AckBatch, AckAnswerLost
    <3>2. i \in DOMAIN acks /\ write_queue[i].status = "processing" /\ acks[i] = "failed"
      BY <1>t, <3>1, AckKeepsRow
    <3>3. Work(write_queue[i]) = batch[i]
      BY <1>t, <3>1, <3>2 DEF DeliveryInv, LateAcksAreCurrent
    <3>4. NoteOf(batch[i]) = write_queue[i].note_id
      BY <3>3 DEF NoteOf, Work
    <3> QED BY <1>y, <3>2, <3>4 DEF FailuresTrouble
  <2> QED BY <1>1, <1>5, <2>1 DEF AckBatch, AckAnswerLost, NoItems
<1>6. ASSUME NEW n \in NoteIds \ {NULL}, PushDeletes(n) PROVE FailuresTrouble' /\ AcksInOrder'
  <2>1. NewFailures
    BY <1>t, <1>6, DeleteKeepsRow DEF PushDeletes
  <2> QED BY <1>1, <1>6, <2>1 DEF PushDeletes
<1>7. CASE BridgeDies
  BY <1>1, <1>7 DEF BridgeDies, NoItems, vars
<1>8. ASSUME NEW i \in 1..MaxRows, ItemStep(i) PROVE FailuresTrouble' /\ AcksInOrder'
  <2>1. PICK o \in Outcomes : ItemDone(i, o) /\ (o = "failed" => Troubles(i))
    BY <1>8 DEF ItemStep, ApplyItem, ApplyItemFails, ApplyItemReportsFailure, Outcomes
  <2>2. /\ UNCHANGED vars /\ batch' = batch
        /\ i \in DOMAIN batch /\ i \notin DOMAIN acks
        /\ \A j \in DOMAIN batch \ DOMAIN acks : i <= j
        /\ DOMAIN acks' = DOMAIN acks \cup {i} /\ acks'[i] = o
        /\ \A j \in DOMAIN acks : acks'[j] = acks[j]
    BY <2>1 DEF ItemDone, Todo, Put
  <2>3. NewFailures
    BY <2>2 DEF vars
  <2>4. FailuresTrouble'
    BY <1>r, <1>y, <2>1, <2>2, <2>3 DEF FailuresTrouble, Troubles
  <2>5. AcksInOrder'
    <3> SUFFICES ASSUME NEW a \in DOMAIN batch, NEW b \in DOMAIN acks \cup {i}, a < b
                 PROVE  a \in DOMAIN acks \cup {i}
      BY <2>2 DEF AcksInOrder
    <3>1. a \in Nat /\ b \in Nat /\ i \in Nat
      BY <1>t, <2>2
    <3> QED BY <2>2, <3>1 DEF AcksInOrder
  <2> QED BY <2>4, <2>5
<1> QED
  BY <1>3, <1>4, <1>5, <1>6, <1>7, <1>8
     DEF DeliveryNext, Requested, BridgeStep, Faulty, ItemStep

LEMMA OthersKeepKeys ==
  ASSUME DeliveryInv, KeysInv, DeliveryNext, ~Requested
  PROVE  KeysInv'
<1> USE DEF KeysInv
<1>1. Ids' = Ids /\ acceptedAs' = acceptedAs /\ \A i \in Ids : SameText(i)
  BY OtherStepsKeepText DEF TextStays
<1>2. troubled \subseteq troubled'
  BY TroubleStays
<1>3. FailuresTrouble' /\ AcksInOrder'
  BY OthersKeepFailures
<1>4. KeysOfNote'
  BY <1>1 DEF KeysOfNote, SameText
<1>5. RowsAsInserted'
  BY <1>1, <1>2 DEF RowsAsInserted, SameText
<1>6. CreatesHaveRows'
  <2>1. ASSUME NEW r \in Requests PROVE HasRow(r) => HasRow(r)'
    BY HasRowStays
  <2> QED BY <1>1, <1>2, <2>1 DEF CreatesHaveRows, SameText
<1> QED BY <1>3, <1>4, <1>5, <1>6

LEMMA KeysInvariant ==
  ASSUME OrderlyRequests
  PROVE  DeliverySpec => []KeysInv
<1>1. DeliveryInv /\ KeysInv /\ [DeliveryNext]_deliveryVars => KeysInv'
  <2> SUFFICES ASSUME DeliveryInv, KeysInv, [DeliveryNext]_deliveryVars PROVE KeysInv'
    OBVIOUS
  <2>1. CASE UNCHANGED deliveryVars
    BY <2>1 DEF deliveryVars, vars, bridgeVars, bearVars, KeysInv, KeysOfNote, FailuresTrouble,
                RowsAsInserted, CreatesHaveRows, AcksInOrder, HasRow, Ids
  <2>2. CASE DeliveryNext /\ ~Requested
    BY <2>2, OthersKeepKeys
  <2>3. CASE Requested
    BY <2>3, SubmitKeepsKeys DEF Requested
  <2> QED
    BY <2>1, <2>2, <2>3
<1> QED
  BY <1>1, InitKeysInv, DeliveryInvariant, PTL DEF DeliverySpec

-----------------------------------------------------------------------------
(***************************************************************************)
(* The order of the rows, Bear's body and the newest one.                  *)
(***************************************************************************)
NewestParts == InOrder /\ BearHasLast /\ OnlyLastPends /\ LastIsWanted

LEMMA InitNewestInv == DeliveryInit => NewestInv
<1> SUFFICES ASSUME DeliveryInit PROVE NewestParts
  BY DEF NewestInv, NewestParts
<1>1. Ids = {} /\ \A n \in NoteIds : wanted[n] = NULL
  BY DEF DeliveryInit, Init, Ids
<1>2. \A n \in NoteIds : BodyRows(n) = {} /\ RowsOf(n) = {}
  BY <1>1 DEF BodyRows, RowsOf
<1> QED
  BY <1>1, <1>2 DEF NewestParts, InOrder, BearHasLast, OnlyLastPends, LastIsWanted

\* Everything before a row that is leased is leased with it.
LEMMA LeaseTakesOldest ==
  ASSUME DeliveryInv, NEW i \in Leasable, NEW j \in LeasedNow, i < j
  PROVE  i \in LeasedNow
<1>1. Leasable \subseteq Ids /\ Len(write_queue) \in Nat /\ Ids = 1..Len(write_queue)
  BY Shape DEF Leasable, Ids
<1> DEFINE A == {a \in Leasable : a < i}
           B == {a \in Leasable : a < j}
<1>2. i \in Nat /\ j \in Nat /\ Leasable \subseteq Nat
  BY <1>1 DEF LeasedNow
<1>3. A \subseteq B
  <2> SUFFICES ASSUME NEW a \in Leasable, a < i PROVE a < j
    OBVIOUS
  <2>1. a \in Nat
    BY <1>2
  <2> QED BY <1>2, <2>1
<1>4. IsFiniteSet(1..Len(write_queue))
  BY <1>1, FS_Interval
<1>5. B \subseteq 1..Len(write_queue)
  BY <1>1
<1>6. IsFiniteSet(B)
  BY <1>4, <1>5, FS_Subset
<1>7. IsFiniteSet(A) /\ Cardinality(A) <= Cardinality(B)
  BY <1>3, <1>6, FS_Subset
<1>8. Cardinality(A) \in Nat /\ Cardinality(B) \in Nat
  BY <1>6, <1>7, FS_CardinalityType
<1>9. Cardinality(B) < LeaseLimit /\ LeaseLimit \in Nat
  BY LeaseAssumption DEF LeasedNow
<1>10. Cardinality(A) < LeaseLimit
  BY <1>7, <1>8, <1>9
<1> QED
  BY <1>10 DEF LeasedNow

\* Steps without a fault.
LEMMA NoFaultSteps ==
  ASSUME DeliveryInv, DeliveryNext, faults' = 0
  PROVE  /\ faults = 0
         /\ \/ LeaseBatch \/ AckBatch \/ TimePasses \/ Requested
            \/ \E i \in 1..MaxRows : ApplyItem(i) \/ ApplyItemFails(i)
            \/ \E n \in NoteIds \ {NULL} : PushDeletes(n)
<1>1. faults \in Nat
  BY Shape
<1>2. ~Fault
  BY <1>1 DEF Fault
<1>3. ~Faulty
  BY <1>2 DEF Faulty, LeaseAnswerLost, AckAnswerLost, BridgeDies, ApplyItemReportsFailure
<1> QED
  BY <1>3 DEF DeliveryNext, BridgeStep, LeaseBatch, AckBatch, ApplyItem, ApplyItemFails,
              Submit, PushDeletes, TimePasses, NoFault, Requested

\* An applied or leased row of a note without failures.
LEMMA UntroubledStatus ==
  ASSUME DeliveryInv, FailuresTrouble, NEW i \in Ids, write_queue[i].note_id \notin troubled
  PROVE  write_queue[i].status \in {"pending", "processing", "applied"}
BY Shape DEF FailuresTrouble, Row, Statuses

\* What the bridge's steps, the clock and deletions do to the statuses of the
\* rows of notes without failures, and to what is reported.
Forward ==
  \A i \in Ids : write_queue[i].note_id \notin troubled' =>
    /\ write_queue'[i].status = "pending" => write_queue[i].status = "pending"
    /\ write_queue[i].status = "applied" => write_queue'[i].status = "applied"

LEMMA LeaseInOrder ==
  ASSUME DeliveryInv, BatchIsLeased, InOrder, LeaseBatch, TextStays
  PROVE  /\ InOrder' /\ Forward
         /\ \A i \in Ids : Reported(i)' <=> Reported(i)
<1>t. /\ TypeOK /\ Ids \subseteq Nat /\ DOMAIN acks \subseteq DOMAIN batch
      /\ \A i \in Ids : write_queue[i] \in Row
  BY Shape
<1>1. Ids' = Ids /\ (\A i \in Ids : SameText(i)) /\ troubled' = troubled
  BY DEF TextStays, LeaseBatch
<1>2. DOMAIN batch = {} /\ DOMAIN acks = {} /\ DOMAIN acks' = {}
  BY <1>t DEF LeaseBatch, DeliveryInv, IdleHoldsNothing, NoItems
<1>3. \A i \in Ids : write_queue[i].status # "processing"
  BY <1>2 DEF BatchIsLeased
<1>4. \A i \in Ids : /\ Active(write_queue'[i]) <=> Active(write_queue[i])
                     /\ ~Active(write_queue[i]) => write_queue'[i] = write_queue[i]
                     /\ i \in LeasedNow => write_queue'[i].status = "processing"
                     /\ write_queue'[i].status = "processing" => i \in LeasedNow
  BY <1>t, <1>3, LeaseKeepsRow DEF LeaseBatch
<1>5. \A i \in Ids : /\ write_queue'[i].status = "pending" => write_queue[i].status = "pending"
                     /\ write_queue'[i].status = "applied" <=> write_queue[i].status = "applied"
  BY <1>3, <1>4 DEF Active
<1>6. Forward
  BY <1>5 DEF Forward
<1>7. InOrder'
  <2> SUFFICES ASSUME NEW i \in Ids, NEW j \in Ids, i < j,
                      write_queue'[i].note_id = write_queue'[j].note_id,
                      write_queue'[i].note_id \notin troubled
               PROVE  /\ write_queue'[j].status = "applied" => write_queue'[i].status = "applied"
                      /\ write_queue'[j].status = "processing" => write_queue'[i].status # "pending"
    BY <1>1 DEF InOrder
  <2>1. write_queue[i].note_id = write_queue[j].note_id /\ write_queue[i].note_id \notin troubled
    BY <1>1 DEF SameText
  <2>2. write_queue'[j].status = "applied" => write_queue'[i].status = "applied"
    BY <1>5, <2>1 DEF InOrder
  <2>3. ASSUME write_queue'[j].status = "processing", write_queue'[i].status = "pending" PROVE FALSE
    <3>1. i \in Leasable /\ j \in LeasedNow
      BY <1>4, <1>5, <2>3 DEF Leasable
    <3>2. i \in LeasedNow
      BY <3>1, LeaseTakesOldest
    <3> QED BY <1>4, <2>3, <3>2
  <2> QED BY <2>2, <2>3
<1> QED BY <1>1, <1>2, <1>5, <1>6, <1>7 DEF Reported

LEMMA AckInOrder ==
  ASSUME DeliveryInv, BatchIsLeased, FailuresTrouble, InOrder, AckBatch, TextStays
  PROVE  /\ InOrder' /\ Forward
         /\ \A i \in Ids : write_queue[i].note_id \notin troubled => (Reported(i)' <=> Reported(i))
<1>t. /\ TypeOK /\ Ids \subseteq Nat /\ DOMAIN batch \subseteq Ids /\ DOMAIN acks \subseteq DOMAIN batch
      /\ \A i \in DOMAIN acks : acks[i] \in {"applied", "failed"}
  BY Shape
<1>1. Ids' = Ids /\ (\A i \in Ids : SameText(i)) /\ troubled' = troubled
  BY DEF TextStays, AckBatch
<1>2. DOMAIN acks = DOMAIN batch /\ DOMAIN acks' = {}
  BY <1>t DEF AckBatch, BatchIsLeased, Todo, NoItems
<1>3. \A i \in Ids : write_queue'[i].status = IF write_queue[i].status = "processing"
                                              THEN acks[i] ELSE write_queue[i].status
  BY <1>t, <1>2, AckKeepsRow DEF AckBatch, BatchIsLeased
<1>4. \A i \in Ids : write_queue[i].status = "processing" /\ write_queue[i].note_id \notin troubled =>
                       i \in DOMAIN acks /\ acks[i] = "applied"
  <2> SUFFICES ASSUME NEW i \in Ids, write_queue[i].status = "processing",
                      write_queue[i].note_id \notin troubled
               PROVE  i \in DOMAIN acks /\ acks[i] = "applied"
    OBVIOUS
  <2>1. i \in DOMAIN acks /\ i \in DOMAIN batch
    BY <1>2 DEF BatchIsLeased
  <2>2. Work(write_queue[i]) = batch[i]
    BY <2>1 DEF DeliveryInv, LateAcksAreCurrent, AckBatch
  <2>3. NoteOf(batch[i]) = write_queue[i].note_id
    BY <2>2 DEF Work, NoteOf
  <2> QED BY <1>t, <2>1, <2>3 DEF FailuresTrouble
<1>5. Forward
  BY <1>1, <1>3, <1>4 DEF Forward
<1>6. InOrder'
  <2> SUFFICES ASSUME NEW i \in Ids, NEW j \in Ids, i < j,
                      write_queue'[i].note_id = write_queue'[j].note_id,
                      write_queue'[i].note_id \notin troubled
               PROVE  /\ write_queue'[j].status = "applied" => write_queue'[i].status = "applied"
                      /\ write_queue'[j].status = "processing" => write_queue'[i].status # "pending"
    BY <1>1 DEF InOrder
  <2>1. write_queue[i].note_id = write_queue[j].note_id /\ write_queue[i].note_id \notin troubled
    BY <1>1 DEF SameText
  <2>2. write_queue[i].status \in {"pending", "processing", "applied"}
    BY <2>1, UntroubledStatus
  <2>3. write_queue'[j].status # "processing"
    BY <1>3, <1>4, <2>1
  <2>4. write_queue'[j].status = "applied" => write_queue'[i].status = "applied"
    BY <1>3, <1>4, <2>1, <2>2 DEF InOrder
  <2> QED BY <2>3, <2>4
<1>7. ASSUME NEW i \in Ids, write_queue[i].note_id \notin troubled PROVE Reported(i)' <=> Reported(i)
  <2>1. i \in DOMAIN acks => write_queue[i].status = "processing"
    BY <1>2 DEF BatchIsLeased
  <2> QED BY <1>1, <1>2, <1>3, <1>4, <1>7, <2>1 DEF Reported
<1> QED BY <1>5, <1>6, <1>7

LEMMA PlainInOrder ==
  ASSUME DeliveryInv, InOrder, TextStays,
         TimePasses \/ \E n \in NoteIds \ {NULL} : PushDeletes(n)
  PROVE  /\ InOrder' /\ Forward
         /\ \A i \in Ids : Reported(i)' <=> Reported(i)
<1>1. TypeOK /\ Ids' = Ids /\ (\A i \in Ids : SameText(i)) /\ acks' = acks
  BY Shape DEF TextStays, TimePasses, PushDeletes, bridgeVars
<1>2. troubled \subseteq troubled'
  BY DEF TimePasses, PushDeletes
<1>3. \A i \in Ids : /\ write_queue[i].note_id \notin troubled' =>
                          write_queue'[i].status = write_queue[i].status
                     /\ write_queue'[i].status = "applied" <=> write_queue[i].status = "applied"
  <2>1. CASE TimePasses
    BY <1>1, <2>1, TickKeepsRow DEF TimePasses
  <2>2. ASSUME NEW n \in NoteIds \ {NULL}, PushDeletes(n)
        PROVE  \A i \in Ids : /\ write_queue[i].note_id \notin troubled' =>
                                   write_queue'[i].status = write_queue[i].status
                              /\ write_queue'[i].status = "applied" <=> write_queue[i].status = "applied"
    BY <1>1, <2>2, DeleteKeepsRow DEF PushDeletes, Active
  <2> QED BY <2>1, <2>2
<1>4. InOrder'
  BY <1>1, <1>2, <1>3 DEF InOrder, SameText
<1> QED BY <1>1, <1>3, <1>4 DEF Forward, Reported

\* An item that is applied is the last of its note's that Bear performed.
LEMMA ItemIsLast ==
  ASSUME DeliveryInv, BatchIsLeased, AcksInOrder, InOrder, NEW o, NEW i \in Ids, ItemDone(i, o),
         NEW l \in Ids, Reported(l), write_queue[l].note_id = write_queue[i].note_id,
         write_queue[i].note_id \notin troubled
  PROVE  l < i
<1>1. /\ i \in DOMAIN batch /\ i \notin DOMAIN acks /\ write_queue[i].status = "processing"
      /\ i \in Nat /\ l \in Nat
  BY Shape DEF ItemDone, Todo, BatchIsLeased
<1>2. ASSUME i < l PROVE FALSE
  BY <1>1, <1>2 DEF InOrder, AcksInOrder, Reported
<1>3. i # l
  BY <1>1 DEF Reported
<1> QED BY <1>1, <1>2, <1>3

LEMMA SameBodyRows ==
  ASSUME TextStays, NEW n
  PROVE  /\ BodyRows(n)' = BodyRows(n) /\ RowsOf(n)' = RowsOf(n)
         /\ OneConsumer(n)' = OneConsumer(n)
         /\ \A i \in Ids : IsLast(n, i)' <=> IsLast(n, i)
<1>1. RowsOf(n)' = RowsOf(n)
  BY DEF TextStays, SameText, RowsOf
<1>2. BodyRows(n)' = BodyRows(n)
  BY <1>1 DEF TextStays, SameText, BodyRows, RowsOf
<1>3. OneConsumer(n)' <=> OneConsumer(n)
  BY <1>1 DEF TextStays, SameText, OneConsumer, RowsOf
<1> QED BY <1>1, <1>2, <1>3 DEF IsLast, OneConsumer

\* The bridge applies an item, or Bear refuses it.
LEMMA ItemKeepsBear ==
  ASSUME DeliveryInv, BatchIsLeased, AcksInOrder, InOrder, BearHasLast, TextStays,
         NEW i \in 1..MaxRows, ApplyItem(i) \/ ApplyItemFails(i)
  PROVE  BearHasLast'
<1>t. Ids \subseteq Nat /\ DOMAIN batch \subseteq Ids /\ bearBody \in [NoteIds -> Bodies]
  BY Shape
<1>1. PICK o \in Outcomes : ItemDone(i, o) /\ (o = "failed" => bearBody' = bearBody)
                            /\ (o = "applied" => ApplyItem(i))
  BY DEF ApplyItem, ApplyItemFails, bearVars, Outcomes
<1>2. /\ UNCHANGED vars /\ i \in DOMAIN batch /\ i \notin DOMAIN acks /\ phase = "applying"
      /\ DOMAIN acks' = DOMAIN acks \cup {i} /\ acks'[i] = o
      /\ \A j \in DOMAIN acks : acks'[j] = acks[j]
  BY <1>1 DEF ItemDone, Todo, Put
<1>3. i \in Ids /\ write_queue[i].status = "processing" /\ Work(write_queue[i]) = batch[i]
  BY <1>t, <1>2 DEF DeliveryInv, BatchStillLeased
<1>4. /\ ActionOf(batch[i]) = write_queue[i].action /\ NoteOf(batch[i]) = write_queue[i].note_id
      /\ BodyOf(batch[i]) = write_queue[i].payload.body
  BY <1>3 DEF Work, ActionOf, NoteOf, BodyOf
<1>5. \A j \in Ids : Reported(j)' <=> Reported(j) \/ (j = i /\ o = "applied")
  BY <1>2, <1>3 DEF Reported, vars, Ids
<1>6. troubled \subseteq troubled'
  BY DEF ApplyItem, ApplyItemFails, Troubles
<1> SUFFICES ASSUME NEW n \in NoteIds \ troubled', NEW l \in BodyRows(n), Reported(l)',
                    \A j \in BodyRows(n) : l < j => ~Reported(j)'
             PROVE  bearBody'[n] = write_queue[l].payload.body
  BY <1>2, SameBodyRows DEF BearHasLast, vars
<1>7. n \in NoteIds \ troubled /\ l \in Ids /\ \A j \in BodyRows(n) : j \in Ids
  BY <1>6 DEF BodyRows, RowsOf
<1>8. CASE i \in BodyRows(n) /\ o = "applied"
  <2>1. write_queue[i].note_id = n /\ write_queue[i].action \in Writes
    BY <1>8 DEF BodyRows, RowsOf
  <2>2. bearBody'[n] = write_queue[i].payload.body
    <3>1. CASE AlreadyApplied(i)
      <4>1. bearBody' = bearBody
        BY <1>1, <1>8, <3>1 DEF ApplyItem
      <4>2. write_queue[i].action = "update"
        BY <1>4, <2>1, <3>1 DEF AlreadyApplied, Writes
      <4>3. bearBody[n] = write_queue[i].payload.body
        BY <1>4, <2>1, <3>1, <4>2 DEF AlreadyApplied
      <4> QED BY <4>1, <4>3
    <3>2. CASE ~AlreadyApplied(i)
      <4>1. bearBody' = [bearBody EXCEPT ![n] = write_queue[i].payload.body]
        BY <1>1, <1>4, <1>8, <2>1, <3>2 DEF ApplyItem, Perform
      <4> QED BY <1>t, <4>1
    <3> QED BY <3>1, <3>2
  <2>3. l = i
    <3>1. Reported(l) => l < i
      BY <1>1, <1>3, <1>7, <2>1, ItemIsLast DEF BodyRows, RowsOf
    <3>2. l < i => FALSE
      BY <1>3, <1>5, <1>8
    <3> QED BY <1>5, <1>7, <3>1, <3>2
  <2> QED BY <2>2, <2>3
<1>9. CASE ~(i \in BodyRows(n) /\ o = "applied")
  <2>1. \A j \in BodyRows(n) : Reported(j)' <=> Reported(j)
    BY <1>5, <1>7, <1>9
  <2>2. bearBody[n] = write_queue[l].payload.body
    BY <1>7, <2>1 DEF BearHasLast
  <2>3. bearBody'[n] = bearBody[n]
    <3>1. CASE o = "applied"
      <4>1. ~(write_queue[i].action \in Writes /\ write_queue[i].note_id = n)
        BY <1>3, <1>9, <3>1 DEF BodyRows, RowsOf
      <4>2. \/ bearBody' = bearBody
            \/ /\ write_queue[i].action \in Writes
               /\ bearBody' = [bearBody EXCEPT ![write_queue[i].note_id] = write_queue[i].payload.body]
        BY <1>1, <1>4, <3>1 DEF ApplyItem, Perform
      <4> QED BY <1>t, <4>1, <4>2
    <3>2. CASE o = "failed"
      BY <1>1, <3>2
    <3> QED BY <3>1, <3>2 DEF Outcomes
  <2> QED BY <2>2, <2>3
<1> QED BY <1>8, <1>9

\* Every step but a request.
LEMMA OthersKeepNewest ==
  ASSUME DeliveryInv, BatchIsLeased, KeysInv, NewestParts, DeliveryNext, faults' = 0, ~Requested
  PROVE  NewestParts'
<1> USE DEF NewestParts, KeysInv
<1>1. TextStays
  BY OtherStepsKeepText
<1>2. troubled \subseteq troubled'
  BY TroubleStays
<1>3. /\ InOrder' /\ Forward
      /\ BearHasLast'
  <2>1. CASE \E i \in 1..MaxRows : ApplyItem(i) \/ ApplyItemFails(i)
    <3>1. UNCHANGED vars
      BY <2>1 DEF ApplyItem, ApplyItemFails, ItemDone
    <3>2. InOrder' /\ Forward
      BY <1>2, <3>1 DEF vars, InOrder, Forward, Ids
    <3> QED BY <1>1, <2>1, <3>2, ItemKeepsBear
  <2>2. CASE LeaseBatch \/ AckBatch \/ TimePasses \/ \E n \in NoteIds \ {NULL} : PushDeletes(n)
    <3>1. /\ InOrder' /\ Forward
          /\ \A i \in Ids : write_queue[i].note_id \notin troubled => (Reported(i)' <=> Reported(i))
      BY <1>1, <2>2, LeaseInOrder, AckInOrder, PlainInOrder
    <3>2. bearBody' = bearBody
      BY <2>2 DEF LeaseBatch, AckBatch, TimePasses, PushDeletes, bearVars
    <3>3. BearHasLast'
      <4> SUFFICES ASSUME NEW n \in NoteIds \ troubled', NEW l \in BodyRows(n), Reported(l)',
                          \A j \in BodyRows(n) : l < j => ~Reported(j)'
                   PROVE  bearBody[n] = write_queue'[l].payload.body
        BY <1>1, <3>2, SameBodyRows DEF BearHasLast
      <4>1. n \in NoteIds \ troubled
        BY <1>2
      <4>2. \A j \in BodyRows(n) : j \in Ids /\ write_queue[j].note_id \notin troubled
        BY <4>1 DEF BodyRows, RowsOf
      <4>3. bearBody[n] = write_queue[l].payload.body
        BY <3>1, <4>1, <4>2 DEF BearHasLast
      <4> QED BY <1>1, <4>2, <4>3 DEF TextStays, SameText
    <3> QED BY <3>1, <3>3
  <2> QED BY <2>1, <2>2, NoFaultSteps
<1>4. OnlyLastPends'
  <2> SUFFICES ASSUME NEW n \in NoteIds \ troubled', OneConsumer(n),
                      NEW i \in BodyRows(n), NEW j \in BodyRows(n), i < j
               PROVE  write_queue'[i].status # "pending"
    BY <1>1, SameBodyRows DEF OnlyLastPends
  <2>1. write_queue[i].status # "pending" /\ i \in Ids /\ write_queue[i].note_id = n
    BY <1>2 DEF OnlyLastPends, BodyRows, RowsOf
  <2> QED BY <1>3, <2>1 DEF Forward
<1>5. LastIsWanted'
  <2> SUFFICES ASSUME NEW n \in NoteIds \ troubled', OneConsumer(n)
               PROVE  \/ wanted'[n] = NULL /\ BodyRows(n)' = {}
                      \/ \E i \in Ids' : IsLast(n, i)' /\ wanted'[n] = write_queue'[i].payload.body
    BY <1>1, SameBodyRows DEF LastIsWanted
  <2>1. \/ wanted[n] = NULL /\ BodyRows(n) = {}
        \/ \E i \in Ids : IsLast(n, i) /\ wanted[n] = write_queue[i].payload.body
    BY <1>2 DEF LastIsWanted
  <2>2. Ids' = Ids /\ wanted' = wanted /\ \A i \in Ids : write_queue'[i].payload = write_queue[i].payload
    BY <1>1 DEF TextStays, SameText
  <2> QED BY <1>1, <2>1, <2>2, SameBodyRows
<1> QED BY <1>3, <1>4, <1>5

\* A note is created before anything else is written to it.
LEMMA CreateIsFirst ==
  ASSUME DeliveryInv, KeysInv, OrderlyRequests, NEW r \in Requests, InsertRow(r), r.action = "create",
         r.note_id \notin troubled
  PROVE  BodyRows(r.note_id) = {}
<1> SUFFICES ASSUME NEW i \in BodyRows(r.note_id) PROVE FALSE
  OBVIOUS
<1>1. i \in Ids /\ write_queue[i].note_id = r.note_id /\ write_queue[i].action \in Writes
  BY DEF BodyRows, RowsOf
<1>2. ~HasRow(r)
  BY DEF InsertRow, RowsForKey, HasRow
<1>3. CASE write_queue[i].action = "update"
  BY <1>1, <1>2, <1>3 DEF KeysInv, CreatesHaveRows
<1>4. CASE write_queue[i].action = "create"
  <2>1. PICK s \in Requests : /\ s.key = write_queue[i].key /\ s.consumer = write_queue[i].consumer
                              /\ s.action = "create" /\ s.note_id = r.note_id
    BY <1>1, <1>4 DEF KeysInv, RowsAsInserted
  <2>2. s.key = r.key /\ s.consumer = r.consumer
    BY <2>1 DEF OrderlyRequests
  <2> QED BY <1>1, <1>2, <2>1, <2>2 DEF HasRow
<1> QED BY <1>1, <1>3, <1>4 DEF Writes

\* A new body is enqueued only when none waits that it could be merged into.
LEMMA InsertFindsNonePending ==
  ASSUME DeliveryInv, KeysInv, OrderlyRequests, NEW r \in Requests, InsertRow(r),
         r.action = "update" => HasBearID(r.note_id), r.action \in Writes,
         r.note_id \notin troubled, NEW i \in BodyRows(r.note_id),
         write_queue[i].consumer = r.consumer
  PROVE  write_queue[i].status # "pending"
<1>1. i \in Ids /\ write_queue[i].note_id = r.note_id /\ write_queue[i].action \in Writes
  BY DEF BodyRows, RowsOf
<1>2. r.action = "update"
  BY CreateIsFirst DEF Writes
<1>3. CASE write_queue[i].action = "create"
  BY <1>1, <1>2, <1>3 DEF HasBearID
<1>4. CASE write_queue[i].action = "update"
  <2>1. r.note_id # NULL
    BY DEF OrderlyRequests
  <2>2. PendingRows("update", r.note_id, r.consumer) = {}
    BY <1>2, <2>1 DEF InsertRow, CoalesceCandidates
  <2> QED BY <1>1, <1>4, <2>2 DEF PendingRows
<1> QED BY <1>1, <1>3, <1>4 DEF Writes

\* The rows of a note when the rows of another one change.
SameNote(n) ==
  /\ RowsOf(n)' = RowsOf(n)
  /\ \A i \in RowsOf(n) : write_queue'[i] = write_queue[i]

LEMMA SameNoteBodyRows ==
  ASSUME NEW n, SameNote(n)
  PROVE  /\ BodyRows(n)' = BodyRows(n)
         /\ OneConsumer(n)' <=> OneConsumer(n)
         /\ \A i : IsLast(n, i)' <=> IsLast(n, i)
<1>1. BodyRows(n)' = BodyRows(n)
  BY DEF SameNote, BodyRows
<1> QED BY <1>1 DEF SameNote, IsLast, OneConsumer

\* What NewestParts says of one note.
Newest(n) ==
  /\ \A i, j \in RowsOf(n) : i < j =>
       /\ write_queue[j].status = "applied" => write_queue[i].status = "applied"
       /\ write_queue[j].status = "processing" => write_queue[i].status # "pending"
  /\ \A i \in BodyRows(n) :
       /\ Reported(i)
       /\ \A j \in BodyRows(n) : i < j => ~Reported(j)
       => bearBody[n] = write_queue[i].payload.body
  /\ OneConsumer(n) =>
       /\ \A i, j \in BodyRows(n) : i < j => write_queue[i].status # "pending"
       /\ \/ wanted[n] = NULL /\ BodyRows(n) = {}
          \/ \E i \in Ids : IsLast(n, i) /\ wanted[n] = write_queue[i].payload.body

LEMMA NewestOfEach ==
  ASSUME DeliveryInv
  PROVE  NewestParts <=> \A n \in NoteIds \ troubled : Newest(n)
<1>1. \A i \in Ids : write_queue[i].note_id \in NoteIds
  BY Shape DEF Row
<1>2. InOrder <=> \A n \in NoteIds \ troubled : \A i, j \in RowsOf(n) : i < j =>
                    /\ write_queue[j].status = "applied" => write_queue[i].status = "applied"
                    /\ write_queue[j].status = "processing" => write_queue[i].status # "pending"
  BY <1>1 DEF InOrder, RowsOf
<1> QED BY <1>2 DEF NewestParts, Newest, BearHasLast, OnlyLastPends, LastIsWanted

LEMMA SameNoteNewest ==
  ASSUME NEW n, SameNote(n), Newest(n), wanted'[n] = wanted[n], bearBody' = bearBody,
         \A i \in RowsOf(n) : Reported(i)' <=> Reported(i), Ids \subseteq Ids'
  PROVE  Newest(n)'
<1>1. /\ BodyRows(n)' = BodyRows(n) /\ RowsOf(n)' = RowsOf(n)
      /\ OneConsumer(n)' <=> OneConsumer(n)
      /\ \A i : IsLast(n, i)' <=> IsLast(n, i)
      /\ BodyRows(n) \subseteq RowsOf(n)
      /\ \A i \in RowsOf(n) : write_queue'[i] = write_queue[i]
  BY SameNoteBodyRows DEF SameNote, BodyRows
<1>2. \A i, j \in RowsOf(n)' : i < j =>
        /\ write_queue'[j].status = "applied" => write_queue'[i].status = "applied"
        /\ write_queue'[j].status = "processing" => write_queue'[i].status # "pending"
  BY <1>1 DEF Newest
<1>3. \A i \in BodyRows(n)' :
        /\ Reported(i)'
        /\ \A j \in BodyRows(n)' : i < j => ~Reported(j)'
        => bearBody'[n] = write_queue'[i].payload.body
  BY <1>1 DEF Newest
<1>4. ASSUME OneConsumer(n)
      PROVE  /\ \A i, j \in BodyRows(n)' : i < j => write_queue'[i].status # "pending"
             /\ \/ wanted'[n] = NULL /\ BodyRows(n)' = {}
                \/ \E i \in Ids' : IsLast(n, i)' /\ wanted'[n] = write_queue'[i].payload.body
  <2>1. \A i, j \in BodyRows(n)' : i < j => write_queue'[i].status # "pending"
    BY <1>1, <1>4 DEF Newest
  <2>2. CASE wanted[n] = NULL /\ BodyRows(n) = {}
    BY <1>1, <2>1, <2>2
  <2>3. CASE \E i \in Ids : IsLast(n, i) /\ wanted[n] = write_queue[i].payload.body
    <3>1. PICK i \in Ids : IsLast(n, i) /\ wanted[n] = write_queue[i].payload.body
      BY <2>3
    <3>2. i \in RowsOf(n) /\ i \in Ids'
      BY <1>1, <3>1 DEF IsLast
    <3> QED BY <1>1, <2>1, <3>1, <3>2
  <2> QED BY <1>4, <2>2, <2>3 DEF Newest
<1> QED BY <1>1, <1>2, <1>3, <1>4 DEF Newest

\* A request and the notes that it is not for.
LEMMA SubmitLeavesOthers ==
  ASSUME DeliveryInv, KeysOfNote, FailuresTrouble, OrderlyRequests, NEW r \in Requests, Submit(r),
         NEW n \in NoteIds \ troubled,
         n # r.note_id \/ write_queue' = write_queue \/ \E i \in Ids : RetriesRow(r, i)
  PROVE  SameNote(n) /\ wanted'[n] = wanted[n]
<1>t. wanted \in [NoteIds -> Bodies] /\ r.note_id \in NoteIds
  BY Shape, RequestFields
<1>1. wanted' = wanted \/ wanted' = [wanted EXCEPT ![r.note_id] = r.payload.body]
  BY DEF Submit
<1>2. CASE write_queue' = write_queue
  BY <1>2 DEF Submit, SameNote, RowsOf, Ids
<1>3. ASSUME NEW i \in Ids, RetriesRow(r, i) PROVE n # r.note_id /\ SameNote(n)
  <2>1. n # r.note_id /\ write_queue[i].note_id # n
    BY <1>3 DEF RetriesRow, FailuresTrouble
  <2> QED BY <1>3, <2>1, RetriedRows DEF SameNote, RowsOf
<1>4. ASSUME NEW i \in Ids, MergesInto(r, i), n # r.note_id PROVE SameNote(n)
  <2>1. write_queue[i].note_id # n
    BY <1>4 DEF MergesInto
  <2> QED BY <1>4, <2>1, MergedRows DEF SameNote, RowsOf
<1>5. ASSUME InsertRow(r), n # r.note_id PROVE SameNote(n)
  <2> DEFINE k == Len(write_queue) + 1
  <2>1. /\ Ids' = Ids \cup {k} /\ k \notin Ids
        /\ \A i \in Ids : write_queue'[i] = write_queue[i]
        /\ write_queue'[k] = NewRow(r)
    BY <1>5, InsertedRows
  <2> HIDE DEF k
  <2>2. write_queue'[k].note_id # n
    BY <1>5, <2>1 DEF NewRow
  <2> QED BY <2>1, <2>2 DEF SameNote, RowsOf
<1>6. SameNote(n) /\ (n # r.note_id \/ write_queue' = write_queue)
  BY <1>2, <1>3, <1>4, <1>5, SubmitCases
<1>7. CASE n # r.note_id
  BY <1>t, <1>1, <1>6, <1>7
<1> QED BY <1>2, <1>6, <1>7 DEF Submit

\* The row that a body is merged into is the last one.
LEMMA MergeKeepsNewest ==
  ASSUME DeliveryInv, BatchIsLeased, NEW r \in Requests, Submit(r), NEW i \in Ids, MergesInto(r, i),
         write_queue' # write_queue, Newest(r.note_id)
  PROVE  Newest(r.note_id)'
<1> DEFINE n == r.note_id
<1>t. /\ wanted \in [NoteIds -> Bodies] /\ n \in NoteIds /\ Ids \subseteq Nat
      /\ DOMAIN acks \subseteq DOMAIN batch
  BY Shape, RequestFields
<1>1. /\ write_queue[i].status = "pending" /\ i \in BodyRows(n)
      /\ r.action \in Writes
  BY DEF MergesInto, BodyRows, RowsOf, Writes
<1>2. wanted'[n] = r.payload.body /\ bearBody' = bearBody /\ acks' = acks
  BY <1>t, <1>1 DEF Submit, bearVars, bridgeVars
<1>3. /\ Ids' = Ids
      /\ \A j \in Ids \ {i} : write_queue'[j] = write_queue[j]
      /\ \A j \in Ids : /\ write_queue'[j].status = write_queue[j].status
                        /\ write_queue'[j].consumer = write_queue[j].consumer
                        /\ write_queue'[j].action = write_queue[j].action
                        /\ write_queue'[j].note_id = write_queue[j].note_id
      /\ write_queue'[i].payload.body = r.payload.body
  BY <1>1, MergedRows
<1>4. RowsOf(n)' = RowsOf(n) /\ BodyRows(n)' = BodyRows(n) /\ BodyRows(n) \subseteq RowsOf(n)
      /\ RowsOf(n) \subseteq Ids
  BY <1>3 DEF RowsOf, BodyRows
<1>5. /\ OneConsumer(n)' <=> OneConsumer(n)
      /\ \A j : IsLast(n, j)' <=> IsLast(n, j)
  BY <1>3, <1>4 DEF OneConsumer, IsLast
<1>6. ~Reported(i) /\ \A j \in Ids : Reported(j)' <=> Reported(j)
  BY <1>t, <1>1, <1>2, <1>3 DEF Reported, BatchIsLeased
<1> HIDE DEF n
<1>7. Newest(n)
  BY DEF n
<1>8. \A a, b \in RowsOf(n)' : a < b =>
        /\ write_queue'[b].status = "applied" => write_queue'[a].status = "applied"
        /\ write_queue'[b].status = "processing" => write_queue'[a].status # "pending"
  BY <1>3, <1>4, <1>7 DEF Newest
<1>9. ASSUME NEW a \in BodyRows(n), Reported(a)', \A b \in BodyRows(n) : a < b => ~Reported(b)'
      PROVE  bearBody'[n] = write_queue'[a].payload.body
  <2>1. a # i /\ a \in Ids
    BY <1>4, <1>6, <1>9
  <2>2. bearBody[n] = write_queue[a].payload.body
    BY <1>4, <1>6, <1>7, <1>9 DEF Newest
  <2> QED BY <1>2, <1>3, <2>1, <2>2
<1>10. ASSUME OneConsumer(n)
       PROVE  /\ \A a, b \in BodyRows(n) : a < b => write_queue'[a].status # "pending"
              /\ \E a \in Ids' : IsLast(n, a)' /\ wanted'[n] = write_queue'[a].payload.body
  <2>1. \A a, b \in BodyRows(n) : a < b => write_queue[a].status # "pending"
    BY <1>7, <1>10 DEF Newest
  <2>2. IsLast(n, i)
    <3> SUFFICES ASSUME NEW b \in BodyRows(n) PROVE b <= i
      BY <1>1 DEF IsLast, n
    <3>1. b \in Nat /\ i \in Nat
      BY <1>t, <1>4
    <3>2. ~(i < b)
      BY <1>1, <2>1 DEF n
    <3> QED BY <3>1, <3>2
  <2>3. \A a, b \in BodyRows(n) : a < b => write_queue'[a].status # "pending"
    BY <1>3, <1>4, <2>1
  <2> QED BY <1>2, <1>3, <1>5, <2>2, <2>3
<1>11. Newest(n)'
  BY <1>4, <1>5, <1>8, <1>9, <1>10 DEF Newest
<1> QED BY <1>11 DEF n

\* A new row comes after all others.
LEMMA InsertKeepsNewest ==
  ASSUME DeliveryInv, KeysInv, OrderlyRequests, NEW r \in Requests, Submit(r), InsertRow(r),
         r.action = "update" => HasBearID(r.note_id),
         r.note_id \notin troubled, Newest(r.note_id)
  PROVE  Newest(r.note_id)'
<1> DEFINE n == r.note_id
<1>t. /\ wanted \in [NoteIds -> Bodies] /\ n \in NoteIds /\ Ids \subseteq Nat
      /\ DOMAIN acks \subseteq Ids
  BY Shape, RequestFields
<1>1. PICK k \in Nat :
        /\ Ids' = Ids \cup {k} /\ k \notin Ids /\ \A i \in Ids : i < k
        /\ \A i \in Ids : write_queue'[i] = write_queue[i]
        /\ write_queue'[k] = NewRow(r)
  BY InsertedRows
<1>o. \A b \in Ids \cup {k} : b \in Nat /\ b <= k /\ ~(k < b)
  <2> SUFFICES ASSUME NEW b \in Ids \cup {k} PROVE b \in Nat /\ b <= k /\ ~(k < b)
    OBVIOUS
  <2>1. b \in Nat /\ k \in Nat /\ (b = k \/ b < k)
    BY <1>t, <1>1
  <2> QED BY <2>1
<1>2. /\ write_queue'[k].status = "pending" /\ write_queue'[k].note_id = n
      /\ write_queue'[k].action = r.action /\ write_queue'[k].consumer = r.consumer
      /\ write_queue'[k].payload = r.payload
  BY <1>1 DEF NewRow
<1>3. write_queue' # write_queue
  BY <1>1 DEF Ids
<1>4. /\ bearBody' = bearBody /\ acks' = acks
      /\ r.action \in Writes => wanted'[n] = r.payload.body
      /\ r.action \notin Writes => wanted'[n] = wanted[n]
  BY <1>t, <1>3 DEF Submit, bearVars, bridgeVars
<1>5. RowsOf(n)' = RowsOf(n) \cup {k} /\ RowsOf(n) \subseteq Ids /\ BodyRows(n) \subseteq RowsOf(n)
  BY <1>1, <1>2 DEF RowsOf, BodyRows
<1>6. BodyRows(n)' = IF r.action \in Writes THEN BodyRows(n) \cup {k} ELSE BodyRows(n)
  BY <1>1, <1>2, <1>5 DEF BodyRows
<1>7. /\ ~Reported(k)' /\ \A j \in Ids : Reported(j)' <=> Reported(j)
  BY <1>t, <1>1, <1>2, <1>4 DEF Reported
<1>8. Newest(n) /\ n \notin troubled
  OBVIOUS
<1>9. r.action \in Writes => \A i \in BodyRows(n) :
        write_queue[i].consumer = r.consumer => write_queue[i].status # "pending"
  BY InsertFindsNonePending
<1> HIDE DEF n
<1>10. \A a, b \in RowsOf(n)' : a < b =>
         /\ write_queue'[b].status = "applied" => write_queue'[a].status = "applied"
         /\ write_queue'[b].status = "processing" => write_queue'[a].status # "pending"
  <2> SUFFICES ASSUME NEW a \in RowsOf(n)', NEW b \in RowsOf(n)', a < b
               PROVE  /\ write_queue'[b].status = "applied" => write_queue'[a].status = "applied"
                      /\ write_queue'[b].status = "processing" => write_queue'[a].status # "pending"
    OBVIOUS
  <2>1. CASE b = k
    BY <1>2, <2>1
  <2>2. CASE b # k
    <3>1. a # k
      BY <1>o, <1>5
    <3> QED BY <1>1, <1>5, <1>8, <2>2, <3>1 DEF Newest
  <2> QED BY <2>1, <2>2
<1>11. ASSUME NEW a \in BodyRows(n)', Reported(a)', \A b \in BodyRows(n)' : a < b => ~Reported(b)'
       PROVE  bearBody'[n] = write_queue'[a].payload.body
  <2>1. a \in BodyRows(n) /\ a \in Ids
    BY <1>5, <1>6, <1>7, <1>11
  <2>2. \A b \in BodyRows(n) : b \in BodyRows(n)' /\ b \in Ids
    BY <1>5, <1>6
  <2>3. bearBody[n] = write_queue[a].payload.body
    BY <1>7, <1>8, <1>11, <2>1, <2>2 DEF Newest
  <2> QED BY <1>1, <1>4, <2>1, <2>3
<1>12. ASSUME OneConsumer(n)'
       PROVE  /\ \A a, b \in BodyRows(n)' : a < b => write_queue'[a].status # "pending"
              /\ \/ wanted'[n] = NULL /\ BodyRows(n)' = {}
                 \/ \E a \in Ids' : IsLast(n, a)' /\ wanted'[n] = write_queue'[a].payload.body
  <2>1. OneConsumer(n) /\ \A i \in RowsOf(n) : write_queue[i].consumer = r.consumer
    BY <1>1, <1>2, <1>5, <1>12 DEF OneConsumer
  <2>2. \A a, b \in BodyRows(n) : a < b => write_queue[a].status # "pending"
    BY <1>8, <2>1 DEF Newest
  <2>3. CASE r.action \in Writes
    <3>1. \A a, b \in BodyRows(n)' : a < b => write_queue'[a].status # "pending"
      <4> SUFFICES ASSUME NEW a \in BodyRows(n)', NEW b \in BodyRows(n)', a < b
                   PROVE  write_queue'[a].status # "pending"
        OBVIOUS
      <4>1. a \in BodyRows(n) /\ a \in Ids
        BY <1>o, <1>5, <1>6, <2>3
      <4> QED BY <1>1, <1>5, <1>9, <2>1, <2>3, <4>1
    <3>2. IsLast(n, k)'
      <4>1. k \in BodyRows(n)' /\ \A b \in BodyRows(n)' : b <= k
        BY <1>o, <1>5, <1>6, <2>3
      <4> QED BY <4>1 DEF IsLast
    <3>3. wanted'[n] = write_queue'[k].payload.body
      BY <1>2, <1>4, <2>3
    <3> QED BY <1>1, <3>1, <3>2, <3>3
  <2>4. CASE r.action \notin Writes
    <3>1. BodyRows(n)' = BodyRows(n) /\ wanted'[n] = wanted[n]
      BY <1>4, <1>6, <2>4
    <3>2. \A a, b \in BodyRows(n)' : a < b => write_queue'[a].status # "pending"
      BY <1>1, <1>5, <2>2, <3>1
    <3>3. CASE wanted[n] = NULL /\ BodyRows(n) = {}
      BY <3>1, <3>2, <3>3
    <3>4. CASE \E i \in Ids : IsLast(n, i) /\ wanted[n] = write_queue[i].payload.body
      <4>1. PICK i \in Ids : IsLast(n, i) /\ wanted[n] = write_queue[i].payload.body
        BY <3>4
      <4>2. IsLast(n, i)'
        BY <3>1, <4>1 DEF IsLast
      <4> QED BY <1>1, <3>1, <3>2, <4>1, <4>2
    <3> QED BY <1>8, <2>1, <3>3, <3>4 DEF Newest
  <2> QED BY <2>3, <2>4
<1>13. Newest(n)'
  BY <1>10, <1>11, <1>12 DEF Newest
<1> QED BY <1>13 DEF n

LEMMA SubmitKeepsNewest ==
  ASSUME DeliveryInv, DeliveryInv', BatchIsLeased, KeysInv, OrderlyRequests, NewestParts,
         NEW r \in Requests, Submit(r)
  PROVE  NewestParts'
<1> USE DEF KeysInv
<1>1. troubled' = troubled /\ bearBody' = bearBody /\ acks' = acks /\ Ids \subseteq Ids'
  <2>1. DeliveryNext
    BY DEF DeliveryNext
  <2>2. Ids \subseteq Ids'
    BY <2>1, StepsAreQueueSteps, TableStepKeeps
  <2> QED BY <2>2 DEF Submit, bearVars, bridgeVars
<1>2. \A n \in NoteIds \ troubled : Newest(n)
  BY NewestOfEach
<1> SUFFICES ASSUME NEW n \in NoteIds \ troubled PROVE Newest(n)'
  <2>1. (NewestParts <=> \A n \in NoteIds \ troubled : Newest(n))'
    BY NewestOfEach, PTL
  <2> QED BY <1>1, <2>1
<1>3. CASE n # r.note_id \/ write_queue' = write_queue \/ \E i \in Ids : RetriesRow(r, i)
  <2>1. SameNote(n) /\ wanted'[n] = wanted[n]
    BY <1>3, SubmitLeavesOthers
  <2>2. \A i \in RowsOf(n) : Reported(i)' <=> Reported(i)
    BY <1>1, <2>1 DEF SameNote, Reported, RowsOf
  <2> QED BY <1>1, <1>2, <2>1, <2>2, SameNoteNewest
<1>4. CASE n = r.note_id /\ write_queue' # write_queue /\ \E i \in Ids : MergesInto(r, i)
  BY <1>2, <1>4, MergeKeepsNewest
<1>5. CASE n = r.note_id /\ InsertRow(r) /\ (r.action = "update" => HasBearID(r.note_id))
  BY <1>2, <1>5, InsertKeepsNewest
<1> QED BY <1>3, <1>4, <1>5, SubmitCases

LEMMA NewestInvariant ==
  ASSUME OrderlyRequests
  PROVE  DeliverySpec => []NewestInv
<1>1. /\ DeliveryInv /\ DeliveryInv' /\ FaultlessInv /\ KeysInv /\ NewestInv
      /\ [DeliveryNext]_deliveryVars
      => NewestInv'
  <2> SUFFICES ASSUME DeliveryInv, DeliveryInv', FaultlessInv, KeysInv, NewestInv,
                      [DeliveryNext]_deliveryVars, faults' = 0
               PROVE  NewestParts'
    BY DEF NewestInv, NewestParts
  <2>1. CASE UNCHANGED deliveryVars
    BY <2>1 DEF deliveryVars, vars, bridgeVars, bearVars, NewestInv, NewestParts, InOrder,
                BearHasLast, OnlyLastPends, LastIsWanted, BodyRows, RowsOf, OneConsumer, IsLast,
                Reported, Ids
  <2>2. CASE DeliveryNext
    <3>1. faults = 0
      BY <2>2, NoFaultSteps
    <3>2. BatchIsLeased /\ NewestParts
      BY <3>1 DEF FaultlessInv, Undisturbed, NewestInv, NewestParts
    <3>3. CASE Requested
      BY <3>2, <3>3, SubmitKeepsNewest DEF Requested
    <3> QED BY <2>2, <3>2, <3>3, OthersKeepNewest
  <2> QED BY <2>1, <2>2
<1> QED
  BY <1>1, InitNewestInv, DeliveryInvariant, FaultlessInvariant, KeysInvariant, PTL DEF DeliverySpec

\* When all writes of a note are applied, Bear has the body of the latest one
\* that the hub accepted, if one consumer wrote them, none failed and no fault
\* happened: coalescing, replays and batches never let an older body win.
THEOREM NewestWriteWinsHolds ==
  ASSUME OrderlyRequests
  PROVE  DeliverySpec => []NewestWriteWins
<1>1. DeliveryInv /\ NewestInv => NewestWriteWins
  <2> SUFFICES ASSUME DeliveryInv, NewestInv, NEW n \in NoteIds \ troubled, faults = 0,
                      wanted[n] # NULL,
                      \A i \in RowsOf(n) : write_queue[i].status = "applied",
                      Cardinality({write_queue[i].consumer : i \in RowsOf(n)}) = 1
               PROVE  bearBody[n] = wanted[n]
    BY DEF NewestWriteWins
  <2>1. OneConsumer(n)
    <3> DEFINE C == {write_queue[i].consumer : i \in RowsOf(n)}
    <3>1. Len(write_queue) \in Nat /\ RowsOf(n) \subseteq 1..Len(write_queue)
      BY Shape DEF RowsOf, Ids
    <3>2. IsFiniteSet(RowsOf(n))
      <4>1. IsFiniteSet(1..Len(write_queue))
        BY <3>1, FS_Interval
      <4> QED BY <3>1, <4>1, FS_Subset
    <3>3. IsFiniteSet(C)
      <4> DEFINE f == [i \in RowsOf(n) |-> write_queue[i].consumer]
      <4>1. f \in Surjection(RowsOf(n), C)
        BY DEF Surjection
      <4> QED BY <3>2, <4>1, FS_Surjection
    <3>4. \E c : C = {c}
      BY <3>3, FS_Singleton
    <3>5. \A i \in RowsOf(n) : write_queue[i].consumer \in C
      OBVIOUS
    <3> HIDE DEF C
    <3> QED BY <3>4, <3>5 DEF OneConsumer
  <2>2. PICK i \in Ids : IsLast(n, i) /\ wanted[n] = write_queue[i].payload.body
    BY <2>1 DEF NewestInv, LastIsWanted
  <2>3. i \in BodyRows(n) /\ i \in RowsOf(n) /\ i \in Nat
    BY <2>2, Shape DEF IsLast, BodyRows
  <2>4. Reported(i)
    BY <2>3 DEF Reported, RowsOf
  <2>5. \A j \in BodyRows(n) : ~(i < j)
    <3>1. BodyRows(n) \subseteq Nat
      BY Shape DEF BodyRows, RowsOf
    <3> QED BY <2>2, <2>3, <3>1 DEF IsLast
  <2>6. bearBody[n] = write_queue[i].payload.body
    BY <2>3, <2>4, <2>5 DEF NewestInv, BearHasLast
  <2> QED BY <2>2, <2>6
<1> QED
  BY <1>1, DeliveryInvariant, NewestInvariant, PTL
=============================================================================
