-------------------------- MODULE WriteQueueProofs --------------------------
(***************************************************************************)
(* Theorems about the write queue for every set of requests, every lease   *)
(* duration, lease limit and number of rows.                               *)
(***************************************************************************)
EXTENDS WriteQueue, SequenceTheorems, TLAPS

\* A function on 1..n is a sequence of length n.
LEMMA FunctionIsSeq ==
  ASSUME NEW S, NEW n \in Nat, NEW f \in [1..n -> S]
  PROVE  f \in Seq(S) /\ Len(f) = n
<1>1. f \in Seq(S)
  BY SeqDef
<1>2. DOMAIN f = 1..Len(f) /\ Len(f) \in Nat
  BY <1>1, LenProperties
<1>3. 1..n = 1..Len(f)
  BY <1>2
<1> QED
  BY <1>1, <1>2, <1>3

\* What the requests contribute to the fields of a row.
LEMMA RequestFields ==
  ASSUME NEW r \in Requests
  PROVE  /\ r.key \in Keys /\ r.consumer \in Consumers /\ r.action \in Actions
         /\ r.note_id \in NoteIds /\ r.payload \in Payloads
         /\ r.payload.body \in {q.payload.body : q \in Requests}
<1>1. r.payload = [title |-> r.payload.title, body |-> r.payload.body,
                   bear_id |-> r.payload.bear_id]
  BY RequestsAssumption
<1> QED
  BY <1>1 DEF Keys, Consumers, Actions, NoteIds, Payloads

LEMMA TableShape ==
  ASSUME TypeOK
  PROVE  /\ Len(write_queue) \in Nat
         /\ write_queue \in [Ids -> Row]
         /\ DOMAIN write_queue = Ids
BY LenProperties DEF TypeOK, Ids

\* The rows after each transaction: the table keeps its rows, and is typed.
LEMMA RowsMapped ==
  ASSUME TypeOK, NEW q \in [Ids -> Row]
  PROVE  q \in Seq(Row) /\ Len(q) = Len(write_queue) /\ DOMAIN q = Ids
BY FunctionIsSeq, TableShape DEF Ids

-----------------------------------------------------------------------------
\* The ways an existing row can change in one transaction.
Leased(old, new) ==
  /\ old.status = "pending" \/ LeaseRunOut(old)
  /\ \/ new = [old EXCEPT !.status = "processing", !.lease_until = LeaseDuration]
     \/ new = [old EXCEPT !.status = "pending", !.lease_until = NULL]

Acked(old, new) ==
  /\ old.status = "processing"
  /\ \E s \in Outcomes : new = [old EXCEPT !.status = s]

Deleted(old, new) ==
  /\ Active(old)
  /\ new = [old EXCEPT !.status = "failed"]

Aged(old, new) == new = [old EXCEPT !.lease_until = Elapsed(@)]

Reset(old, new) ==
  /\ old.status = "failed"
  /\ \E r \in Requests : new = ResetRow(old, r)

Coalesced(old, new) ==
  /\ old.status = "pending"
  /\ \E r \in Requests :
       \/ new = [old EXCEPT !.payload = r.payload, !.secondary = r.key]
       \/ new = [old EXCEPT !.payload.body = r.payload.body, !.secondary = r.key]

RowChange(old, new) ==
  \/ new = old
  \/ Leased(old, new) \/ Acked(old, new) \/ Deleted(old, new)
  \/ Aged(old, new) \/ Reset(old, new) \/ Coalesced(old, new)

RowsChange == \A i \in Ids : RowChange(write_queue[i], write_queue'[i])

\* A change keeps the row well typed and keeps its identity.
LEMMA RowChangeTyped ==
  ASSUME NEW old \in Row, NEW new, RowChange(old, new)
  PROVE  /\ new \in Row
         /\ new.key = old.key
         /\ new.consumer = old.consumer
<1>1. CASE new = old
  BY <1>1
<1>2. CASE Leased(old, new)
  <2>1. LeaseDuration \in Leases
    BY LeaseAssumption DEF Leases, Expired
  <2> QED
    BY <1>2, <2>1 DEF Leased, Row, Statuses
<1>3. CASE Acked(old, new)
  BY <1>3 DEF Acked, Row, Statuses, Outcomes
<1>4. CASE Deleted(old, new)
  BY <1>4 DEF Deleted, Row, Statuses
<1>5. CASE Aged(old, new)
  <2>1. Elapsed(old.lease_until) \in Leases \cup {NULL}
    BY LeaseAssumption DEF Elapsed, Leases, Expired, Row
  <2> QED
    BY <1>5, <2>1 DEF Aged, Row
<1>6. CASE Reset(old, new)
  BY <1>6, RequestFields DEF Reset, ResetRow, Row, Statuses
<1>7. CASE Coalesced(old, new)
  <2>1. PICK r \in Requests :
          \/ new = [old EXCEPT !.payload = r.payload, !.secondary = r.key]
          \/ new = [old EXCEPT !.payload.body = r.payload.body, !.secondary = r.key]
    BY <1>7 DEF Coalesced
  <2>2. r.payload \in Payloads /\ r.key \in Keys
    BY RequestFields
  <2>3. [old.payload EXCEPT !.body = r.payload.body] \in Payloads
    BY RequestFields DEF Row, Payloads
  <2> QED
    BY <2>1, <2>2, <2>3 DEF Row
<1> QED
  BY <1>1, <1>2, <1>3, <1>4, <1>5, <1>6, <1>7 DEF RowChange

-----------------------------------------------------------------------------
(***************************************************************************)
(* Every transaction but an insert leaves a table of the same length whose *)
(* rows changed by RowChange; an insert leaves the rows and adds one.      *)
(***************************************************************************)
Inserted == \E r \in Requests : InsertRow(r)

\* One row of the table replaced by a changed one.
LEMMA OneRowChanged ==
  ASSUME TypeOK, NEW i \in Ids, NEW new, RowChange(write_queue[i], new),
         write_queue' = [write_queue EXCEPT ![i] = new]
  PROVE  write_queue' \in Seq(Row) /\ Len(write_queue') = Len(write_queue) /\ RowsChange
<1>1. new \in Row
  BY TableShape, RowChangeTyped
<1>2. write_queue' \in [Ids -> Row]
  BY <1>1, TableShape
<1>3. RowsChange
  BY TableShape DEF RowsChange, RowChange
<1> QED
  BY <1>2, <1>3, RowsMapped

\* The table rebuilt row by row.
LEMMA AllRowsChanged ==
  ASSUME TypeOK, DOMAIN write_queue' = Ids, RowsChange,
         write_queue' = [i \in Ids |-> write_queue'[i]]
  PROVE  write_queue' \in Seq(Row) /\ Len(write_queue') = Len(write_queue) /\ RowsChange
<1>1. \A i \in Ids : write_queue'[i] \in Row
  BY TableShape, RowChangeTyped DEF RowsChange
<1>2. write_queue' \in [Ids -> Row]
  BY <1>1
<1> QED
  BY <1>2, RowsMapped

LEMMA NextChangesRows ==
  ASSUME TypeOK, Next
  PROVE  \/ /\ write_queue' \in Seq(Row)
            /\ Len(write_queue') = Len(write_queue)
            /\ RowsChange
         \/ Inserted
<1>1. ASSUME NEW r \in Requests, NEW i \in Ids, IdempotencyHit(r, i)
      PROVE  /\ write_queue' \in Seq(Row)
             /\ Len(write_queue') = Len(write_queue)
             /\ RowsChange
  <2>1. CASE write_queue[i].status = "failed"
    <3>1. write_queue' = [write_queue EXCEPT ![i] = ResetRow(write_queue[i], r)]
      BY <1>1, <2>1 DEF IdempotencyHit
    <3>2. RowChange(write_queue[i], ResetRow(write_queue[i], r))
      BY <2>1 DEF RowChange, Reset
    <3> QED
      BY <3>1, <3>2, OneRowChanged
  <2>2. CASE write_queue[i].status # "failed"
    BY <1>1, <2>2 DEF IdempotencyHit, TypeOK, RowsChange, RowChange
  <2> QED
    BY <2>1, <2>2
<1>2. ASSUME NEW r \in Requests, NEW i \in Ids, CoalesceUpdate(r, i)
      PROVE  /\ write_queue' \in Seq(Row)
             /\ Len(write_queue') = Len(write_queue)
             /\ RowsChange
  <2> DEFINE new == [write_queue[i] EXCEPT !.payload = r.payload, !.secondary = r.key]
  <2>1. write_queue' = [write_queue EXCEPT ![i] = new]
    BY <1>2, TableShape DEF CoalesceUpdate, Row
  <2>2. write_queue[i].status = "pending"
    BY <1>2 DEF CoalesceUpdate, CoalesceCandidates, PendingRows
  <2>3. RowChange(write_queue[i], new)
    BY <2>2 DEF RowChange, Coalesced
  <2> QED
    BY <2>1, <2>3, OneRowChanged
<1>3. ASSUME NEW r \in Requests, CoalesceCreateUpdate(r)
      PROVE  /\ write_queue' \in Seq(Row)
             /\ Len(write_queue') = Len(write_queue)
             /\ RowsChange
  <2>1. PICK i \in PendingRows("create", r.note_id, r.consumer) :
          write_queue' = [write_queue EXCEPT ![i].payload.body = r.payload.body,
                                             ![i].secondary = r.key]
    BY <1>3 DEF CoalesceCreateUpdate
  <2> DEFINE new == [write_queue[i] EXCEPT !.payload.body = r.payload.body, !.secondary = r.key]
  <2>2. i \in Ids /\ write_queue[i].status = "pending"
    BY DEF PendingRows
  <2>3. write_queue' = [write_queue EXCEPT ![i] = new]
    BY <2>1, <2>2, TableShape DEF Row
  <2>4. RowChange(write_queue[i], new)
    BY <2>2 DEF RowChange, Coalesced
  <2> QED
    BY <2>2, <2>3, <2>4, OneRowChanged
<1>4. ASSUME LeaseQueueItems
      PROVE  /\ write_queue' \in Seq(Row)
             /\ Len(write_queue') = Len(write_queue)
             /\ RowsChange
  <2>1. \A i \in Ids : RowChange(write_queue[i], AfterLease(i))
    <3>1. ASSUME NEW i \in LeasedNow
          PROVE  RowChange(write_queue[i], AfterLease(i))
      BY DEF AfterLease, LeasedNow, Leasable, RowChange, Leased
    <3>2. ASSUME NEW i \in Leasable \ LeasedNow
          PROVE  RowChange(write_queue[i], AfterLease(i))
      BY DEF AfterLease, Leasable, RowChange, Leased
    <3>3. ASSUME NEW i \in Ids \ Leasable
          PROVE  RowChange(write_queue[i], AfterLease(i))
      BY DEF AfterLease, LeasedNow, RowChange
    <3> QED
      BY <3>1, <3>2, <3>3
  <2> QED
    BY <1>4, <2>1, AllRowsChanged DEF LeaseQueueItems, RowsChange
<1>5. ASSUME NEW S \in SUBSET Ids, NEW acks \in [S -> Outcomes], AckQueueItems(acks)
      PROVE  /\ write_queue' \in Seq(Row)
             /\ Len(write_queue') = Len(write_queue)
             /\ RowsChange
  <2>1. RowsChange
    BY <1>5 DEF AckQueueItems, RowsChange, RowChange, Acked
  <2> QED
    BY <1>5, <2>1, AllRowsChanged DEF AckQueueItems
<1>6. ASSUME NEW deleted, FailQueueItemsForDeletedNotes(deleted)
      PROVE  /\ write_queue' \in Seq(Row)
             /\ Len(write_queue') = Len(write_queue)
             /\ RowsChange
  <2>1. RowsChange
    BY <1>6 DEF FailQueueItemsForDeletedNotes, RowsChange, RowChange, Deleted
  <2> QED
    BY <1>6, <2>1, AllRowsChanged DEF FailQueueItemsForDeletedNotes
<1>7. ASSUME Tick
      PROVE  /\ write_queue' \in Seq(Row)
             /\ Len(write_queue') = Len(write_queue)
             /\ RowsChange
  <2>1. RowsChange
    BY <1>7 DEF Tick, RowsChange, RowChange, Aged
  <2> QED
    BY <1>7, <2>1, AllRowsChanged DEF Tick
<1> QED
  BY <1>1, <1>2, <1>3, <1>4, <1>5, <1>6, <1>7 DEF Next, EnqueueWrite, Inserted

LEMMA InsertAddsRow ==
  ASSUME TypeOK, NEW r \in Requests, InsertRow(r)
  PROVE  /\ write_queue' \in Seq(Row)
         /\ Len(write_queue') = Len(write_queue) + 1
         /\ \A i \in Ids : write_queue'[i] = write_queue[i]
         /\ write_queue'[Len(write_queue) + 1] = NewRow(r)
<1>1. NewRow(r) \in Row
  BY RequestFields DEF NewRow, Row, Statuses
<1> QED
  BY <1>1, TableShape DEF TypeOK, InsertRow, Ids

\* The history only ever points at a row that is in the table after the step.
LEMMA NextAccepts ==
  ASSUME TypeOK, Next
  PROVE  \/ acceptedAs' = acceptedAs
         \/ \E r \in Requests : \E i \in 1..Len(write_queue') :
              /\ acceptedAs' = [acceptedAs EXCEPT ![r] = i]
              /\ write_queue'[i].consumer = r.consumer
<1>1. ASSUME NEW r \in Requests, InsertRow(r)
      PROVE  \E i \in 1..Len(write_queue') :
               /\ acceptedAs' = [acceptedAs EXCEPT ![r] = i]
               /\ write_queue'[i].consumer = r.consumer
  <2> DEFINE new == Len(write_queue) + 1
  <2>1. new \in 1..Len(write_queue')
    BY <1>1, InsertAddsRow, TableShape
  <2>2. acceptedAs' = [acceptedAs EXCEPT ![r] = new]
    BY <1>1 DEF InsertRow, Accept
  <2>3. write_queue'[new].consumer = r.consumer
    <3>1. write_queue'[new] = NewRow(r)
      BY <1>1, InsertAddsRow
    <3> HIDE DEF new
    <3> QED
      BY <3>1 DEF NewRow
  <2> QED
    BY <2>1, <2>2, <2>3
<1>2. ASSUME NEW r \in Requests, NEW i \in Ids,
             IdempotencyHit(r, i) \/ CoalesceUpdate(r, i)
      PROVE  /\ acceptedAs' = [acceptedAs EXCEPT ![r] = i]
             /\ write_queue[i].consumer = r.consumer
  BY <1>2 DEF IdempotencyHit, CoalesceUpdate, CoalesceCandidates, PendingRows,
              RowsForKey, Accept
<1>3. ASSUME NEW r \in Requests, CoalesceCreateUpdate(r)
      PROVE  \E i \in Ids : /\ acceptedAs' = [acceptedAs EXCEPT ![r] = i]
                            /\ write_queue[i].consumer = r.consumer
  BY <1>3 DEF CoalesceCreateUpdate, PendingRows, Accept
<1>4. ASSUME ~Inserted, NEW i \in Ids
      PROVE  i \in 1..Len(write_queue') /\ write_queue'[i].consumer = write_queue[i].consumer
  BY <1>4, NextChangesRows, RowChangeTyped, TableShape DEF RowsChange, Ids
<1>5. CASE Inserted
  BY <1>1, <1>5 DEF Inserted
<1>6. CASE ~Inserted
  <2>1. \A i \in Ids : i \in 1..Len(write_queue') /\ write_queue'[i].consumer = write_queue[i].consumer
    BY <1>4, <1>6
  <2>2. ASSUME NEW r \in Requests, EnqueueWrite(r) \/ CoalesceCreateUpdate(r)
        PROVE  \E i \in 1..Len(write_queue') :
                 /\ acceptedAs' = [acceptedAs EXCEPT ![r] = i]
                 /\ write_queue'[i].consumer = r.consumer
    BY <1>2, <1>3, <1>6, <2>1, <2>2 DEF EnqueueWrite, Inserted
  <2> QED
    BY <2>2 DEF Next, LeaseQueueItems, AckQueueItems, FailQueueItemsForDeletedNotes, Tick
<1> QED
  BY <1>5, <1>6

LEMMA NextKeepsRows ==
  ASSUME TypeOK, Next, NEW i \in Ids
  PROVE  /\ i \in 1..Len(write_queue')
         /\ write_queue'[i].key = write_queue[i].key
         /\ write_queue'[i].consumer = write_queue[i].consumer
<1>1. CASE /\ Len(write_queue') = Len(write_queue)
           /\ RowsChange
  BY <1>1, TableShape, RowChangeTyped DEF RowsChange, Ids
<1>2. CASE Inserted
  BY <1>2, InsertAddsRow, TableShape DEF Inserted, Ids
<1> QED
  BY <1>1, <1>2, NextChangesRows

LEMMA NextKeepsAccepted ==
  ASSUME TypeOK, AcceptedRowExists, Next
  PROVE  acceptedAs' \in [Requests -> Nat] /\ AcceptedRowExists'
<1>1. Len(write_queue') \in Nat
  BY NextChangesRows, InsertAddsRow, TableShape DEF Inserted
<1>2. CASE acceptedAs' = acceptedAs
  BY <1>2, NextKeepsRows DEF TypeOK, AcceptedRowExists, Ids
<1>3. CASE \E r \in Requests : \E i \in 1..Len(write_queue') :
              /\ acceptedAs' = [acceptedAs EXCEPT ![r] = i]
              /\ write_queue'[i].consumer = r.consumer
  <2>1. PICK r \in Requests, i \in 1..Len(write_queue') :
          /\ acceptedAs' = [acceptedAs EXCEPT ![r] = i]
          /\ write_queue'[i].consumer = r.consumer
    BY <1>3
  <2>2. acceptedAs' \in [Requests -> Nat]
    BY <1>1, <2>1 DEF TypeOK
  <2>3. ASSUME NEW q \in Requests, acceptedAs'[q] # 0
        PROVE  /\ acceptedAs'[q] \in 1..Len(write_queue')
               /\ write_queue'[acceptedAs'[q]].consumer = q.consumer
    <3>1. CASE q = r
      BY <2>1, <3>1 DEF TypeOK
    <3>2. CASE q # r
      <4>1. acceptedAs'[q] = acceptedAs[q]
        BY <2>1, <3>2 DEF TypeOK
      <4> QED
        BY <2>3, <4>1, NextKeepsRows DEF AcceptedRowExists
    <3> QED
      BY <3>1, <3>2
  <2> QED
    BY <2>2, <2>3 DEF AcceptedRowExists, Ids
<1> QED
  BY <1>2, <1>3, NextAccepts

-----------------------------------------------------------------------------
(***************************************************************************)
(* The inductive invariant: none of its parts is inductive without TypeOK, *)
(* and AcceptedRowExists also needs that rows keep their consumer.         *)
(***************************************************************************)
QueueInv == TypeOK /\ LeaseDiscipline /\ PrimaryKeysUnique /\ AcceptedRowExists

LEMMA InitQueueInv == Init => QueueInv
<1> SUFFICES ASSUME Init PROVE QueueInv
  OBVIOUS
<1>1. Ids = {}
  BY DEF Init, Ids
<1>2. TypeOK
  BY DEF Init, TypeOK
<1> QED
  BY <1>1, <1>2 DEF Init, QueueInv, LeaseDiscipline, PrimaryKeysUnique, AcceptedRowExists

RowLease(row) ==
  /\ row.status = "processing" => row.lease_until \in Leases
  /\ row.status = "pending" => row.lease_until = NULL

LEMMA RowChangeLease ==
  ASSUME NEW old \in Row, NEW new, RowLease(old), RowChange(old, new)
  PROVE  RowLease(new)
<1>1. CASE new = old
  BY <1>1
<1>2. CASE Leased(old, new)
  <2>1. LeaseDuration \in Leases
    BY LeaseAssumption DEF Leases, Expired
  <2> QED
    BY <1>2, <2>1 DEF Leased, Row, RowLease
<1>3. CASE Acked(old, new) \/ Deleted(old, new)
  BY <1>3 DEF Acked, Deleted, Row, RowLease, Outcomes
<1>4. CASE Aged(old, new)
  <2>1. /\ new.status = old.status
        /\ new.lease_until = Elapsed(old.lease_until)
    BY <1>4 DEF Aged, Row
  <2>2. old.lease_until \in Leases => Elapsed(old.lease_until) \in Leases
    BY LeaseAssumption DEF Elapsed, Leases, Expired
  <2>3. Elapsed(NULL) = NULL
    BY LeaseAssumption DEF Elapsed, Leases, Expired
  <2> QED
    BY <2>1, <2>2, <2>3 DEF RowLease
<1>5. CASE Reset(old, new)
  BY <1>5 DEF Reset, ResetRow, Row, RowLease
<1>6. CASE Coalesced(old, new)
  BY <1>6 DEF Coalesced, Row, RowLease
<1> QED
  BY <1>1, <1>2, <1>3, <1>4, <1>5, <1>6 DEF RowChange

LEMMA NextQueueInv ==
  ASSUME QueueInv, Next
  PROVE  QueueInv'
<1> USE DEF QueueInv
<1>1. CASE /\ write_queue' \in Seq(Row)
           /\ Len(write_queue') = Len(write_queue)
           /\ RowsChange
  <2>1. Ids' = Ids
    BY <1>1 DEF Ids
  <2>2. \A i \in Ids : /\ write_queue'[i].key = write_queue[i].key
                       /\ write_queue'[i].consumer = write_queue[i].consumer
    BY <1>1, TableShape, RowChangeTyped DEF RowsChange
  <2>3. LeaseDiscipline'
    <3>1. \A i \in Ids : RowLease(write_queue[i])
      BY DEF LeaseDiscipline, RowLease
    <3>2. \A i \in Ids : RowLease(write_queue'[i])
      BY <1>1, <3>1, TableShape, RowChangeLease DEF RowsChange
    <3> QED
      BY <2>1, <3>2 DEF LeaseDiscipline, RowLease
  <2>4. PrimaryKeysUnique'
    BY <2>1, <2>2 DEF PrimaryKeysUnique
  <2>5. TypeOK' /\ AcceptedRowExists'
    BY <1>1, NextKeepsAccepted DEF TypeOK
  <2> QED
    BY <2>3, <2>4, <2>5
<1>2. CASE Inserted
  <2>1. PICK r \in Requests : InsertRow(r)
    BY <1>2 DEF Inserted
  <2>2. Ids' = Ids \cup {Len(write_queue) + 1}
    BY <2>1, InsertAddsRow, TableShape DEF Ids
  <2>3. /\ \A i \in Ids : write_queue'[i] = write_queue[i]
        /\ write_queue'[Len(write_queue) + 1] = NewRow(r)
        /\ Len(write_queue) + 1 \notin Ids
    BY <2>1, InsertAddsRow, TableShape DEF Ids
  <2>4. LeaseDiscipline'
    BY <2>2, <2>3 DEF LeaseDiscipline, NewRow
  <2>5. PrimaryKeysUnique'
    <3>1. \A i \in Ids : write_queue[i].consumer = r.consumer => write_queue[i].key # r.key
      BY <2>1 DEF InsertRow, RowsForKey
    <3>2. NewRow(r).key = r.key /\ NewRow(r).consumer = r.consumer
      BY DEF NewRow
    <3> QED
      BY <2>2, <2>3, <3>1, <3>2 DEF PrimaryKeysUnique
  <2>6. TypeOK' /\ AcceptedRowExists'
    BY <2>1, InsertAddsRow, NextKeepsAccepted DEF TypeOK
  <2> QED
    BY <2>4, <2>5, <2>6
<1> QED
  BY <1>1, <1>2, NextChangesRows

LEMMA QueueInvariant == Spec => []QueueInv
<1>1. QueueInv /\ [Next]_vars => QueueInv'
  <2> SUFFICES ASSUME QueueInv, [Next]_vars PROVE QueueInv'
    OBVIOUS
  <2>1. CASE Next
    BY <2>1, NextQueueInv
  <2>2. CASE UNCHANGED vars
    BY <2>2 DEF vars, QueueInv, TypeOK, LeaseDiscipline, PrimaryKeysUnique,
                AcceptedRowExists, Ids
  <2> QED
    BY <2>1, <2>2
<1> QED
  BY <1>1, InitQueueInv, PTL DEF Spec

-----------------------------------------------------------------------------
\* The queue's table keeps its shape whatever consumers and bridge do.
THEOREM TypeCorrect == Spec => []TypeOK
BY QueueInvariant, PTL DEF QueueInv

\* A leased row always has a term that can run out and a pending row has none,
\* so LeaseQueueItems can always free a row its holder lost.
THEOREM LeaseDisciplineHolds == Spec => []LeaseDiscipline
BY QueueInvariant, PTL DEF QueueInv

\* The UNIQUE(idempotency_key, consumer_id) constraint is never violated by
\* EnqueueWrite: its own lookup comes first.
THEOREM PrimaryKeysUniqueHolds == Spec => []PrimaryKeysUnique
BY QueueInvariant, PTL DEF QueueInv

\* Every request the hub accepted was answered with a row of its consumer that
\* is still in the table.
THEOREM AcceptedRowExistsHolds == Spec => []AcceptedRowExists
BY QueueInvariant, PTL DEF QueueInv

-----------------------------------------------------------------------------
(***************************************************************************)
(* Action properties: what one step may do to an existing row.             *)
(***************************************************************************)
LEMMA NextChangesEachRow ==
  ASSUME TypeOK, Next, NEW i \in Ids
  PROVE  /\ write_queue[i] \in Row
         /\ RowChange(write_queue[i], write_queue'[i])
<1>1. CASE RowsChange
  BY <1>1, TableShape DEF RowsChange
<1>2. CASE Inserted
  BY <1>2, TableShape, InsertAddsRow DEF Inserted, RowChange
<1> QED
  BY <1>1, <1>2, NextChangesRows

LEMMA AppliedRowStays ==
  ASSUME NEW old \in Row, NEW new, RowChange(old, new), old.status = "applied"
  PROVE  new.status = "applied" /\ Work(new) = Work(old)
BY DEF Row, RowChange, Leased, LeaseRunOut, Acked, Deleted, Active, Aged, Reset,
       Coalesced, Work

LEMMA LeasedRowKeepsWork ==
  ASSUME NEW old \in Row, NEW new, RowChange(old, new), old.status = "processing"
  PROVE  Work(new) = Work(old)
BY DEF Row, RowChange, Leased, Acked, Deleted, Aged, Reset, Coalesced, Work

LEMMA HeldLeaseStays ==
  ASSUME NEW old \in Row, NEW new, RowChange(old, new), RowLease(old),
         old.status = "processing", old.lease_until # Expired
  PROVE  /\ new.status # "pending"
         /\ new.status = "processing" => new.lease_until <= old.lease_until
<1>1. old.lease_until \in Int
  BY LeaseAssumption DEF RowLease, Leases, Expired
<1>2. ASSUME NEW n \in Int PROVE Elapsed(n) <= n
  BY LeaseAssumption DEF Elapsed
<1> QED
  BY <1>1, <1>2 DEF Row, RowChange, Leased, LeaseRunOut, Acked, Outcomes, Deleted,
                    Aged, Reset, Coalesced

\* An applied write is never done again, reset or rewritten: no retry, lease
\* expiry, note deletion or late acknowledgement revives its row.
THEOREM AppliedIsFinalHolds == Spec => AppliedIsFinal
<1>1. TypeOK /\ Next =>
        \A i \in Ids : write_queue[i].status = "applied" =>
          /\ write_queue'[i].status = "applied"
          /\ Work(write_queue'[i]) = Work(write_queue[i])
  BY NextChangesEachRow, AppliedRowStays
<1> QED
  BY <1>1, TypeCorrect, PTL DEF Spec, AppliedIsFinal

\* What the bridge reads when it leases a row is what the row still says when
\* the acknowledgement arrives: coalescing and retries leave leased rows alone.
THEOREM LeasedWorkIsStableHolds == Spec => LeasedWorkIsStable
<1>1. TypeOK /\ Next =>
        \A i \in Ids : write_queue[i].status = "processing" =>
          Work(write_queue'[i]) = Work(write_queue[i])
  BY NextChangesEachRow, LeasedRowKeepsWork
<1> QED
  BY <1>1, TypeCorrect, PTL DEF Spec, LeasedWorkIsStable

\* No second lease of a row starts while the first one has time left.
THEOREM LeaseIsHonouredHolds == Spec => LeaseIsHonoured
<1>1. QueueInv /\ Next =>
        \A i \in Ids : write_queue[i].status = "processing" /\ write_queue[i].lease_until # Expired =>
          /\ write_queue'[i].status # "pending"
          /\ write_queue'[i].status = "processing" =>
               write_queue'[i].lease_until <= write_queue[i].lease_until
  BY NextChangesEachRow, HeldLeaseStays DEF QueueInv, LeaseDiscipline, RowLease
<1> QED
  BY <1>1, QueueInvariant, PTL DEF Spec, LeaseIsHonoured

-----------------------------------------------------------------------------
(***************************************************************************)
(* What each transaction does to the rows, for the modules that add the    *)
(* bridge.                                                                 *)
(***************************************************************************)
\* What a consumer's request does to the table: nothing, a rewrite of one row
\* that waits or failed, or a new row.
Rewritten(i) ==
  /\ write_queue[i].status \in {"pending", "failed"}
  /\ write_queue'[i] \in Row
  /\ write_queue'[i].status = "pending"
  /\ \A j \in Ids \ {i} : write_queue'[j] = write_queue[j]
  /\ Len(write_queue') = Len(write_queue)

LEMMA SubmitEffect ==
  ASSUME TypeOK, NEW r \in Requests, EnqueueWrite(r) \/ CoalesceCreateUpdate(r)
  PROVE  \/ write_queue' = write_queue
         \/ \E i \in Ids : Rewritten(i)
         \/ InsertRow(r)
<1>0. Next
  BY DEF Next
<1>1. ASSUME NEW i \in Ids, IdempotencyHit(r, i), write_queue' # write_queue
      PROVE  Rewritten(i)
  <2>1. /\ write_queue[i].status = "failed"
        /\ write_queue' = [write_queue EXCEPT ![i] = ResetRow(write_queue[i], r)]
    BY <1>1 DEF IdempotencyHit
  <2>2. RowChange(write_queue[i], ResetRow(write_queue[i], r))
    BY <2>1 DEF RowChange, Reset
  <2>3. ResetRow(write_queue[i], r) \in Row /\ ResetRow(write_queue[i], r).status = "pending"
    BY <2>2, RowChangeTyped, TableShape DEF ResetRow, Row
  <2> QED
    BY <2>1, <2>2, <2>3, OneRowChanged, TableShape DEF Rewritten
<1>2. ASSUME NEW i \in Ids, CoalesceUpdate(r, i)
      PROVE  Rewritten(i)
  <2> DEFINE new == [write_queue[i] EXCEPT !.payload = r.payload, !.secondary = r.key]
  <2>1. write_queue' = [write_queue EXCEPT ![i] = new]
    BY <1>2, TableShape DEF CoalesceUpdate, Row
  <2>2. write_queue[i].status = "pending"
    BY <1>2 DEF CoalesceUpdate, CoalesceCandidates, PendingRows
  <2>3. RowChange(write_queue[i], new)
    BY <2>2 DEF RowChange, Coalesced
  <2>4. new \in Row /\ new.status = "pending"
    BY <2>2, <2>3, RowChangeTyped, TableShape DEF Row
  <2> QED
    BY <2>1, <2>2, <2>3, <2>4, OneRowChanged, TableShape DEF Rewritten
<1>3. ASSUME CoalesceCreateUpdate(r)
      PROVE  \E i \in Ids : Rewritten(i)
  <2>1. PICK i \in PendingRows("create", r.note_id, r.consumer) :
          write_queue' = [write_queue EXCEPT ![i].payload.body = r.payload.body,
                                             ![i].secondary = r.key]
    BY <1>3 DEF CoalesceCreateUpdate
  <2> DEFINE new == [write_queue[i] EXCEPT !.payload.body = r.payload.body, !.secondary = r.key]
  <2>2. i \in Ids /\ write_queue[i].status = "pending"
    BY DEF PendingRows
  <2>3. write_queue' = [write_queue EXCEPT ![i] = new]
    BY <2>1, <2>2, TableShape DEF Row
  <2>4. RowChange(write_queue[i], new)
    BY <2>2 DEF RowChange, Coalesced
  <2>5. new \in Row /\ new.status = "pending"
    BY <2>2, <2>4, RowChangeTyped, TableShape DEF Row
  <2> QED
    BY <2>2, <2>3, <2>4, <2>5, OneRowChanged, TableShape DEF Rewritten
<1> QED
  BY <1>1, <1>2, <1>3 DEF EnqueueWrite

\* A leased row is left alone by requests, and none becomes leased by one.
LEMMA SubmitLeavesLeased ==
  ASSUME TypeOK, NEW r \in Requests, EnqueueWrite(r) \/ CoalesceCreateUpdate(r), NEW i \in Ids,
         write_queue[i].status = "processing" \/ write_queue'[i].status = "processing"
  PROVE  write_queue'[i] = write_queue[i]
<1>1. CASE \E j \in Ids : Rewritten(j)
  BY <1>1 DEF Rewritten
<1>2. CASE InsertRow(r)
  BY <1>2, InsertAddsRow
<1> QED
  BY <1>1, <1>2, SubmitEffect

LEMMA TickKeepsRow ==
  ASSUME TypeOK, Tick, NEW i \in Ids
  PROVE  /\ write_queue'[i].status = write_queue[i].status
         /\ Work(write_queue'[i]) = Work(write_queue[i])
BY TableShape DEF Tick, Row, Work

\* An acknowledgement settles rows that are leased and touches no other.
LEMMA AckKeepsRow ==
  ASSUME TypeOK, NEW as, AckQueueItems(as), NEW i \in Ids
  PROVE  /\ Work(write_queue'[i]) = Work(write_queue[i])
         /\ write_queue'[i].status = IF i \in DOMAIN as /\ write_queue[i].status = "processing"
                                     THEN as[i] ELSE write_queue[i].status
BY TableShape DEF AckQueueItems, Row, Work

LEMMA LeaseKeepsRow ==
  ASSUME TypeOK, LeaseQueueItems, NEW i \in Ids
  PROVE  /\ Work(write_queue'[i]) = Work(write_queue[i])
         /\ Active(write_queue'[i]) <=> Active(write_queue[i])
         /\ ~Active(write_queue[i]) => write_queue'[i] = write_queue[i]
         /\ i \in LeasedNow => write_queue'[i].status = "processing"
         /\ write_queue'[i].status = "processing" =>
              i \in LeasedNow \/ write_queue[i].status = "processing"
<1>1. write_queue'[i] = AfterLease(i)
  BY DEF LeaseQueueItems
<1>2. write_queue[i] \in Row
  BY TableShape
<1>3. CASE i \in LeasedNow
  BY <1>1, <1>2, <1>3 DEF AfterLease, LeasedNow, Leasable, LeaseRunOut, Active, Row, Work
<1>4. CASE i \in Leasable \ LeasedNow
  BY <1>1, <1>2, <1>4 DEF AfterLease, Leasable, LeaseRunOut, Active, Row, Work
<1>5. CASE i \notin Leasable
  <2>1. i \notin LeasedNow
    BY <1>5 DEF LeasedNow
  <2> QED
    BY <1>1, <1>5, <2>1 DEF AfterLease
<1> QED
  BY <1>3, <1>4, <1>5

LEMMA DeleteKeepsRow ==
  ASSUME TypeOK, NEW D, FailQueueItemsForDeletedNotes(D), NEW i \in Ids
  PROVE  /\ Work(write_queue'[i]) = Work(write_queue[i])
         /\ write_queue'[i].status = IF Active(write_queue[i]) /\ write_queue[i].note_id \in D
                                     THEN "failed" ELSE write_queue[i].status
BY TableShape DEF FailQueueItemsForDeletedNotes, Row, Work

\* Every transaction but an insert keeps the ids.
LEMMA IdsStay ==
  ASSUME TypeOK, Next, DOMAIN write_queue' = Ids
  PROVE  Ids' = Ids /\ Len(write_queue') = Len(write_queue)
<1>1. write_queue' \in Seq(Row)
  BY NextChangesRows, InsertAddsRow DEF Inserted
<1>2. DOMAIN write_queue' = 1..Len(write_queue') /\ Len(write_queue') \in Nat
  BY <1>1, LenProperties
<1> QED
  BY <1>2, TableShape DEF Ids
=============================================================================
