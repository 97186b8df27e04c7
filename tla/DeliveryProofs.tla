--------------------------- MODULE DeliveryProofs ---------------------------
(***************************************************************************)
(* Theorems about the queue with its one bridge, for every set of          *)
(* requests, lease duration, lease limit, number of rows and of faults.    *)
(***************************************************************************)
EXTENDS QueueDelivery, WriteQueueProofs

LEMMA WorkTyped ==
  ASSUME NEW row \in Row
  PROVE  /\ Work(row) \in Works
         /\ NoteOf(Work(row)) \in NoteIds
         /\ BodyOf(Work(row)) \in Bodies
BY DEF Work, Works, NoteOf, BodyOf, Bodies, Row, Payloads

LEMMA WorksFields ==
  ASSUME NEW w \in Works
  PROVE  NoteOf(w) \in NoteIds /\ BodyOf(w) \in Bodies
BY DEF Works, NoteOf, BodyOf, Bodies, Payloads

LEMMA FaultsTyped ==
  ASSUME faults \in 0..MaxFaults, Fault \/ NoFault
  PROVE  faults' \in 0..MaxFaults
BY FaultAssumption DEF Fault, NoFault

-----------------------------------------------------------------------------
(***************************************************************************)
(* The inductive invariant.                                                *)
(***************************************************************************)
Bounded == Len(write_queue) <= MaxRows

\* An idle bridge holds nothing.
IdleHoldsNothing == phase = "idle" => DOMAIN batch = {}

AcksAreOutcomes == acks \in [DOMAIN acks -> Outcomes]

\* While a batch is being acknowledged its rows may have been settled by an
\* attempt whose answer was lost, and reset by a consumer since; but a row that
\* is leased is still the one the bridge read.
LateAcksAreCurrent ==
  phase = "acking" =>
    \A i \in DOMAIN batch : write_queue[i].status = "processing" => Work(write_queue[i]) = batch[i]

\* The bridge reports "applied" for what it did.
ReportsAreTrue == \A i \in DOMAIN acks : acks[i] = "applied" => batch[i] \in done[i]

DeliveryInv ==
  /\ QueueInv /\ Bounded /\ DeliveryTypeOK
  /\ IdleHoldsNothing /\ AcksAreOutcomes
  /\ BatchStillLeased /\ LateAcksAreCurrent /\ ReportsAreTrue

LEMMA InitDeliveryInv == DeliveryInit => DeliveryInv
<1> SUFFICES ASSUME DeliveryInit PROVE DeliveryInv
  OBVIOUS
<1>1. QueueInv /\ Bounded
  BY InitQueueInv, LeaseAssumption DEF DeliveryInit, Init, Bounded
<1>2. DOMAIN batch = {} /\ DOMAIN acks = {} /\ phase = "idle"
  BY DEF DeliveryInit, NoItems
<1>3. DeliveryTypeOK
  BY <1>1, <1>2, FaultAssumption DEF DeliveryInit, DeliveryTypeOK, QueueInv, Bodies
<1>4. AcksAreOutcomes
  BY DEF DeliveryInit, NoItems, AcksAreOutcomes
<1> QED
  BY <1>1, <1>2, <1>3, <1>4 DEF DeliveryInv, IdleHoldsNothing, BatchStillLeased,
                                LateAcksAreCurrent, ReportsAreTrue

\* Seen from the table, every step of the system is one of the most general
\* callers of WriteQueue, or none.
LEMMA StepsAreQueueSteps ==
  ASSUME DeliveryInv, [DeliveryNext]_deliveryVars
  PROVE  [Next]_vars
<1>1. CASE UNCHANGED deliveryVars
  BY <1>1 DEF deliveryVars
<1>2. ASSUME AckQueueItems(acks) PROVE Next
  <2>1. DOMAIN acks \in SUBSET Ids
    BY DEF DeliveryInv, DeliveryTypeOK
  <2>2. acks \in [DOMAIN acks -> Outcomes]
    BY DEF DeliveryInv, AcksAreOutcomes
  <2> QED
    BY <1>2, <2>1, <2>2 DEF Next
<1>3. CASE BridgeStep
  BY <1>2, <1>3 DEF BridgeStep, LeaseBatch, ApplyItem, ApplyItemFails, ItemDone, AckBatch, Next
<1>4. CASE Faulty
  BY <1>2, <1>4 DEF Faulty, LeaseAnswerLost, ApplyItemReportsFailure, ItemDone, AckAnswerLost,
                    BridgeDies, Next
<1>5. CASE \/ \E r \in Requests : Submit(r)
           \/ \E n \in NoteIds \ {NULL} : PushDeletes(n)
           \/ TimePasses
  BY <1>5 DEF Submit, PushDeletes, TimePasses, Next
<1> QED
  BY <1>1, <1>3, <1>4, <1>5 DEF DeliveryNext

\* Facts that a step of the table keeps, whichever it is.
LEMMA TableStepKeeps ==
  ASSUME DeliveryInv, [Next]_vars
  PROVE  /\ QueueInv' /\ Bounded'
         /\ Ids \subseteq Ids'
<1>1. QueueInv /\ TypeOK /\ Len(write_queue) \in Nat /\ MaxRows \in Nat /\ Bounded
  BY TableShape, LeaseAssumption DEF DeliveryInv, QueueInv
<1>2. CASE UNCHANGED vars
  BY <1>1, <1>2 DEF vars, QueueInv, TypeOK, LeaseDiscipline, PrimaryKeysUnique,
                    AcceptedRowExists, Ids, Bounded
<1>3. CASE Next
  <2>1. QueueInv'
    BY <1>1, <1>3, NextQueueInv
  <2>2. CASE Len(write_queue') = Len(write_queue)
    BY <1>1, <2>1, <2>2 DEF Bounded, Ids
  <2>3. CASE Inserted
    <3>1. Len(write_queue') = Len(write_queue) + 1 /\ Len(write_queue) < MaxRows
      BY <1>1, <2>3, InsertAddsRow DEF Inserted, InsertRow
    <3> QED
      BY <1>1, <2>1, <3>1 DEF Bounded, Ids
  <2> QED
    BY <1>1, <1>3, <2>2, <2>3, NextChangesRows
<1> QED
  BY <1>2, <1>3

\* Requests and the clock: the bridge holds its batch while they come.
LEMMA EnvironmentKeepsInv ==
  ASSUME DeliveryInv,
         \/ \E r \in Requests : Submit(r)
         \/ TimePasses
  PROVE  DeliveryInv'
<1>1. [Next]_vars
  BY StepsAreQueueSteps DEF DeliveryNext
<1>2. QueueInv' /\ Bounded' /\ Ids \subseteq Ids'
  BY <1>1, TableStepKeeps
<1>3. TypeOK /\ DOMAIN batch \subseteq Ids
  BY DEF DeliveryInv, DeliveryTypeOK
<1>4. UNCHANGED <<phase, batch, acks, bearBody, done, runs, troubled, faults>>
  BY DEF Submit, TimePasses, bridgeVars, bearVars, NoFault
<1>5. \A i \in Ids :
        /\ write_queue[i].status = "processing" => write_queue'[i].status = "processing"
        /\ write_queue'[i].status = "processing" =>
             /\ write_queue[i].status = "processing"
             /\ Work(write_queue'[i]) = Work(write_queue[i])
  BY <1>3, SubmitLeavesLeased, TickKeepsRow DEF Submit, TimePasses
<1>6. wanted' \in [NoteIds -> Bodies]
  <2>1. wanted \in [NoteIds -> Bodies]
    BY DEF DeliveryInv, DeliveryTypeOK
  <2>2. ASSUME NEW r \in Requests, Submit(r) PROVE wanted' \in [NoteIds -> Bodies]
    <3>1. r.note_id \in NoteIds /\ r.payload.body \in Bodies
      BY RequestFields DEF Bodies
    <3> QED
      BY <2>1, <2>2, <3>1 DEF Submit
  <2> QED
    BY <2>1, <2>2 DEF TimePasses
<1>7. DeliveryTypeOK'
  BY <1>2, <1>4, <1>6 DEF DeliveryInv, DeliveryTypeOK, QueueInv
<1>8. BatchStillLeased' /\ LateAcksAreCurrent'
  BY <1>3, <1>4, <1>5 DEF DeliveryInv, BatchStillLeased, LateAcksAreCurrent
<1> QED
  BY <1>2, <1>4, <1>7, <1>8 DEF DeliveryInv, IdleHoldsNothing, AcksAreOutcomes, ReportsAreTrue

\* The bridge is idle before or after the step and holds nothing then.
LEMMA IdleStepKeepsInv ==
  ASSUME DeliveryInv,
         \/ LeaseAnswerLost \/ AckBatch \/ BridgeDies
         \/ \E n \in NoteIds \ {NULL} : PushDeletes(n)
  PROVE  DeliveryInv'
<1>1. [Next]_vars
  BY StepsAreQueueSteps DEF DeliveryNext, BridgeStep, Faulty
<1>2. QueueInv' /\ Bounded'
  BY <1>1, TableStepKeeps
<1>3. UNCHANGED <<bearBody, done, runs, wanted>>
  BY DEF LeaseAnswerLost, AckBatch, BridgeDies, PushDeletes, bearVars
<1>4. phase' = "idle" /\ DOMAIN batch' = {} /\ DOMAIN acks' = {} /\ acks' \in [DOMAIN acks' -> Outcomes]
  <2>1. CASE UNCHANGED bridgeVars /\ phase = "idle"
    BY <2>1 DEF bridgeVars, DeliveryInv, DeliveryTypeOK, IdleHoldsNothing, AcksAreOutcomes
  <2>2. CASE phase' = "idle" /\ batch' = NoItems /\ acks' = NoItems
    BY <2>2 DEF NoItems
  <2> QED
    BY <2>1, <2>2 DEF LeaseAnswerLost, AckBatch, BridgeDies, PushDeletes
<1>5. troubled' \subseteq NoteIds /\ faults' \in 0..MaxFaults
  <2>1. Fault \/ NoFault
    BY DEF LeaseAnswerLost, AckBatch, BridgeDies, PushDeletes
  <2>2. troubled' = troubled \/ \E n \in NoteIds : troubled' = troubled \cup {n}
    BY DEF LeaseAnswerLost, AckBatch, BridgeDies, PushDeletes
  <2>3. troubled \subseteq NoteIds /\ faults \in 0..MaxFaults
    BY DEF DeliveryInv, DeliveryTypeOK
  <2> QED
    BY <2>1, <2>2, <2>3, FaultsTyped
<1>6. DeliveryTypeOK'
  BY <1>2, <1>3, <1>4, <1>5 DEF DeliveryInv, DeliveryTypeOK, QueueInv
<1> QED
  BY <1>2, <1>4, <1>6 DEF DeliveryInv, IdleHoldsNothing, AcksAreOutcomes, BatchStillLeased,
                          LateAcksAreCurrent, ReportsAreTrue

LEMMA LeaseKeepsInv ==
  ASSUME DeliveryInv, LeaseBatch
  PROVE  DeliveryInv'
<1>1. [Next]_vars /\ Next
  BY StepsAreQueueSteps DEF DeliveryNext, BridgeStep, LeaseBatch, Next
<1>2. QueueInv' /\ Bounded' /\ Ids \subseteq Ids'
  BY <1>1, TableStepKeeps
<1>3. TypeOK /\ LeasedNow \subseteq Ids
  BY DEF DeliveryInv, DeliveryTypeOK, LeasedNow, Leasable
<1>4. DOMAIN batch' = LeasedNow /\ \A i \in LeasedNow : batch'[i] = Work(write_queue[i])
  BY DEF LeaseBatch
<1>5. \A i \in LeasedNow : /\ write_queue'[i].status = "processing"
                           /\ Work(write_queue'[i]) = batch'[i]
                           /\ batch'[i] \in Works
  BY <1>3, <1>4, LeaseKeepsRow, WorkTyped, TableShape DEF LeaseBatch
<1>6. DOMAIN acks' = {} /\ acks' \in [DOMAIN acks' -> Outcomes]
  BY DEF LeaseBatch, NoItems
<1>7. phase' \in {"idle", "applying"} /\ (phase' = "idle" => LeasedNow = {})
  BY DEF LeaseBatch
<1>8. DeliveryTypeOK'
  BY <1>2, <1>3, <1>4, <1>5, <1>6, <1>7
     DEF DeliveryInv, DeliveryTypeOK, QueueInv, LeaseBatch, bearVars, NoFault
<1> QED
  BY <1>2, <1>4, <1>5, <1>6, <1>7, <1>8
     DEF DeliveryInv, IdleHoldsNothing, AcksAreOutcomes, BatchStillLeased, LateAcksAreCurrent,
         ReportsAreTrue

\* An item is applied, refused, or applied and reported as failed.
ItemStep(i) == ApplyItem(i) \/ ApplyItemFails(i) \/ ApplyItemReportsFailure(i)

LEMMA ItemKeepsInv ==
  ASSUME DeliveryInv, NEW i \in 1..MaxRows, ItemStep(i)
  PROVE  DeliveryInv'
<1>1. PICK o \in Outcomes : ItemDone(i, o) /\ (o = "applied" => Done(i))
  BY DEF ItemStep, ApplyItem, ApplyItemFails, ApplyItemReportsFailure, Perform, Outcomes
<1>2. /\ UNCHANGED vars /\ batch' = batch /\ wanted' = wanted
      /\ i \in DOMAIN batch /\ phase = "applying" /\ phase' \in {"applying", "acking"}
      /\ DOMAIN acks' = DOMAIN acks \cup {i}
      /\ acks'[i] = o
      /\ \A j \in DOMAIN acks \ {i} : acks'[j] = acks[j]
      /\ acks' = [j \in DOMAIN acks \cup {i} |-> IF j = i THEN o ELSE acks[j]]
  BY <1>1 DEF ItemDone, Todo, Put
<1>3. QueueInv' /\ Bounded' /\ Ids' = Ids
  BY <1>2, TableStepKeeps DEF vars, Ids
<1>4. batch[i] \in Works /\ NoteOf(batch[i]) \in NoteIds /\ BodyOf(batch[i]) \in Bodies
  BY <1>2, WorksFields DEF DeliveryInv, DeliveryTypeOK
<1>5. /\ bearBody' \in [NoteIds -> Bodies]
      /\ done' \in [1..MaxRows -> SUBSET Works]
      /\ runs' \in [1..MaxRows -> Nat]
      /\ \A j \in 1..MaxRows : done[j] \subseteq done'[j]
  <2>1. /\ bearBody \in [NoteIds -> Bodies]
        /\ done \in [1..MaxRows -> SUBSET Works]
        /\ runs \in [1..MaxRows -> Nat]
    BY DEF DeliveryInv, DeliveryTypeOK
  <2>2. bearBody' = bearBody \/ bearBody' = [bearBody EXCEPT ![NoteOf(batch[i])] = BodyOf(batch[i])]
    BY DEF ItemStep, ApplyItem, ApplyItemFails, ApplyItemReportsFailure, Perform, bearVars
  <2>3. runs' = runs \/ runs' = [runs EXCEPT ![i] = @ + 1]
    BY DEF ItemStep, ApplyItem, ApplyItemFails, ApplyItemReportsFailure, Perform, bearVars
  <2>4. done' = done \/ Done(i)
    BY DEF ItemStep, ApplyItem, ApplyItemFails, ApplyItemReportsFailure, Perform, bearVars
  <2>5. bearBody' \in [NoteIds -> Bodies]
    BY <1>4, <2>1, <2>2
  <2>6. runs' \in [1..MaxRows -> Nat]
    BY <2>1, <2>3
  <2>7. done' \in [1..MaxRows -> SUBSET Works] /\ \A j \in 1..MaxRows : done[j] \subseteq done'[j]
    BY <1>4, <2>1, <2>4 DEF Done
  <2> QED
    BY <2>5, <2>6, <2>7
<1>6. troubled' \subseteq NoteIds /\ faults' \in 0..MaxFaults
  BY <1>4, FaultsTyped
     DEF ItemStep, ApplyItem, ApplyItemFails, ApplyItemReportsFailure, Troubles,
         DeliveryInv, DeliveryTypeOK
<1>7. AcksAreOutcomes'
  BY <1>2 DEF DeliveryInv, AcksAreOutcomes
<1>8. DeliveryTypeOK'
  BY <1>2, <1>3, <1>5, <1>6 DEF DeliveryInv, DeliveryTypeOK, QueueInv
<1>9. BatchStillLeased' /\ LateAcksAreCurrent' /\ IdleHoldsNothing'
  BY <1>2 DEF DeliveryInv, BatchStillLeased, LateAcksAreCurrent, IdleHoldsNothing, vars
<1>10. ReportsAreTrue'
  <2>1. DOMAIN batch \subseteq 1..MaxRows /\ DOMAIN acks \subseteq DOMAIN batch
    BY TableShape, LeaseAssumption DEF DeliveryInv, DeliveryTypeOK, QueueInv, Ids, Bounded
  <2>2. o = "applied" => batch[i] \in done'[i]
    BY <1>1 DEF Done, DeliveryInv, DeliveryTypeOK
  <2> QED
    BY <1>2, <1>5, <2>1, <2>2 DEF DeliveryInv, ReportsAreTrue
<1> QED
  BY <1>3, <1>7, <1>8, <1>9, <1>10 DEF DeliveryInv

LEMMA AckLostKeepsInv ==
  ASSUME DeliveryInv, AckAnswerLost
  PROVE  DeliveryInv'
<1>1. [Next]_vars
  BY StepsAreQueueSteps DEF DeliveryNext, Faulty
<1>2. QueueInv' /\ Bounded' /\ Ids \subseteq Ids'
  BY <1>1, TableStepKeeps
<1>3. phase = "acking" /\ UNCHANGED <<phase, batch, acks, bearBody, done, runs, wanted, troubled>>
  BY DEF AckAnswerLost, bridgeVars, bearVars
<1>4. DeliveryTypeOK'
  BY <1>2, <1>3, FaultAssumption DEF AckAnswerLost, Fault, DeliveryInv, DeliveryTypeOK, QueueInv
<1>5. LateAcksAreCurrent'
  <2> SUFFICES ASSUME NEW i \in DOMAIN batch, write_queue'[i].status = "processing"
               PROVE  Work(write_queue'[i]) = batch[i]
    BY <1>3 DEF LateAcksAreCurrent
  <2>1. TypeOK /\ i \in Ids /\ AckQueueItems(acks)
    BY DEF DeliveryInv, DeliveryTypeOK, AckAnswerLost
  <2>2. write_queue[i].status = "processing" /\ Work(write_queue'[i]) = Work(write_queue[i])
    BY <2>1, AckKeepsRow
  <2> QED
    BY <1>3, <2>2 DEF DeliveryInv, LateAcksAreCurrent
<1> QED
  BY <1>2, <1>3, <1>4, <1>5 DEF DeliveryInv, IdleHoldsNothing, AcksAreOutcomes, BatchStillLeased,
                                ReportsAreTrue

LEMMA DeliveryInvariant == DeliverySpec => []DeliveryInv
<1>1. DeliveryInv /\ [DeliveryNext]_deliveryVars => DeliveryInv'
  <2> SUFFICES ASSUME DeliveryInv, [DeliveryNext]_deliveryVars PROVE DeliveryInv'
    OBVIOUS
  <2>1. CASE UNCHANGED deliveryVars
    BY <2>1 DEF deliveryVars, vars, bridgeVars, bearVars, DeliveryInv, QueueInv, TypeOK,
                LeaseDiscipline, PrimaryKeysUnique, AcceptedRowExists, Ids, Bounded,
                DeliveryTypeOK, IdleHoldsNothing, AcksAreOutcomes, BatchStillLeased,
                LateAcksAreCurrent, ReportsAreTrue
  <2>2. CASE DeliveryNext
    BY <2>2, EnvironmentKeepsInv, IdleStepKeepsInv, LeaseKeepsInv, ItemKeepsInv, AckLostKeepsInv
       DEF DeliveryNext, BridgeStep, Faulty, ItemStep
  <2> QED
    BY <2>1, <2>2
<1> QED
  BY <1>1, InitDeliveryInv, PTL DEF DeliverySpec

-----------------------------------------------------------------------------
\* The bridge's batch, the outcomes it collects and Bear's side keep their
\* types.
THEOREM DeliveryTypeCorrect == DeliverySpec => []DeliveryTypeOK
BY DeliveryInvariant, PTL DEF DeliveryInv

\* The comment in AckQueueItems relies on one sequential bridge: until the hub
\* has processed the acknowledgement of a batch, its rows are still leased and
\* still say what the bridge read.
THEOREM BatchStillLeasedHolds == DeliverySpec => []BatchStillLeased
BY DeliveryInvariant, PTL DEF DeliveryInv

\* The handlers, the bridge and the faults do nothing to the table that the
\* most general callers of WriteQueue could not do: what is proved of WriteQueue
\* may be used of the system.
LEMMA DeliveryIsWriteQueue == DeliverySpec => Spec
<1>1. DeliveryInit => Init
  BY DEF DeliveryInit
<1>2. DeliveryInv /\ [DeliveryNext]_deliveryVars => [Next]_vars
  BY StepsAreQueueSteps
<1> QED
  BY <1>1, <1>2, DeliveryInvariant, PTL DEF DeliverySpec, Spec

\* In the system, too: an applied row is final, a leased row's work is stable,
\* and a lease is honoured until it runs out.
COROLLARY DeliveryKeepsQueueProperties ==
  DeliverySpec => AppliedIsFinal /\ LeasedWorkIsStable /\ LeaseIsHonoured
BY DeliveryIsWriteQueue, AppliedIsFinalHolds, LeasedWorkIsStableHolds,
   LeaseIsHonouredHolds, PTL

-----------------------------------------------------------------------------
(***************************************************************************)
(* The refinement of Outbox.                                               *)
(***************************************************************************)
outboxBar == <<Standing, Asked, done>>

\* Rows whose activity, outcome and work are the same stand the same.
LEMMA SameStanding ==
  ASSUME Ids' = Ids, done' = done,
         \A i \in Ids : /\ Work(write_queue'[i]) = Work(write_queue[i])
                        /\ Active(write_queue'[i]) <=> Active(write_queue[i])
                        /\ write_queue'[i].status = "applied" <=> write_queue[i].status = "applied"
  PROVE  UNCHANGED outboxBar
<1>1. Standing' = Standing
  BY DEF Standing
<1>2. Asked' = Asked
  BY DEF Asked
<1> QED
  BY <1>1, <1>2 DEF outboxBar

\* Rows that wait are settled, the done ones after they were carried out.
LEMMA RowsSettle ==
  ASSUME DeliveryInv, Ids' = Ids, done' = done,
         \A i \in Ids : /\ Work(write_queue'[i]) = Work(write_queue[i])
                        /\ \/ write_queue'[i].status = write_queue[i].status
                           \/ /\ Active(write_queue[i])
                              /\ \/ write_queue'[i].status = "failed"
                                 \/ /\ write_queue'[i].status = "applied"
                                    /\ Work(write_queue[i]) \in done[i]
  PROVE  O!Next
<1>1. Ids \subseteq 1..MaxRows
  BY TableShape, LeaseAssumption DEF DeliveryInv, QueueInv, Bounded, Ids
<1> DEFINE D == {i \in Ids : Active(write_queue[i]) /\ write_queue'[i].status = "applied"}
           F == {i \in Ids : Active(write_queue[i]) /\ write_queue'[i].status = "failed"}
<1>2. D \subseteq O!Waiting /\ F \subseteq O!Waiting /\ D \cap F = {}
  BY <1>1 DEF O!Waiting, Standing
<1>3. \A i \in D : Asked[i] \in done[i]
  BY <1>1 DEF Asked, Active
<1>4. Standing' = [i \in 1..MaxRows |-> IF i \in D THEN "done"
                                        ELSE IF i \in F THEN "failed" ELSE Standing[i]]
  BY DEF Standing, Active
<1>5. Asked' = Asked
  BY DEF Asked
<1>6. O!Settle(D, F)
  BY <1>2, <1>3, <1>4, <1>5 DEF O!Settle
<1> HIDE DEF D, F
<1> QED
  BY <1>2, <1>6 DEF O!Next

\* One row is written: a new one, or one that waits or failed.
LEMMA RowWritten ==
  ASSUME done' = done, NEW k \in 1..MaxRows, k \in Ids', Ids \subseteq Ids', Ids' \subseteq Ids \cup {k},
         k \in Ids => write_queue[k].status # "applied",
         write_queue'[k] \in Row, Active(write_queue'[k]),
         \A i \in Ids \ {k} : write_queue'[i] = write_queue[i]
  PROVE  O!Next
<1>1. Standing[k] # "done"
  BY DEF Standing
<1>2. Standing' = [Standing EXCEPT ![k] = "queued"]
  BY DEF Standing
<1>3. Asked' = [Asked EXCEPT ![k] = Work(write_queue'[k])]
  BY DEF Asked
<1>4. Work(write_queue'[k]) \in Works
  BY WorkTyped
<1>5. O!Write(k)
  BY <1>1, <1>2, <1>3, <1>4 DEF O!Write
<1> QED
  BY <1>5 DEF O!Next

\* Every step is a write, a settlement, something carried out, or nothing.
LEMMA StepsAreOutboxSteps ==
  ASSUME DeliveryInv, [DeliveryNext]_deliveryVars
  PROVE  [O!Next]_outboxBar
<1> USE DEF DeliveryInv
<1>1. /\ TypeOK /\ DOMAIN batch \subseteq Ids /\ DOMAIN acks \subseteq DOMAIN batch
      /\ Ids \subseteq 1..MaxRows /\ Len(write_queue) \in Nat /\ MaxRows \in Nat
  BY TableShape, LeaseAssumption DEF DeliveryTypeOK, Bounded, Ids
<1>2. ASSUME LeaseQueueItems, done' = done PROVE UNCHANGED outboxBar
  <2>1. Ids' = Ids
    BY <1>1, <1>2, IdsStay DEF LeaseQueueItems, Next
  <2>2. \A i \in Ids : write_queue'[i].status = "applied" <=> write_queue[i].status = "applied"
    BY <1>1, <1>2, LeaseKeepsRow DEF Active
  <2> QED
    BY <1>1, <1>2, <2>1, <2>2, LeaseKeepsRow, SameStanding
<1>3. ASSUME TimePasses PROVE UNCHANGED outboxBar
  <2>1. Ids' = Ids /\ done' = done
    BY <1>1, <1>3, IdsStay DEF TimePasses, Tick, Next, bearVars
  <2> QED
    BY <1>1, <1>3, <2>1, TickKeepsRow, SameStanding DEF TimePasses, Active
<1>4. ASSUME AckQueueItems(acks), phase = "acking", done' = done PROVE O!Next
  <2>1. Ids' = Ids
    <3>1. [Next]_vars /\ Next
      BY <1>1, <1>4 DEF Next, AcksAreOutcomes
    <3> QED
      BY <1>1, <1>4, <3>1, IdsStay DEF AckQueueItems
  <2>2. ASSUME NEW i \in DOMAIN acks, write_queue[i].status = "processing", acks[i] = "applied"
        PROVE  Work(write_queue[i]) \in done[i]
    BY <1>1, <1>4, <2>2 DEF LateAcksAreCurrent, ReportsAreTrue
  <2>3. \A i \in DOMAIN acks : acks[i] \in {"applied", "failed"}
    BY DEF DeliveryTypeOK, Outcomes
  <2> QED
    BY <1>1, <1>4, <2>1, <2>2, <2>3, AckKeepsRow, RowsSettle DEF Active
<1>5. ASSUME NEW n \in NoteIds \ {NULL}, PushDeletes(n) PROVE O!Next
  <2>1. Ids' = Ids /\ done' = done
    BY <1>1, <1>5, IdsStay DEF PushDeletes, FailQueueItemsForDeletedNotes, Next, bearVars
  <2> QED
    BY <1>1, <1>5, <2>1, DeleteKeepsRow, RowsSettle DEF PushDeletes
<1>6. ASSUME NEW r \in Requests, Submit(r) PROVE O!Next \/ UNCHANGED outboxBar
  <2>1. (EnqueueWrite(r) \/ CoalesceCreateUpdate(r)) /\ done' = done
    BY <1>6 DEF Submit, bearVars
  <2>2. CASE write_queue' = write_queue
    BY <2>1, <2>2 DEF outboxBar, Standing, Asked, Ids
  <2>3. CASE \E i \in Ids : Rewritten(i)
    <3>1. PICK i \in Ids : Rewritten(i)
      BY <2>3
    <3> QED
      BY <1>1, <2>1, <3>1, RowWritten DEF Rewritten, Ids, Active
  <2>4. CASE InsertRow(r)
    <3> DEFINE k == Len(write_queue) + 1
    <3>1. /\ k \in 1..MaxRows /\ k \notin Ids /\ Ids' = Ids \cup {k}
          /\ \A i \in Ids : write_queue'[i] = write_queue[i]
      BY <1>1, <2>4, InsertAddsRow DEF InsertRow, Ids
    <3>2. write_queue'[k] \in Row
      <4>1. write_queue' \in Seq(Row) /\ Len(write_queue') = k
        BY <1>1, <2>4, InsertAddsRow
      <4> QED
        BY <1>1, <4>1
    <3>3. write_queue'[k].status = "pending"
      <4>1. write_queue'[k] = NewRow(r)
        BY <1>1, <2>4, InsertAddsRow
      <4> HIDE DEF k
      <4> QED
        BY <4>1 DEF NewRow
    <3> HIDE DEF k
    <3> QED
      BY <2>1, <3>1, <3>2, <3>3, RowWritten DEF Active
  <2> QED
    BY <1>1, <2>1, <2>2, <2>3, <2>4, SubmitEffect
<1>7. ASSUME NEW i \in 1..MaxRows, ItemStep(i) PROVE O!Next \/ UNCHANGED outboxBar
  <2>1. UNCHANGED vars /\ phase = "applying" /\ i \in DOMAIN batch
    BY <1>7 DEF ItemStep, ApplyItem, ApplyItemFails, ApplyItemReportsFailure, ItemDone, Todo
  <2>2. Standing' = Standing /\ Asked' = Asked
    BY <2>1 DEF vars, Standing, Asked, Ids
  <2>3. done' = done \/ Done(i)
    BY <1>7 DEF ItemStep, ApplyItem, ApplyItemFails, ApplyItemReportsFailure, Perform, bearVars
  <2>4. i \in O!Waiting /\ Asked[i] = batch[i]
    BY <1>1, <2>1 DEF BatchStillLeased, O!Waiting, Standing, Asked, Active
  <2>5. CASE Done(i)
    BY <2>2, <2>4, <2>5 DEF Done, O!Next, O!Perform
  <2> QED
    BY <2>2, <2>3, <2>5 DEF outboxBar
<1>8. CASE UNCHANGED deliveryVars \/ BridgeDies
  BY <1>8 DEF deliveryVars, BridgeDies, bearVars, vars, outboxBar, Standing, Asked, Ids
<1>9. CASE DeliveryNext
  BY <1>2, <1>3, <1>4, <1>5, <1>6, <1>7, <1>8, <1>9
     DEF DeliveryNext, BridgeStep, Faulty, LeaseBatch, LeaseAnswerLost, AckBatch, AckAnswerLost,
         ItemStep, bearVars
<1> QED
  BY <1>8, <1>9

\* The queue with its bridge implements the hub's promise: under lost answers,
\* deaths of the bridge, expired leases and repeated acknowledgements a row is
\* confirmed only after what it asks for was carried out, and the bridge acts
\* for waiting rows only.
THEOREM DeliveryKeepsPromise == DeliverySpec => KeepsPromise
<1>1. DeliveryInit => O!Init
  <2> SUFFICES ASSUME DeliveryInit PROVE O!Init
    OBVIOUS
  <2>1. Ids = {}
    BY DEF DeliveryInit, Init, Ids
  <2> QED
    BY <2>1 DEF DeliveryInit, O!Init, Standing, Asked
<1>2. DeliveryInv /\ [DeliveryNext]_deliveryVars => [O!Next]_outboxBar
  BY StepsAreOutboxSteps
<1> QED
  BY <1>1, <1>2, DeliveryInvariant, PTL DEF DeliverySpec, KeepsPromise, O!Spec, O!outboxVars, outboxBar

-----------------------------------------------------------------------------
(***************************************************************************)
(* Without faults a row is leased, applied and acknowledged once.          *)
(***************************************************************************)
\* The batch is what is leased, and at its end there is an outcome for each.
BatchIsLeased ==
  /\ \A i \in Ids : write_queue[i].status = "processing" => i \in DOMAIN batch
  /\ \A i \in DOMAIN batch : write_queue[i].status = "processing"
  /\ phase = "acking" => Todo = {}

\* What Bear has done for a row is applied, or about to be acknowledged.
Reported(i) ==
  \/ i \in Ids /\ write_queue[i].status = "applied"
  \/ i \in DOMAIN acks /\ acks[i] = "applied"

RunsAreReported == \A i \in 1..MaxRows : runs[i] <= 1 /\ (runs[i] # 0 => Reported(i))

Undisturbed == BatchIsLeased /\ RunsAreReported

FaultlessInv == faults = 0 => Undisturbed

LEMMA InitFaultlessInv == DeliveryInit => FaultlessInv
<1> SUFFICES ASSUME DeliveryInit PROVE Undisturbed
  BY DEF FaultlessInv
<1>1. Ids = {} /\ DOMAIN batch = {} /\ phase = "idle"
  BY DEF DeliveryInit, Init, Ids, NoItems
<1> QED
  BY <1>1 DEF DeliveryInit, Undisturbed, BatchIsLeased, RunsAreReported

LEMMA FaultlessStep ==
  ASSUME DeliveryInv, FaultlessInv, DeliveryNext
  PROVE  FaultlessInv'
<1> SUFFICES ASSUME faults' = 0 PROVE Undisturbed'
  BY DEF FaultlessInv
<1>1. /\ TypeOK /\ DOMAIN batch \subseteq Ids /\ DOMAIN acks \subseteq DOMAIN batch
      /\ Ids \subseteq 1..MaxRows /\ Len(write_queue) \in Nat /\ MaxRows \in Nat
      /\ faults \in Nat /\ runs \in [1..MaxRows -> Nat]
  BY TableShape, LeaseAssumption DEF DeliveryInv, DeliveryTypeOK, Bounded, Ids
<1>2. ~Fault
  BY <1>1 DEF Fault
<1>3. faults = 0
  BY <1>1, <1>2 DEF DeliveryNext, BridgeStep, Faulty, LeaseBatch, LeaseAnswerLost, AckBatch,
                    AckAnswerLost, BridgeDies, ApplyItem, ApplyItemFails, ApplyItemReportsFailure,
                    Submit, PushDeletes, TimePasses, NoFault
<1>4. BatchIsLeased /\ RunsAreReported
  BY <1>3 DEF FaultlessInv, Undisturbed
<1>5. ASSUME NEW r \in Requests, Submit(r) PROVE Undisturbed'
  <2>1. /\ EnqueueWrite(r) \/ CoalesceCreateUpdate(r)
        /\ UNCHANGED <<phase, batch, acks, runs>>
    BY <1>5 DEF Submit, bearVars, bridgeVars
  <2>2. \A i \in Ids : /\ i \in Ids'
                       /\ write_queue[i].status = "applied" => write_queue'[i].status = "applied"
                       /\ write_queue'[i].status = "processing" <=> write_queue[i].status = "processing"
    <3>1. [Next]_vars
      BY <1>5, StepsAreQueueSteps DEF DeliveryNext
    <3>2. Ids \subseteq Ids'
      BY <3>1, TableStepKeeps
    <3>3. CASE \E i \in Ids : Rewritten(i)
      BY <3>2, <3>3 DEF Rewritten
    <3>4. CASE InsertRow(r)
      BY <1>1, <3>2, <3>4, InsertAddsRow
    <3> QED
      BY <1>1, <2>1, <3>2, <3>3, <3>4, SubmitEffect
  <2>3. \A i \in Ids' \ Ids : write_queue'[i].status # "processing"
    <3>1. CASE InsertRow(r)
      <4>1. Ids' \subseteq Ids \cup {Len(write_queue) + 1}
        BY <1>1, <3>1, InsertAddsRow DEF Ids
      <4>2. write_queue'[Len(write_queue) + 1] = NewRow(r) /\ NewRow(r).status = "pending"
        BY <1>1, <3>1, InsertAddsRow DEF NewRow
      <4> QED
        BY <4>1, <4>2
    <3>2. CASE write_queue' = write_queue \/ \E i \in Ids : Rewritten(i)
      BY <3>2 DEF Rewritten, Ids
    <3> QED
      BY <1>1, <2>1, <3>1, <3>2, SubmitEffect
  <2>4. BatchIsLeased'
    BY <1>1, <1>4, <2>1, <2>2, <2>3 DEF BatchIsLeased, Todo
  <2>5. RunsAreReported'
    BY <1>4, <2>1, <2>2 DEF RunsAreReported, Reported
  <2> QED
    BY <2>4, <2>5 DEF Undisturbed
<1>6. ASSUME TimePasses PROVE Undisturbed'
  <2>1. Ids' = Ids /\ UNCHANGED <<phase, batch, acks, runs>>
    BY <1>1, <1>6, IdsStay DEF TimePasses, Tick, Next, bearVars, bridgeVars
  <2>2. \A i \in Ids : write_queue'[i].status = write_queue[i].status
    BY <1>1, <1>6, TickKeepsRow DEF TimePasses
  <2> QED
    BY <1>1, <1>4, <2>1, <2>2 DEF Undisturbed, BatchIsLeased, RunsAreReported, Reported, Todo
<1>7. ASSUME LeaseBatch PROVE Undisturbed'
  <2>1. Ids' = Ids /\ runs' = runs /\ DOMAIN batch' = LeasedNow /\ LeasedNow \subseteq Ids
    BY <1>1, <1>7, IdsStay DEF LeaseBatch, LeaseQueueItems, Next, bearVars, LeasedNow, Leasable
  <2>2. DOMAIN batch = {} /\ DOMAIN acks = {}
    BY <1>1, <1>7 DEF LeaseBatch, DeliveryInv, IdleHoldsNothing
  <2>3. \A i \in Ids : write_queue[i].status # "processing"
    BY <1>4, <2>2 DEF BatchIsLeased
  <2>4. \A i \in Ids : /\ write_queue'[i].status = "processing" <=> i \in LeasedNow
                       /\ write_queue[i].status = "applied" => write_queue'[i].status = "applied"
    BY <1>1, <1>7, <2>3, LeaseKeepsRow DEF LeaseBatch, Active
  <2>5. phase' # "acking"
    BY <1>7 DEF LeaseBatch
  <2>6. RunsAreReported'
    BY <1>4, <2>1, <2>2, <2>4 DEF RunsAreReported, Reported
  <2> QED
    BY <2>1, <2>4, <2>5, <2>6 DEF Undisturbed, BatchIsLeased
<1>8. ASSUME NEW i \in 1..MaxRows, ApplyItem(i) \/ ApplyItemFails(i) PROVE Undisturbed'
  <2>1. PICK o \in Outcomes : ItemDone(i, o) /\ (o = "failed" => runs' = runs)
    BY <1>8 DEF ApplyItem, ApplyItemFails, bearVars, Outcomes
  <2>2. /\ UNCHANGED vars /\ batch' = batch /\ i \in DOMAIN batch /\ i \notin DOMAIN acks
        /\ DOMAIN acks' = DOMAIN acks \cup {i} /\ acks'[i] = o
        /\ \A j \in DOMAIN acks : acks'[j] = acks[j]
        /\ phase' = IF DOMAIN batch \ DOMAIN acks = {i} THEN "acking" ELSE "applying"
    BY <2>1 DEF ItemDone, Todo, Put
  <2>3. runs' = runs \/ runs' = [runs EXCEPT ![i] = @ + 1]
    BY <1>8 DEF ApplyItem, ApplyItemFails, Perform, bearVars
  <2>4. runs[i] = 0
    BY <1>1, <1>4, <2>2 DEF RunsAreReported, Reported, BatchIsLeased
  <2>5. o # "failed" => o = "applied"
    BY DEF Outcomes
  <2>6. BatchIsLeased'
    BY <1>4, <2>2 DEF BatchIsLeased, vars, Ids, Todo
  <2>7. RunsAreReported'
    BY <1>1, <1>4, <2>1, <2>2, <2>3, <2>4, <2>5 DEF RunsAreReported, Reported, vars, Ids
  <2> QED
    BY <2>6, <2>7 DEF Undisturbed
<1>9. ASSUME AckBatch PROVE Undisturbed'
  <2>1. runs' = runs /\ DOMAIN batch' = {} /\ phase' = "idle"
    BY <1>9 DEF AckBatch, bearVars, NoItems
  <2>2. Ids' = Ids
    <3>1. Next
      BY <1>1, <1>9 DEF Next, DeliveryInv, AcksAreOutcomes, AckBatch
    <3> QED
      BY <1>1, <1>9, <3>1, IdsStay DEF AckBatch, AckQueueItems
  <2>3. DOMAIN acks = DOMAIN batch
    BY <1>1, <1>4, <1>9 DEF AckBatch, BatchIsLeased, Todo
  <2>4. \A i \in DOMAIN acks : acks[i] \in {"applied", "failed"}
    BY DEF DeliveryInv, DeliveryTypeOK, Outcomes
  <2>5. \A i \in Ids : /\ write_queue'[i].status # "processing"
                       /\ Reported(i) => write_queue'[i].status = "applied"
    BY <1>1, <1>4, <1>9, <2>3, <2>4, AckKeepsRow DEF AckBatch, BatchIsLeased, Reported
  <2>6. RunsAreReported'
    BY <1>1, <1>4, <2>1, <2>2, <2>5 DEF RunsAreReported, Reported
  <2> QED
    BY <2>1, <2>2, <2>5, <2>6 DEF Undisturbed, BatchIsLeased
<1>10. ASSUME NEW n \in NoteIds \ {NULL}, PushDeletes(n) PROVE Undisturbed'
  <2>1. Ids' = Ids /\ UNCHANGED <<phase, batch, acks, runs>>
    BY <1>1, <1>10, IdsStay DEF PushDeletes, FailQueueItemsForDeletedNotes, Next, bearVars, bridgeVars
  <2>2. DOMAIN batch = {}
    BY <1>10 DEF PushDeletes, DeliveryInv, IdleHoldsNothing
  <2>3. \A i \in Ids : /\ write_queue'[i].status = "processing" => write_queue[i].status = "processing"
                       /\ write_queue[i].status = "applied" => write_queue'[i].status = "applied"
    BY <1>1, <1>10, DeleteKeepsRow DEF PushDeletes, Active
  <2> QED
    BY <1>1, <1>4, <2>1, <2>2, <2>3 DEF Undisturbed, BatchIsLeased, RunsAreReported, Reported, Todo
<1> QED
  BY <1>2, <1>5, <1>6, <1>7, <1>8, <1>9, <1>10
     DEF DeliveryNext, BridgeStep, Faulty, LeaseAnswerLost, AckAnswerLost, BridgeDies,
         ApplyItemReportsFailure

LEMMA FaultlessInvariant == DeliverySpec => []FaultlessInv
<1>1. DeliveryInv /\ FaultlessInv /\ [DeliveryNext]_deliveryVars => FaultlessInv'
  <2> SUFFICES ASSUME DeliveryInv, FaultlessInv, [DeliveryNext]_deliveryVars PROVE FaultlessInv'
    OBVIOUS
  <2>1. CASE UNCHANGED deliveryVars
    BY <2>1 DEF deliveryVars, vars, bridgeVars, bearVars, FaultlessInv, Undisturbed, BatchIsLeased,
                RunsAreReported, Reported, Todo, Ids
  <2> QED
    BY <2>1, FaultlessStep
<1> QED
  BY <1>1, InitFaultlessInv, DeliveryInvariant, PTL DEF DeliverySpec

\* Bear performs the work of a row at most once as long as nothing is lost and
\* nobody dies, whatever consumers replay, coalesce and retry, and however
\* late the bridge is: no lease that runs out under a slow bridge leads to a
\* second execution.
THEOREM DuplicatesNeedAFaultHolds == DeliverySpec => []DuplicatesNeedAFault
<1>1. FaultlessInv => DuplicatesNeedAFault
  BY DEF FaultlessInv, Undisturbed, RunsAreReported, DuplicatesNeedAFault
<1> QED
  BY <1>1, FaultlessInvariant, PTL
=============================================================================
