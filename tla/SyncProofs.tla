----------------------------- MODULE SyncProofs -----------------------------
(***************************************************************************)
(* Theorems about the synchronisation of notes for every set of calls,     *)
(* notes and handlers and every number of edits and faults.                *)
(***************************************************************************)
EXTENDS NoteSync, WriteQueueProofs, WellFoundedInduction

-----------------------------------------------------------------------------
(***************************************************************************)
(* The loop of AckQueueItems.                                              *)
(***************************************************************************)
\* A set of naturals with zero and every successor has all of them.
LEMMA NatSetInduction ==
  ASSUME NEW S, 0 \in S, \A n \in Nat : n \in S => n + 1 \in S
  PROVE  Nat \subseteq S
<1> DEFINE T == Nat \ S
           R == {p \in Nat \X Nat : p[1] < p[2]}
<1> SUFFICES ASSUME T # {} PROVE FALSE
  OBVIOUS
<1>1. IsWellFoundedOn(R, Nat)
  BY NatLessThanWellFounded, Zenon DEF OpToRel
<1>2. PICK x \in T : \A y \in T : <<y, x>> \notin R
  <2> HIDE DEF R
  <2> QED
    BY <1>1, WFMin, Zenon
<1>3. x # 0 /\ x \in Nat
  OBVIOUS
<1>4. x - 1 \in Nat /\ <<x - 1, x>> \in R
  BY <1>3
<1>5. x - 1 \in S
  BY <1>2, <1>4
<1>6. x \in S
  BY <1>3, <1>4, <1>5
<1> QED
  BY <1>6

\* The table after row i, as the loop leaves it when it runs to row m.
AckLoop(acks_, m) ==
  CHOOSE f : f = [i \in 0..m |-> IF i = 0 THEN notes ELSE AckStep(acks_, f[i - 1], i)]

LEMMA AfterAcksIsLoop ==
  ASSUME NEW acks_
  PROVE  AfterAcks(acks_) = AckLoop(acks_, Len(write_queue))
BY DEF AfterAcks, AckLoop

LEMMA AckLoopDefined ==
  ASSUME NEW acks_, NEW m \in Nat
  PROVE  AckLoop(acks_, m) =
           [i \in 0..m |-> IF i = 0 THEN notes ELSE AckStep(acks_, AckLoop(acks_, m)[i - 1], i)]
<1> DEFINE S == {k \in Nat : \E f : f = [i \in 0..k |-> IF i = 0 THEN notes
                                                       ELSE AckStep(acks_, f[i - 1], i)]}
<1>1. 0 \in S
  <2> DEFINE f == [i \in 0..0 |-> notes]
  <2>1. f = [i \in 0..0 |-> IF i = 0 THEN notes ELSE AckStep(acks_, f[i - 1], i)]
    OBVIOUS
  <2> QED
    BY <2>1
<1>2. ASSUME NEW k \in Nat, k \in S
      PROVE  k + 1 \in S
  <2>1. PICK f : f = [i \in 0..k |-> IF i = 0 THEN notes ELSE AckStep(acks_, f[i - 1], i)]
    BY <1>2
  <2> DEFINE g == [i \in 0..(k + 1) |-> IF i = k + 1 THEN AckStep(acks_, f[k], k + 1) ELSE f[i]]
  <2>2. ASSUME NEW i \in 0..(k + 1)
        PROVE  g[i] = IF i = 0 THEN notes ELSE AckStep(acks_, g[i - 1], i)
    <3>1. CASE i = 0
      BY <2>1, <3>1
    <3>2. CASE i \in 1..k
      <4>1. f[i] = AckStep(acks_, f[i - 1], i)
        BY <2>1, <3>2
      <4>2. g[i] = f[i] /\ g[i - 1] = f[i - 1] /\ i # 0
        BY <3>2
      <4> QED
        BY <4>1, <4>2
    <3>3. CASE i = k + 1
      <4>1. g[i - 1] = f[k] /\ g[i] = AckStep(acks_, f[k], k + 1)
        BY <3>3
      <4> QED
        BY <3>3, <4>1
    <3> QED
      BY <3>1, <3>2, <3>3
  <2>3. g = [i \in 0..(k + 1) |-> g[i]]
    OBVIOUS
  <2>4. g = [i \in 0..(k + 1) |-> IF i = 0 THEN notes ELSE AckStep(acks_, g[i - 1], i)]
    <3> HIDE DEF g
    <3> QED
      BY <2>2, <2>3
  <2>5. \E h : h = [i \in 0..(k + 1) |-> IF i = 0 THEN notes ELSE AckStep(acks_, h[i - 1], i)]
    <3> HIDE DEF g
    <3> QED
      BY <2>4, Zenon
  <2> QED
    BY <2>5
<1>3. m \in S
  BY <1>1, <1>2, NatSetInduction
<1> QED
  BY <1>3 DEF AckLoop

LEMMA AfterAcksSteps ==
  ASSUME TypeOK
  PROVE  /\ AfterAcks(acks)[0] = notes
         /\ \A i \in Ids : AfterAcks(acks)[i] = AckStep(acks, AfterAcks(acks)[i - 1], i)
<1> DEFINE m == Len(write_queue)
<1>1. m \in Nat /\ Ids = 1..m
  BY TableShape DEF Ids
<1>2. AckLoop(acks, m) =
        [i \in 0..m |-> IF i = 0 THEN notes ELSE AckStep(acks, AckLoop(acks, m)[i - 1], i)]
  BY <1>1, AckLoopDefined
<1> HIDE DEF m
<1>3. AckLoop(acks, m)[0] = notes
  BY <1>1, <1>2
<1>4. \A i \in 1..m : AckLoop(acks, m)[i] = AckStep(acks, AckLoop(acks, m)[i - 1], i)
  BY <1>1, <1>2
<1> QED
  BY <1>1, <1>3, <1>4, AfterAcksIsLoop DEF m

\* What the bridge may report of an item.
AckRecord ==
  [outcome : Outcomes, conflict_resolved : BOOLEAN,
   bear_id : BearIds \cup {NULL}, bear_modified_at : Seconds \cup {NULL}]

AcksTypeOK == DOMAIN acks \subseteq Ids /\ acks \in [DOMAIN acks -> AckRecord]

\* Row i of the batch moves the status of note n.
AckedBy(n, i) == AckChangesNote(acks, i) /\ write_queue[i].note_id = n

GivesId(n, i, b) == /\ AckedBy(n, i) /\ acks[i].bear_id = b /\ b # NULL
                    /\ ~acks[i].conflict_resolved

(***************************************************************************)
(* What the rows up to k make of the note n that was old before the loop.  *)
(***************************************************************************)
IdFate(n, old, new, k) ==
  new.bear_id # old.bear_id => \E i \in 1..k : GivesId(n, i, new.bear_id)

ConflictFate(n, old, new, k) ==
  /\ old.sync_status = "conflict" /\ new.sync_status # "conflict" =>
       \E i \in 1..k : AckedBy(n, i) /\ acks[i].conflict_resolved
  /\ old.sync_status # "conflict" => new.sync_status # "conflict"

SettledFate(n, old, new, k) ==
  new.sync_status = "synced" =>
    \/ old.sync_status = "synced"
    \/ \E i \in 1..k :
         /\ AckedBy(n, i) /\ ~OthersActive(acks, i)
         /\ \/ acks[i].conflict_resolved
            \/ acks[i].bear_id = NULL
            \/ \E j \in 1..k : GivesId(n, j, new.bear_id)

StatusFate(n, old, new, k) ==
  new.sync_status # old.sync_status =>
    \/ old.sync_status = "conflict"
    \/ new.bear_id # NULL
    \/ \E i \in 1..k : /\ AckedBy(n, i) /\ acks[i].bear_id = NULL
                       /\ ~acks[i].conflict_resolved

AckFate(n, old, new, k) ==
  IF Exists(old)
  THEN /\ new \in NoteRow
       /\ new.body = old.body /\ new.trashed = old.trashed
       /\ new.modified_at = old.modified_at
       /\ IdFate(n, old, new, k) /\ ConflictFate(n, old, new, k)
       /\ SettledFate(n, old, new, k) /\ StatusFate(n, old, new, k)
  ELSE new = old

LEMMA RowsExist ==
  ASSUME NEW row \in NoteRow
  PROVE  Exists(row)
BY NotesAssumption DEF Exists

LEMMA AckFateGrows ==
  ASSUME NEW n, NEW old, NEW new, NEW k \in Nat, AckFate(n, old, new, k)
  PROVE  AckFate(n, old, new, k + 1)
<1>1. 1..k \subseteq 1..(k + 1)
  OBVIOUS
<1>2. IdFate(n, old, new, k) => IdFate(n, old, new, k + 1)
  BY <1>1, Zenon DEF IdFate
<1>3. ConflictFate(n, old, new, k) => ConflictFate(n, old, new, k + 1)
  BY <1>1, Zenon DEF ConflictFate
<1>4. SettledFate(n, old, new, k) => SettledFate(n, old, new, k + 1)
  BY <1>1, Zenon DEF SettledFate
<1>5. StatusFate(n, old, new, k) => StatusFate(n, old, new, k + 1)
  BY <1>1, Zenon DEF StatusFate
<1> QED
  BY <1>2, <1>3, <1>4, <1>5 DEF AckFate

LEMMA AckFateStep ==
  ASSUME AcksTypeOK, NEW n, NEW old, Exists(old), NEW mid, NEW k \in Nat,
         AckFate(n, old, mid, k), AckedBy(n, k + 1)
  PROVE  AckFate(n, old, AckedNote(mid, acks[k + 1], OthersActive(acks, k + 1)), k + 1)
<1> DEFINE i == k + 1
           ack == acks[i]
           others == OthersActive(acks, i)
           new == AckedNote(mid, ack, others)
<1>1. /\ mid \in NoteRow /\ Exists(mid)
      /\ AckFate(n, old, mid, i)
  BY AckFateGrows, RowsExist DEF AckFate
<1>2. /\ i \in 1..i /\ i \in DOMAIN acks /\ ack \in AckRecord
      /\ AckedBy(n, i)
  BY DEF AckedBy, AckChangesNote, AcksTypeOK
<1> SUFFICES AckFate(n, old, new, i)
  OBVIOUS
<1> HIDE DEF i, ack, others
<1>3. CASE new = mid
  BY <1>1, <1>3
<1>4. CASE ack.conflict_resolved /\ new # mid
  <2>1. /\ mid.sync_status = "conflict" /\ ~others
        /\ new = Settled(mid)
    BY <1>1, <1>4 DEF new, AckedNote, AckedConflictCopy
  <2>2. /\ new \in NoteRow /\ new.sync_status = "synced"
        /\ new.bear_id = mid.bear_id /\ new.body = mid.body /\ new.trashed = mid.trashed
        /\ new.modified_at = mid.modified_at
    BY <1>1, <2>1 DEF Settled, NoteRow, SyncStatuses
  <2>3. IdFate(n, old, new, i)
    BY <1>1, <2>2 DEF IdFate, AckFate
  <2>4. old.sync_status = "conflict"
    BY <1>1, <2>1 DEF AckFate, ConflictFate
  <2>5. ConflictFate(n, old, new, i) /\ StatusFate(n, old, new, i)
    BY <1>2, <1>4, <2>4 DEF ConflictFate, StatusFate, ack
  <2>6. SettledFate(n, old, new, i)
    BY <1>2, <1>4, <2>1 DEF SettledFate, ack, others
  <2> HIDE DEF new
  <2> QED
    BY <1>1, <2>2, <2>3, <2>5, <2>6 DEF AckFate
<1>5. CASE ~ack.conflict_resolved /\ new # mid /\ ack.bear_id # NULL
  <2>1. /\ mid.sync_status # "conflict"
        /\ new = AckedCreate(mid, ack, others)
    BY <1>1, <1>5 DEF new, AckedNote
  <2>2. /\ new \in NoteRow /\ new.bear_id = ack.bear_id
        /\ new.sync_status = IF others THEN "pending_to_bear" ELSE "synced"
        /\ new.body = mid.body /\ new.trashed = mid.trashed
        /\ new.modified_at = mid.modified_at
    BY <1>1, <1>2, <1>5, <2>1 DEF AckedCreate, NoteRow, SyncStatuses, AckRecord
  <2>3. GivesId(n, i, new.bear_id)
    BY <1>2, <1>5, <2>2 DEF GivesId, ack
  <2>4. old.sync_status # "conflict" \/ \E j \in 1..i : AckedBy(n, j) /\ acks[j].conflict_resolved
    BY <1>1, <2>1 DEF AckFate, ConflictFate
  <2>5. IdFate(n, old, new, i) /\ StatusFate(n, old, new, i) /\ ConflictFate(n, old, new, i)
    BY <1>2, <1>5, <2>2, <2>3, <2>4 DEF IdFate, StatusFate, ConflictFate
  <2>6. SettledFate(n, old, new, i)
    BY <1>2, <2>2, <2>3 DEF SettledFate, others
  <2> HIDE DEF new
  <2> QED
    BY <1>1, <2>2, <2>5, <2>6 DEF AckFate
<1>6. CASE ~ack.conflict_resolved /\ new # mid /\ ack.bear_id = NULL
  <2>1. /\ mid.sync_status # "conflict"
        /\ new = AckedChange(mid, ack, others)
    BY <1>1, <1>6 DEF new, AckedNote
  <2>2. /\ new \in NoteRow /\ new.bear_id = mid.bear_id
        /\ new.sync_status = IF others THEN mid.sync_status ELSE "synced"
        /\ new.body = mid.body /\ new.trashed = mid.trashed
        /\ new.modified_at = mid.modified_at
    <3>1. CASE others
      BY <1>1, <1>2, <2>1, <3>1 DEF AckedChange, NoteRow, AckRecord
    <3>2. CASE ~others
      BY <1>1, <2>1, <3>2 DEF AckedChange, Settled, NoteRow, SyncStatuses
    <3> QED
      BY <3>1, <3>2
  <2>3. IdFate(n, old, new, i)
    BY <1>1, <2>2 DEF AckFate, IdFate
  <2>4. StatusFate(n, old, new, i)
    BY <1>2, <1>6 DEF StatusFate, ack
  <2>5. ConflictFate(n, old, new, i)
    BY <1>1, <2>1, <2>2 DEF AckFate, ConflictFate
  <2>6. SettledFate(n, old, new, i)
    <3>1. CASE others
      BY <1>1, <2>2, <3>1 DEF AckFate, SettledFate
    <3>2. CASE ~others
      BY <1>2, <1>6, <3>2 DEF SettledFate, others, ack
    <3> QED
      BY <3>1, <3>2
  <2> HIDE DEF new
  <2> QED
    BY <1>1, <2>2, <2>3, <2>4, <2>5, <2>6 DEF AckFate
<1>7. ack.conflict_resolved \in BOOLEAN
  BY <1>2 DEF AckRecord
<1> QED
  BY <1>3, <1>4, <1>5, <1>6, <1>7

\* The loop's effect on every note, after each row.
LEMMA AckLoopFate ==
  ASSUME TypeOK, NotesTypeOK, AcksTypeOK, NEW l \in 0..Len(write_queue)
  PROVE  /\ AfterAcks(acks)[l] \in [HubIds -> NoteRow \cup {NULL, GONE}]
         /\ \A n \in HubIds : AckFate(n, notes[n], AfterAcks(acks)[l][n], l)
<1> DEFINE m == Len(write_queue)
           T == [HubIds -> NoteRow \cup {NULL, GONE}]
           Good(k) == /\ AfterAcks(acks)[k] \in T
                      /\ \A n \in HubIds : AckFate(n, notes[n], AfterAcks(acks)[k][n], k)
           S == {k \in Nat : k <= m => Good(k)}
<1>1. m \in Nat /\ Ids = 1..m
  BY TableShape DEF Ids
<1>2. 0 \in S
  <2>1. AfterAcks(acks)[0] = notes /\ notes \in T
    BY AfterAcksSteps DEF NotesTypeOK
  <2>2. ASSUME NEW n \in HubIds PROVE AckFate(n, notes[n], notes[n], 0)
    BY <2>1 DEF AckFate, IdFate, ConflictFate, SettledFate, StatusFate, Exists
  <2> QED
    BY <2>1, <2>2
<1>3. ASSUME NEW k \in Nat, k \in S
      PROVE  k + 1 \in S
  <2> SUFFICES ASSUME k + 1 <= m PROVE Good(k + 1)
    OBVIOUS
  <2> DEFINE table == AfterAcks(acks)[k]
             i == k + 1
  <2>1. table \in T /\ \A n \in HubIds : AckFate(n, notes[n], table[n], k)
    BY <1>1, <1>3
  <2>2. i \in Ids /\ i - 1 = k
    BY <1>1
  <2>3. AfterAcks(acks)[i] = AckStep(acks, table, i)
    BY <2>2, AfterAcksSteps
  <2>4. CASE ~AckChangesNote(acks, i)
    <3>1. AfterAcks(acks)[i] = table
      BY <2>3, <2>4 DEF AckStep
    <3> HIDE DEF table
    <3> QED
      BY <2>1, <3>1, AckFateGrows
  <2>5. CASE AckChangesNote(acks, i)
    <3> DEFINE q == write_queue[i].note_id
               new == AckedNote(table[q], acks[i], OthersActive(acks, i))
    <3>1. q \in HubIds
      BY <2>5 DEF AckChangesNote
    <3>2. AfterAcks(acks)[i] = [table EXCEPT ![q] = new]
      BY <2>1, <2>3, <2>5, <3>1 DEF AckStep
    <3>3. AckFate(q, notes[q], new, i)
      <4>1. AckedBy(q, i) /\ AckFate(q, notes[q], table[q], k)
        BY <2>1, <2>5, <3>1 DEF AckedBy
      <4>2. CASE Exists(notes[q])
        <5> HIDE DEF table
        <5> QED
          BY <4>1, <4>2, AckFateStep
      <4>3. CASE ~Exists(notes[q])
        <5>1. table[q] = notes[q]
          BY <4>1, <4>3 DEF AckFate
        <5>2. new = notes[q]
          BY <4>3, <5>1 DEF AckedNote
        <5> QED
          BY <4>3, <5>2 DEF AckFate
      <4> QED
        BY <4>2, <4>3
    <3>4. new \in NoteRow \cup {NULL, GONE}
      <4>1. notes[q] \in NoteRow \cup {NULL, GONE}
        BY <3>1 DEF NotesTypeOK
      <4> HIDE DEF new, q
      <4> QED
        BY <3>3, <4>1 DEF AckFate, Exists
    <3> HIDE DEF table, new, q
    <3>5. AfterAcks(acks)[i] \in T
      BY <2>1, <3>1, <3>2, <3>4
    <3>6. ASSUME NEW n \in HubIds PROVE AckFate(n, notes[n], AfterAcks(acks)[i][n], i)
      <4>1. CASE n = q
        BY <2>1, <3>1, <3>2, <3>3, <4>1
      <4>2. CASE n # q
        <5>1. AfterAcks(acks)[i][n] = table[n]
          BY <2>1, <3>2, <4>2
        <5> QED
          BY <2>1, <5>1, AckFateGrows
      <4> QED
        BY <4>1, <4>2
    <3> QED
      BY <3>5, <3>6
  <2> QED
    BY <2>4, <2>5
<1>4. l \in S /\ l \in Nat /\ l <= m
  <2> HIDE DEF S
  <2> QED
    BY <1>1, <1>2, <1>3, NatSetInduction
<1> QED
  BY <1>4

LEMMA AckItemsFate ==
  ASSUME TypeOK, NotesTypeOK, AcksTypeOK, AckItems(acks)
  PROVE  /\ notes' \in [HubIds -> NoteRow \cup {NULL, GONE}]
         /\ \A n \in HubIds : AckFate(n, notes[n], notes'[n], Len(write_queue))
<1>1. Len(write_queue) \in 0..Len(write_queue)
  BY TableShape
<1> QED
  BY <1>1, AckLoopFate DEF AckItems

-----------------------------------------------------------------------------
(***************************************************************************)
(* What a handler's store calls and the bridge's transactions do to the    *)
(* queue.                                                                  *)
(***************************************************************************)
AskedBy(w) == <<w.action, w.note_id, w.payload>>

OthersStay(i) == \A j \in Ids \ {i} : write_queue'[j] = write_queue[j]

\* Row i answers the request w: it was there, or it now asks for what w does.
EnqueueEffect(w, i) ==
  /\ TypeOK' /\ acceptedAs'[w] = i /\ i \in Ids'
  /\ Ids \subseteq Ids' /\ Ids' \subseteq Ids \cup {i} /\ OthersStay(i)
  /\ \/ i \in Ids /\ write_queue' = write_queue /\ write_queue[i].status # "failed"
     \/ /\ write_queue'[i].status = "pending"
        /\ Work(write_queue'[i]) = AskedBy(w)
        /\ i \in Ids =>
             \/ write_queue[i].status = "failed"
             \/ /\ write_queue[i].status = "pending" /\ w.action = "update"
                /\ write_queue[i].action = "update" /\ write_queue[i].note_id = w.note_id
                /\ write_queue'[i].secondary = w.key

LEMMA EnqueueWriteEffect ==
  ASSUME TypeOK, NEW w \in Requests, EnqueueWrite(w)
  PROVE  \E i \in Nat : EnqueueEffect(w, i)
<1>1. ASSUME NEW i \in Ids, IdempotencyHit(w, i)
      PROVE  EnqueueEffect(w, i)
  <2>1. acceptedAs'[w] = i /\ acceptedAs' \in [Requests -> Nat] /\ i \in Nat
    BY <1>1 DEF IdempotencyHit, Accept, TypeOK, Ids
  <2>2. CASE write_queue[i].status = "failed"
    <3>1. write_queue' = [write_queue EXCEPT ![i] = ResetRow(write_queue[i], w)]
      BY <1>1, <2>2 DEF IdempotencyHit
    <3>2. RowChange(write_queue[i], ResetRow(write_queue[i], w))
      BY <2>2 DEF RowChange, Reset
    <3>3. write_queue' \in Seq(Row) /\ Ids' = Ids
      BY <3>1, <3>2, OneRowChanged DEF Ids
    <3>4. write_queue'[i] = ResetRow(write_queue[i], w) /\ OthersStay(i)
      BY <3>1, TableShape DEF OthersStay
    <3>5. /\ write_queue'[i].status = "pending"
          /\ Work(write_queue'[i]) = AskedBy(w)
      BY <3>4, TableShape DEF ResetRow, Row, Work, AskedBy
    <3> QED
      BY <2>1, <2>2, <3>3, <3>4, <3>5 DEF EnqueueEffect, TypeOK
  <2>3. CASE write_queue[i].status # "failed"
    BY <1>1, <2>1, <2>3 DEF IdempotencyHit, EnqueueEffect, TypeOK, Ids, OthersStay
  <2> QED
    BY <2>2, <2>3
<1>2. ASSUME NEW i \in Ids, CoalesceUpdate(w, i)
      PROVE  EnqueueEffect(w, i)
  <2> DEFINE new == [write_queue[i] EXCEPT !.payload = w.payload, !.secondary = w.key]
  <2>1. acceptedAs'[w] = i /\ acceptedAs' \in [Requests -> Nat] /\ i \in Nat
    BY <1>2 DEF CoalesceUpdate, Accept, TypeOK, Ids
  <2>2. write_queue' = [write_queue EXCEPT ![i] = new]
    BY <1>2, TableShape DEF CoalesceUpdate, Row
  <2>3. /\ write_queue[i].status = "pending" /\ w.action = "update"
        /\ write_queue[i].action = "update" /\ write_queue[i].note_id = w.note_id
    BY <1>2 DEF CoalesceUpdate, CoalesceCandidates, PendingRows
  <2>4. RowChange(write_queue[i], new)
    BY <2>3 DEF RowChange, Coalesced
  <2>5. write_queue' \in Seq(Row) /\ Ids' = Ids
    BY <2>2, <2>4, OneRowChanged DEF Ids
  <2>6. write_queue'[i] = new /\ OthersStay(i)
    BY <2>2, TableShape DEF OthersStay
  <2>7. /\ write_queue'[i].status = "pending"
        /\ Work(write_queue'[i]) = AskedBy(w)
        /\ write_queue'[i].secondary = w.key
    BY <2>3, <2>6, TableShape DEF Row, Work, AskedBy
  <2> QED
    BY <2>1, <2>3, <2>5, <2>6, <2>7 DEF EnqueueEffect, TypeOK
<1>3. ASSUME InsertRow(w)
      PROVE  EnqueueEffect(w, Len(write_queue) + 1)
  <2> DEFINE i == Len(write_queue) + 1
  <2>1. /\ i \in Nat /\ i \notin Ids /\ Ids' = Ids \cup {i}
        /\ write_queue' \in Seq(Row)
    BY <1>3, InsertAddsRow, TableShape DEF Ids
  <2>2. acceptedAs'[w] = i /\ acceptedAs' \in [Requests -> Nat]
    BY <1>3, <2>1 DEF InsertRow, Accept, TypeOK
  <2>3. write_queue'[i] = NewRow(w) /\ OthersStay(i)
    BY <1>3, InsertAddsRow DEF OthersStay
  <2> HIDE DEF i
  <2>4. write_queue'[i].status = "pending" /\ Work(write_queue'[i]) = AskedBy(w)
    BY <2>3 DEF NewRow, Work, AskedBy
  <2>5. EnqueueEffect(w, i)
    BY <2>1, <2>2, <2>3, <2>4 DEF EnqueueEffect, TypeOK
  <2> QED
    BY <2>5 DEF i
<1>4. Len(write_queue) + 1 \in Nat /\ Ids \subseteq Nat
  BY TableShape DEF Ids
<1> QED
  BY <1>1, <1>2, <1>3, <1>4 DEF EnqueueWrite

\* Row i is a create that waits and takes the body of the request w.
MergeEffect(w, i) ==
  /\ TypeOK' /\ Ids' = Ids /\ OthersStay(i)
  /\ write_queue[i].status = "pending" /\ write_queue[i].action = "create"
  /\ write_queue[i].note_id = w.note_id
  /\ write_queue'[i].status = "pending" /\ write_queue'[i].action = "create"
  /\ write_queue'[i].note_id = w.note_id
  /\ write_queue'[i].payload.bear_id = write_queue[i].payload.bear_id
  /\ write_queue'[i].payload.body = w.payload.body
  /\ write_queue'[i].secondary = w.key

LEMMA CoalesceCreateEffect ==
  ASSUME TypeOK, NEW w \in Requests, CoalesceCreateUpdate(w)
  PROVE  \E i \in Ids : MergeEffect(w, i)
<1>1. PICK i \in PendingRows("create", w.note_id, w.consumer) :
        /\ write_queue' = [write_queue EXCEPT ![i].payload.body = w.payload.body,
                                              ![i].secondary = w.key]
        /\ Accept(w, i)
  BY DEF CoalesceCreateUpdate
<1> DEFINE new == [write_queue[i] EXCEPT !.payload.body = w.payload.body, !.secondary = w.key]
<1>2. /\ i \in Ids /\ write_queue[i].status = "pending"
      /\ write_queue[i].action = "create" /\ write_queue[i].note_id = w.note_id
  BY DEF PendingRows
<1>3. write_queue' = [write_queue EXCEPT ![i] = new]
  BY <1>1, <1>2, TableShape DEF Row
<1>4. RowChange(write_queue[i], new)
  BY <1>2 DEF RowChange, Coalesced
<1>5. write_queue' \in Seq(Row) /\ Ids' = Ids
  BY <1>2, <1>3, <1>4, OneRowChanged DEF Ids
<1>6. acceptedAs' \in [Requests -> Nat]
  BY <1>1, <1>2 DEF Accept, TypeOK, Ids
<1>7. write_queue'[i] = new /\ OthersStay(i)
  BY <1>2, <1>3, TableShape DEF OthersStay
<1>8. /\ write_queue'[i].status = "pending" /\ write_queue'[i].action = "create"
      /\ write_queue'[i].note_id = w.note_id
      /\ write_queue'[i].payload.bear_id = write_queue[i].payload.bear_id
      /\ write_queue'[i].payload.body = w.payload.body
      /\ write_queue'[i].secondary = w.key
  BY <1>2, <1>7, TableShape DEF Row, Payloads
<1> QED
  BY <1>2, <1>5, <1>6, <1>7, <1>8 DEF MergeEffect, TypeOK

\* The other transactions keep the rows and what they ask for.
RowsKept ==
  /\ TypeOK' /\ Ids' = Ids
  /\ \A i \in Ids : /\ Work(write_queue'[i]) = Work(write_queue[i])
                    /\ write_queue'[i].secondary = write_queue[i].secondary

LEMMA ChangeKeepsWork ==
  ASSUME NEW old \in Row, NEW new,
         new = old \/ Leased(old, new) \/ Acked(old, new) \/ Deleted(old, new) \/ Aged(old, new)
  PROVE  Work(new) = Work(old) /\ new.secondary = old.secondary
BY DEF Leased, Acked, Deleted, Aged, Row, Work

LEMMA BulkChangeKeepsRows ==
  ASSUME TypeOK, UNCHANGED acceptedAs, DOMAIN write_queue' = Ids,
         write_queue' = [i \in Ids |-> write_queue'[i]],
         \A i \in Ids : LET old == write_queue[i]
                            new == write_queue'[i]
                        IN \/ new = old \/ Leased(old, new) \/ Acked(old, new)
                           \/ Deleted(old, new) \/ Aged(old, new)
  PROVE  RowsKept
<1>1. RowsChange
  BY DEF RowsChange, RowChange
<1>2. write_queue' \in Seq(Row) /\ Ids' = Ids
  BY <1>1, AllRowsChanged DEF Ids
<1>3. TypeOK'
  BY <1>2 DEF TypeOK
<1>4. \A i \in Ids : /\ Work(write_queue'[i]) = Work(write_queue[i])
                     /\ write_queue'[i].secondary = write_queue[i].secondary
  BY ChangeKeepsWork, TableShape
<1> QED
  BY <1>2, <1>3, <1>4 DEF RowsKept

LEMMA LeaseKeepsRows ==
  ASSUME TypeOK, LeaseQueueItems
  PROVE  RowsKept
<1>1. ASSUME NEW i \in Ids
      PROVE  write_queue'[i] = write_queue[i] \/ Leased(write_queue[i], write_queue'[i])
  <2>1. write_queue'[i] = AfterLease(i)
    BY DEF LeaseQueueItems
  <2>2. CASE i \in LeasedNow
    BY <2>1, <2>2 DEF AfterLease, LeasedNow, Leasable, Leased
  <2>3. CASE i \in Leasable \ LeasedNow
    BY <2>1, <2>3 DEF AfterLease, Leasable, Leased
  <2>4. CASE i \notin Leasable
    BY <2>1, <2>4 DEF AfterLease, LeasedNow
  <2> QED
    BY <2>2, <2>3, <2>4
<1> QED
  BY <1>1, BulkChangeKeepsRows DEF LeaseQueueItems

LEMMA AckKeepsRows ==
  ASSUME TypeOK, NEW as, \A i \in DOMAIN as : as[i] \in Outcomes, AckQueueItems(as)
  PROVE  RowsKept
<1>1. ASSUME NEW i \in Ids
      PROVE  write_queue'[i] = write_queue[i] \/ Acked(write_queue[i], write_queue'[i])
  BY DEF AckQueueItems, Acked
<1> QED
  BY <1>1, BulkChangeKeepsRows DEF AckQueueItems

LEMMA DeleteKeepsRows ==
  ASSUME TypeOK, NEW D, FailQueueItemsForDeletedNotes(D)
  PROVE  RowsKept
<1>1. ASSUME NEW i \in Ids
      PROVE  write_queue'[i] = write_queue[i] \/ Deleted(write_queue[i], write_queue'[i])
  BY DEF FailQueueItemsForDeletedNotes, Deleted
<1> QED
  BY <1>1, BulkChangeKeepsRows DEF FailQueueItemsForDeletedNotes

LEMMA TickKeepsRows ==
  ASSUME TypeOK, Tick
  PROVE  RowsKept
<1>1. ASSUME NEW i \in Ids
      PROVE  Aged(write_queue[i], write_queue'[i])
  BY DEF Tick, Aged
<1> QED
  BY <1>1, BulkChangeKeepsRows DEF Tick

-----------------------------------------------------------------------------
(***************************************************************************)
(* What is true of the hub's tables and handlers, and of the bridge's      *)
(* cycle, in every run.                                                    *)
(***************************************************************************)
\* Handlers that hold a copy of a note, and handlers of creates.
UpdateSteps == {"check_key", "update_note", "enqueue", "restore", "find_create", "coalesce",
                "update_coalesced"}
CreateSteps == {"create_note", "delete_orphan", "enqueue_create", "delete_created"}

CallBodies == {c.body : c \in {d \in Calls : d.action \in {"create", "update"}}}

\* A row asks for something of a note; only a create knows no note of Bear.
RowShape(row) ==
  /\ row.note_id \in HubIds
  /\ row.action \in {"create", "update", "trash", "add_tag"}
  /\ row.action \in {"create", "update"} => row.payload.body \in CallBodies
  /\ row.payload.bear_id \in BearIds \cup {NULL}
  /\ row.action = "create" <=> row.payload.bear_id = NULL

\* A handler that changes a note read one that was in no conflict; one of a note
\* Bear does not have goes to the create that waits.
HandlerShape(x) ==
  /\ x \in Handler
  /\ x.step # "idle" => x.call \in Calls
  /\ x.step \in UpdateSteps =>
       /\ x.call.action # "create" /\ x.note_id \in HubIds /\ x.copy \in NoteRow
       /\ x.copy.sync_status # "conflict"
       /\ x.copy.bear_id = NULL => x.call.action = "update"
       /\ x.step \in {"update_note", "enqueue", "restore"} => x.copy.bear_id # NULL
       /\ x.step \in {"find_create", "coalesce", "update_coalesced"} => x.copy.bear_id = NULL
  /\ x.step \in CreateSteps =>
       /\ x.call.action = "create"
       /\ x.step # "create_note" => x.note_id \in HubIds

Updates(h) == handlers[h].step \in UpdateSteps
Holds(h) == handlers[h].step \in (UpdateSteps \cup CreateSteps) \ {"create_note"}

RowsOK == \A i \in Ids : RowShape(write_queue[i])
HandlersOK == HandlersTypeOK /\ \A h \in Handlers : HandlerShape(handlers[h])

\* Queue rows and handlers speak of notes that are or were there.
NotesKnown ==
  /\ \A i \in Ids : notes[write_queue[i].note_id] # NULL
  /\ \A h \in Handlers : Holds(h) => notes[handlers[h].note_id] # NULL

HubInv == TypeOK /\ NotesTypeOK /\ RowsOK /\ HandlersOK /\ NotesKnown

\* Bear's database, the state file and the notes read for a push: an id that is
\* known was given by Bear.
BearInv ==
  /\ bear \in [BearIds -> BearNote \cup {NULL, GONE}]
  /\ pushed \in [BearIds -> BearNote \cup {NULL, GONE}]
  /\ \A b \in BearIds : pushed[b] # NULL => bear[b] # NULL
  /\ DOMAIN delta \subseteq BearIds
  /\ \A b \in DOMAIN delta : delta[b] \in BearNote \cup {GONE} /\ bear[b] # NULL
  /\ phase # "push" => DOMAIN delta = {}

CountersOK == clock \in Seconds /\ edits \in 0..MaxEdits /\ faults \in 0..MaxFaults

LastAcked(i) == i \in DOMAIN acks /\ \A j \in DOMAIN acks : j <= i

\* Acknowledgements are collected in the order of the rows.
BatchShape ==
  /\ phase \in {"start", "push", "lease", "apply", "verify", "ack"}
  /\ DOMAIN acks \subseteq DOMAIN batch /\ DOMAIN batch \subseteq Ids
  /\ acks \in [DOMAIN acks -> AckRecord]
  /\ phase \in {"start", "push", "lease"} => DOMAIN batch = {}
  /\ phase = "ack" => Todo = {}
  /\ phase = "verify" => \E i \in DOMAIN acks : LastAcked(i)
  /\ \A i \in DOMAIN acks, j \in Todo : i < j

\* The rows of the batch stay leased and ask for what they asked for.
BatchLeased ==
  \A i \in DOMAIN batch : /\ write_queue[i].status = "processing"
                          /\ batch[i].work = Work(write_queue[i])

\* Only the acknowledgement of a create brings an id, and it is one of Bear's;
\* while a write is verified its acknowledgement holds the id of the note, or none
\* if a fault hid the id of a new note.
AckOK(i) ==
  /\ acks[i].bear_id # NULL =>
       /\ acks[i].outcome = "applied" /\ ~acks[i].conflict_resolved
       /\ bear[acks[i].bear_id] # NULL
       /\ ActionOf(i) = "create" \/ (phase = "verify" /\ LastAcked(i))
  /\ /\ acks[i].outcome = "applied" /\ ~acks[i].conflict_resolved
     /\ ActionOf(i) = "create"
     => acks[i].bear_id # NULL \/ (phase = "verify" /\ LastAcked(i))
  /\ acks[i].outcome = "failed" /\ faults = 0 => ActionOf(i) # "create"
  /\ phase = "verify" /\ LastAcked(i) =>
       /\ acks[i].outcome = "applied" /\ ~acks[i].conflict_resolved
       /\ acks[i].bear_id = NULL => ActionOf(i) = "create" /\ faults > 0

BridgeInv == BatchShape /\ BatchLeased /\ \A i \in DOMAIN acks : AckOK(i)

BaseInv == HubInv /\ BearInv /\ CountersOK /\ BridgeInv

-----------------------------------------------------------------------------
(***************************************************************************)
(* The notes after a push.                                                 *)
(***************************************************************************)
PushedNote(old, new) ==
  IF old.bear_id \in DOMAIN delta
  THEN IF delta[old.bear_id] = GONE THEN new = GONE
       ELSE new = Upserted(old, delta[old.bear_id], old.bear_id)
  ELSE new = old

FreshNote(new) ==
  \E b \in DOMAIN delta : /\ delta[b] \in BearNote /\ NoteOfBear(b) = {}
                          /\ new = InsertedNote(delta[b], b)

PushFate(old, new) ==
  /\ Exists(old) => PushedNote(old, new)
  /\ old = GONE => new = GONE
  /\ old = NULL => new = NULL \/ FreshNote(new)

LEMMA UpsertedTyped ==
  ASSUME NEW row \in NoteRow, NEW in \in BearNote, NEW b \in BearIds, row.bear_id = b
  PROVE  /\ Upserted(row, in, b) \in NoteRow
         /\ Upserted(row, in, b).bear_id = row.bear_id
         /\ Upserted(row, in, b).trashed = in.trashed
         /\ row.sync_status = "conflict" => Upserted(row, in, b).sync_status = "conflict"
         /\ row.sync_status = "synced" =>
              Upserted(row, in, b).sync_status = "synced" /\ Upserted(row, in, b).body = in.body
         /\ row.sync_status = "pending_to_bear" =>
              /\ Upserted(row, in, b).sync_status \in {"pending_to_bear", "conflict"}
              /\ Upserted(row, in, b).body = row.body
<1>1. CASE row.sync_status = "pending_to_bear"
  <2>1. DetectContentConflict(row, in) \in {"pending_to_bear", "conflict"}
    BY DEF DetectContentConflict
  <2>2. Upserted(row, in, b) = UpsertPending(row, in)
    BY <1>1 DEF Upserted
  <2> QED
    BY <1>1, <2>1, <2>2 DEF UpsertPending, NoteRow, BearNote, SyncStatuses
<1>2. CASE row.sync_status # "pending_to_bear"
  <2>1. Upserted(row, in, b) = UpsertSettled(row, in, b)
    BY <1>2 DEF Upserted
  <2> QED
    BY <1>2, <2>1 DEF UpsertSettled, NoteRow, BearNote, SyncStatuses
<1> QED
  BY <1>1, <1>2

LEMMA InsertedTyped ==
  ASSUME NEW in \in BearNote, NEW b \in BearIds
  PROVE  /\ InsertedNote(in, b) \in NoteRow
         /\ InsertedNote(in, b).bear_id = b
         /\ InsertedNote(in, b).sync_status = "synced"
         /\ InsertedNote(in, b).body = in.body /\ InsertedNote(in, b).trashed = in.trashed
BY DEF InsertedNote, NoteRow, BearNote, SyncStatuses

\* What is no row and no NULL or GONE does not turn up in the table.
LEMMA NoteCases ==
  ASSUME NotesTypeOK, NEW n \in HubIds
  PROVE  /\ Exists(notes[n]) <=> notes[n] \in NoteRow
         /\ Exists(notes[n]) \/ notes[n] = NULL \/ notes[n] = GONE
         /\ n \in LiveNotes <=> Exists(notes[n])
BY NotesAssumption DEF NotesTypeOK, Exists, LiveNotes

LEMMA PushEffect ==
  ASSUME NotesTypeOK, BearInv, ProcessSyncPush(delta)
  PROVE  /\ notes' \in [HubIds -> NoteRow \cup {NULL, GONE}]
         /\ \A n \in HubIds : PushFate(notes[n], notes'[n])
         /\ \A m, n \in HubIds :
              /\ notes[m] = NULL /\ notes[n] = NULL /\ Exists(notes'[m]) /\ Exists(notes'[n])
              /\ notes'[m].bear_id = notes'[n].bear_id
              => m = n
         /\ \E D \in SUBSET LiveNotes :
              /\ FailQueueItemsForDeletedNotes(D)
              /\ \A n \in D : notes[n].bear_id \in DOMAIN delta /\ notes'[n] = GONE
<1> DEFINE upserts == {b \in DOMAIN delta : Exists(delta[b])}
           D == UNION {NoteOfBear(b) : b \in DOMAIN delta \ upserts}
           unknown == {b \in upserts : NoteOfBear(b) = {}}
           fresh == {n \in HubIds : notes[n] = NULL}
           After(id, n) ==
             IF n \in D THEN GONE
             ELSE IF n \in LiveNotes /\ notes[n].bear_id \in upserts
               THEN Upserted(notes[n], delta[notes[n].bear_id], notes[n].bear_id)
             ELSE IF \E b \in unknown : id[b] = n
               THEN LET b == CHOOSE b \in unknown : id[b] = n IN InsertedNote(delta[b], b)
             ELSE notes[n]
<1>1. PICK id \in [unknown -> fresh] :
        /\ \A a, b \in unknown : id[a] = id[b] => a = b
        /\ FailQueueItemsForDeletedNotes(D)
        /\ notes' = [n \in HubIds |-> After(id, n)]
  BY DEF ProcessSyncPush
<1>2. \A b \in DOMAIN delta : /\ b \in BearIds
                              /\ b \in upserts <=> delta[b] \in BearNote
                              /\ b \notin upserts <=> delta[b] = GONE
  BY NotesAssumption DEF BearInv, Exists
<1>3. \A n : n \in D <=> /\ n \in LiveNotes /\ notes[n].bear_id \in DOMAIN delta
                         /\ delta[notes[n].bear_id] = GONE
  BY <1>2 DEF NoteOfBear
<1>4. \A b \in unknown : id[b] \in HubIds /\ notes[id[b]] = NULL
  OBVIOUS
<1> HIDE DEF D
<1>5. ASSUME NEW n \in HubIds, Exists(notes[n])
      PROVE  PushedNote(notes[n], notes'[n]) /\ notes'[n] \in NoteRow \cup {GONE}
  <2>1. n \in LiveNotes /\ notes[n] \in NoteRow
    BY <1>5, NoteCases
  <2>2. CASE notes[n].bear_id \in DOMAIN delta /\ delta[notes[n].bear_id] = GONE
    BY <1>1, <1>3, <2>1, <2>2 DEF PushedNote
  <2>3. CASE notes[n].bear_id \in DOMAIN delta /\ delta[notes[n].bear_id] # GONE
    <3>1. n \notin D /\ notes[n].bear_id \in upserts
      BY <1>2, <1>3, <2>3
    <3>2. notes'[n] = Upserted(notes[n], delta[notes[n].bear_id], notes[n].bear_id)
      BY <1>1, <2>1, <3>1
    <3>3. notes'[n] \in NoteRow
      BY <1>2, <2>1, <3>1, <3>2, UpsertedTyped
    <3> QED
      BY <2>3, <3>2, <3>3 DEF PushedNote
  <2>4. CASE notes[n].bear_id \notin DOMAIN delta
    <3>1. n \notin D /\ notes[n].bear_id \notin upserts
      BY <1>3, <2>4
    <3>2. ~(\E b \in unknown : id[b] = n)
      BY <1>4, <1>5 DEF Exists
    <3>3. notes'[n] = notes[n]
      BY <1>1, <3>1, <3>2
    <3> QED
      BY <2>1, <2>4, <3>3 DEF PushedNote
  <2> QED
    BY <2>2, <2>3, <2>4
<1>6. ASSUME NEW n \in HubIds, notes[n] = GONE
      PROVE  notes'[n] = GONE
  <2>1. n \notin LiveNotes
    BY <1>6 DEF LiveNotes, Exists
  <2>2. ~(\E b \in unknown : id[b] = n)
    BY <1>4, <1>6, NotesAssumption
  <2> QED
    BY <1>1, <1>3, <1>6, <2>1, <2>2
<1>7. ASSUME NEW n \in HubIds, notes[n] = NULL
      PROVE  \/ notes'[n] = NULL
             \/ \E b \in unknown : id[b] = n /\ notes'[n] = InsertedNote(delta[b], b)
  <2>1. n \notin LiveNotes
    BY <1>7 DEF LiveNotes, Exists
  <2>2. n \notin D
    BY <1>3, <2>1
  <2>3. CASE \E b \in unknown : id[b] = n
    <3> DEFINE c == CHOOSE b \in unknown : id[b] = n
    <3>1. c \in unknown /\ id[c] = n
      BY <2>3
    <3>2. notes'[n] = InsertedNote(delta[c], c)
      BY <1>1, <2>1, <2>2, <2>3
    <3> QED
      BY <3>1, <3>2
  <2>4. CASE ~(\E b \in unknown : id[b] = n)
    BY <1>1, <1>7, <2>1, <2>2, <2>4
  <2> QED
    BY <2>3, <2>4
<1>8. ASSUME NEW b \in unknown
      PROVE  /\ b \in DOMAIN delta /\ delta[b] \in BearNote /\ NoteOfBear(b) = {}
             /\ InsertedNote(delta[b], b) \in NoteRow
             /\ InsertedNote(delta[b], b).bear_id = b
  BY <1>2, InsertedTyped
<1>9. \A n \in HubIds : PushFate(notes[n], notes'[n])
  <2>1. NULL # GONE /\ ~Exists(NULL) /\ ~Exists(GONE)
    BY NotesAssumption DEF Exists
  <2> QED
    BY <1>5, <1>6, <1>7, <1>8, <2>1 DEF PushFate, FreshNote
<1>10. \A n \in HubIds : notes'[n] \in NoteRow \cup {NULL, GONE}
  BY <1>5, <1>6, <1>7, <1>8, NoteCases
<1>11. notes' \in [HubIds -> NoteRow \cup {NULL, GONE}]
  BY <1>1, <1>10
<1>12. ASSUME NEW m \in HubIds, NEW n \in HubIds,
              notes[m] = NULL, notes[n] = NULL, Exists(notes'[m]), Exists(notes'[n]),
              notes'[m].bear_id = notes'[n].bear_id
       PROVE  m = n
  <2>1. PICK a \in unknown : id[a] = m /\ notes'[m] = InsertedNote(delta[a], a)
    BY <1>7, <1>12 DEF Exists
  <2>2. PICK b \in unknown : id[b] = n /\ notes'[n] = InsertedNote(delta[b], b)
    BY <1>7, <1>12 DEF Exists
  <2>3. a = b
    BY <1>8, <1>12, <2>1, <2>2
  <2> QED
    BY <2>1, <2>2, <2>3
<1>13. \A n \in D : notes[n].bear_id \in DOMAIN delta /\ notes'[n] = GONE
  BY <1>1, <1>3 DEF LiveNotes
<1>14. D \in SUBSET LiveNotes
  BY <1>3
<1> QED
  BY <1>1, <1>9, <1>11, <1>12, <1>13, <1>14

-----------------------------------------------------------------------------
(***************************************************************************)
(* HubInv is kept.                                                         *)
(***************************************************************************)
NotesGrow == \A n \in HubIds : notes[n] # NULL => notes'[n] # NULL

\* The rows after a step, with their notes.
RowsOKAfter ==
  /\ TypeOK'
  /\ \A i \in Ids' : RowShape(write_queue'[i]) /\ notes'[write_queue'[i].note_id] # NULL

LEMMA RowShapeOfWork ==
  ASSUME NEW old, NEW new, RowShape(old), Work(new) = Work(old)
  PROVE  RowShape(new)
BY DEF RowShape, Work

LEMMA RowsOKKept ==
  ASSUME HubInv, RowsKept, NotesGrow
  PROVE  RowsOKAfter
<1>1. ASSUME NEW i \in Ids
      PROVE  RowShape(write_queue'[i]) /\ notes'[write_queue'[i].note_id] # NULL
  <2>1. RowShape(write_queue[i]) /\ Work(write_queue'[i]) = Work(write_queue[i])
    BY DEF HubInv, RowsOK, RowsKept
  <2>2. write_queue'[i].note_id = write_queue[i].note_id /\ write_queue[i].note_id \in HubIds
    BY <2>1 DEF Work, RowShape
  <2> QED
    BY <2>1, <2>2, RowShapeOfWork DEF HubInv, NotesKnown, NotesGrow
<1> QED
  BY <1>1 DEF RowsOKAfter, RowsKept

LEMMA RowsOKUnchanged ==
  ASSUME HubInv, UNCHANGED vars, NotesGrow
  PROVE  RowsOKAfter
<1>1. RowsKept
  BY DEF RowsKept, HubInv, TypeOK, vars, Ids
<1> QED
  BY <1>1, RowsOKKept

LEMMA HubKept ==
  ASSUME HubInv, RowsOKAfter, NotesTypeOK', NotesGrow, UNCHANGED handlers
  PROVE  HubInv'
<1>1. HandlersOK' /\ HandlersTypeOK
  BY DEF HubInv, HandlersOK, HandlersTypeOK
<1>2. \A h \in Handlers : Holds(h) => handlers[h].note_id \in HubIds
  BY DEF HubInv, HandlersOK, HandlerShape, Holds
<1> QED
  BY <1>1, <1>2 DEF HubInv, RowsOKAfter, RowsOK, NotesKnown, NotesGrow, Holds

LEMMA HubKeptByHandler ==
  ASSUME HubInv, RowsOKAfter, NotesTypeOK', NotesGrow, NEW h \in Handlers, NEW x,
         handlers' = [handlers EXCEPT ![h] = x], HandlerShape(x),
         x.step \in (UpdateSteps \cup CreateSteps) \ {"create_note"} => notes'[x.note_id] # NULL
  PROVE  HubInv'
<1>1. handlers \in [Handlers -> Handler] /\ x \in Handler
  BY DEF HubInv, HandlersOK, HandlersTypeOK, HandlerShape
<1>2. handlers' \in [Handlers -> Handler] /\ handlers'[h] = x
      /\ \A g \in Handlers \ {h} : handlers'[g] = handlers[g]
  BY <1>1
<1>3. \A g \in Handlers : HandlerShape(handlers'[g])
  BY <1>2 DEF HubInv, HandlersOK
<1>4. \A g \in Handlers : Holds(g) => handlers[g].note_id \in HubIds
  BY DEF HubInv, HandlersOK, HandlerShape, Holds
<1>5. ASSUME NEW g \in Handlers, Holds(g)'
      PROVE  notes'[handlers'[g].note_id] # NULL
  <2>1. CASE g = h
    BY <1>2, <1>5, <2>1 DEF Holds
  <2>2. CASE g # h
    BY <1>2, <1>4, <1>5, <2>2 DEF Holds, HubInv, NotesKnown, NotesGrow
  <2> QED
    BY <2>1, <2>2
<1> QED
  BY <1>2, <1>3, <1>5 DEF HubInv, RowsOKAfter, RowsOK, HandlersOK, HandlersTypeOK, NotesKnown

\* The request of a call.
LEMMA WriteFields ==
  ASSUME NEW c \in Calls, NEW n \in HubIds, NEW b \in BearIds \cup {NULL}
  PROVE  /\ Write(c, n, b) \in Requests
         /\ AskedBy(Write(c, n, b)) =
              <<c.action, n, [title |-> NULL, body |-> c.body, bear_id |-> b]>>
         /\ Write(c, n, b).note_id = n /\ Write(c, n, b).action = c.action
         /\ Write(c, n, b).payload.body = c.body /\ Write(c, n, b).key = c.key
BY CallsAssumption DEF Write, AskedBy

LEMMA AskedRowShape ==
  ASSUME NEW c \in Calls, NEW n \in HubIds, NEW b \in BearIds \cup {NULL},
         c.action = "create" <=> b = NULL, NEW row, Work(row) = AskedBy(Write(c, n, b))
  PROVE  RowShape(row) /\ row.note_id = n /\ row.action = c.action /\ row.payload.bear_id = b
<1>1. /\ row.action = c.action /\ row.note_id = n
      /\ row.payload = [title |-> NULL, body |-> c.body, bear_id |-> b]
  BY WriteFields DEF Work
<1>2. row.payload.body = c.body /\ row.payload.bear_id = b
  BY <1>1
<1>3. c.action \in {"create", "update"} => c.body \in CallBodies
  BY DEF CallBodies
<1> QED
  BY <1>1, <1>2, <1>3, CallsAssumption DEF RowShape

LEMMA RowsOKEnqueued ==
  ASSUME HubInv, NEW c \in Calls, NEW n \in HubIds, NEW b \in BearIds \cup {NULL},
         c.action = "create" <=> b = NULL, notes[n] # NULL, UNCHANGED notes,
         NEW i, EnqueueEffect(Write(c, n, b), i)
  PROVE  RowsOKAfter
<1>1. ASSUME NEW j \in Ids', j # i
      PROVE  RowShape(write_queue'[j]) /\ notes'[write_queue'[j].note_id] # NULL
  BY <1>1 DEF EnqueueEffect, OthersStay, HubInv, RowsOK, NotesKnown
<1>2. RowShape(write_queue'[i]) /\ notes'[write_queue'[i].note_id] # NULL
  <2>1. CASE i \in Ids /\ write_queue' = write_queue
    BY <2>1 DEF HubInv, RowsOK, NotesKnown
  <2>2. CASE Work(write_queue'[i]) = AskedBy(Write(c, n, b))
    BY <2>2, AskedRowShape
  <2> QED
    BY <2>1, <2>2 DEF EnqueueEffect
<1> QED
  BY <1>1, <1>2 DEF RowsOKAfter, EnqueueEffect

LEMMA RowsOKMerged ==
  ASSUME HubInv, NEW c \in Calls, NEW n \in HubIds, NEW b \in BearIds \cup {NULL},
         c.action = "update", UNCHANGED notes, NEW i \in Ids, MergeEffect(Write(c, n, b), i)
  PROVE  RowsOKAfter
<1>1. ASSUME NEW j \in Ids', j # i
      PROVE  RowShape(write_queue'[j]) /\ notes'[write_queue'[j].note_id] # NULL
  BY <1>1 DEF MergeEffect, OthersStay, HubInv, RowsOK, NotesKnown
<1>2. RowShape(write_queue'[i]) /\ notes'[write_queue'[i].note_id] # NULL
  <2>1. c.body \in CallBodies
    BY DEF CallBodies
  <2>2. RowShape(write_queue[i]) /\ notes[write_queue[i].note_id] # NULL
    BY DEF HubInv, RowsOK, NotesKnown
  <2>3. /\ write_queue'[i].note_id = write_queue[i].note_id
        /\ write_queue'[i].action = "create" /\ write_queue[i].action = "create"
        /\ write_queue'[i].payload.bear_id = write_queue[i].payload.bear_id
        /\ write_queue'[i].payload.body = c.body
    BY WriteFields DEF MergeEffect
  <2> QED
    BY <2>1, <2>2, <2>3 DEF RowShape
<1> QED
  BY <1>1, <1>2 DEF RowsOKAfter, MergeEffect

\* A leased row stays leased and asks for what it asked for.
LeasedStay ==
  /\ Ids \subseteq Ids'
  /\ \A i \in Ids : write_queue[i].status = "processing" =>
       write_queue'[i].status = "processing" /\ Work(write_queue'[i]) = Work(write_queue[i])

LEMMA EnqueueLeavesLeased ==
  ASSUME NEW w, NEW i, EnqueueEffect(w, i) \/ (i \in Ids /\ MergeEffect(w, i))
  PROVE  LeasedStay
<1>1. CASE EnqueueEffect(w, i)
  <2>1. ASSUME NEW j \in Ids, write_queue[j].status = "processing"
        PROVE  write_queue'[j] = write_queue[j]
    BY <1>1, <2>1 DEF EnqueueEffect, OthersStay
  <2> QED
    BY <1>1, <2>1 DEF LeasedStay, EnqueueEffect
<1>2. CASE i \in Ids /\ MergeEffect(w, i)
  <2>1. ASSUME NEW j \in Ids, write_queue[j].status = "processing"
        PROVE  write_queue'[j] = write_queue[j]
    BY <1>2, <2>1 DEF MergeEffect, OthersStay
  <2> QED
    BY <1>2, <2>1 DEF LeasedStay, MergeEffect
<1> QED
  BY <1>1, <1>2

LEMMA UnchangedLeavesLeased ==
  ASSUME UNCHANGED vars
  PROVE  LeasedStay
BY DEF LeasedStay, vars, Ids

\* A handler's store calls on the notes table.
NoteBecomes(n, row) ==
  /\ notes'[n] = IF Exists(notes[n]) THEN row ELSE notes[n]
  /\ \A m \in HubIds \ {n} : notes'[m] = notes[m]

LEMMA UpdateNoteEffect ==
  ASSUME NotesTypeOK, NEW n \in HubIds, NEW row \in NoteRow \cup {GONE},
         notes' = [notes EXCEPT ![n] = IF Exists(@) THEN row ELSE @]
  PROVE  NotesTypeOK' /\ NotesGrow /\ NoteBecomes(n, row)
<1>1. NULL # row
  BY NotesAssumption
<1> QED
  BY <1>1 DEF NotesTypeOK, NotesGrow, NoteBecomes, Exists

LEMMA CreateNoteEffect ==
  ASSUME NotesTypeOK, NEW n \in HubIds, NEW row \in NoteRow, CreateNote(n, row)
  PROVE  /\ NotesTypeOK' /\ NotesGrow /\ notes[n] = NULL /\ notes'[n] = row
         /\ \A m \in HubIds \ {n} : notes'[m] = notes[m]
BY NotesAssumption DEF NotesTypeOK, NotesGrow, CreateNote

\* Handler h takes the state x, the others stay where they are.
HandlerBecomes(h, x) ==
  /\ handlers' = [handlers EXCEPT ![h] = x]
  /\ handlers'[h] = x /\ \A g \in Handlers \ {h} : handlers'[g] = handlers[g]

LEMMA HandlerSet ==
  ASSUME HandlersOK, NEW h \in Handlers, NEW x, handlers' = [handlers EXCEPT ![h] = x]
  PROVE  HandlerBecomes(h, x)
BY DEF HandlerBecomes, HandlersOK, HandlersTypeOK

StepTo(x, step) == [x EXCEPT !.step = step]

LEMMA GotoSets ==
  ASSUME HandlersOK, NEW h \in Handlers, NEW step \in Steps, Goto(h, step)
  PROVE  /\ HandlerBecomes(h, StepTo(handlers[h], step))
         /\ StepTo(handlers[h], step) =
              [step |-> step, call |-> handlers[h].call, note_id |-> handlers[h].note_id,
               copy |-> handlers[h].copy]
BY DEF HandlerBecomes, HandlersOK, HandlersTypeOK, Goto, StepTo, Handler

LEMMA IdleShape == HandlerShape(Idle) /\ Idle.step = "idle"
BY DEF HandlerShape, Idle, Handler, Steps, UpdateSteps, CreateSteps

(***************************************************************************)
(* The moves of a handler.                                                 *)
(***************************************************************************)
Forgets(h) == HandlerBecomes(h, Idle) /\ UNCHANGED <<vars, notes>>

Turns(h, from, to) ==
  /\ At(h, from) /\ HandlerBecomes(h, StepTo(handlers[h], to))
  /\ UNCHANGED <<vars, notes>>

ReadsNote(h, c) ==
  /\ At(h, "idle") /\ c.action # "create"
  /\ c.note_id \in LiveNotes /\ notes[c.note_id].sync_status # "conflict"
  /\ notes[c.note_id].bear_id = NULL => c.action = "update"
  /\ HandlerBecomes(h, [step |-> "check_key", call |-> c, note_id |-> c.note_id,
                        copy |-> notes[c.note_id]])
  /\ UNCHANGED <<vars, notes>>

ChoosesWrite(h) ==
  \E from \in {"check_key", "find_create"},
     to \in {"enqueue", "find_create", "coalesce", "update_note"} :
    /\ Turns(h, from, to)
    /\ to = "coalesce" <=> from = "find_create"
    /\ to \in {"find_create", "coalesce"} <=> handlers[h].copy.bear_id = NULL
    /\ to = "enqueue" => handlers[h].call.action = "add_tag"

StartsCreate(h, c) ==
  /\ At(h, "idle") /\ c.action = "create"
  /\ \/ HandlerBecomes(h, [step |-> "create_note", call |-> c, note_id |-> NULL, copy |-> NULL])
     \/ \E i \in Ids :
          /\ write_queue[i].status = "failed" /\ write_queue[i].action = "create"
          /\ HandlerBecomes(h, [step |-> "delete_orphan", call |-> c,
                                note_id |-> write_queue[i].note_id, copy |-> NULL])
  /\ UNCHANGED <<vars, notes>>

Writes(h, from, row, x) ==
  /\ At(h, from) /\ row \in NoteRow
  /\ NotesTypeOK' /\ NotesGrow /\ NoteBecomes(handlers[h].note_id, row)
  /\ HandlerBecomes(h, x)
  /\ UNCHANGED vars

WritesSome(h) ==
  \/ Writes(h, "update_note", Changed(handlers[h].call, handlers[h].copy),
            StepTo(handlers[h], "enqueue"))
  \/ Writes(h, "restore", handlers[h].copy, Idle)
  \/ Writes(h, "update_coalesced",
            [handlers[h].copy EXCEPT !.body = handlers[h].call.body], Idle)

Deletes(h, from, x) ==
  /\ At(h, from)
  /\ NotesTypeOK' /\ NotesGrow /\ NoteBecomes(handlers[h].note_id, GONE)
  /\ HandlerBecomes(h, x)
  /\ UNCHANGED vars

DeletesSome(h) ==
  \/ Deletes(h, "delete_orphan", StepTo(handlers[h], "create_note"))
  \/ Deletes(h, "delete_created", Idle)

Asks(h, i) ==
  /\ At(h, "enqueue")
  /\ EnqueueEffect(Write(handlers[h].call, handlers[h].note_id, handlers[h].copy.bear_id), i)
  /\ HandlerBecomes(h, Idle)
  /\ UNCHANGED notes

AsksCreate(h, i) ==
  /\ At(h, "enqueue_create")
  /\ EnqueueEffect(Write(handlers[h].call, handlers[h].note_id, NULL), i)
  /\ IF write_queue'[i].note_id = handlers[h].note_id
     THEN HandlerBecomes(h, Idle)
     ELSE HandlerBecomes(h, StepTo(handlers[h], "delete_created"))
  /\ UNCHANGED notes

Merges(h, i) ==
  /\ At(h, "coalesce")
  /\ MergeEffect(Write(handlers[h].call, handlers[h].note_id, NULL), i)
  /\ HandlerBecomes(h, StepTo(handlers[h], "update_coalesced"))
  /\ UNCHANGED notes

Inserts(h, n) ==
  /\ At(h, "create_note")
  /\ NotesTypeOK' /\ NotesGrow
  /\ notes[n] = NULL /\ notes'[n] = NewNote(handlers[h].call, clock)
  /\ \A m \in HubIds \ {n} : notes'[m] = notes[m]
  /\ HandlerBecomes(h, [step |-> "enqueue_create", call |-> handlers[h].call,
                        note_id |-> n, copy |-> handlers[h].copy])
  /\ UNCHANGED vars

Moves(h) ==
  \/ Forgets(h) /\ Updates(h)
  \/ \E c \in Calls : ReadsNote(h, c) \/ StartsCreate(h, c)
  \/ ChoosesWrite(h)
  \/ WritesSome(h) \/ DeletesSome(h)
  \/ \E i \in Nat : Asks(h, i) \/ AsksCreate(h, i)
  \/ \E i \in Ids : Merges(h, i)
  \/ \E n \in HubIds : Inserts(h, n)

Stumbles(h) ==
  \/ Forgets(h) /\ ~At(h, "idle")
  \/ Turns(h, "enqueue", "restore")
  \/ Turns(h, "enqueue_create", "delete_created")

LEMMA HandlerFields ==
  ASSUME HubInv, NEW h \in Handlers
  PROVE  /\ handlers[h] = [step |-> handlers[h].step, call |-> handlers[h].call,
                           note_id |-> handlers[h].note_id, copy |-> handlers[h].copy]
         /\ ~At(h, "idle") => handlers[h].call \in Calls
         /\ Updates(h) =>
              /\ handlers[h].call.action # "create" /\ handlers[h].note_id \in HubIds
              /\ handlers[h].copy \in NoteRow /\ handlers[h].copy.sync_status # "conflict"
              /\ handlers[h].copy.bear_id \in BearIds \cup {NULL}
              /\ handlers[h].copy.bear_id = NULL => handlers[h].call.action = "update"
              /\ handlers[h].step \in {"update_note", "enqueue", "restore"} =>
                   handlers[h].copy.bear_id # NULL
              /\ handlers[h].step \in {"find_create", "coalesce", "update_coalesced"} =>
                   handlers[h].copy.bear_id = NULL
         /\ handlers[h].step \in CreateSteps =>
              /\ handlers[h].call.action = "create"
              /\ ~At(h, "create_note") => handlers[h].note_id \in HubIds
BY DEF HubInv, HandlersOK, HandlerShape, Handler, Updates, At, NoteRow

LEMMA CallBodiesTyped ==
  ASSUME NEW c \in Calls, c.action \in {"create", "update"}
  PROVE  c.body \in Bodies /\ AsCreated(c.body) \in Bodies /\ c.body \in CallBodies
BY BodiesAssumption DEF CallBodies

LEMMA ChangedTyped ==
  ASSUME NEW c \in Calls, NEW note \in NoteRow
  PROVE  /\ Changed(c, note) \in NoteRow
         /\ Changed(c, note).bear_id = note.bear_id
         /\ Changed(c, note).sync_status = "pending_to_bear"
         /\ c.action = "update" => Changed(c, note).body = c.body
         /\ c.action # "update" => Changed(c, note).body = note.body
<1>1. IF c.action = "update" THEN c.body \in Bodies ELSE TRUE
  BY CallBodiesTyped
<1>2. SnapshotPendingBear(note) \in Bodies
  BY DEF SnapshotPendingBear, NoteRow
<1> QED
  BY <1>1, <1>2 DEF Changed, NoteRow, SyncStatuses

LEMMA NewNoteTyped ==
  ASSUME NEW c \in Calls, c.action = "create", NEW now \in Seconds
  PROVE  /\ NewNote(c, now) \in NoteRow /\ NewNote(c, now).bear_id = NULL
         /\ NewNote(c, now).sync_status = "pending_to_bear"
BY CallBodiesTyped DEF NewNote, NoteRow, SyncStatuses

LEMMA HandlerStepMoves ==
  ASSUME HubInv, clock \in Seconds, NEW h \in Handlers, HandlerStep(h, clock)
  PROVE  Moves(h)
<1> DEFINE x == handlers[h]
<1>a. HandlersOK /\ NotesTypeOK /\ TypeOK
  BY DEF HubInv
<1>b. \A s \in Steps : s \in {"idle", "check_key", "update_note", "enqueue", "restore",
          "find_create", "coalesce", "update_coalesced", "delete_orphan", "create_note", "enqueue_create", "delete_created"}
  BY DEF Steps
<1>1. ASSUME NEW c \in Calls, GetNote(h, c) PROVE ReadsNote(h, c)
  <2> DEFINE new == [step |-> "check_key", call |-> c, note_id |-> c.note_id,
                     copy |-> notes[c.note_id]]
  <2>1. handlers' = [handlers EXCEPT ![h] = new]
    BY <1>1 DEF GetNote
  <2>2. HandlerBecomes(h, new)
    BY <1>a, <2>1, HandlerSet
  <2>3. notes[c.note_id].bear_id = NULL => c.action = "update"
    BY <1>1, CallsAssumption DEF GetNote
  <2> QED
    BY <1>1, <2>2, <2>3 DEF GetNote, ReadsNote
<1>2. ASSUME NEW c \in Calls, CheckCreateKey(h, c) PROVE StartsCreate(h, c)
  <2>1. \A i \in FailedCreates(c) : /\ i \in Ids /\ write_queue[i].status = "failed"
                                    /\ write_queue[i].action = "create"
    BY <1>2 DEF CheckCreateKey, IsReplay, Answered, FailedCreates, Found, RowsForKey
  <2>2. CASE handlers' = [handlers EXCEPT ![h] = [Idle EXCEPT !.step = "create_note", !.call = c]]
    <3> DEFINE new == [step |-> "create_note", call |-> c, note_id |-> NULL, copy |-> NULL]
    <3>0. [Idle EXCEPT !.step = "create_note", !.call = c] = new
      <4>1. [Idle EXCEPT !.step = "create_note"] =
              [step |-> "create_note", call |-> NULL, note_id |-> NULL, copy |-> NULL]
        BY DEF Idle
      <4>2. [[step |-> "create_note", call |-> NULL, note_id |-> NULL, copy |-> NULL]
               EXCEPT !.call = c] = new
        OBVIOUS
      <4> QED
        BY <4>1, <4>2, Zenon
    <3>1. handlers' = [handlers EXCEPT ![h] = new]
      BY <2>2, <3>0, Zenon
    <3>2. HandlerBecomes(h, new)
      BY <1>a, <3>1, HandlerSet
    <3> QED
      BY <1>2, <3>2 DEF CheckCreateKey, StartsCreate
  <2>3. ASSUME NEW i \in FailedCreates(c),
               handlers' = [handlers EXCEPT ![h] =
                 [Idle EXCEPT !.step = "delete_orphan", !.call = c,
                              !.note_id = write_queue[i].note_id]]
        PROVE  StartsCreate(h, c)
    <3> DEFINE new == [step |-> "delete_orphan", call |-> c,
                       note_id |-> write_queue[i].note_id, copy |-> NULL]
    <3>0. [Idle EXCEPT !.step = "delete_orphan", !.call = c,
                       !.note_id = write_queue[i].note_id] = new
      <4>1. [Idle EXCEPT !.step = "delete_orphan"] =
              [step |-> "delete_orphan", call |-> NULL, note_id |-> NULL, copy |-> NULL]
        BY DEF Idle
      <4>2. [[step |-> "delete_orphan", call |-> NULL, note_id |-> NULL, copy |-> NULL]
               EXCEPT !.call = c] =
              [step |-> "delete_orphan", call |-> c, note_id |-> NULL, copy |-> NULL]
        OBVIOUS
      <4>3. [[step |-> "delete_orphan", call |-> c, note_id |-> NULL, copy |-> NULL]
               EXCEPT !.note_id = write_queue[i].note_id] = new
        OBVIOUS
      <4>4. [Idle EXCEPT !.step = "delete_orphan", !.call = c] =
              [step |-> "delete_orphan", call |-> c, note_id |-> NULL, copy |-> NULL]
        BY <4>1, <4>2, Zenon
      <4> QED
        BY <4>3, <4>4, Zenon
    <3>1. handlers' = [handlers EXCEPT ![h] = new]
      BY <2>3, <3>0, Zenon
    <3>2. HandlerBecomes(h, new)
      BY <1>a, <3>1, HandlerSet
    <3> QED
      BY <1>2, <2>1, <3>2 DEF CheckCreateKey, StartsCreate
  <2> QED
    BY <1>2, <2>2, <2>3 DEF CheckCreateKey
<1>3. ASSUME CheckKey(h) PROVE ChoosesWrite(h) \/ (Forgets(h) /\ Updates(h))
  <2>1. At(h, "check_key") /\ Updates(h)
    BY <1>3 DEF CheckKey, At, Updates, UpdateSteps
  <2>2. CASE IsReplay(x.call)
    <3>1. handlers' = [handlers EXCEPT ![h] = Idle] /\ UNCHANGED <<vars, notes>>
      BY <1>3, <2>2 DEF CheckKey, Answer
    <3> QED
      BY <1>a, <2>1, <3>1, HandlerSet DEF Forgets
  <2>3. CASE ~IsReplay(x.call)
    <3> DEFINE to == FirstWrite(x.call, x.copy)
    <3>1. Goto(h, to) /\ UNCHANGED <<vars, notes>>
      BY <1>3, <2>3 DEF CheckKey
    <3>2. /\ to \in {"enqueue", "find_create", "update_note"}
          /\ to = "find_create" <=> x.copy.bear_id = NULL
          /\ to = "enqueue" => x.call.action = "add_tag"
      BY <2>1, HandlerFields DEF FirstWrite
    <3>3. HandlerBecomes(h, StepTo(x, to))
      BY <1>a, <3>1, <3>2, GotoSets DEF Steps
    <3> HIDE DEF to
    <3> QED
      BY <2>1, <3>1, <3>2, <3>3 DEF ChoosesWrite, Turns
  <2> QED
    BY <2>2, <2>3
<1>4. ASSUME WriteNote(h) PROVE WritesSome(h)
  <2>1. At(h, "update_note") /\ Updates(h) /\ ~At(h, "idle") /\ "enqueue" \in Steps
    BY <1>4 DEF WriteNote, At, Updates, UpdateSteps, Steps
  <2>2. Changed(x.call, x.copy) \in NoteRow /\ x.note_id \in HubIds
    BY <2>1, HandlerFields, ChangedTyped
  <2>3. NotesTypeOK' /\ NotesGrow /\ NoteBecomes(x.note_id, Changed(x.call, x.copy))
    BY <1>a, <1>4, <2>2, UpdateNoteEffect DEF WriteNote, UpdateNote
  <2>4. HandlerBecomes(h, StepTo(x, "enqueue"))
    BY <1>a, <1>4, <2>1, GotoSets DEF WriteNote
  <2> QED
    BY <1>4, <2>1, <2>2, <2>3, <2>4 DEF WriteNote, WritesSome, Writes
<1>5. ASSUME RestoreNote(h) PROVE WritesSome(h)
  <2>1. At(h, "restore") /\ Updates(h)
    BY <1>5 DEF RestoreNote, At, Updates, UpdateSteps
  <2>2. x.copy \in NoteRow /\ x.note_id \in HubIds
    BY <2>1, HandlerFields
  <2>3. NotesTypeOK' /\ NotesGrow /\ NoteBecomes(x.note_id, x.copy)
    BY <1>a, <1>5, <2>2, UpdateNoteEffect DEF RestoreNote, UpdateNote
  <2>4. HandlerBecomes(h, Idle)
    BY <1>a, <1>5, HandlerSet DEF RestoreNote, Answer
  <2> QED
    BY <1>5, <2>1, <2>2, <2>3, <2>4 DEF RestoreNote, WritesSome, Writes
<1>6. ASSUME UpdateCoalesced(h) PROVE WritesSome(h)
  <2> DEFINE row == [x.copy EXCEPT !.body = x.call.body]
  <2>1. At(h, "update_coalesced") /\ Updates(h) /\ ~At(h, "idle")
    BY <1>6 DEF UpdateCoalesced, At, Updates, UpdateSteps
  <2>2. x.copy \in NoteRow /\ x.note_id \in HubIds /\ x.call.body \in Bodies
    BY <2>1, HandlerFields, CallBodiesTyped DEF At
  <2>3. row \in NoteRow
    BY <2>2 DEF NoteRow
  <2>4. NotesTypeOK' /\ NotesGrow /\ NoteBecomes(x.note_id, row)
    BY <1>a, <1>6, <2>2, <2>3, UpdateNoteEffect DEF UpdateCoalesced, UpdateNote
  <2>5. HandlerBecomes(h, Idle)
    BY <1>a, <1>6, HandlerSet DEF UpdateCoalesced, Answer
  <2> QED
    BY <1>6, <2>1, <2>3, <2>4, <2>5 DEF UpdateCoalesced, WritesSome, Writes
<1>7. ASSUME DeleteOrphan(h) \/ DeleteCreated(h) PROVE DeletesSome(h)
  <2>1. x.step \in {"delete_orphan", "delete_created"} /\ x.note_id \in HubIds
    BY <1>7, HandlerFields DEF DeleteOrphan, DeleteCreated, At, CreateSteps
  <2>2. NotesTypeOK' /\ NotesGrow /\ NoteBecomes(x.note_id, GONE)
    BY <1>a, <1>7, <2>1, UpdateNoteEffect DEF DeleteOrphan, DeleteCreated, DeleteNote
  <2>3. DeleteOrphan(h) => HandlerBecomes(h, StepTo(x, "create_note"))
    BY <1>a, GotoSets DEF DeleteOrphan, Steps
  <2>4. DeleteCreated(h) => HandlerBecomes(h, Idle)
    BY <1>a, HandlerSet DEF DeleteCreated, Answer
  <2> QED
    BY <1>7, <2>2, <2>3, <2>4 DEF DeleteOrphan, DeleteCreated, DeletesSome, Deletes
<1>8. ASSUME NEW n \in HubIds, InsertNote(h, n, clock) PROVE Inserts(h, n)
  <2> DEFINE new == [step |-> "enqueue_create", call |-> x.call, note_id |-> n, copy |-> x.copy]
  <2>1. At(h, "create_note") /\ x.step \in CreateSteps /\ ~At(h, "idle")
    BY <1>8 DEF InsertNote, At, CreateSteps
  <2>2. NewNote(x.call, clock) \in NoteRow
    BY <2>1, HandlerFields, NewNoteTyped
  <2>3. /\ NotesTypeOK' /\ NotesGrow /\ notes[n] = NULL /\ notes'[n] = NewNote(x.call, clock)
        /\ \A m \in HubIds \ {n} : notes'[m] = notes[m]
    BY <1>a, <1>8, <2>2, CreateNoteEffect DEF InsertNote
  <2>4. [[x EXCEPT !.step = "enqueue_create"] EXCEPT !.note_id = n] = new
    <3>1. x = [step |-> x.step, call |-> x.call, note_id |-> x.note_id, copy |-> x.copy]
      BY HandlerFields
    <3>2. [[step |-> x.step, call |-> x.call, note_id |-> x.note_id, copy |-> x.copy]
             EXCEPT !.step = "enqueue_create"] =
            [step |-> "enqueue_create", call |-> x.call, note_id |-> x.note_id, copy |-> x.copy]
      OBVIOUS
    <3>3. [[step |-> "enqueue_create", call |-> x.call, note_id |-> x.note_id, copy |-> x.copy]
             EXCEPT !.note_id = n] = new
      OBVIOUS
    <3>4. [x EXCEPT !.step = "enqueue_create"] =
            [step |-> "enqueue_create", call |-> x.call, note_id |-> x.note_id, copy |-> x.copy]
      BY <3>1, <3>2, Zenon
    <3> QED
      BY <3>3, <3>4, Zenon
  <2>5. handlers' = [handlers EXCEPT ![h] = new]
    BY <1>a, <1>8, <2>4 DEF InsertNote, HandlersOK, HandlersTypeOK
  <2>6. HandlerBecomes(h, new)
    BY <1>a, <2>5, HandlerSet
  <2> QED
    BY <1>8, <2>1, <2>3, <2>6 DEF InsertNote, Inserts
<1>9. ASSUME Enqueue(h) PROVE \E i \in Nat : Asks(h, i)
  <2> DEFINE w == Write(x.call, x.note_id, x.copy.bear_id)
  <2>1. At(h, "enqueue") /\ Updates(h) /\ ~At(h, "idle")
    BY <1>9 DEF Enqueue, At, Updates, UpdateSteps
  <2>2. w \in Requests
    BY <2>1, HandlerFields, WriteFields
  <2>3. PICK i \in Nat : EnqueueEffect(w, i)
    BY <1>a, <1>9, <2>2, EnqueueWriteEffect DEF Enqueue
  <2>4. HandlerBecomes(h, Idle)
    BY <1>a, <1>9, HandlerSet DEF Enqueue, Answer
  <2> QED
    BY <1>9, <2>1, <2>3, <2>4 DEF Enqueue, Asks
<1>10. ASSUME EnqueueCreate(h) PROVE \E i \in Nat : AsksCreate(h, i)
  <2> DEFINE w == Write(x.call, x.note_id, NULL)
  <2>1. At(h, "enqueue_create") /\ x.step \in CreateSteps /\ ~At(h, "idle") /\ ~At(h, "create_note")
    BY <1>10 DEF EnqueueCreate, At, CreateSteps
  <2>2. w \in Requests /\ w.note_id = x.note_id
    <3>1. x.call \in Calls /\ x.note_id \in HubIds /\ NULL \in BearIds \cup {NULL}
      BY <2>1, HandlerFields
    <3> QED
      BY <3>1, WriteFields
  <2>3. PICK i \in Nat : EnqueueEffect(w, i)
    BY <1>a, <1>10, <2>2, EnqueueWriteEffect DEF EnqueueCreate
  <2>4. acceptedAs'[w] = i
    BY <2>3 DEF EnqueueEffect
  <2>5. IF write_queue'[i].note_id = x.note_id THEN Answer(h) ELSE Goto(h, "delete_created")
    BY <1>10, <2>2, <2>4 DEF EnqueueCreate
  <2>6. IF write_queue'[i].note_id = x.note_id THEN HandlerBecomes(h, Idle)
        ELSE HandlerBecomes(h, StepTo(x, "delete_created"))
    BY <1>a, <2>5, HandlerSet, GotoSets DEF Answer, Steps
  <2> QED
    BY <1>10, <2>1, <2>3, <2>6 DEF EnqueueCreate, AsksCreate
<1>11. ASSUME Coalesce(h) PROVE (Forgets(h) /\ Updates(h)) \/ \E i \in Ids : Merges(h, i)
  <2> DEFINE w == Write(x.call, x.note_id, NULL)
  <2>1. At(h, "coalesce") /\ Updates(h) /\ ~At(h, "idle")
    BY <1>11 DEF Coalesce, At, Updates, UpdateSteps
  <2>2. w \in Requests
    BY <2>1, HandlerFields, WriteFields
  <2>3. CASE CoalesceCreateUpdate(w) /\ Goto(h, "update_coalesced")
    <3>1. PICK i \in Ids : MergeEffect(w, i)
      BY <1>a, <2>2, <2>3, CoalesceCreateEffect
    <3>2. HandlerBecomes(h, StepTo(x, "update_coalesced"))
      BY <1>a, <2>3, GotoSets DEF Steps
    <3> QED
      BY <1>11, <2>1, <3>1, <3>2 DEF Coalesce, Merges
  <2>4. CASE Answer(h) /\ UNCHANGED vars
    <3>1. HandlerBecomes(h, Idle)
      BY <1>a, <2>4, HandlerSet DEF Answer
    <3> QED
      BY <1>11, <2>1, <2>4, <3>1 DEF Coalesce, Forgets
  <2> QED
    BY <1>11, <2>3, <2>4 DEF Coalesce
<1>12. ASSUME FindCreate(h) PROVE ChoosesWrite(h) \/ (Forgets(h) /\ Updates(h))
  <2>1. At(h, "find_create") /\ Updates(h) /\ ~At(h, "idle")
    BY <1>12 DEF FindCreate, At, Updates, UpdateSteps
  <2>2. CASE Answer(h)
    <3>1. HandlerBecomes(h, Idle)
      BY <1>a, <2>2, HandlerSet DEF Answer
    <3> QED
      BY <1>12, <2>1, <3>1 DEF FindCreate, Forgets
  <2>3. CASE Goto(h, "coalesce")
    <3>1. HandlerBecomes(h, StepTo(x, "coalesce"))
      BY <1>a, <2>3, GotoSets DEF Steps
    <3>2. x.copy.bear_id = NULL
      BY <2>1, HandlerFields DEF At
    <3> QED
      BY <1>12, <2>1, <3>1, <3>2 DEF FindCreate, ChoosesWrite, Turns
  <2> QED
    BY <1>12, <2>2, <2>3 DEF FindCreate
<1> QED
  BY <1>1, <1>2, <1>3, <1>4, <1>5, <1>6, <1>7, <1>8, <1>9, <1>10, <1>11, <1>12
     DEF HandlerStep, Moves

LEMMA HandlerFaultStumbles ==
  ASSUME HubInv, NEW h \in Handlers, HandlerFault(h)
  PROVE  Stumbles(h)
<1>a. HandlersOK
  BY DEF HubInv
<1>1. CASE EnqueueFails(h)
  <2>1. CASE Answer(h)
    <3>1. HandlerBecomes(h, Idle)
      BY <1>a, <2>1, HandlerSet DEF Answer
    <3> QED
      BY <1>1, <3>1 DEF EnqueueFails, Stumbles, Forgets, At
  <2>2. CASE Goto(h, "restore")
    <3>1. HandlerBecomes(h, StepTo(handlers[h], "restore"))
      BY <1>a, <2>2, GotoSets DEF Steps
    <3> QED
      BY <1>1, <3>1 DEF EnqueueFails, Stumbles, Turns
  <2> QED
    BY <1>1, <2>1, <2>2 DEF EnqueueFails
<1>2. CASE EnqueueCreateFails(h)
  <2>1. HandlerBecomes(h, StepTo(handlers[h], "delete_created"))
    BY <1>a, <1>2, GotoSets DEF EnqueueCreateFails, Steps
  <2> QED
    BY <1>2, <2>1 DEF EnqueueCreateFails, Stumbles, Turns
<1>3. CASE HandlerDies(h)
  <2>1. HandlerBecomes(h, Idle)
    BY <1>a, <1>3, HandlerSet DEF HandlerDies, Answer
  <2> QED
    BY <1>3, <2>1 DEF HandlerDies, Stumbles, Forgets
<1> QED
  BY <1>1, <1>2, <1>3 DEF HandlerFault

LEMMA StepToFields ==
  ASSUME HubInv, NEW h \in Handlers, NEW step \in Steps
  PROVE  /\ StepTo(handlers[h], step) \in Handler
         /\ StepTo(handlers[h], step).step = step
         /\ StepTo(handlers[h], step).call = handlers[h].call
         /\ StepTo(handlers[h], step).note_id = handlers[h].note_id
         /\ StepTo(handlers[h], step).copy = handlers[h].copy
BY DEF HubInv, HandlersOK, HandlersTypeOK, StepTo, Handler

\* A handler that goes on with its note.
LEMMA StepToShape ==
  ASSUME HubInv, NEW h \in Handlers, NEW step \in Steps,
         \/ /\ Updates(h) /\ step \in UpdateSteps
            /\ step \in {"update_note", "enqueue", "restore"} => handlers[h].copy.bear_id # NULL
            /\ step \in {"find_create", "coalesce", "update_coalesced"} =>
                 handlers[h].copy.bear_id = NULL
         \/ handlers[h].step \in CreateSteps /\ step = "create_note"
         \/ At(h, "enqueue_create") /\ step = "delete_created"
  PROVE  /\ HandlerShape(StepTo(handlers[h], step))
         /\ step # "create_note" => Holds(h)
<1> DEFINE x == handlers[h]
           y == StepTo(x, step)
<1>1. y \in Handler /\ y.step = step /\ y.call = x.call /\ y.note_id = x.note_id /\ y.copy = x.copy
  BY StepToFields
<1>2. HandlerShape(x)
  BY DEF HubInv, HandlersOK
<1> HIDE DEF x, y
<1>3. CASE /\ Updates(h) /\ step \in UpdateSteps
           /\ step \in {"update_note", "enqueue", "restore"} => x.copy.bear_id # NULL
           /\ step \in {"find_create", "coalesce", "update_coalesced"} => x.copy.bear_id = NULL
  BY <1>1, <1>2, <1>3 DEF Updates, Holds, HandlerShape, UpdateSteps, CreateSteps, x, y
<1>4. CASE \/ x.step \in CreateSteps /\ step = "create_note"
           \/ At(h, "enqueue_create") /\ step = "delete_created"
  BY <1>1, <1>2, <1>4 DEF At, Holds, HandlerShape, UpdateSteps, CreateSteps, x, y
<1> QED
  BY <1>3, <1>4 DEF x

LEMMA HoldsKnown ==
  ASSUME HubInv, NotesGrow, NEW h \in Handlers, Holds(h)
  PROVE  notes'[handlers[h].note_id] # NULL
BY DEF HubInv, HandlersOK, HandlerShape, NotesKnown, NotesGrow, Holds, UpdateSteps, CreateSteps

\* The handler's note is known once it is handed on.
LEMMA HubKeptByStepTo ==
  ASSUME HubInv, RowsOKAfter, NotesTypeOK', NotesGrow, NEW h \in Handlers, NEW step \in Steps,
         HandlerBecomes(h, StepTo(handlers[h], step)),
         HandlerShape(StepTo(handlers[h], step)), step # "create_note" => Holds(h)
  PROVE  HubInv'
<1> DEFINE y == StepTo(handlers[h], step)
<1>1. y.step = step /\ y.note_id = handlers[h].note_id
  BY StepToFields
<1>2. y.step \in (UpdateSteps \cup CreateSteps) \ {"create_note"} => notes'[y.note_id] # NULL
  BY <1>1, HoldsKnown
<1> HIDE DEF y
<1> QED
  BY <1>2, HubKeptByHandler DEF y, HandlerBecomes

LEMMA HubKeptByAnswer ==
  ASSUME HubInv, RowsOKAfter, NotesTypeOK', NotesGrow, NEW h \in Handlers,
         HandlerBecomes(h, Idle)
  PROVE  HubInv'
<1>1. Idle.step \notin UpdateSteps \cup CreateSteps
  BY IdleShape DEF UpdateSteps, CreateSteps
<1> QED
  BY <1>1, IdleShape, HubKeptByHandler DEF HandlerBecomes

LEMMA MovesKeepHub ==
  ASSUME HubInv, clock \in Seconds, NEW h \in Handlers, Moves(h) \/ Stumbles(h)
  PROVE  HubInv' /\ LeasedStay
<1> DEFINE x == handlers[h]
<1>u. ASSUME UNCHANGED <<vars, notes>>
      PROVE  RowsOKAfter /\ NotesTypeOK' /\ NotesGrow /\ LeasedStay
  <2>1. NotesGrow /\ NotesTypeOK'
    BY <1>u DEF HubInv, NotesTypeOK, NotesGrow
  <2> QED
    BY <1>u, <2>1, RowsOKUnchanged, UnchangedLeavesLeased
<1>s. {"check_key", "enqueue", "find_create", "coalesce", "update_note", "restore", "update_coalesced",
       "create_note", "enqueue_create", "delete_created", "delete_orphan"} \subseteq Steps
  BY DEF Steps
<1>1. CASE Forgets(h)
  BY <1>1, <1>u, HubKeptByAnswer DEF Forgets
<1>2. ASSUME NEW c \in Calls, ReadsNote(h, c) PROVE HubInv' /\ LeasedStay
  <2> DEFINE new == [step |-> "check_key", call |-> c, note_id |-> c.note_id,
                     copy |-> notes[c.note_id]]
  <2>1. c.note_id \in HubIds /\ notes[c.note_id] \in NoteRow
    BY <1>2, NoteCases DEF ReadsNote, LiveNotes, HubInv
  <2>2. HandlerShape(new)
    BY <1>2, <1>s, <2>1 DEF ReadsNote, HandlerShape, Handler, UpdateSteps, CreateSteps
  <2>3. new.note_id = c.note_id /\ notes'[c.note_id] # NULL
    BY <1>2, <2>1, NotesAssumption DEF ReadsNote
  <2> HIDE DEF new
  <2> QED
    BY <1>2, <1>u, <2>2, <2>3, HubKeptByHandler DEF ReadsNote, HandlerBecomes, new
<1>3. ASSUME NEW c \in Calls, StartsCreate(h, c) PROVE HubInv' /\ LeasedStay
  <2>1. CASE HandlerBecomes(h, [step |-> "create_note", call |-> c, note_id |-> NULL, copy |-> NULL])
    <3> DEFINE new == [step |-> "create_note", call |-> c, note_id |-> NULL, copy |-> NULL]
    <3>1. HandlerShape(new) /\ new.step = "create_note"
      BY <1>3, <1>s DEF StartsCreate, HandlerShape, Handler, UpdateSteps, CreateSteps
    <3> HIDE DEF new
    <3> QED
      BY <1>3, <1>u, <2>1, <3>1, HubKeptByHandler DEF StartsCreate, HandlerBecomes, new
  <2>2. ASSUME NEW i \in Ids,
               HandlerBecomes(h, [step |-> "delete_orphan", call |-> c,
                                  note_id |-> write_queue[i].note_id, copy |-> NULL])
        PROVE  HubInv' /\ LeasedStay
    <3> DEFINE new == [step |-> "delete_orphan", call |-> c,
                       note_id |-> write_queue[i].note_id, copy |-> NULL]
    <3>1. write_queue[i].note_id \in HubIds /\ notes[write_queue[i].note_id] # NULL
      BY DEF HubInv, RowsOK, RowShape, NotesKnown
    <3>2. HandlerShape(new) /\ notes'[new.note_id] # NULL
      BY <1>3, <1>s, <3>1 DEF StartsCreate, HandlerShape, Handler, UpdateSteps, CreateSteps
    <3> HIDE DEF new
    <3> QED
      BY <1>3, <1>u, <2>2, <3>2, HubKeptByHandler DEF StartsCreate, HandlerBecomes, new
  <2> QED
    BY <1>3, <2>1, <2>2 DEF StartsCreate
<1>4. ASSUME NEW from \in Steps, NEW to \in Steps, Turns(h, from, to), HandlerShape(StepTo(x, to)),
             to # "create_note" => Holds(h)
      PROVE  HubInv' /\ LeasedStay
  BY <1>4, <1>u, HubKeptByStepTo DEF Turns
<1>5. CASE ChoosesWrite(h)
  <2>1. PICK from \in {"check_key", "find_create"},
             to \in {"enqueue", "find_create", "coalesce", "update_note"} :
          /\ Turns(h, from, to)
          /\ to \in {"find_create", "coalesce"} <=> x.copy.bear_id = NULL
    BY <1>5 DEF ChoosesWrite
  <2>2. HandlerShape(StepTo(x, to)) /\ (to # "create_note" => Holds(h))
    BY <1>s, <2>1, StepToShape DEF Turns, At, Updates, UpdateSteps
  <2> QED
    BY <1>4, <1>s, <2>1, <2>2
<1>6. CASE Turns(h, "enqueue", "restore") \/ Turns(h, "enqueue_create", "delete_created")
  <2>1. CASE Turns(h, "enqueue", "restore")
    <3>1. Updates(h) /\ x.copy.bear_id # NULL
      BY <2>1, HandlerFields DEF Turns, At, Updates, UpdateSteps
    <3>2. HandlerShape(StepTo(x, "restore")) /\ Holds(h)
      BY <1>s, <3>1, StepToShape DEF UpdateSteps
    <3> QED
      BY <1>4, <1>s, <2>1, <3>2
  <2>2. CASE Turns(h, "enqueue_create", "delete_created")
    <3>1. HandlerShape(StepTo(x, "delete_created")) /\ Holds(h)
      BY <1>s, <2>2, StepToShape DEF Turns
    <3> QED
      BY <1>4, <1>s, <2>2, <3>1
  <2> QED
    BY <1>6, <2>1, <2>2
<1>7. CASE WritesSome(h)
  <2>1. RowsOKAfter /\ NotesTypeOK' /\ NotesGrow /\ LeasedStay
    BY <1>7, RowsOKUnchanged, UnchangedLeavesLeased DEF WritesSome, Writes
  <2>2. CASE HandlerBecomes(h, Idle)
    BY <2>1, <2>2, HubKeptByAnswer
  <2>3. CASE At(h, "update_note") /\ HandlerBecomes(h, StepTo(x, "enqueue"))
    <3>1. HandlerShape(StepTo(x, "enqueue")) /\ Holds(h)
      BY <1>s, <2>3, HandlerFields, StepToShape DEF At, Updates, UpdateSteps
    <3> QED
      BY <1>s, <2>1, <2>3, <3>1, HubKeptByStepTo
  <2> QED
    BY <1>7, <2>2, <2>3 DEF WritesSome, Writes
<1>8. CASE DeletesSome(h)
  <2>1. RowsOKAfter /\ NotesTypeOK' /\ NotesGrow /\ LeasedStay
    BY <1>8, RowsOKUnchanged, UnchangedLeavesLeased DEF DeletesSome, Deletes
  <2>2. CASE HandlerBecomes(h, Idle)
    BY <2>1, <2>2, HubKeptByAnswer
  <2>3. CASE At(h, "delete_orphan") /\ HandlerBecomes(h, StepTo(x, "create_note"))
    <3>1. HandlerShape(StepTo(x, "create_note"))
      BY <1>s, <2>3, StepToShape DEF At, CreateSteps
    <3> QED
      BY <1>s, <2>1, <2>3, <3>1, HubKeptByStepTo
  <2> QED
    BY <1>8, <2>2, <2>3 DEF DeletesSome, Deletes
<1>9. ASSUME NEW i \in Nat, Asks(h, i) PROVE HubInv' /\ LeasedStay
  <2>1. /\ x.call \in Calls /\ x.note_id \in HubIds /\ x.copy.bear_id \in BearIds \cup {NULL}
        /\ x.call.action # "create" /\ x.copy.bear_id # NULL /\ Holds(h)
    BY <1>9, HandlerFields DEF Asks, At, Updates, UpdateSteps, Holds
  <2>2. NotesTypeOK' /\ NotesGrow /\ notes[x.note_id] # NULL
    BY <1>9, <2>1 DEF Asks, HubInv, NotesTypeOK, NotesGrow, NotesKnown
  <2>3. RowsOKAfter
    BY <1>9, <2>1, <2>2, RowsOKEnqueued DEF Asks
  <2> QED
    BY <1>9, <2>2, <2>3, HubKeptByAnswer, EnqueueLeavesLeased DEF Asks
<1>10. ASSUME NEW i \in Nat, AsksCreate(h, i) PROVE HubInv' /\ LeasedStay
  <2>1. /\ x.call \in Calls /\ x.note_id \in HubIds /\ NULL \in BearIds \cup {NULL}
        /\ x.call.action = "create" /\ Holds(h)
    BY <1>10, HandlerFields DEF AsksCreate, At, CreateSteps, Holds
  <2>2. NotesTypeOK' /\ NotesGrow /\ notes[x.note_id] # NULL
    BY <1>10, <2>1 DEF AsksCreate, HubInv, NotesTypeOK, NotesGrow, NotesKnown
  <2>3. RowsOKAfter
    BY <1>10, <2>1, <2>2, RowsOKEnqueued DEF AsksCreate
  <2>4. CASE HandlerBecomes(h, Idle)
    BY <1>10, <2>2, <2>3, <2>4, HubKeptByAnswer, EnqueueLeavesLeased DEF AsksCreate
  <2>5. CASE HandlerBecomes(h, StepTo(x, "delete_created"))
    <3>1. HandlerShape(StepTo(x, "delete_created"))
      BY <1>10, <1>s, StepToShape DEF AsksCreate
    <3> QED
      BY <1>10, <1>s, <2>1, <2>2, <2>3, <2>5, <3>1, HubKeptByStepTo, EnqueueLeavesLeased DEF AsksCreate
  <2> QED
    BY <1>10, <2>4, <2>5 DEF AsksCreate
<1>11. ASSUME NEW i \in Ids, Merges(h, i) PROVE HubInv' /\ LeasedStay
  <2>1. /\ x.call \in Calls /\ x.note_id \in HubIds /\ NULL \in BearIds \cup {NULL}
        /\ x.copy.bear_id = NULL /\ x.call.action = "update" /\ Holds(h) /\ Updates(h)
    BY <1>11, HandlerFields DEF Merges, At, UpdateSteps, Holds, Updates
  <2>2. NotesTypeOK' /\ NotesGrow
    BY <1>11 DEF Merges, HubInv, NotesTypeOK, NotesGrow
  <2>3. RowsOKAfter
    BY <1>11, <2>1, RowsOKMerged DEF Merges
  <2>4. HandlerShape(StepTo(x, "update_coalesced"))
    BY <1>11, <1>s, <2>1, StepToShape DEF UpdateSteps
  <2> QED
    BY <1>11, <1>s, <2>1, <2>2, <2>3, <2>4, HubKeptByStepTo, EnqueueLeavesLeased DEF Merges
<1>12. ASSUME NEW n \in HubIds, Inserts(h, n) PROVE HubInv' /\ LeasedStay
  <2> DEFINE new == [step |-> "enqueue_create", call |-> x.call, note_id |-> n, copy |-> x.copy]
  <2>1. /\ x.call \in Calls /\ x.call.action = "create"
        /\ x.copy \in NoteRow \cup {NULL}
    BY <1>12, HandlerFields DEF Inserts, At, CreateSteps, HubInv, HandlersOK, HandlersTypeOK, Handler
  <2>2. HandlerShape(new) /\ new.note_id = n
    BY <1>s, <2>1 DEF HandlerShape, Handler, UpdateSteps, CreateSteps
  <2>3. notes'[n] # NULL
    BY <1>12, <2>1, NewNoteTyped, NotesAssumption DEF Inserts
  <2>4. RowsOKAfter /\ LeasedStay
    BY <1>12, RowsOKUnchanged, UnchangedLeavesLeased DEF Inserts
  <2> HIDE DEF new
  <2> QED
    BY <1>12, <2>2, <2>3, <2>4, HubKeptByHandler DEF Inserts, HandlerBecomes, new
<1> QED
  BY <1>1, <1>2, <1>3, <1>5, <1>6, <1>7, <1>8, <1>9, <1>10, <1>11, <1>12 DEF Moves, Stumbles

-----------------------------------------------------------------------------
(***************************************************************************)
(* BaseInv is kept: the hub's part.                                        *)
(***************************************************************************)
LEMMA AcksTyped ==
  ASSUME BaseInv
  PROVE  /\ TypeOK /\ NotesTypeOK /\ AcksTypeOK /\ clock \in Seconds
         /\ \A i \in DOMAIN acks : acks[i].outcome \in Outcomes
BY DEF BaseInv, HubInv, BridgeInv, BatchShape, AcksTypeOK, AckRecord, CountersOK

LEMMA PushKeepsHub ==
  ASSUME BaseInv, ProcessSyncPush(delta), UNCHANGED handlers
  PROVE  HubInv'
<1>1. HubInv /\ BearInv /\ TypeOK /\ NotesTypeOK
  BY DEF BaseInv, HubInv
<1>2. PICK D \in SUBSET LiveNotes : FailQueueItemsForDeletedNotes(D)
  BY <1>1, PushEffect
<1>3. RowsKept
  BY <1>1, <1>2, DeleteKeepsRows
<1>4. NotesTypeOK'
  BY <1>1, PushEffect DEF NotesTypeOK
<1>5. ASSUME NEW n \in HubIds, notes[n] # NULL PROVE notes'[n] # NULL
  <2>1. PushFate(notes[n], notes'[n]) /\ NULL # GONE
    BY <1>1, PushEffect, NotesAssumption
  <2>2. CASE Exists(notes[n])
    <3>1. notes[n] \in NoteRow /\ notes[n].bear_id \in BearIds \cup {NULL}
      BY <1>1, <2>2, NoteCases DEF NoteRow
    <3>2. CASE notes[n].bear_id \in DOMAIN delta /\ delta[notes[n].bear_id] # GONE
      <4>1. /\ notes[n].bear_id \in BearIds /\ delta[notes[n].bear_id] \in BearNote
            /\ notes'[n] = Upserted(notes[n], delta[notes[n].bear_id], notes[n].bear_id)
        BY <1>1, <2>1, <2>2, <3>2 DEF PushFate, PushedNote, BearInv
      <4>2. notes'[n] \in NoteRow
        BY <3>1, <4>1, UpsertedTyped
      <4> QED
        BY <4>2, NotesAssumption
    <3> QED
      BY <2>1, <2>2, <3>2, <1>5 DEF PushFate, PushedNote
  <2>3. CASE notes[n] = GONE
    BY <2>1, <2>3 DEF PushFate
  <2> QED
    BY <1>1, <1>5, <2>2, <2>3, NoteCases
<1>6. NotesGrow
  BY <1>5 DEF NotesGrow
<1> QED
  BY <1>1, <1>3, <1>4, <1>6, RowsOKKept, HubKept

LEMMA AckKeepsHub ==
  ASSUME BaseInv, AckItems(acks), UNCHANGED handlers
  PROVE  HubInv' /\ RowsKept
<1>1. HubInv /\ TypeOK /\ NotesTypeOK /\ AcksTypeOK
  BY AcksTyped DEF BaseInv
<1>2. RowsKept
  <2> DEFINE as == [i \in DOMAIN acks |-> acks[i].outcome]
  <2>1. \A i \in DOMAIN as : as[i] \in Outcomes
    BY AcksTyped
  <2>2. AckQueueItems(as)
    BY DEF AckItems
  <2> HIDE DEF as
  <2> QED
    BY <1>1, <2>1, <2>2, AckKeepsRows
<1>3. NotesTypeOK' /\ \A n \in HubIds : AckFate(n, notes[n], notes'[n], Len(write_queue))
  BY <1>1, AckItemsFate DEF NotesTypeOK
<1>4. NotesGrow
  BY <1>3, NotesAssumption DEF NotesGrow, AckFate
<1> QED
  BY <1>1, <1>2, <1>3, <1>4, RowsOKKept, HubKept

LEMMA RowsKeptKeepHub ==
  ASSUME HubInv, RowsKept, UNCHANGED <<notes, handlers>>
  PROVE  HubInv'
<1>1. NotesTypeOK' /\ NotesGrow
  BY DEF HubInv, NotesTypeOK, NotesGrow
<1> QED
  BY <1>1, RowsOKKept, HubKept

LEMMA UnchangedKeepsHub ==
  ASSUME HubInv, UNCHANGED handlerVars
  PROVE  HubInv'
<1>1. RowsKept
  BY DEF HubInv, RowsKept, TypeOK, Ids, handlerVars, vars
<1> QED
  BY <1>1, RowsKeptKeepHub DEF handlerVars

HandlerMoves ==
  /\ \E h \in Handlers : Moves(h) \/ (Stumbles(h) /\ Fault)
  /\ UNCHANGED <<bridgeVars, worldVars>> /\ (NoFault \/ Fault)

LEMMA HandlersMove ==
  ASSUME BaseInv, NEW h \in Handlers, Handle(h) \/ HandleFault(h)
  PROVE  HandlerMoves
<1>1. HubInv /\ clock \in Seconds
  BY DEF BaseInv, CountersOK
<1> QED
  BY <1>1, HandlerStepMoves, HandlerFaultStumbles DEF Handle, HandleFault, HandlerMoves

\* The steps of the bridge and of Bear's user that leave the hub alone.
QuietStep ==
  \/ \E b \in BearIds : UserEdits(b) \/ UserDeletes(b)
  \/ ReadDelta \/ BridgeDies \/ AckRefused
  \/ \E i \in 1..MaxRows :
       \/ TargetLost(i) \/ SkipItem(i) \/ ChangeBear(i) \/ Verify(i) \/ CopyConflict(i)
       \/ VerifyFails(i) \/ ItemFails(i) \/ SearchFails(i)
       \/ \E b \in BearIds : \/ WriteBear(i, b) \/ WriteReportsFailure(i, b) \/ CreateUnnamed(i, b)
                            \/ SearchFinds(i, b)
  \/ UNCHANGED syncVars

LEMMA QuietStepsLeaveHub ==
  ASSUME QuietStep
  PROVE  UNCHANGED handlerVars
BY DEF QuietStep, UserEdits, UserDeletes, ReadDelta, BridgeDies, AckRefused, TargetLost, SkipItem,
   ChangeBear, Verify, CopyConflict, VerifyFails, ItemFails, WriteBear, WriteReportsFailure,
   CreateUnnamed, SearchFinds, SearchFails, Applied, Verified, Searched, syncVars

LEMMA StepCases ==
  ASSUME BaseInv, [SyncNext]_syncVars
  PROVE  HandlerMoves \/ QuietStep \/ PushDelta \/ PushUnrecorded \/ LeaseBatch \/ AckBatch
         \/ LeaseTime
BY HandlersMove DEF SyncNext, BridgeStep, BridgeFault, QuietStep

LEMMA HubStep ==
  ASSUME BaseInv, [SyncNext]_syncVars
  PROVE  HubInv'
<1>1. HubInv /\ TypeOK /\ clock \in Seconds
  BY DEF BaseInv, HubInv, CountersOK
<1>2. CASE HandlerMoves
  BY <1>1, <1>2, MovesKeepHub DEF HandlerMoves
<1>3. CASE QuietStep
  BY <1>1, <1>3, QuietStepsLeaveHub, UnchangedKeepsHub
<1>4. CASE PushDelta \/ PushUnrecorded
  BY <1>4, PushKeepsHub DEF PushDelta, PushUnrecorded, Push
<1>5. CASE LeaseBatch
  BY <1>1, <1>5, LeaseKeepsRows, RowsKeptKeepHub DEF LeaseBatch
<1>6. CASE AckBatch
  BY <1>6, AckKeepsHub DEF AckBatch
<1>7. CASE LeaseTime
  BY <1>1, <1>7, TickKeepsRows, RowsKeptKeepHub DEF LeaseTime
<1> QED
  BY <1>2, <1>3, <1>4, <1>5, <1>6, <1>7, StepCases

-----------------------------------------------------------------------------
(***************************************************************************)
(* BaseInv is kept: Bear, the batch and the counters.                      *)
(***************************************************************************)
\* What an item of the batch asks for.
LEMMA BatchItem ==
  ASSUME BaseInv, NEW i \in DOMAIN batch
  PROVE  /\ i \in Ids /\ i \in Nat /\ write_queue[i].status = "processing"
         /\ ActionOf(i) = write_queue[i].action /\ NoteOf(i) = write_queue[i].note_id
         /\ TargetOf(i) = write_queue[i].payload.bear_id
         /\ BodyOf(i) = write_queue[i].payload.body
         /\ NoteOf(i) \in HubIds /\ TargetOf(i) \in BearIds \cup {NULL}
         /\ ActionOf(i) \in {"create", "update", "trash", "add_tag"}
         /\ ActionOf(i) = "create" <=> TargetOf(i) = NULL
         /\ ActionOf(i) = "create" => AsCreated(BodyOf(i)) \in Bodies
         /\ ActionOf(i) \in {"create", "update"} => BodyOf(i) \in CallBodies /\ BodyOf(i) \in Bodies
<1>1. /\ i \in Ids /\ write_queue[i].status = "processing"
      /\ batch[i].work = Work(write_queue[i]) /\ RowShape(write_queue[i])
  BY DEF BaseInv, BridgeInv, BatchShape, BatchLeased, HubInv, RowsOK
<1>2. \A body \in CallBodies : body \in Bodies /\ AsCreated(body) \in Bodies
  BY CallBodiesTyped DEF CallBodies
<1>3. i \in Nat
  BY <1>1 DEF Ids
<1> QED
  BY <1>1, <1>2, <1>3 DEF ActionOf, NoteOf, TargetOf, BodyOf, Work, RowShape

BearGrow == \A b \in BearIds : bear[b] # NULL => bear'[b] # NULL

LEMMA BearCases ==
  ASSUME BearInv, NEW b \in BearIds
  PROVE  /\ Exists(bear[b]) <=> bear[b] \in BearNote
         /\ Exists(pushed[b]) <=> pushed[b] \in BearNote
         /\ bear[b] \in BearNote \cup {NULL, GONE} /\ pushed[b] \in BearNote \cup {NULL, GONE}
         /\ b \in DOMAIN delta => (Exists(delta[b]) <=> delta[b] \in BearNote)
BY NotesAssumption DEF BearInv, Exists

LEMMA BearChanges ==
  ASSUME BearInv, NEW b \in BearIds, NEW new \in BearNote \cup {GONE},
         bear' = [bear EXCEPT ![b] = new], UNCHANGED <<pushed, delta>>,
         phase' = phase \/ phase # "push"
  PROVE  BearInv' /\ BearGrow
<1>1. new # NULL
  BY NotesAssumption
<1> QED
  BY <1>1 DEF BearInv, BearGrow

LEMMA BearUnchanged ==
  ASSUME BearInv, UNCHANGED bear
  PROVE  /\ BearGrow
         /\ UNCHANGED <<pushed, delta>> /\ (phase' = phase \/ phase # "push") => BearInv'
         /\ UNCHANGED pushed /\ DOMAIN delta' = {} => BearInv'
BY DEF BearInv, BearGrow

LEMMA UserStepsType ==
  ASSUME BearInv, NEW b \in BearIds, UserEdits(b) \/ UserDeletes(b)
  PROVE  BearInv' /\ BearGrow
<1>1. CASE UserEdits(b)
  <2>1. PICK body \in UserBodies :
          bear' = [bear EXCEPT ![b].body = body, ![b].modified_at = clock']
    BY <1>1 DEF UserEdits
  <2>2. bear[b] \in BearNote /\ body \in Bodies /\ clock' \in Seconds
    BY <1>1, BearCases, SyncAssumption DEF UserEdits, BearClock
  <2> DEFINE new == [body |-> body, trashed |-> bear[b].trashed, modified_at |-> clock']
  <2>3. bear' = [bear EXCEPT ![b] = new]
    <3>1. [bear[b] EXCEPT !.body = body] =
            [body |-> body, trashed |-> bear[b].trashed, modified_at |-> bear[b].modified_at]
      BY <2>2 DEF BearNote
    <3>2. [[body |-> body, trashed |-> bear[b].trashed, modified_at |-> bear[b].modified_at]
             EXCEPT !.modified_at = clock'] = new
      OBVIOUS
    <3>3. bear' = [bear EXCEPT ![b] = [[bear[b] EXCEPT !.body = body] EXCEPT !.modified_at = clock']]
      BY <2>1 DEF BearInv
    <3> QED
      BY <3>1, <3>2, <3>3, Zenon
  <2>4. new \in BearNote
    BY <2>2 DEF BearNote
  <2> HIDE DEF new
  <2> QED
    BY <1>1, <2>3, <2>4, BearChanges DEF UserEdits, bridgeVars
<1>2. CASE UserDeletes(b)
  BY <1>2, BearChanges DEF UserDeletes, bridgeVars
<1> QED
  BY <1>1, <1>2

\* The bridge writes Bear's notes.
LEMMA WriteStepsType ==
  ASSUME BaseInv, NEW i \in Nat, NEW b \in BearIds, Turn(i), BearClock,
         BearUpdate(i, b) \/ BearCreate(i, b), UNCHANGED <<pushed, delta>>
  PROVE  BearInv' /\ BearGrow /\ bear'[b] \in BearNote /\ UNCHANGED <<edits, marks>>
<1>1. BearInv /\ i \in DOMAIN batch /\ clock' \in Seconds /\ phase # "push"
  BY DEF BaseInv, Turn, Todo, BearClock
<1>2. CASE BearUpdate(i, b)
  <2> DEFINE new == [bear[b] EXCEPT !.body = BodyOf(i), !.modified_at = clock']
  <2>1. bear[b] \in BearNote /\ BodyOf(i) \in Bodies
    BY <1>1, <1>2, BearCases, BatchItem DEF BearUpdate, TargetLives
  <2>2. new \in BearNote
    BY <1>1, <2>1 DEF BearNote
  <2>3. bear' = [bear EXCEPT ![b] = new] /\ UNCHANGED <<edits, marks>>
    BY <1>2 DEF BearUpdate, ChangesBear
  <2> HIDE DEF new
  <2>4. bear'[b] = new
    BY <1>1, <2>3 DEF BearInv
  <2> QED
    BY <1>1, <2>2, <2>3, <2>4, BearChanges
<1>3. CASE BearCreate(i, b)
  <2> DEFINE new == [body |-> AsCreated(BodyOf(i)), trashed |-> FALSE, modified_at |-> clock']
  <2>1. AsCreated(BodyOf(i)) \in Bodies
    BY <1>1, <1>3, BatchItem DEF BearCreate
  <2>2. new \in BearNote
    BY <1>1, <2>1 DEF BearNote
  <2>3. bear' = [bear EXCEPT ![b] = new] /\ UNCHANGED <<edits, marks>>
    BY <1>3 DEF BearCreate, ChangesBear
  <2> HIDE DEF new
  <2>4. bear'[b] = new
    BY <1>1, <2>3 DEF BearInv
  <2> QED
    BY <1>1, <2>2, <2>3, <2>4, BearChanges
<1> QED
  BY <1>2, <1>3

LEMMA ChangeStepsType ==
  ASSUME BaseInv, NEW i \in Nat, ChangeBear(i)
  PROVE  BearInv' /\ BearGrow
<1> DEFINE b == TargetOf(i)
           new == [bear[b] EXCEPT !.trashed = @ \/ ActionOf(i) = "trash", !.modified_at = clock']
<1>1. BearInv /\ i \in DOMAIN batch /\ clock' \in Seconds /\ phase # "push"
  BY DEF BaseInv, ChangeBear, Turn, Todo, BearClock
<1>2. b \in BearIds /\ Exists(bear[b])
  BY <1>1, BatchItem DEF ChangeBear, TargetLives
<1>3. bear[b] \in BearNote
  BY <1>1, <1>2, BearCases
<1>4. new \in BearNote
  BY <1>1, <1>3 DEF BearNote
<1>5. bear' = [bear EXCEPT ![b] = new] /\ UNCHANGED <<pushed, delta>>
  BY DEF ChangeBear, ChangesBear, Applied
<1> HIDE DEF new, b
<1> QED
  BY <1>1, <1>2, <1>4, <1>5, BearChanges

LEMMA QuietStepsKeepBear ==
  ASSUME BaseInv, QuietStep
  PROVE  BearInv' /\ BearGrow
<1>1. BearInv
  BY DEF BaseInv
<1>2. ASSUME NEW b \in BearIds, UserEdits(b) \/ UserDeletes(b) PROVE BearInv' /\ BearGrow
  BY <1>1, <1>2, UserStepsType
<1>3. CASE ReadDelta
  <2>1. \A b \in ChangedInBear : b \in BearIds /\ bear[b] \in BearNote \cup {GONE} /\ bear[b] # NULL
    BY <1>1 DEF BearInv, ChangedInBear
  <2> QED
    BY <1>1, <1>3, <2>1 DEF ReadDelta, BearInv, BearGrow, worldVars
<1>4. CASE BridgeDies \/ AckRefused
  BY <1>1, <1>4, BearUnchanged DEF BridgeDies, AckRefused, Nothing, worldVars, BearInv
<1>5. ASSUME NEW i \in 1..MaxRows, \/ TargetLost(i) \/ SkipItem(i) \/ CopyConflict(i) \/ ItemFails(i)
                                   \/ Verify(i) \/ VerifyFails(i) \/ SearchFails(i)
                                   \/ \E b \in BearIds : SearchFinds(i, b)
      PROVE  BearInv' /\ BearGrow
  <2>1. phase # "push"
    BY <1>5 DEF TargetLost, SkipItem, CopyConflict, ItemFails, Verify, VerifyFails, Verified,
                Turn, SearchFinds, SearchFails, Searched, Written
  <2>2. UNCHANGED <<bear, pushed, delta>>
    BY <1>5 DEF TargetLost, SkipItem, CopyConflict, ItemFails, Verify, VerifyFails, Verified,
                Applied, SearchFinds, SearchFails, Searched, worldVars
  <2> QED
    BY <1>1, <2>1, <2>2, BearUnchanged
<1>6. ASSUME NEW i \in 1..MaxRows, ChangeBear(i) PROVE BearInv' /\ BearGrow
  BY <1>6, ChangeStepsType
<1>7. ASSUME NEW i \in 1..MaxRows, NEW b \in BearIds,
             WriteBear(i, b) \/ WriteReportsFailure(i, b) \/ CreateUnnamed(i, b)
      PROVE  BearInv' /\ BearGrow
  BY <1>7, WriteStepsType DEF WriteBear, WriteReportsFailure, CreateUnnamed, Applied
<1>8. CASE UNCHANGED syncVars
  BY <1>1, <1>8, BearUnchanged DEF syncVars, worldVars, bridgeVars
<1> QED
  BY <1>2, <1>3, <1>4, <1>5, <1>6, <1>7, <1>8 DEF QuietStep

LEMMA BearStep ==
  ASSUME BaseInv, [SyncNext]_syncVars
  PROVE  BearInv' /\ BearGrow
<1>1. BearInv
  BY DEF BaseInv
<1>2. CASE HandlerMoves \/ LeaseTime
  BY <1>1, <1>2, BearUnchanged DEF HandlerMoves, LeaseTime, bridgeVars, worldVars
<1>3. CASE QuietStep
  BY <1>3, QuietStepsKeepBear
<1>4. CASE LeaseBatch \/ AckBatch
  BY <1>1, <1>4, BearUnchanged DEF LeaseBatch, AckBatch, worldVars
<1>5. CASE PushUnrecorded
  BY <1>1, <1>5, BearUnchanged DEF PushUnrecorded, Push, worldVars, Nothing
<1>6. CASE PushDelta
  BY <1>1, <1>6 DEF PushDelta, Push, worldVars, Nothing, BearInv, BearGrow
<1> QED
  BY <1>2, <1>3, <1>4, <1>5, <1>6, StepCases

LEMMA CountersStep ==
  ASSUME BaseInv, [SyncNext]_syncVars
  PROVE  CountersOK' /\ faults <= faults' /\ edits <= edits'
<1>1. /\ clock \in Seconds /\ edits \in 0..MaxEdits /\ faults \in 0..MaxFaults
      /\ MaxEdits \in Nat /\ MaxFaults \in Nat
  BY SyncAssumption DEF BaseInv, CountersOK
<1>2. Fault => faults' \in 0..MaxFaults /\ faults <= faults'
  BY <1>1 DEF Fault
<1>3. NoFault => faults' \in 0..MaxFaults /\ faults <= faults'
  BY <1>1 DEF NoFault
<1>4. UNCHANGED worldVars => clock' \in Seconds /\ edits' = edits
  BY <1>1 DEF worldVars
<1>5. CASE HandlerMoves \/ LeaseTime \/ LeaseBatch \/ AckBatch \/ PushUnrecorded \/ PushDelta
  BY <1>1, <1>2, <1>3, <1>4, <1>5 DEF HandlerMoves, LeaseTime, LeaseBatch, AckBatch, PushUnrecorded,
     PushDelta, Push, CountersOK
<1>6. ASSUME NEW b \in BearIds, UserEdits(b) \/ UserDeletes(b)
      PROVE  CountersOK' /\ faults <= faults' /\ edits <= edits'
  BY <1>1, <1>3, <1>6 DEF UserEdits, UserDeletes, CountersOK, BearClock
<1>7. ASSUME ReadDelta \/ BridgeDies \/ AckRefused \/ UNCHANGED syncVars
      PROVE  CountersOK' /\ faults <= faults' /\ edits <= edits'
  BY <1>1, <1>2, <1>3, <1>7 DEF ReadDelta, BridgeDies, AckRefused, syncVars, worldVars, CountersOK
<1>8. ASSUME NEW i \in 1..MaxRows, \/ TargetLost(i) \/ SkipItem(i) \/ CopyConflict(i) \/ ItemFails(i)
                                   \/ Verify(i) \/ VerifyFails(i) \/ SearchFails(i)
                                   \/ \E b \in BearIds : SearchFinds(i, b)
      PROVE  CountersOK' /\ faults <= faults' /\ edits <= edits'
  <2>1. clock' = clock /\ edits' = edits /\ (NoFault \/ Fault)
    BY <1>8 DEF TargetLost, SkipItem, CopyConflict, ItemFails, Verify, VerifyFails, Verified,
       SearchFinds, SearchFails, Searched, worldVars
  <2> QED
    BY <1>1, <1>2, <1>3, <2>1 DEF CountersOK
<1>9. ASSUME NEW i \in 1..MaxRows, ChangeBear(i)
      PROVE  CountersOK' /\ faults <= faults' /\ edits <= edits'
  BY <1>1, <1>3, <1>9 DEF ChangeBear, ChangesBear, BearClock, CountersOK
<1>10. ASSUME NEW i \in 1..MaxRows, NEW b \in BearIds,
              WriteBear(i, b) \/ WriteReportsFailure(i, b) \/ CreateUnnamed(i, b)
       PROVE  CountersOK' /\ faults <= faults' /\ edits <= edits'
  <2>1. BearClock /\ edits' = edits /\ (NoFault \/ Fault)
    BY <1>10 DEF WriteBear, WriteReportsFailure, CreateUnnamed, BearUpdate, BearCreate, ChangesBear
  <2> QED
    BY <1>1, <1>2, <1>3, <2>1 DEF BearClock, CountersOK
<1> QED
  BY <1>5, <1>6, <1>7, <1>8, <1>9, <1>10, StepCases DEF QuietStep

LEMMA EmptyBatch ==
  ASSUME phase' \in {"start", "push", "lease"}, DOMAIN batch' = {}, DOMAIN acks' = {},
         acks' = [i \in DOMAIN acks' |-> acks'[i]]
  PROVE  BridgeInv'
BY DEF BridgeInv, BatchShape, BatchLeased, Todo

\* The bridge's state stays and the leased rows stay.
LEMMA BridgeUntouched ==
  ASSUME BridgeInv, LeasedStay, BearGrow, BearInv, UNCHANGED <<phase, batch, acks>>,
         faults \in Nat, faults' \in Nat, faults <= faults'
  PROVE  BridgeInv'
<1>1. BatchShape'
  BY DEF BridgeInv, BatchShape, LeasedStay, Todo, LastAcked
<1>2. BatchLeased'
  BY DEF BridgeInv, BatchShape, BatchLeased, LeasedStay
<1>3. ASSUME NEW i \in DOMAIN acks PROVE AckOK(i)'
  <2>1. AckOK(i) /\ acks[i].bear_id \in BearIds \cup {NULL}
    BY DEF BridgeInv, BatchShape, AckRecord
  <2>2. faults' = 0 => faults = 0
    OBVIOUS
  <2> QED
    BY <2>1, <2>2 DEF AckOK, LastAcked, BearGrow, ActionOf
<1> QED
  BY <1>1, <1>2, <1>3 DEF BridgeInv

\* An item is applied and its acknowledgement kept.
NewAckOK(i, ack) ==
  /\ ack \in AckRecord
  /\ ack.bear_id # NULL =>
       /\ ack.outcome = "applied" /\ ~ack.conflict_resolved /\ bear'[ack.bear_id] # NULL
       /\ ActionOf(i) = "create" \/ phase' = "verify"
  /\ ack.outcome = "applied" /\ ~ack.conflict_resolved /\ ActionOf(i) = "create" =>
       ack.bear_id # NULL \/ phase' = "verify"
  /\ ack.outcome = "failed" /\ faults' = 0 => ActionOf(i) # "create"
  /\ phase' = "verify" =>
       /\ ack.outcome = "applied" /\ ~ack.conflict_resolved
       /\ ack.bear_id = NULL => ActionOf(i) = "create" /\ faults' > 0

LEMMA ItemDone ==
  ASSUME BaseInv, NEW i \in Nat, Turn(i), NEW ack, NewAckOK(i, ack),
         acks' = Put(acks, i, ack), UNCHANGED <<handlerVars, batch>>, BearGrow,
         \/ phase' = IF Todo = {i} THEN "ack" ELSE "apply"
         \/ phase' = "verify",
         faults' \in Nat, faults <= faults'
  PROVE  BridgeInv'
<1>1. BatchShape /\ BatchLeased /\ faults \in Nat /\ \A j \in DOMAIN acks : AckOK(j)
  BY DEF BaseInv, BridgeInv, CountersOK
<1>2. /\ phase = "apply" /\ i \in DOMAIN batch \ DOMAIN acks
      /\ \A j \in Todo : i <= j
  BY DEF Turn, Todo
<1>3. DOMAIN acks' = DOMAIN acks \cup {i} /\ acks'[i] = ack
      /\ \A j \in DOMAIN acks : acks'[j] = acks[j] /\ j # i
  BY <1>2 DEF Put
<1>4. acks' \in [DOMAIN acks' -> AckRecord]
  BY <1>1, <1>3 DEF Put, BatchShape, NewAckOK
<1>5. Todo' = Todo \ {i}
  BY <1>3 DEF Todo
<1>6. \A j \in DOMAIN batch : j \in Nat
  BY <1>1 DEF BatchShape, Ids
<1>7. \A j \in DOMAIN acks', k \in Todo' : j < k
  <2> SUFFICES ASSUME NEW j \in DOMAIN acks', NEW k \in Todo' PROVE j < k
    OBVIOUS
  <2>1. CASE j = i
    BY <1>2, <1>5, <1>6, <2>1 DEF Todo
  <2>2. CASE j \in DOMAIN acks
    BY <1>1, <1>5, <2>2 DEF BatchShape
  <2> QED
    BY <1>3, <2>1, <2>2
<1>8. \A j \in DOMAIN acks' : j <= i
  BY <1>1, <1>2, <1>3, <1>6 DEF BatchShape, Todo
<1>9. BatchShape'
  BY <1>1, <1>2, <1>3, <1>4, <1>5, <1>7, <1>8 DEF BatchShape, Ids, handlerVars, vars, Todo, LastAcked
<1>10. BatchLeased'
  BY <1>1 DEF BatchLeased, handlerVars, vars
<1>11. ASSUME NEW j \in DOMAIN acks' PROVE AckOK(j)'
  <2>1. CASE j = i
    BY <1>3, <1>8, <2>1 DEF NewAckOK, AckOK, LastAcked, ActionOf
  <2>2. CASE j \in DOMAIN acks
    <3>1. AckOK(j) /\ acks[j].bear_id \in BearIds \cup {NULL} /\ acks'[j] = acks[j]
      BY <1>1, <1>3, <2>2 DEF BatchShape, AckRecord
    <3>2. faults' = 0 => faults = 0
      BY <1>1
    <3>3. ~LastAcked(j)'
      <4>1. j < i /\ i \in DOMAIN acks' /\ j \in Nat
        BY <1>1, <1>2, <1>3, <1>6, <2>2 DEF BatchShape, Todo
      <4> QED
        BY <4>1 DEF LastAcked
    <3> QED
      BY <1>2, <3>1, <3>2, <3>3 DEF AckOK, BearGrow, ActionOf
  <2> QED
    BY <1>3, <2>1, <2>2
<1> QED
  BY <1>9, <1>10, <1>11 DEF BridgeInv

LEMMA AckTypes ==
  ASSUME NEW outcome \in Outcomes
  PROVE  /\ Ack(outcome) \in AckRecord
         /\ Ack(outcome).outcome = outcome /\ Ack(outcome).bear_id = NULL
         /\ ~Ack(outcome).conflict_resolved
BY DEF Ack, AckRecord

LEMMA ModifiedTyped ==
  ASSUME BearInv, NEW b \in BearIds
  PROVE  Modified(b) \in Seconds \cup {NULL}
BY BearCases DEF Modified, BearNote

\* What the step that takes the turn of item i acknowledges.
LEMMA ItemStepAcks ==
  ASSUME BaseInv, BearGrow, NEW i \in Nat, CountersOK',
         \/ TargetLost(i) \/ SkipItem(i) \/ ChangeBear(i) \/ CopyConflict(i) \/ ItemFails(i)
         \/ \E b \in BearIds : \/ WriteBear(i, b) \/ WriteReportsFailure(i, b)
                              \/ CreateUnnamed(i, b)
  PROVE  \E ack : /\ NewAckOK(i, ack) /\ Turn(i) /\ acks' = Put(acks, i, ack)
                  /\ UNCHANGED <<handlerVars, batch>>
                  /\ \/ phase' = IF Todo = {i} THEN "ack" ELSE "apply"
                     \/ phase' = "verify"
<1>1. /\ "applied" \in Outcomes /\ "failed" \in Outcomes /\ faults \in Nat /\ faults' \in Nat
      /\ \A x \in {"ack", "apply"} : x # "verify"
  BY DEF Outcomes, BaseInv, CountersOK
<1>2. CASE TargetLost(i)
  BY <1>1, <1>2, AckTypes DEF TargetLost, Applied, NewAckOK
<1>3. CASE SkipItem(i)
  <2> DEFINE a == [Ack("applied") EXCEPT !.bear_modified_at = Modified(TargetOf(i))]
  <2>1. Modified(TargetOf(i)) \in Seconds \cup {NULL}
    BY <1>3, BatchItem, ModifiedTyped DEF SkipItem, Turn, Todo, BaseInv, TargetLives
  <2>2. a \in AckRecord /\ a.bear_id = NULL /\ a.outcome = "applied"
    BY <1>1, <2>1, AckTypes DEF AckRecord
  <2>3. /\ ActionOf(i) # "create" /\ Turn(i) /\ UNCHANGED <<handlerVars, batch>>
        /\ phase' = IF Todo = {i} THEN "ack" ELSE "apply"
        /\ acks' = Put(acks, i, a) \/ acks' = Put(acks, i, Ack("applied"))
    BY <1>3 DEF SkipItem, Applied
  <2>4. NewAckOK(i, a) /\ NewAckOK(i, Ack("applied"))
    BY <1>1, <2>2, <2>3, AckTypes DEF NewAckOK
  <2> HIDE DEF a
  <2> QED
    BY <2>3, <2>4
<1>4. CASE ChangeBear(i)
  BY <1>1, <1>4, AckTypes DEF ChangeBear, Applied, NewAckOK
<1>5. CASE CopyConflict(i)
  <2> DEFINE a == [Ack("applied") EXCEPT !.conflict_resolved = TRUE]
  <2>1. a \in AckRecord /\ a.bear_id = NULL /\ a.outcome = "applied" /\ a.conflict_resolved
    BY <1>1, AckTypes DEF AckRecord
  <2>2. NewAckOK(i, a)
    BY <1>5, <2>1 DEF NewAckOK, CopyConflict, Applied
  <2> QED
    BY <1>5, <2>2 DEF CopyConflict, Applied
<1>6. CASE ItemFails(i)
  <2>1. faults' # 0
    BY <1>1, <1>6 DEF ItemFails, Fault
  <2>2. NewAckOK(i, Ack("failed"))
    BY <1>1, <1>6, <2>1, AckTypes DEF NewAckOK, ItemFails, Applied
  <2> QED
    BY <1>6, <2>2 DEF ItemFails, Applied
<1>7. ASSUME NEW b \in BearIds, WriteReportsFailure(i, b)
      PROVE  NewAckOK(i, Ack("failed"))
  <2>1. faults' # 0
    BY <1>1, <1>7 DEF WriteReportsFailure, Fault
  <2> QED
    BY <1>1, <1>7, <2>1, AckTypes DEF NewAckOK, WriteReportsFailure, Applied
<1>8. ASSUME NEW b \in BearIds, WriteBear(i, b)
      PROVE  NewAckOK(i, [Ack("applied") EXCEPT !.bear_id = b]) /\ b # NULL
             /\ [Ack("applied") EXCEPT !.bear_id = b].bear_id = b
  <2> DEFINE a == [Ack("applied") EXCEPT !.bear_id = b]
  <2>1. /\ a \in AckRecord /\ a.bear_id = b /\ a.outcome = "applied" /\ ~a.conflict_resolved
    BY <1>1, AckTypes DEF AckRecord
  <2>2. bear'[b] # NULL /\ b # NULL
    BY <1>8, WriteStepsType, NotesAssumption DEF WriteBear
  <2>3. phase' = "verify"
    BY <1>8 DEF WriteBear
  <2> HIDE DEF a
  <2>4. NewAckOK(i, a)
    BY <2>1, <2>2, <2>3 DEF NewAckOK
  <2> QED
    BY <2>1, <2>2, <2>4 DEF a
<1>9. CASE \E b \in BearIds : WriteReportsFailure(i, b)
  BY <1>7, <1>9 DEF WriteReportsFailure, Applied
<1>10. CASE \E b \in BearIds : WriteBear(i, b)
  BY <1>8, <1>10 DEF WriteBear
<1>11. CASE \E b \in BearIds : CreateUnnamed(i, b)
  <2>1. /\ faults' > 0 /\ ActionOf(i) = "create" /\ phase' = "verify" /\ Turn(i)
        /\ acks' = Put(acks, i, Ack("applied")) /\ UNCHANGED <<handlerVars, batch>>
    BY <1>1, <1>11 DEF CreateUnnamed, BearCreate, Fault
  <2>2. NewAckOK(i, Ack("applied"))
    BY <1>1, <2>1, AckTypes DEF NewAckOK
  <2> QED
    BY <2>1, <2>2
<1> QED
  BY <1>2, <1>3, <1>4, <1>5, <1>6, <1>9, <1>10, <1>11

\* The verification leaves the acknowledgement as it was, but for the stamp and
\* the id of a note that was not created.
VerifiedAck(i, ack) ==
  /\ ack \in AckRecord
  /\ ack.outcome = acks[i].outcome /\ ack.conflict_resolved = acks[i].conflict_resolved
  /\ ack.bear_id = IF ActionOf(i) = "create" THEN acks[i].bear_id ELSE NULL
  /\ ack.bear_modified_at \in {acks[i].bear_modified_at, Modified(acks[i].bear_id)}

LEMMA VerifiedAcks ==
  ASSUME BaseInv, NEW i \in Nat, Verify(i) \/ VerifyFails(i)
  PROVE  \E ack : /\ VerifiedAck(i, ack) /\ acks' = [acks EXCEPT ![i] = ack]
                  /\ phase = "verify" /\ LastAcked(i)
                  /\ acks[i].bear_id # NULL /\ acks[i].bear_id \in BearIds
<1>1. /\ phase = "verify" /\ LastAcked(i) /\ acks[i].bear_id # NULL
  BY DEF Verify, VerifyFails, Verified, Written, LastAcked
<1>2. BatchShape /\ BearInv /\ i \in DOMAIN acks
  BY <1>1 DEF BaseInv, BridgeInv, LastAcked
<1>3. acks[i] \in AckRecord
  BY <1>2 DEF BatchShape
<1>4. acks[i].bear_id # NULL /\ acks[i].bear_id \in BearIds
  BY <1>1, <1>3 DEF AckRecord
<1>5. ASSUME NEW a \in AckRecord, Verified(i, a), a.outcome = acks[i].outcome,
             a.conflict_resolved = acks[i].conflict_resolved, a.bear_id = acks[i].bear_id,
             a.bear_modified_at \in {acks[i].bear_modified_at, Modified(acks[i].bear_id)}
      PROVE  \E ack : VerifiedAck(i, ack) /\ acks' = [acks EXCEPT ![i] = ack]
  <2> DEFINE ack == [a EXCEPT !.bear_id = IF ActionOf(i) = "create" THEN @ ELSE NULL]
  <2>1. ack \in AckRecord /\ VerifiedAck(i, ack)
    BY <1>3, <1>5 DEF AckRecord, VerifiedAck
  <2>2. acks' = [acks EXCEPT ![i] = ack]
    BY <1>5 DEF Verified
  <2> QED
    BY <2>1, <2>2
<1>6. CASE Verify(i)
  <2> DEFINE a == [acks[i] EXCEPT !.bear_modified_at = Modified(acks[i].bear_id)]
  <2>1. Modified(acks[i].bear_id) \in Seconds \cup {NULL}
    BY <1>2, <1>4, ModifiedTyped
  <2>2. /\ a \in AckRecord /\ a.outcome = acks[i].outcome /\ a.bear_id = acks[i].bear_id
        /\ a.conflict_resolved = acks[i].conflict_resolved
        /\ a.bear_modified_at = Modified(acks[i].bear_id)
    BY <1>3, <2>1 DEF AckRecord
  <2>3. Verified(i, a)
    BY <1>6 DEF Verify
  <2> HIDE DEF a
  <2> QED
    BY <1>1, <1>4, <1>5, <2>2, <2>3
<1>7. CASE VerifyFails(i)
  BY <1>1, <1>3, <1>4, <1>5, <1>7 DEF VerifyFails
<1> QED
  BY <1>6, <1>7

\* What the search by title acknowledges.
SearchedAck(i, ack) ==
  /\ ack \in AckRecord /\ ~ack.conflict_resolved
  /\ \/ ack = Ack("failed") /\ ack.outcome = "failed" /\ ack.bear_id = NULL
     \/ ack.outcome = "applied" /\ ack.bear_id \in BearIds /\ Exists(bear[ack.bear_id])

LEMMA SearchedAcks ==
  ASSUME BaseInv, NEW i \in Nat, SearchFails(i) \/ \E b \in BearIds : SearchFinds(i, b)
  PROVE  \E ack : /\ SearchedAck(i, ack) /\ acks' = [acks EXCEPT ![i] = ack]
                  /\ phase = "verify" /\ LastAcked(i) /\ acks[i].bear_id = NULL
                  /\ ActionOf(i) = "create" /\ faults > 0
<1>1. phase = "verify" /\ LastAcked(i) /\ acks[i].bear_id = NULL
  BY DEF SearchFails, SearchFinds, Searched, Written, LastAcked
<1>2. BatchShape /\ BearInv /\ i \in DOMAIN acks /\ AckOK(i)
  BY <1>1 DEF BaseInv, BridgeInv, LastAcked
<1>3. acks[i] \in AckRecord
  BY <1>2 DEF BatchShape
<1>4. /\ ActionOf(i) = "create" /\ faults > 0
      /\ acks[i].outcome = "applied" /\ ~acks[i].conflict_resolved
  BY <1>1, <1>2 DEF AckOK
<1>5. CASE SearchFails(i)
  <2>1. SearchedAck(i, Ack("failed"))
    BY AckTypes DEF SearchedAck, Outcomes
  <2> QED
    BY <1>1, <1>4, <1>5, <2>1 DEF SearchFails, Searched
<1>6. ASSUME NEW b \in BearIds, SearchFinds(i, b)
      PROVE  \E ack : SearchedAck(i, ack) /\ acks' = [acks EXCEPT ![i] = ack]
  <2> DEFINE a == [acks[i] EXCEPT !.bear_id = b, !.bear_modified_at = Modified(b)]
  <2>1. Modified(b) \in Seconds \cup {NULL} /\ Exists(bear[b])
    BY <1>2, <1>6, ModifiedTyped DEF SearchFinds, Titled
  <2>2. a \in AckRecord /\ a.outcome = acks[i].outcome /\ a.bear_id = b
        /\ a.conflict_resolved = acks[i].conflict_resolved
    BY <1>3, <2>1 DEF AckRecord
  <2>3. acks' = [acks EXCEPT ![i] = a]
    BY <1>6 DEF SearchFinds, Searched
  <2> HIDE DEF a
  <2>4. SearchedAck(i, a)
    BY <1>4, <2>1, <2>2 DEF SearchedAck
  <2> QED
    BY <2>3, <2>4
<1> QED
  BY <1>1, <1>4, <1>5, <1>6

\* The acknowledgement of the item that was written becomes complete.
LEMMA LastAckKept ==
  ASSUME BaseInv, NEW i \in Nat, NEW ack, LastAcked(i), phase = "verify",
         acks' = [acks EXCEPT ![i] = ack], UNCHANGED <<handlerVars, batch, bear>>,
         phase' = IF Todo = {} THEN "ack" ELSE "apply", NewAckOK(i, ack),
         faults' \in Nat, faults <= faults'
  PROVE  BridgeInv'
<1>1. BatchShape /\ BatchLeased /\ BearInv /\ faults \in Nat /\ \A j \in DOMAIN acks : AckOK(j)
  BY DEF BaseInv, BridgeInv, CountersOK
<1>2. phase' # "verify"
  OBVIOUS
<1>3. /\ DOMAIN acks' = DOMAIN acks /\ acks' \in [DOMAIN acks -> AckRecord] /\ acks'[i] = ack
      /\ \A j \in DOMAIN acks \ {i} : acks'[j] = acks[j]
      /\ i \in DOMAIN acks /\ Todo' = Todo
  BY <1>1 DEF BatchShape, NewAckOK, LastAcked, Todo
<1>4. BatchShape'
  BY <1>1, <1>2, <1>3 DEF BatchShape, Ids, handlerVars, vars
<1>5. BatchLeased'
  BY <1>1 DEF BatchLeased, handlerVars, vars
<1>6. ASSUME NEW j \in DOMAIN acks PROVE AckOK(j)'
  <2>1. faults' = 0 => faults = 0
    BY <1>1
  <2>2. CASE j = i
    BY <1>1, <1>2, <1>3, <2>1, <2>2 DEF AckOK, NewAckOK, ActionOf
  <2>3. CASE j # i
    <3>1. ~LastAcked(j)
      BY <1>1, <1>3, <2>3 DEF LastAcked, BatchShape, Ids
    <3> QED
      BY <1>1, <1>2, <1>3, <2>1, <2>3, <3>1 DEF AckOK, ActionOf
  <2> QED
    BY <2>2, <2>3
<1> QED
  BY <1>3, <1>4, <1>5, <1>6 DEF BridgeInv

LEMMA VerifyKeepsBridge ==
  ASSUME BaseInv, NEW i \in Nat, faults' \in Nat, faults <= faults',
         Verify(i) \/ VerifyFails(i) \/ SearchFails(i) \/ \E b \in BearIds : SearchFinds(i, b)
  PROVE  BridgeInv'
<1>1. BatchShape /\ faults \in Nat /\ \A j \in DOMAIN acks : AckOK(j)
  BY DEF BaseInv, BridgeInv, CountersOK
<1>2. /\ UNCHANGED <<handlerVars, batch, bear>>
      /\ phase' = IF Todo = {} THEN "ack" ELSE "apply"
  BY DEF Verify, VerifyFails, Verified, SearchFails, SearchFinds, Searched
<1>3. CASE Verify(i) \/ VerifyFails(i)
  <2>1. PICK ack : /\ VerifiedAck(i, ack) /\ acks' = [acks EXCEPT ![i] = ack]
                   /\ phase = "verify" /\ LastAcked(i)
                   /\ acks[i].bear_id # NULL /\ acks[i].bear_id \in BearIds
    BY <1>3, VerifiedAcks
  <2>2. AckOK(i)
    BY <1>1, <2>1 DEF LastAcked
  <2>3. NewAckOK(i, ack)
    BY <1>1, <1>2, <2>1, <2>2 DEF AckOK, NewAckOK, VerifiedAck
  <2> QED
    BY <1>2, <2>1, <2>3, LastAckKept
<1>4. CASE SearchFails(i) \/ \E b \in BearIds : SearchFinds(i, b)
  <2>1. PICK ack : /\ SearchedAck(i, ack) /\ acks' = [acks EXCEPT ![i] = ack]
                   /\ phase = "verify" /\ LastAcked(i) /\ acks[i].bear_id = NULL
                   /\ ActionOf(i) = "create" /\ faults > 0
    BY <1>4, SearchedAcks
  <2>2. NewAckOK(i, ack)
    <3>1. phase' # "verify" /\ faults' # 0 /\ faults' > 0
      BY <1>1, <1>2, <2>1
    <3>2. ack.bear_id # NULL => /\ ack.outcome = "applied" /\ ack.bear_id \in BearIds
                                /\ Exists(bear'[ack.bear_id])
      BY <1>2, <2>1 DEF SearchedAck
    <3>3. ack.outcome = "applied" => ack.bear_id # NULL
      BY <2>1, NotesAssumption DEF SearchedAck
    <3> QED
      BY <2>1, <3>1, <3>2, <3>3 DEF NewAckOK, SearchedAck, Exists
  <2> QED
    BY <1>2, <2>1, <2>2, LastAckKept
<1> QED
  BY <1>3, <1>4

LEMMA LeaseKeepsBridge ==
  ASSUME BaseInv, LeaseBatch
  PROVE  BridgeInv'
<1>1. TypeOK /\ BatchShape
  BY DEF BaseInv, HubInv, BridgeInv
<1>2. RowsKept
  BY <1>1, LeaseKeepsRows DEF LeaseBatch
<1>3. DOMAIN acks = {} /\ acks \in [DOMAIN acks -> AckRecord] /\ UNCHANGED acks
  BY <1>1 DEF BatchShape, LeaseBatch
<1>4. /\ DOMAIN batch' = LeasedNow /\ LeasedNow \subseteq Ids
      /\ \A i \in LeasedNow : batch'[i].work = Work(write_queue[i])
      /\ phase' = IF LeasedNow = {} THEN "start" ELSE "apply"
  BY DEF LeaseBatch, LeasedNow, Leasable
<1>5. \A i \in LeasedNow : write_queue'[i].status = "processing"
  <2> SUFFICES ASSUME NEW i \in LeasedNow PROVE write_queue'[i].status = "processing"
    OBVIOUS
  <2>1. write_queue'[i] = [write_queue[i] EXCEPT !.status = "processing",
                                                 !.lease_until = LeaseDuration]
    BY <1>4 DEF LeaseBatch, LeaseQueueItems, AfterLease
  <2> QED
    BY <1>1, <1>4, <2>1, TableShape DEF Row
<1>6. BatchLeased'
  BY <1>2, <1>4, <1>5 DEF BatchLeased, RowsKept
<1>7. BatchShape'
  BY <1>2, <1>3, <1>4 DEF BatchShape, Todo, RowsKept
<1> QED
  BY <1>3, <1>6, <1>7 DEF BridgeInv

LEMMA BridgeStepKept ==
  ASSUME BaseInv, [SyncNext]_syncVars
  PROVE  BridgeInv'
<1>1. HubInv /\ TypeOK /\ BearInv /\ BridgeInv /\ BatchShape /\ faults \in Nat /\ clock \in Seconds
  BY DEF BaseInv, HubInv, BridgeInv, CountersOK
<1>2. BearGrow /\ CountersOK' /\ faults' \in Nat /\ faults <= faults'
  BY BearStep, CountersStep DEF CountersOK
<1>3. RowsKept /\ (\A i \in Ids : write_queue[i].status = "processing" =>
                                    write_queue'[i].status = "processing") => LeasedStay
  BY DEF RowsKept, LeasedStay
<1>4. CASE HandlerMoves
  <2>1. LeasedStay
    BY <1>1, <1>4, MovesKeepHub DEF HandlerMoves
  <2> QED
    BY <1>1, <1>2, <1>4, <2>1, BridgeUntouched DEF HandlerMoves, bridgeVars
<1>5. CASE LeaseTime
  <2>1. RowsKept
    BY <1>1, <1>5, TickKeepsRows DEF LeaseTime
  <2>2. ASSUME NEW i \in Ids, write_queue[i].status = "processing"
        PROVE  write_queue'[i].status = "processing"
    BY <1>1, <1>5, <2>2, TableShape DEF LeaseTime, Tick, Row
  <2> QED
    BY <1>1, <1>2, <1>3, <1>5, <2>1, <2>2, BridgeUntouched DEF LeaseTime, bridgeVars
<1>6. CASE LeaseBatch
  BY <1>6, LeaseKeepsBridge
<1>7. acks = [i \in DOMAIN acks |-> acks[i]]
  BY <1>1 DEF BatchShape
<1>8. CASE AckBatch
  BY <1>8, EmptyBatch DEF AckBatch, Nothing
<1>9. CASE PushDelta \/ PushUnrecorded
  <2>1. /\ phase = "push" /\ phase' \in {"start", "push", "lease"} /\ UNCHANGED <<batch, acks>>
    BY <1>9 DEF PushDelta, PushUnrecorded, Push
  <2>2. DOMAIN batch = {} /\ DOMAIN acks = {}
    BY <1>1, <2>1 DEF BatchShape
  <2> QED
    BY <1>7, <2>1, <2>2, EmptyBatch
<1>10. CASE ReadDelta
  <2>1. /\ phase = "start" /\ phase' \in {"start", "push", "lease"} /\ UNCHANGED <<batch, acks>>
    BY <1>10 DEF ReadDelta
  <2>2. DOMAIN batch = {} /\ DOMAIN acks = {}
    BY <1>1, <2>1 DEF BatchShape
  <2> QED
    BY <1>7, <2>1, <2>2, EmptyBatch
<1>11. CASE BridgeDies \/ AckRefused
  BY <1>11, EmptyBatch DEF BridgeDies, AckRefused, Nothing
<1>12. LeasedStay \/ ~UNCHANGED handlerVars
  BY UnchangedLeavesLeased DEF handlerVars
<1>13. CASE \/ \E b \in BearIds : UserEdits(b) \/ UserDeletes(b)
            \/ UNCHANGED syncVars
  <2>1. UNCHANGED <<phase, batch, acks>> /\ UNCHANGED handlerVars
    BY <1>13 DEF UserEdits, UserDeletes, syncVars, bridgeVars
  <2> QED
    BY <1>1, <1>2, <1>12, <2>1, BridgeUntouched
<1>14. ASSUME NEW i \in 1..MaxRows,
              Verify(i) \/ VerifyFails(i) \/ SearchFails(i) \/ \E b \in BearIds : SearchFinds(i, b)
       PROVE  BridgeInv'
  BY <1>2, <1>14, VerifyKeepsBridge
<1>15. ASSUME NEW i \in 1..MaxRows,
              \/ TargetLost(i) \/ SkipItem(i) \/ ChangeBear(i) \/ CopyConflict(i) \/ ItemFails(i)
              \/ \E b \in BearIds : \/ WriteBear(i, b) \/ WriteReportsFailure(i, b)
                                   \/ CreateUnnamed(i, b)
       PROVE  BridgeInv'
  <2>1. PICK ack : /\ NewAckOK(i, ack) /\ Turn(i) /\ acks' = Put(acks, i, ack)
                   /\ UNCHANGED <<handlerVars, batch>>
                   /\ \/ phase' = IF Todo = {i} THEN "ack" ELSE "apply"
                      \/ phase' = "verify"
    BY <1>2, <1>15, ItemStepAcks
  <2> QED
    BY <1>2, <2>1, ItemDone
<1>16. QuietStep => BridgeInv'
  BY <1>10, <1>11, <1>13, <1>14, <1>15 DEF QuietStep
<1> QED
  BY <1>4, <1>5, <1>6, <1>8, <1>9, <1>16, StepCases

LEMMA BaseStep ==
  ASSUME BaseInv, [SyncNext]_syncVars
  PROVE  BaseInv'
BY HubStep, BearStep, CountersStep, BridgeStepKept DEF BaseInv

\* The notes of the start.
LEMMA BaseInit ==
  ASSUME SyncInit
  PROVE  BaseInv
<1> USE SyncAssumption, NotesAssumption
<1>1. FirstNote \in BearNote
  BY DEF FirstNote, BearNote, Seconds
<1>2. ASSUME NEW n \in HubIds
      PROVE  /\ notes[n] \in NoteRow \cup {NULL, GONE}
             /\ notes[n] = NULL \/ \E b \in DOMAIN Existing :
                                     Existing[b] = n /\ notes[n] = InsertedNote(FirstNote, b)
  <2>1. CASE \E b \in DOMAIN Existing : Existing[b] = n
    <3> DEFINE c == CHOOSE b \in DOMAIN Existing : Existing[b] = n
    <3>1. c \in DOMAIN Existing /\ Existing[c] = n
      BY <2>1
    <3>2. notes[n] = InsertedNote(FirstNote, c)
      BY <2>1 DEF SyncInit
    <3>3. c \in BearIds
      BY <3>1
    <3> HIDE DEF c
    <3> QED
      BY <1>1, <3>1, <3>2, <3>3, InsertedTyped
  <2>2. CASE ~(\E b \in DOMAIN Existing : Existing[b] = n)
    BY <2>2 DEF SyncInit
  <2> QED
    BY <2>1, <2>2
<1>3. Init /\ Ids = {} /\ TypeOK
  BY DEF SyncInit, Init, Ids, TypeOK
<1>4. NotesTypeOK
  BY <1>2 DEF SyncInit, NotesTypeOK
<1>5. HandlersOK /\ \A h \in Handlers : handlers[h] = Idle
  BY IdleShape DEF SyncInit, HandlersOK, HandlersTypeOK, HandlerShape
<1>6. HubInv
  BY <1>3, <1>4, <1>5, IdleShape DEF HubInv, RowsOK, NotesKnown, Holds, UpdateSteps, CreateSteps
<1>7. BearInv
  BY <1>1 DEF SyncInit, BearInv, Nothing
<1>8. CountersOK
  BY DEF SyncInit, CountersOK, Seconds
<1>9. BridgeInv
  BY DEF SyncInit, Nothing, BridgeInv, BatchShape, BatchLeased, Todo
<1> QED
  BY <1>6, <1>7, <1>8, <1>9 DEF BaseInv

THEOREM BaseInvariant == SyncSpec => []BaseInv
<1>1. SyncInit => BaseInv
  BY BaseInit
<1>2. BaseInv /\ [SyncNext]_syncVars => BaseInv'
  BY BaseStep
<1> QED
  BY <1>1, <1>2, PTL DEF SyncSpec

\* The state of the hub, its handlers, the bridge and Bear always has its type:
\* no transaction writes a row that the tables could not hold, and the bridge
\* acknowledges no row it has not leased.
THEOREM SyncTypes == SyncSpec => []SyncTypeOK
<1>1. BaseInv => SyncTypeOK
  BY DEF BaseInv, HubInv, HandlersOK, BearInv, BridgeInv, BatchShape, CountersOK, SyncTypeOK
<1> QED
  BY <1>1, BaseInvariant, PTL

-----------------------------------------------------------------------------
(***************************************************************************)
(* What a move of a handler does, seen from a row, a note and another      *)
(* handler.                                                                *)
(***************************************************************************)
LEMMA QueueMoves ==
  ASSUME NEW h, Moves(h) \/ Stumbles(h)
  PROVE  \/ UNCHANGED vars
         \/ \E i \in Nat : Asks(h, i) \/ AsksCreate(h, i)
         \/ \E i \in Ids : Merges(h, i)
BY DEF Moves, Stumbles, Forgets, ReadsNote, StartsCreate, ChoosesWrite, Turns, WritesSome, Writes,
   DeletesSome, Deletes, Inserts

\* A handler that changes a note has just read it or has kept its copy.
SameHandler(g) ==
  /\ handlers'[g].call = handlers[g].call /\ handlers'[g].note_id = handlers[g].note_id
  /\ handlers'[g].copy = handlers[g].copy

LEMMA NextStates ==
  ASSUME NEW h, Moves(h) \/ Stumbles(h)
  PROVE  \/ HandlerBecomes(h, Idle)
         \/ \E to \in UpdateSteps : Updates(h) /\ HandlerBecomes(h, StepTo(handlers[h], to))
         \/ \E to \in {"create_note", "delete_created"} : HandlerBecomes(h, StepTo(handlers[h], to))
         \/ \E c \in Calls : ReadsNote(h, c) \/ StartsCreate(h, c)
         \/ \E n \in HubIds : Inserts(h, n)
<1>s. {"check_key", "update_note", "enqueue", "restore", "find_create", "coalesce",
       "update_coalesced"} = UpdateSteps
  BY DEF UpdateSteps
<1>1. CASE Forgets(h)
  BY <1>1 DEF Forgets
<1>2. CASE ChoosesWrite(h)
  BY <1>2, <1>s DEF ChoosesWrite, Turns, At, Updates
<1>3. CASE WritesSome(h)
  BY <1>3, <1>s DEF WritesSome, Writes, At, Updates
<1>4. CASE DeletesSome(h)
  BY <1>4 DEF DeletesSome, Deletes
<1>5. ASSUME NEW i, Asks(h, i) \/ AsksCreate(h, i)
      PROVE  HandlerBecomes(h, Idle) \/ HandlerBecomes(h, StepTo(handlers[h], "delete_created"))
  BY <1>5 DEF Asks, AsksCreate
<1>6. ASSUME NEW i, Merges(h, i)
      PROVE  Updates(h) /\ HandlerBecomes(h, StepTo(handlers[h], "update_coalesced"))
  BY <1>6, <1>s DEF Merges, At, Updates
<1>7. CASE Turns(h, "enqueue", "restore")
  BY <1>7, <1>s DEF Turns, At, Updates
<1>8. CASE Turns(h, "enqueue_create", "delete_created")
  BY <1>8 DEF Turns
<1> QED
  BY <1>1, <1>2, <1>3, <1>4, <1>5, <1>6, <1>7, <1>8, <1>s DEF Moves, Stumbles

LEMMA OthersKeptByMove ==
  ASSUME NEW h, Moves(h) \/ Stumbles(h), NEW g \in Handlers \ {h}
  PROVE  handlers'[g] = handlers[g]
BY NextStates DEF HandlerBecomes, ReadsNote, StartsCreate, Inserts

LEMMA StartStates ==
  ASSUME NEW h, NEW c, StartsCreate(h, c)
  PROVE  handlers'[h].step \in {"create_note", "delete_orphan"}
<1>1. ASSUME NEW step, NEW n, step \in {"create_note", "delete_orphan"},
             HandlerBecomes(h, [step |-> step, call |-> c, note_id |-> n, copy |-> NULL])
      PROVE  handlers'[h].step \in {"create_note", "delete_orphan"}
  BY <1>1 DEF HandlerBecomes
<1>2. \E n : \/ HandlerBecomes(h, [step |-> "create_note", call |-> c, note_id |-> n, copy |-> NULL])
             \/ HandlerBecomes(h, [step |-> "delete_orphan", call |-> c, note_id |-> n, copy |-> NULL])
  BY Zenon DEF StartsCreate
<1> QED
  BY <1>1, <1>2

LEMMA UpdaterMoves ==
  ASSUME HubInv, NEW h \in Handlers, Moves(h) \/ Stumbles(h), NEW g \in Handlers, Updates(g)'
  PROVE  \/ Updates(g) /\ SameHandler(g)
         \/ /\ g = h /\ \E c \in Calls : /\ ReadsNote(h, c) /\ handlers'[h].call = c
                                         /\ handlers'[h].note_id = c.note_id
                                         /\ handlers'[h].copy = notes[c.note_id]
<1>1. CASE g # h
  <2>1. handlers'[g] = handlers[g]
    BY <1>1, OthersKeptByMove
  <2> QED
    BY <2>1 DEF Updates, SameHandler
<1>2. CASE g = h
  <2>1. handlers'[h].step \in UpdateSteps
    BY <1>2 DEF Updates
  <2>2. ~HandlerBecomes(h, Idle)
    BY <2>1, IdleShape DEF HandlerBecomes, UpdateSteps
  <2>3. ASSUME NEW to \in {"create_note", "delete_created"} PROVE ~HandlerBecomes(h, StepTo(handlers[h], to))
    <3>1. to \in Steps /\ to \notin UpdateSteps
      BY DEF Steps, UpdateSteps
    <3> QED
      BY <2>1, <3>1, StepToFields DEF HandlerBecomes
  <2>4. ASSUME NEW to \in UpdateSteps, HandlerBecomes(h, StepTo(handlers[h], to))
        PROVE  SameHandler(h)
    <3>1. to \in Steps
      BY DEF Steps, UpdateSteps
    <3> QED
      BY <2>4, <3>1, StepToFields DEF HandlerBecomes, SameHandler
  <2>5. ASSUME NEW c \in Calls, ReadsNote(h, c)
        PROVE  /\ handlers'[h].call = c /\ handlers'[h].note_id = c.note_id
               /\ handlers'[h].copy = notes[c.note_id]
    BY <2>5 DEF ReadsNote, HandlerBecomes
  <2>6. ASSUME NEW c \in Calls, StartsCreate(h, c) PROVE FALSE
    <3>1. handlers'[h].step \in {"create_note", "delete_orphan"}
      BY <2>6, StartStates
    <3> QED
      BY <2>1, <3>1 DEF UpdateSteps
  <2>7. ASSUME NEW n \in HubIds, Inserts(h, n) PROVE FALSE
    <3>1. handlers'[h].step = "enqueue_create"
      BY <2>7 DEF Inserts, HandlerBecomes
    <3> QED
      BY <2>1, <3>1 DEF UpdateSteps
  <2> QED
    BY <1>2, <2>2, <2>3, <2>4, <2>5, <2>6, <2>7, NextStates
<1> QED
  BY <1>1, <1>2

\* A handler about to enqueue a create was there before or has just made its note.
LEMMA CreatorMoves ==
  ASSUME HubInv, NEW h \in Handlers, Moves(h) \/ Stumbles(h), NEW g \in Handlers,
         At(g, "enqueue_create")'
  PROVE  \/ At(g, "enqueue_create") /\ handlers'[g] = handlers[g] /\ g # h
         \/ g = h /\ \E n \in HubIds : Inserts(h, n) /\ handlers'[h].note_id = n
<1>1. CASE g # h
  <2>1. handlers'[g] = handlers[g]
    BY <1>1, OthersKeptByMove
  <2> QED
    BY <1>1, <2>1 DEF At
<1>2. CASE g = h
  <2>1. handlers'[h].step = "enqueue_create"
    BY <1>2 DEF At
  <2>2. ~HandlerBecomes(h, Idle)
    BY <2>1, IdleShape DEF HandlerBecomes
  <2>3. ASSUME NEW to \in UpdateSteps \cup {"create_note", "delete_created"}
        PROVE  ~HandlerBecomes(h, StepTo(handlers[h], to))
    <3>1. to \in Steps /\ to # "enqueue_create"
      BY DEF Steps, UpdateSteps
    <3> QED
      BY <2>1, <3>1, StepToFields DEF HandlerBecomes
  <2>4. ASSUME NEW n \in HubIds, Inserts(h, n) PROVE handlers'[h].note_id = n
    BY <2>4 DEF Inserts, HandlerBecomes
  <2>5. ASSUME NEW c \in Calls, ReadsNote(h, c) \/ StartsCreate(h, c) PROVE FALSE
    <3>1. handlers'[h].step \in {"check_key", "create_note", "delete_orphan"}
      BY <2>5, StartStates DEF ReadsNote, HandlerBecomes
    <3> QED
      BY <2>1, <3>1
  <2> QED
    BY <1>2, <2>2, <2>3, <2>4, <2>5, NextStates
<1> QED
  BY <1>1, <1>2

\* A note is written by the handler that holds a copy, deleted by the one that
\* made it, or new.
NoteWritten(h, n) ==
  /\ Updates(h) /\ n = handlers[h].note_id
  /\ Exists(notes[n]) /\ notes'[n] \in NoteRow
  /\ notes'[n].bear_id = handlers[h].copy.bear_id
  /\ WritesSome(h)

NoteMade(h, n) ==
  /\ notes[n] = NULL /\ notes'[n] \in NoteRow /\ notes'[n].bear_id = NULL
  /\ notes'[n].sync_status = "pending_to_bear"
  /\ Inserts(h, n) /\ At(h, "enqueue_create")' /\ handlers'[h].note_id = n

LEMMA NoteMoves ==
  ASSUME BaseInv, NEW h \in Handlers, Moves(h) \/ Stumbles(h), NEW n \in HubIds
  PROVE  \/ notes'[n] = notes[n]
         \/ NoteWritten(h, n)
         \/ notes'[n] = GONE
         \/ NoteMade(h, n)
<1> USE DEF At
<1>1. HubInv /\ clock \in Seconds
  BY DEF BaseInv, CountersOK
<1>2. CASE WritesSome(h)
  <2>1. PICK row \in NoteRow :
          /\ NoteBecomes(handlers[h].note_id, row) /\ row.bear_id = handlers[h].copy.bear_id
          /\ Updates(h)
    <3>1. ASSUME NEW from, NEW row, NEW x, Writes(h, from, row, x),
                 from \in {"update_note", "restore", "update_coalesced"}
          PROVE  Updates(h) /\ handlers[h].copy \in NoteRow /\ handlers[h].call \in Calls
      BY <1>1, <3>1, HandlerFields DEF Writes, Updates, UpdateSteps
    <3>2. Updates(h) /\ handlers[h].copy \in NoteRow /\ handlers[h].call \in Calls
      BY <1>2, <3>1 DEF WritesSome
    <3>3. /\ Changed(handlers[h].call, handlers[h].copy).bear_id = handlers[h].copy.bear_id
          /\ [handlers[h].copy EXCEPT !.body = handlers[h].call.body].bear_id =
               handlers[h].copy.bear_id
      BY <3>2, ChangedTyped DEF NoteRow
    <3> QED
      BY <1>2, <3>2, <3>3 DEF WritesSome, Writes
  <2> QED
    BY <1>2, <2>1 DEF NoteBecomes, NoteWritten
<1>3. CASE DeletesSome(h)
  BY <1>3 DEF DeletesSome, Deletes, NoteBecomes
<1>4. ASSUME NEW m \in HubIds, Inserts(h, m)
      PROVE  notes'[n] = notes[n] \/ NoteMade(h, n)
  <2>1. NewNote(handlers[h].call, clock) \in NoteRow
        /\ NewNote(handlers[h].call, clock).bear_id = NULL
        /\ NewNote(handlers[h].call, clock).sync_status = "pending_to_bear"
    BY <1>1, <1>4, HandlerFields, NewNoteTyped DEF Inserts, CreateSteps
  <2>2. At(h, "enqueue_create")' /\ handlers'[h].note_id = m
    BY <1>4 DEF Inserts, HandlerBecomes
  <2> QED
    BY <1>4, <2>1, <2>2 DEF Inserts, NoteMade
<1>5. \/ WritesSome(h) \/ DeletesSome(h) \/ \E m \in HubIds : Inserts(h, m)
      \/ UNCHANGED notes
  BY DEF Moves, Stumbles, Forgets, ReadsNote, StartsCreate, ChoosesWrite, Turns, Asks, AsksCreate,
     Merges
<1> QED
  BY <1>2, <1>3, <1>4, <1>5

-----------------------------------------------------------------------------
(***************************************************************************)
(* Creates and their notes.                                                *)
(***************************************************************************)
\* The bridge's transactions and the passing of time revive no row.
RowsSettle ==
  /\ RowsKept
  /\ \A i \in Ids : Active(write_queue'[i]) => Active(write_queue[i])

LEMMA LeaseSettles ==
  ASSUME TypeOK, LeaseQueueItems
  PROVE  /\ RowsSettle
         /\ \A i \in Ids : /\ Active(write_queue[i]) <=> Active(write_queue'[i])
                           /\ ~Active(write_queue[i]) => write_queue'[i] = write_queue[i]
<1>1. RowsKept
  BY LeaseKeepsRows
<1>2. ASSUME NEW i \in Ids
      PROVE  /\ Active(write_queue[i]) <=> Active(write_queue'[i])
             /\ ~Active(write_queue[i]) => write_queue'[i] = write_queue[i]
  <2>1. write_queue'[i] = AfterLease(i) /\ write_queue[i] \in Row
    BY TableShape DEF LeaseQueueItems
  <2>2. CASE i \in LeasedNow
    BY <2>1, <2>2 DEF AfterLease, LeasedNow, Leasable, LeaseRunOut, Active, Row
  <2>3. CASE i \in Leasable \ LeasedNow
    BY <2>1, <2>3 DEF AfterLease, Leasable, LeaseRunOut, Active, Row
  <2>4. CASE i \notin Leasable
    BY <2>1, <2>4 DEF AfterLease, LeasedNow
  <2> QED
    BY <2>2, <2>3, <2>4
<1> QED
  BY <1>1, <1>2 DEF RowsSettle

LEMMA TickSettles ==
  ASSUME TypeOK, Tick
  PROVE  /\ RowsSettle
         /\ \A i \in Ids : write_queue'[i].status = write_queue[i].status
<1>1. RowsKept
  BY TickKeepsRows
<1>2. \A i \in Ids : write_queue'[i].status = write_queue[i].status
  BY TableShape DEF Tick, Row
<1> QED
  BY <1>1, <1>2 DEF RowsSettle, Active

LEMMA DeleteSettles ==
  ASSUME TypeOK, NEW D, FailQueueItemsForDeletedNotes(D)
  PROVE  /\ RowsSettle
         /\ \A i \in Ids : \/ write_queue'[i] = write_queue[i]
                           \/ /\ write_queue[i].note_id \in D /\ Active(write_queue[i])
                              /\ write_queue'[i].status = "failed"
<1>1. RowsKept
  BY DeleteKeepsRows
<1>2. \A i \in Ids : \/ write_queue'[i] = write_queue[i]
                     \/ /\ write_queue[i].note_id \in D /\ Active(write_queue[i])
                        /\ write_queue'[i].status = "failed"
  BY TableShape DEF FailQueueItemsForDeletedNotes, Row
<1> QED
  BY <1>1, <1>2 DEF RowsSettle

LEMMA AckSettles ==
  ASSUME BaseInv, AckItems(acks)
  PROVE  /\ RowsSettle
         /\ \A i \in Ids : \/ i \notin DOMAIN acks /\ write_queue'[i] = write_queue[i]
                           \/ i \in DOMAIN acks /\ write_queue'[i].status = acks[i].outcome
<1> DEFINE as == [i \in DOMAIN acks |-> acks[i].outcome]
<1>1. TypeOK /\ \A i \in DOMAIN as : as[i] \in Outcomes
  BY AcksTyped
<1>2. AckQueueItems(as) /\ DOMAIN as = DOMAIN acks /\ \A i \in DOMAIN acks : as[i] = acks[i].outcome
  BY DEF AckItems
<1> HIDE DEF as
<1>3. RowsKept
  BY <1>1, <1>2, AckKeepsRows
<1>4. \A i \in DOMAIN acks : i \in Ids /\ write_queue[i].status = "processing"
  BY DEF BaseInv, BridgeInv, BatchShape, BatchLeased
<1>5. ASSUME NEW i \in Ids
      PROVE  \/ i \notin DOMAIN acks /\ write_queue'[i] = write_queue[i]
             \/ i \in DOMAIN acks /\ write_queue'[i].status = acks[i].outcome
  BY <1>1, <1>2, <1>4, TableShape DEF AckQueueItems, Row
<1>6. \A i \in DOMAIN acks : acks[i].outcome \in Outcomes
  BY AcksTyped
<1> QED
  BY <1>3, <1>4, <1>5, <1>6 DEF RowsSettle, Active, Outcomes

LEMMA UnchangedSettles ==
  ASSUME TypeOK, UNCHANGED vars
  PROVE  RowsSettle /\ write_queue' = write_queue
BY DEF RowsSettle, RowsKept, TypeOK, vars, Ids

PendingCreate(n) ==
  \/ \E h \in Handlers : At(h, "enqueue_create") /\ handlers[h].note_id = n
  \/ \E i \in Ids : /\ Active(write_queue[i]) /\ write_queue[i].action = "create"
                    /\ write_queue[i].note_id = n

\* No note is created twice, and nobody else asks anything of a note whose create
\* is not enqueued yet.
CreatesUnique ==
  \A i, j \in Ids : /\ write_queue[i].action = "create" /\ write_queue[j].action = "create"
                    /\ write_queue[i].note_id = write_queue[j].note_id
                    => i = j

CreatorsAlone ==
  \A h \in Handlers : At(h, "enqueue_create") =>
    /\ \A i \in Ids : write_queue[i].note_id # handlers[h].note_id
    /\ \A g \in Handlers : At(g, "enqueue_create") /\ handlers[g].note_id = handlers[h].note_id =>
         g = h

\* Until its create is settled a note has no id of Bear, in the table and in
\* every copy.
UnbornInBear ==
  \A n \in HubIds : PendingCreate(n) =>
    /\ n \in LiveNotes => notes[n].bear_id = NULL
    /\ \A h \in Handlers : Updates(h) /\ handlers[h].note_id = n => handlers[h].copy.bear_id = NULL

Owned(n) ==
  \/ \E i \in Ids : write_queue[i].action = "create" /\ write_queue[i].note_id = n
  \/ \E h \in Handlers : /\ handlers[h].step \in {"enqueue_create", "delete_created"}
                         /\ handlers[h].note_id = n

CreatesSucceed ==
  \A i \in Ids : write_queue[i].action = "create" => write_queue[i].status # "failed"

\* Without faults no create fails and every note Bear does not have has an owner.
OwnersKnown ==
  /\ \A n \in LiveNotes : notes[n].bear_id = NULL => Owned(n)
  /\ \A h \in Handlers : /\ Updates(h) /\ handlers[h].copy.bear_id = NULL
                         /\ handlers[h].note_id \in LiveNotes
                         => Owned(handlers[h].note_id)

OrphanInv ==
  /\ CreatesUnique /\ CreatorsAlone /\ UnbornInBear
  /\ faults = 0 => CreatesSucceed /\ OwnersKnown

CreateInv == BaseInv /\ OrphanInv

\* What the bridge's transactions do to the notes.
IdsSettle ==
  \A n \in HubIds : Exists(notes'[n]) =>
    \/ Exists(notes[n]) /\ notes'[n].bear_id = notes[n].bear_id
    \/ Exists(notes[n]) /\ notes'[n].bear_id # NULL /\ ~PendingCreate(n)'
    \/ notes[n] = NULL /\ notes'[n].bear_id # NULL

LEMMA OrphanInvSettled ==
  ASSUME CreateInv, BaseInv', RowsSettle, UNCHANGED handlers, IdsSettle,
         faults' = 0 => faults = 0, faults' = 0 => CreatesSucceed'
  PROVE  OrphanInv'
<1>1. /\ OrphanInv /\ NotesTypeOK /\ NotesTypeOK' /\ NotesKnown /\ Ids' = Ids
      /\ HubInv
  BY DEF CreateInv, BaseInv, HubInv, RowsSettle, RowsKept
<1>2. \A i \in Ids : /\ write_queue'[i].action = write_queue[i].action
                     /\ write_queue'[i].note_id = write_queue[i].note_id
  BY DEF RowsSettle, RowsKept, Work
<1>3. \A n : PendingCreate(n)' => PendingCreate(n)
  BY <1>1, <1>2 DEF PendingCreate, RowsSettle, At
<1>4. \A n : Owned(n) => Owned(n)'
  BY <1>1, <1>2 DEF Owned
<1>5. CreatesUnique' /\ CreatorsAlone'
  BY <1>1, <1>2 DEF OrphanInv, CreatesUnique, CreatorsAlone, At
<1>6. \A n \in HubIds : PendingCreate(n) => notes[n] # NULL
  BY <1>1 DEF PendingCreate, NotesKnown, Holds, At, CreateSteps
<1>7. \A n : n \in LiveNotes' <=> n \in HubIds /\ Exists(notes'[n])
  BY DEF LiveNotes
<1>8. UnbornInBear'
  <2> SUFFICES ASSUME NEW n \in HubIds, PendingCreate(n)'
               PROVE  /\ n \in LiveNotes' => notes'[n].bear_id = NULL
                      /\ \A h \in Handlers : Updates(h)' /\ handlers'[h].note_id = n =>
                           handlers'[h].copy.bear_id = NULL
    BY DEF UnbornInBear
  <2>1. PendingCreate(n) /\ notes[n] # NULL
    BY <1>3, <1>6
  <2>2. n \in LiveNotes' => notes'[n].bear_id = NULL
    BY <1>1, <1>7, <2>1 DEF IdsSettle, OrphanInv, UnbornInBear, LiveNotes
  <2> QED
    BY <1>1, <2>1, <2>2 DEF OrphanInv, UnbornInBear, Updates
<1>9. ASSUME faults' = 0 PROVE OwnersKnown'
  <2>1. OwnersKnown
    BY <1>1, <1>9 DEF OrphanInv
  <2>2. ASSUME NEW n \in LiveNotes', notes'[n].bear_id = NULL PROVE Owned(n)'
    BY <1>4, <1>7, <2>1, <2>2 DEF IdsSettle, OwnersKnown, LiveNotes
  <2>3. ASSUME NEW h \in Handlers, Updates(h)', handlers'[h].copy.bear_id = NULL,
               handlers'[h].note_id \in LiveNotes'
        PROVE  Owned(handlers[h].note_id)'
    <3>1. Updates(h) /\ Holds(h) /\ handlers'[h] = handlers[h]
      BY <2>3 DEF Updates, Holds, CreateSteps, UpdateSteps
    <3>2. notes[handlers[h].note_id] # NULL
      BY <1>1, <3>1 DEF NotesKnown
    <3>3. PICK n \in HubIds : n = handlers[h].note_id /\ n = handlers'[h].note_id
      BY <1>7, <2>3, <3>1
    <3>4. n \in LiveNotes
      BY <1>7, <2>3, <3>2, <3>3 DEF IdsSettle, LiveNotes
    <3>5. Owned(n)
      BY <2>1, <2>3, <3>1, <3>3, <3>4 DEF OwnersKnown
    <3>6. Owned(n)'
      BY <1>4, <3>5
    <3> QED
      BY <3>3, <3>6
  <2> QED
    BY <2>2, <2>3 DEF OwnersKnown
<1> QED
  BY <1>5, <1>8, <1>9 DEF OrphanInv

\* An acknowledged id belongs to the create that the row is.
LEMMA GivenIds ==
  ASSUME BaseInv, phase = "ack", NEW n \in HubIds, NEW i, NEW b, GivesId(n, i, b)
  PROVE  /\ i \in DOMAIN acks /\ i \in Ids /\ acks[i].outcome = "applied" /\ b \in BearIds
         /\ ActionOf(i) = "create" /\ write_queue[i].action = "create"
         /\ NoteOf(i) = n /\ write_queue[i].note_id = n /\ acks[i].bear_id = b
<1>1. /\ i \in DOMAIN acks /\ i \in DOMAIN batch /\ acks[i] \in AckRecord /\ AckOK(i)
      /\ acks[i].bear_id = b /\ b # NULL /\ write_queue[i].note_id = n
      /\ acks[i].outcome = "applied"
  BY DEF GivesId, AckedBy, AckChangesNote, BaseInv, BridgeInv, BatchShape
<1>2. ActionOf(i) = "create"
  BY <1>1 DEF AckOK
<1> QED
  BY <1>1, <1>2, BatchItem DEF AckRecord

LEMMA AckStepFate ==
  ASSUME BaseInv, AckBatch, NEW n \in HubIds
  PROVE  AckFate(n, notes[n], notes'[n], Len(write_queue))
BY AcksTyped, AckItemsFate DEF AckBatch

LEMMA AckIdsSettle ==
  ASSUME CreateInv, AckBatch
  PROVE  IdsSettle
<1>1. BaseInv /\ OrphanInv /\ phase = "ack" /\ UNCHANGED handlers /\ AckItems(acks)
  BY DEF CreateInv, AckBatch
<1> SUFFICES ASSUME NEW n \in HubIds, Exists(notes'[n]),
                    ~(Exists(notes[n]) /\ notes'[n].bear_id = notes[n].bear_id)
             PROVE  Exists(notes[n]) /\ notes'[n].bear_id # NULL /\ ~PendingCreate(n)'
  BY DEF IdsSettle
<1>2. AckFate(n, notes[n], notes'[n], Len(write_queue))
  BY <1>1, AckStepFate
<1>3. Exists(notes[n]) /\ IdFate(n, notes[n], notes'[n], Len(write_queue))
  BY <1>2 DEF AckFate
<1>4. PICK i : GivesId(n, i, notes'[n].bear_id)
  BY <1>3 DEF IdFate
<1>5. /\ i \in DOMAIN acks /\ i \in Ids /\ acks[i].outcome = "applied"
      /\ notes'[n].bear_id \in BearIds
      /\ write_queue[i].action = "create" /\ write_queue[i].note_id = n
  BY <1>1, <1>4, GivenIds
<1>6. RowsSettle /\ ~Active(write_queue'[i])
  BY <1>1, <1>5, AckSettles DEF Active
<1>7. ASSUME NEW j \in Ids', Active(write_queue'[j]), write_queue'[j].action = "create",
             write_queue'[j].note_id = n
      PROVE  FALSE
  <2>1. j \in Ids /\ write_queue[j].action = "create" /\ write_queue[j].note_id = n
    BY <1>6, <1>7 DEF RowsSettle, RowsKept, Work
  <2> QED
    BY <1>1, <1>5, <1>6, <1>7, <2>1 DEF OrphanInv, CreatesUnique
<1>8. ASSUME NEW h \in Handlers, At(h, "enqueue_create")', handlers'[h].note_id = n
      PROVE  FALSE
  BY <1>1, <1>5, <1>8 DEF OrphanInv, CreatorsAlone, At
<1> QED
  BY <1>3, <1>5, <1>7, <1>8, NotesAssumption DEF PendingCreate

LEMMA PushIdsSettle ==
  ASSUME BaseInv, ProcessSyncPush(delta)
  PROVE  IdsSettle
<1>1. NotesTypeOK /\ BearInv
  BY DEF BaseInv, HubInv
<1>2. ~Exists(NULL) /\ ~Exists(GONE) /\ NULL \notin BearIds
  BY NotesAssumption DEF Exists
<1> SUFFICES ASSUME NEW n \in HubIds, Exists(notes'[n])
             PROVE  \/ Exists(notes[n]) /\ notes'[n].bear_id = notes[n].bear_id
                    \/ notes[n] = NULL /\ notes'[n].bear_id # NULL
  BY DEF IdsSettle
<1>3. PushFate(notes[n], notes'[n])
  BY <1>1, PushEffect
<1>4. CASE Exists(notes[n])
  <2>1. notes[n] \in NoteRow
    BY <1>1, <1>4, NoteCases
  <2>2. PushedNote(notes[n], notes'[n])
    BY <1>3, <1>4 DEF PushFate
  <2>3. CASE notes[n].bear_id \in DOMAIN delta
    <3>1. notes[n].bear_id \in BearIds /\ delta[notes[n].bear_id] \in BearNote
      BY <1>1, <1>2, <2>2, <2>3 DEF PushedNote, BearInv
    <3>2. notes'[n] = Upserted(notes[n], delta[notes[n].bear_id], notes[n].bear_id)
      BY <1>2, <2>2, <2>3 DEF PushedNote
    <3> QED
      BY <1>4, <2>1, <3>1, <3>2, UpsertedTyped
  <2> QED
    BY <1>4, <2>2, <2>3 DEF PushedNote
<1>5. CASE notes[n] = NULL
  <2>1. PICK b \in DOMAIN delta : delta[b] \in BearNote /\ notes'[n] = InsertedNote(delta[b], b)
    BY <1>2, <1>3, <1>5 DEF PushFate, FreshNote
  <2>2. b \in BearIds
    BY <1>1 DEF BearInv
  <2> QED
    BY <1>2, <1>5, <2>1, <2>2, InsertedTyped
<1>6. notes[n] # GONE
  BY <1>2, <1>3 DEF PushFate
<1> QED
  BY <1>1, <1>4, <1>5, <1>6, NoteCases

LEMMA SettledStepsKeepOrphans ==
  ASSUME CreateInv, [SyncNext]_syncVars,
         QuietStep \/ PushDelta \/ PushUnrecorded \/ LeaseBatch \/ AckBatch \/ LeaseTime
  PROVE  OrphanInv'
<1>1. /\ BaseInv /\ OrphanInv /\ BaseInv' /\ TypeOK /\ BearInv /\ NotesTypeOK
      /\ (faults' = 0 => faults = 0)
  <2>1. BaseInv' /\ faults <= faults' /\ faults \in Nat /\ faults' \in Nat
    BY BaseStep, CountersStep DEF CreateInv, BaseInv, CountersOK
  <2> QED
    BY <2>1 DEF CreateInv, BaseInv, HubInv
<1>2. UNCHANGED notes => IdsSettle
  BY <1>1, NoteCases DEF IdsSettle
<1>3. ASSUME RowsSettle, faults' = 0, \A i \in Ids : write_queue[i].action = "create" =>
               write_queue'[i].status # "failed" \/ write_queue[i].status = "failed"
      PROVE  CreatesSucceed'
  BY <1>1, <1>3 DEF OrphanInv, CreatesSucceed, RowsSettle, RowsKept, Work
<1>4. CASE QuietStep
  <2>1. UNCHANGED handlerVars
    BY <1>4, QuietStepsLeaveHub
  <2>2. RowsSettle /\ write_queue' = write_queue
    BY <1>1, <2>1, UnchangedSettles DEF handlerVars
  <2> QED
    BY <1>1, <1>2, <1>3, <2>1, <2>2, OrphanInvSettled DEF handlerVars
<1>5. CASE LeaseBatch
  <2>1. RowsSettle /\ \A i \in Ids : /\ Active(write_queue[i]) <=> Active(write_queue'[i])
                                     /\ ~Active(write_queue[i]) => write_queue'[i] = write_queue[i]
    BY <1>1, <1>5, LeaseSettles DEF LeaseBatch
  <2>2. \A i \in Ids : write_queue'[i].status # "failed" \/ write_queue[i].status = "failed"
    BY <2>1 DEF Active
  <2> QED
    BY <1>1, <1>2, <1>3, <1>5, <2>1, <2>2, OrphanInvSettled DEF LeaseBatch
<1>6. CASE LeaseTime
  BY <1>1, <1>2, <1>3, <1>6, TickSettles, OrphanInvSettled DEF LeaseTime
<1>7. CASE AckBatch
  <2>1. /\ RowsSettle
        /\ \A i \in Ids : \/ i \notin DOMAIN acks /\ write_queue'[i] = write_queue[i]
                          \/ i \in DOMAIN acks /\ write_queue'[i].status = acks[i].outcome
    BY <1>1, <1>7, AckSettles DEF AckBatch
  <2>2. faults = 0 => \A i \in DOMAIN acks : acks[i].outcome = "failed" => write_queue[i].action # "create"
    BY <1>1, BatchItem DEF BaseInv, BridgeInv, BatchShape, AckOK
  <2> QED
    BY <1>1, <1>3, <1>7, <2>1, <2>2, AckIdsSettle, OrphanInvSettled DEF AckBatch
<1>8. CASE PushDelta \/ PushUnrecorded
  <2>1. ProcessSyncPush(delta) /\ UNCHANGED handlers
    BY <1>8 DEF PushDelta, PushUnrecorded, Push
  <2>2. PICK D \in SUBSET LiveNotes :
          /\ FailQueueItemsForDeletedNotes(D)
          /\ \A n \in D : notes[n].bear_id \in DOMAIN delta
    BY <1>1, <2>1, PushEffect
  <2>3. /\ RowsSettle
        /\ \A i \in Ids : \/ write_queue'[i] = write_queue[i]
                          \/ /\ write_queue[i].note_id \in D /\ Active(write_queue[i])
                             /\ write_queue'[i].status = "failed"
    BY <1>1, <2>2, DeleteSettles
  <2>4. ASSUME NEW i \in Ids, write_queue[i].action = "create", Active(write_queue[i]),
               write_queue[i].note_id \in D
        PROVE  FALSE
    <3>1. PICK n \in D : n = write_queue[i].note_id
      BY <2>4
    <3>2. PendingCreate(n) /\ n \in LiveNotes /\ n \in HubIds
      BY <2>4, <3>1 DEF PendingCreate, LiveNotes
    <3>3. notes[n].bear_id = NULL /\ notes[n].bear_id \in BearIds
      BY <1>1, <2>2, <3>1, <3>2 DEF OrphanInv, UnbornInBear, BearInv
    <3> QED
      BY <3>3, NotesAssumption
  <2> QED
    BY <1>1, <1>3, <2>1, <2>3, <2>4, PushIdsSettle, OrphanInvSettled
<1> QED
  BY <1>4, <1>5, <1>6, <1>7, <1>8

\* The row a handler's request is answered with: unchanged, or asking for what
\* the handler does.
RowStays(j) == j \in Ids /\ write_queue'[j] = write_queue[j]

AskedRow(h, i, bear_id) ==
  /\ write_queue'[i].status = "pending"
  /\ write_queue'[i].action = handlers[h].call.action
  /\ write_queue'[i].note_id = handlers[h].note_id
  /\ write_queue'[i].payload.body = handlers[h].call.body
  /\ write_queue'[i].payload.bear_id = bear_id
  /\ i \in Ids =>
       \/ write_queue[i].status = "failed"
       \/ /\ write_queue[i].status = "pending" /\ handlers[h].call.action = "update"
          /\ write_queue[i].action = "update" /\ write_queue[i].note_id = handlers[h].note_id
          /\ write_queue'[i].secondary = handlers[h].call.key

LEMMA AskedRows ==
  ASSUME NEW h, handlers[h].call \in Calls, handlers[h].note_id \in HubIds,
         NEW b \in BearIds \cup {NULL},
         NEW i, EnqueueEffect(Write(handlers[h].call, handlers[h].note_id, b), i)
  PROVE  /\ Ids \subseteq Ids' /\ i \in Ids'
         /\ \A j \in Ids' : RowStays(j) \/ (j = i /\ AskedRow(h, i, b))
         /\ (RowStays(i) /\ write_queue[i].status # "failed") \/ AskedRow(h, i, b)
<1> DEFINE w == Write(handlers[h].call, handlers[h].note_id, b)
<1>1. /\ AskedBy(w) = <<handlers[h].call.action, handlers[h].note_id,
                        [title |-> NULL, body |-> handlers[h].call.body, bear_id |-> b]>>
      /\ w.action = handlers[h].call.action /\ w.note_id = handlers[h].note_id
      /\ w.key = handlers[h].call.key
  BY WriteFields
<1> HIDE DEF w
<1>2. EnqueueEffect(w, i)
  BY DEF w
<1>3. ASSUME Work(write_queue'[i]) = AskedBy(w)
      PROVE  /\ write_queue'[i].action = handlers[h].call.action
             /\ write_queue'[i].note_id = handlers[h].note_id
             /\ write_queue'[i].payload.body = handlers[h].call.body
             /\ write_queue'[i].payload.bear_id = b
  <2>1. /\ write_queue'[i].action = handlers[h].call.action
        /\ write_queue'[i].note_id = handlers[h].note_id
        /\ write_queue'[i].payload = [title |-> NULL, body |-> handlers[h].call.body, bear_id |-> b]
    BY <1>1, <1>3 DEF Work
  <2> QED
    BY <2>1
<1>4. (RowStays(i) /\ write_queue[i].status # "failed") \/ AskedRow(h, i, b)
  BY <1>1, <1>2, <1>3 DEF EnqueueEffect, RowStays, AskedRow
<1>5. \A j \in Ids' : j # i => RowStays(j)
  BY <1>2 DEF EnqueueEffect, OthersStay, RowStays
<1> QED
  BY <1>2, <1>4, <1>5 DEF EnqueueEffect

LEMMA AsksRows ==
  ASSUME HubInv, NEW h \in Handlers, NEW i, Asks(h, i)
  PROVE  /\ Ids \subseteq Ids' /\ UNCHANGED notes /\ Updates(h)
         /\ handlers[h].copy.bear_id # NULL /\ handlers[h].copy.bear_id \in BearIds
         /\ handlers[h].call \in Calls
         /\ handlers[h].call.action # "create" /\ handlers[h].note_id \in HubIds
         /\ \A j \in Ids' : RowStays(j) \/ (j = i /\ AskedRow(h, i, handlers[h].copy.bear_id))
<1>1. Updates(h) /\ ~At(h, "idle")
  BY DEF Asks, At, Updates, UpdateSteps
<1>2. /\ handlers[h].call \in Calls /\ handlers[h].note_id \in HubIds
      /\ handlers[h].copy.bear_id \in BearIds \cup {NULL}
      /\ handlers[h].copy.bear_id # NULL /\ handlers[h].call.action # "create"
  BY <1>1, HandlerFields DEF Asks, At
<1> QED
  BY <1>1, <1>2, AskedRows DEF Asks

LEMMA AsksCreateRows ==
  ASSUME HubInv, NEW h \in Handlers, NEW i, AsksCreate(h, i)
  PROVE  /\ Ids \subseteq Ids' /\ UNCHANGED notes /\ At(h, "enqueue_create") /\ i \in Ids'
         /\ handlers[h].call.action = "create" /\ handlers[h].note_id \in HubIds
         /\ handlers[h].call \in Calls
         /\ \A j \in Ids' : RowStays(j) \/ (j = i /\ AskedRow(h, i, NULL))
         /\ (RowStays(i) /\ write_queue[i].status # "failed") \/ AskedRow(h, i, NULL)
<1>1. At(h, "enqueue_create") /\ handlers[h].step \in CreateSteps /\ ~At(h, "idle") /\ ~At(h, "create_note")
  BY DEF AsksCreate, At, CreateSteps
<1>2. /\ handlers[h].call \in Calls /\ handlers[h].note_id \in HubIds
      /\ NULL \in BearIds \cup {NULL} /\ handlers[h].call.action = "create"
  BY <1>1, HandlerFields
<1> QED
  BY <1>1, <1>2, AskedRows DEF AsksCreate

LEMMA MergesRows ==
  ASSUME HubInv, NEW h \in Handlers, NEW i \in Ids, Merges(h, i)
  PROVE  /\ Ids' = Ids /\ UNCHANGED notes
         /\ \A j \in Ids \ {i} : RowStays(j)
         /\ write_queue'[i].status = write_queue[i].status
         /\ write_queue'[i].action = write_queue[i].action
         /\ write_queue'[i].note_id = write_queue[i].note_id
         /\ write_queue[i].action = "create" /\ write_queue[i].status = "pending"
         /\ write_queue'[i].payload.bear_id = write_queue[i].payload.bear_id
         /\ write_queue[i].note_id = handlers[h].note_id
         /\ Updates(h) /\ handlers[h].copy.bear_id = NULL
<1>1. Updates(h) /\ ~At(h, "idle")
  BY DEF Merges, At, Updates, UpdateSteps
<1>2. /\ handlers[h].call \in Calls /\ handlers[h].note_id \in HubIds /\ NULL \in BearIds \cup {NULL}
      /\ handlers[h].copy.bear_id = NULL
  BY <1>1, HandlerFields DEF Merges, At
<1>3. Write(handlers[h].call, handlers[h].note_id, NULL).note_id = handlers[h].note_id
  BY <1>2, WriteFields
<1> QED
  BY <1>1, <1>2, <1>3 DEF Merges, MergeEffect, OthersStay, RowStays

\* After a move a row is one that was there, or the one the handler asked for.
LEMMA RowsMoved ==
  ASSUME HubInv, NEW h \in Handlers, Moves(h) \/ Stumbles(h), NEW j \in Ids'
  PROVE  \/ RowStays(j)
         \/ Asks(h, j) /\ AskedRow(h, j, handlers[h].copy.bear_id)
         \/ AsksCreate(h, j) /\ AskedRow(h, j, NULL)
         \/ j \in Ids /\ Merges(h, j)
<1>1. UNCHANGED vars => RowStays(j)
  BY DEF vars, RowStays, Ids
<1>2. ASSUME NEW i \in Nat, Asks(h, i)
      PROVE  RowStays(j) \/ (Asks(h, j) /\ AskedRow(h, j, handlers[h].copy.bear_id))
  BY <1>2, AsksRows
<1>3. ASSUME NEW i \in Nat, AsksCreate(h, i)
      PROVE  RowStays(j) \/ (AsksCreate(h, j) /\ AskedRow(h, j, NULL))
  BY <1>3, AsksCreateRows
<1>4. ASSUME NEW i \in Ids, Merges(h, i)
      PROVE  RowStays(j) \/ (j \in Ids /\ Merges(h, j))
  BY <1>4, MergesRows
<1> QED
  BY <1>1, <1>2, <1>3, <1>4, QueueMoves

LEMMA MovesKeepCreatesUnique ==
  ASSUME CreateInv, NEW h \in Handlers, Moves(h) \/ Stumbles(h)
  PROVE  CreatesUnique'
<1>1. HubInv /\ CreatesUnique /\ CreatorsAlone
  BY DEF CreateInv, BaseInv, OrphanInv
<1>2. ASSUME NEW j \in Ids', write_queue'[j].action = "create"
      PROVE  \/ /\ j \in Ids /\ write_queue[j].action = "create"
                /\ write_queue'[j].note_id = write_queue[j].note_id
             \/ /\ AsksCreate(h, j) /\ write_queue'[j].note_id = handlers[h].note_id
                /\ \A i \in Ids : write_queue[i].note_id # handlers[h].note_id
  <2>1. CASE RowStays(j)
    BY <1>2, <2>1 DEF RowStays
  <2>2. CASE Asks(h, j) /\ AskedRow(h, j, handlers[h].copy.bear_id)
    BY <1>1, <1>2, <2>2, AsksRows DEF AskedRow
  <2>3. CASE AsksCreate(h, j) /\ AskedRow(h, j, NULL)
    BY <1>1, <2>3, AsksCreateRows DEF AskedRow, CreatorsAlone
  <2>4. CASE j \in Ids /\ Merges(h, j)
    BY <1>1, <2>4, MergesRows
  <2> QED
    BY <1>1, <2>1, <2>2, <2>3, <2>4, RowsMoved
<1>3. ASSUME NEW i, NEW j, AsksCreate(h, i), AsksCreate(h, j) PROVE i = j
  BY <1>3 DEF AsksCreate, EnqueueEffect
<1> QED
  BY <1>1, <1>2, <1>3 DEF CreatesUnique

LEMMA MovesKeepCreatorsAlone ==
  ASSUME CreateInv, NEW h \in Handlers, Moves(h) \/ Stumbles(h)
  PROVE  CreatorsAlone'
<1>1. HubInv /\ CreatorsAlone /\ UnbornInBear /\ NotesKnown /\ RowsOK
  BY DEF CreateInv, BaseInv, OrphanInv, HubInv
<1>2. ASSUME NEW g \in Handlers, At(g, "enqueue_create")', NEW i \in Ids'
      PROVE  write_queue'[i].note_id # handlers'[g].note_id
  <2>1. CASE At(g, "enqueue_create") /\ handlers'[g] = handlers[g] /\ g # h
    <3> DEFINE n == handlers[g].note_id
    <3>1. \A j \in Ids : write_queue[j].note_id # n
      BY <1>1, <2>1 DEF CreatorsAlone
    <3>2. n \in HubIds /\ PendingCreate(n)
      BY <1>1, <2>1, HandlerFields DEF PendingCreate, CreateSteps, At
    <3>3. CASE Asks(h, i) /\ AskedRow(h, i, handlers[h].copy.bear_id)
      BY <1>1, <2>1, <3>2, <3>3, AsksRows DEF AskedRow, UnbornInBear
    <3>4. CASE AsksCreate(h, i) /\ AskedRow(h, i, NULL)
      BY <1>1, <2>1, <3>4, AsksCreateRows DEF AskedRow, CreatorsAlone
    <3>5. CASE i \in Ids /\ Merges(h, i)
      BY <1>1, <2>1, <3>1, <3>5, MergesRows
    <3> QED
      BY <1>1, <2>1, <3>1, <3>3, <3>4, <3>5, RowsMoved DEF RowStays
  <2>2. ASSUME NEW n \in HubIds, Inserts(h, n), g = h, handlers'[h].note_id = n
        PROVE  write_queue'[i].note_id # handlers'[g].note_id
    BY <1>1, <2>2 DEF Inserts, vars, Ids, NotesKnown
  <2> QED
    BY <1>1, <1>2, <2>1, <2>2, CreatorMoves
<1>3. ASSUME NEW f \in Handlers, NEW g \in Handlers, At(f, "enqueue_create")',
             At(g, "enqueue_create")', handlers'[f].note_id = handlers'[g].note_id
      PROVE  f = g
  <2>1. CASE f # h /\ g # h
    BY <1>1, <1>3, <2>1, CreatorMoves DEF CreatorsAlone
  <2>2. ASSUME NEW n \in HubIds, Inserts(h, n), NEW e \in Handlers \ {h}, At(e, "enqueue_create"),
               handlers[e].note_id = n
        PROVE  FALSE
    BY <1>1, <2>2 DEF Inserts, NotesKnown, Holds, At, CreateSteps
  <2>3. CASE f = h /\ g # h
    BY <1>1, <1>3, <2>2, <2>3, CreatorMoves
  <2>4. CASE f # h /\ g = h
    BY <1>1, <1>3, <2>2, <2>4, CreatorMoves
  <2> QED
    BY <2>1, <2>3, <2>4
<1> QED
  BY <1>2, <1>3 DEF CreatorsAlone

\* A pending create was pending before, or its note is new.
LEMMA PendingMoved ==
  ASSUME CreateInv, NEW h \in Handlers, Moves(h) \/ Stumbles(h), NEW n \in HubIds,
         PendingCreate(n)'
  PROVE  PendingCreate(n) \/ NoteMade(h, n)
<1>1. HubInv /\ BaseInv
  BY DEF CreateInv, BaseInv
<1>2. ASSUME NEW g \in Handlers, At(g, "enqueue_create")', handlers'[g].note_id = n
      PROVE  PendingCreate(n) \/ NoteMade(h, n)
  <2>1. CASE At(g, "enqueue_create") /\ handlers'[g] = handlers[g]
    BY <1>2, <2>1 DEF PendingCreate
  <2>2. CASE Inserts(h, n)
    <3>1. notes[n] = NULL /\ notes'[n] # NULL /\ notes'[n] # GONE /\ notes'[n] \in NoteRow
      <4>1. notes[n] = NULL /\ notes'[n] = NewNote(handlers[h].call, clock)
        BY <2>2 DEF Inserts
      <4>2. NewNote(handlers[h].call, clock) \in NoteRow
        BY <1>1, <2>2, HandlerFields, NewNoteTyped DEF Inserts, At, CreateSteps, BaseInv, CountersOK
      <4> QED
        BY <4>1, <4>2, NotesAssumption
    <3>2. ~Updates(h)
      BY <2>2 DEF Inserts, Updates, At, UpdateSteps
    <3> QED
      BY <1>1, <3>1, <3>2, NoteMoves DEF NoteWritten
  <2> QED
    BY <1>1, <1>2, <2>1, <2>2, CreatorMoves
<1>3. ASSUME NEW j \in Ids', Active(write_queue'[j]), write_queue'[j].action = "create",
             write_queue'[j].note_id = n
      PROVE  PendingCreate(n)
  <2>1. CASE RowStays(j)
    BY <1>3, <2>1 DEF RowStays, PendingCreate
  <2>2. CASE Asks(h, j) /\ AskedRow(h, j, handlers[h].copy.bear_id)
    BY <1>1, <1>3, <2>2, AsksRows DEF AskedRow
  <2>3. CASE AsksCreate(h, j) /\ AskedRow(h, j, NULL)
    BY <1>1, <1>3, <2>3, AsksCreateRows DEF AskedRow, PendingCreate
  <2>4. CASE j \in Ids /\ Merges(h, j)
    <3>1. /\ write_queue[j].status = "pending" /\ write_queue[j].action = "create"
          /\ write_queue[j].note_id = n
      BY <1>1, <1>3, <2>4, MergesRows
    <3> QED
      BY <2>4, <3>1 DEF PendingCreate, Active
  <2> QED
    BY <1>1, <2>1, <2>2, <2>3, <2>4, RowsMoved
<1> QED
  BY <1>2, <1>3 DEF PendingCreate

LEMMA MovesKeepUnborn ==
  ASSUME CreateInv, NEW h \in Handlers, Moves(h) \/ Stumbles(h)
  PROVE  UnbornInBear'
<1>1. HubInv /\ BaseInv /\ UnbornInBear /\ NotesKnown
  BY DEF CreateInv, BaseInv, OrphanInv, HubInv
<1>2. ~Exists(GONE)
  BY DEF Exists
<1> SUFFICES ASSUME NEW n \in HubIds, PendingCreate(n)'
             PROVE  /\ Exists(notes'[n]) => notes'[n].bear_id = NULL
                    /\ \A g \in Handlers : Updates(g)' /\ handlers'[g].note_id = n =>
                         handlers'[g].copy.bear_id = NULL
  BY DEF UnbornInBear, LiveNotes
<1>3. CASE PendingCreate(n)
  <2>1. Exists(notes[n]) => notes[n].bear_id = NULL
    BY <1>1, <1>3 DEF UnbornInBear, LiveNotes
  <2>2. \A g \in Handlers : Updates(g) /\ handlers[g].note_id = n => handlers[g].copy.bear_id = NULL
    BY <1>1, <1>3 DEF UnbornInBear
  <2>3. Exists(notes'[n]) => notes'[n].bear_id = NULL
    BY <1>1, <1>2, <2>1, <2>2, NoteMoves DEF NoteWritten, NoteMade
  <2>4. ASSUME NEW g \in Handlers, Updates(g)', handlers'[g].note_id = n
        PROVE  handlers'[g].copy.bear_id = NULL
    BY <1>1, <2>1, <2>2, <2>4, UpdaterMoves DEF SameHandler, ReadsNote, LiveNotes
  <2> QED
    BY <2>3, <2>4
<1>4. CASE NoteMade(h, n)
  <2>1. notes[n] = NULL /\ notes'[n].bear_id = NULL
    BY <1>4 DEF NoteMade
  <2>2. ASSUME NEW g \in Handlers, Updates(g)', handlers'[g].note_id = n
        PROVE  FALSE
    <3>1. Updates(g) /\ handlers[g].note_id = n => FALSE
      BY <1>1, <2>1 DEF NotesKnown, Holds, Updates, UpdateSteps
    <3>2. \A c \in Calls : ReadsNote(h, c) => c.note_id # n
      BY <2>1 DEF ReadsNote, LiveNotes, Exists
    <3> QED
      BY <1>1, <2>2, <3>1, <3>2, UpdaterMoves DEF SameHandler
  <2> QED
    BY <2>1, <2>2
<1> QED
  BY <1>3, <1>4, PendingMoved

\* Without faults an owner stays until it deletes its note.
LEMMA OwnerStays ==
  ASSUME CreateInv, CreatesSucceed, NEW h \in Handlers, Moves(h), NEW n \in HubIds,
         Owned(n), Exists(notes'[n])
  PROVE  Owned(n)'
<1>1. HubInv /\ BaseInv /\ CreatorsAlone
  BY DEF CreateInv, BaseInv, OrphanInv
<1>2. ~Exists(GONE)
  BY DEF Exists
<1>3. ASSUME NEW i \in Ids, write_queue[i].action = "create", write_queue[i].note_id = n
      PROVE  Owned(n)'
  <2>1. i \in Ids' /\ write_queue[i].status # "failed"
    BY <1>1, <1>3, QueueMoves, AsksRows, AsksCreateRows, MergesRows DEF CreatesSucceed, vars, Ids
  <2>2. CASE RowStays(i)
    BY <1>3, <2>1, <2>2 DEF RowStays, Owned
  <2>3. CASE Asks(h, i) /\ AskedRow(h, i, handlers[h].copy.bear_id)
    BY <1>3, <2>1, <2>3 DEF AskedRow
  <2>4. CASE AsksCreate(h, i) /\ AskedRow(h, i, NULL)
    BY <1>3, <2>1, <2>4 DEF AskedRow
  <2>5. CASE Merges(h, i)
    BY <1>1, <1>3, <2>1, <2>5, MergesRows DEF Owned
  <2> QED
    BY <1>1, <2>1, <2>2, <2>3, <2>4, <2>5, RowsMoved
<1>4. ASSUME NEW g \in Handlers, handlers[g].step \in {"enqueue_create", "delete_created"},
             handlers[g].note_id = n
      PROVE  Owned(n)'
  <2>1. CASE g # h
    BY <1>4, <2>1, OthersKeptByMove DEF Owned
  <2>2. CASE g = h /\ At(h, "delete_created")
    <3>1. DeletesSome(h)
      BY <2>2 DEF Moves, Forgets, Updates, UpdateSteps, At, ReadsNote, StartsCreate, ChoosesWrite,
         Turns, WritesSome, Writes, Asks, AsksCreate, Merges, Inserts
    <3>2. ~Exists(notes'[n])
      BY <1>2, <1>4, <2>2, <3>1 DEF DeletesSome, Deletes, NoteBecomes
    <3> QED
      BY <3>2
  <2>3. CASE g = h /\ At(h, "enqueue_create")
    <3>1. PICK i \in Nat : AsksCreate(h, i)
      BY <2>3 DEF Moves, Forgets, Updates, UpdateSteps, At, ReadsNote, StartsCreate, ChoosesWrite,
         Turns, WritesSome, Writes, DeletesSome, Deletes, Asks, Merges, Inserts
    <3>2. CASE write_queue'[i].note_id = n
      <4>1. i \in Ids' /\ ~RowStays(i)
        BY <1>1, <1>4, <2>3, <3>1, <3>2, AsksCreateRows DEF CreatorsAlone, RowStays
      <4>2. AskedRow(h, i, NULL) /\ handlers[h].call.action = "create"
        BY <1>1, <3>1, <4>1, AsksCreateRows
      <4> QED
        BY <3>2, <4>1, <4>2 DEF AskedRow, Owned
    <3>3. CASE write_queue'[i].note_id # n
      <4>1. HandlerBecomes(h, StepTo(handlers[h], "delete_created"))
        BY <1>4, <2>3, <3>1, <3>3 DEF AsksCreate
      <4>2. handlers'[h].step = "delete_created" /\ handlers'[h].note_id = n
        BY <1>1, <1>4, <2>3, <4>1, StepToFields DEF HandlerBecomes, Steps
      <4> QED
        BY <4>2 DEF Owned
    <3> QED
      BY <3>2, <3>3
  <2> QED
    BY <1>4, <2>1, <2>2, <2>3 DEF At
<1> QED
  BY <1>3, <1>4 DEF Owned

LEMMA MovesKeepOwners ==
  ASSUME CreateInv, CreatesSucceed, OwnersKnown, NEW h \in Handlers, Moves(h)
  PROVE  CreatesSucceed' /\ OwnersKnown'
<1>1. HubInv /\ BaseInv /\ NotesKnown
  BY DEF CreateInv, BaseInv, HubInv
<1>2. ~Exists(GONE) /\ ~Exists(NULL)
  BY DEF Exists
<1>3. ASSUME NEW j \in Ids', write_queue'[j].action = "create"
      PROVE  write_queue'[j].status # "failed"
  <2>1. CASE RowStays(j)
    BY <1>3, <2>1 DEF RowStays, CreatesSucceed
  <2>2. CASE AskedRow(h, j, handlers[h].copy.bear_id) \/ AskedRow(h, j, NULL)
    BY <2>2 DEF AskedRow
  <2>3. CASE j \in Ids /\ Merges(h, j)
    BY <1>1, <2>3, MergesRows
  <2> QED
    BY <1>1, <2>1, <2>2, <2>3, RowsMoved
<1>4. ASSUME NEW n \in HubIds, Exists(notes'[n]), notes'[n].bear_id = NULL
      PROVE  Owned(n)'
  <2>1. CASE notes'[n] = notes[n]
    BY <1>4, <2>1, OwnerStays DEF OwnersKnown, LiveNotes
  <2>2. CASE NoteWritten(h, n)
    BY <1>4, <2>2, OwnerStays DEF OwnersKnown, LiveNotes, NoteWritten
  <2>3. CASE NoteMade(h, n)
    BY <2>3 DEF NoteMade, Owned, At
  <2> QED
    BY <1>1, <1>2, <1>4, <2>1, <2>2, <2>3, NoteMoves
<1>5. ASSUME NEW g \in Handlers, Updates(g)', handlers'[g].copy.bear_id = NULL,
             NEW n \in HubIds, handlers'[g].note_id = n, Exists(notes'[n])
      PROVE  Owned(n)'
  <2>1. CASE Updates(g) /\ SameHandler(g)
    <3>1. handlers[g].note_id = n /\ notes[n] # NULL
      BY <1>1, <1>5, <2>1 DEF SameHandler, NotesKnown, Holds, Updates, UpdateSteps, CreateSteps
    <3>2. Exists(notes[n])
      BY <1>1, <1>2, <1>5, <3>1, NoteMoves DEF NoteWritten, NoteMade
    <3>3. Owned(n)
      BY <1>5, <2>1, <3>1, <3>2 DEF OwnersKnown, LiveNotes, SameHandler
    <3> QED
      BY <1>5, <3>3, OwnerStays
  <2>2. ASSUME NEW c \in Calls, ReadsNote(h, c), handlers'[g].note_id = c.note_id,
               handlers'[g].copy = notes[c.note_id]
        PROVE  Owned(n)'
    <3>1. n \in LiveNotes /\ notes[n].bear_id = NULL
      BY <1>5, <2>2 DEF ReadsNote
    <3> QED
      BY <1>5, <3>1, OwnerStays DEF OwnersKnown
  <2> QED
    BY <1>1, <1>5, <2>1, <2>2, UpdaterMoves
<1>6. CreatesSucceed'
  BY <1>3 DEF CreatesSucceed
<1>7. ASSUME NEW g \in Handlers, Updates(g)', handlers'[g].copy.bear_id = NULL,
             handlers'[g].note_id \in LiveNotes'
      PROVE  Owned(handlers[g].note_id)'
  <2>1. PICK n \in HubIds : n = handlers'[g].note_id /\ Exists(notes'[n])
    BY <1>7 DEF LiveNotes
  <2>2. Owned(n)'
    BY <1>5, <1>7, <2>1
  <2> QED
    BY <2>1, <2>2
<1>8. ASSUME NEW n \in LiveNotes', notes'[n].bear_id = NULL PROVE Owned(n)'
  BY <1>4, <1>8 DEF LiveNotes
<1> QED
  BY <1>6, <1>7, <1>8 DEF OwnersKnown

LEMMA CreateStep ==
  ASSUME CreateInv, [SyncNext]_syncVars
  PROVE  CreateInv'
<1>1. BaseInv /\ BaseInv' /\ OrphanInv /\ faults \in Nat
  BY BaseStep DEF CreateInv, BaseInv, CountersOK
<1>2. ASSUME NEW h \in Handlers, Moves(h) \/ (Stumbles(h) /\ Fault), NoFault \/ Fault
      PROVE  OrphanInv'
  <2>1. CreatesUnique' /\ CreatorsAlone' /\ UnbornInBear'
    BY <1>2, MovesKeepCreatesUnique, MovesKeepCreatorsAlone, MovesKeepUnborn
  <2>2. ASSUME faults' = 0 PROVE CreatesSucceed' /\ OwnersKnown'
    <3>1. Moves(h) /\ faults = 0
      BY <1>1, <1>2, <2>2 DEF Fault, NoFault
    <3> QED
      BY <1>1, <3>1, MovesKeepOwners DEF OrphanInv
  <2> QED
    BY <2>1, <2>2 DEF OrphanInv
<1>3. OrphanInv'
  BY <1>2, StepCases, SettledStepsKeepOrphans DEF HandlerMoves, CreateInv
<1> QED
  BY <1>1, <1>3 DEF CreateInv

LEMMA CreateInit ==
  ASSUME SyncInit
  PROVE  CreateInv
<1>1. BaseInv /\ Ids = {} /\ \A h \in Handlers : handlers[h] = Idle
  BY BaseInit DEF SyncInit, Init, Ids
<1>2. \A h \in Handlers : ~Updates(h) /\ ~At(h, "enqueue_create")
  BY <1>1, IdleShape DEF Updates, At, UpdateSteps
<1>3. ASSUME NEW n \in LiveNotes PROVE notes[n].bear_id # NULL
  <2> DEFINE c == CHOOSE b \in DOMAIN Existing : Existing[b] = n
  <2>1. \E b \in DOMAIN Existing : Existing[b] = n
    BY <1>3 DEF SyncInit, LiveNotes, Exists
  <2>2. c \in BearIds /\ notes[n] = InsertedNote(FirstNote, c)
    BY <2>1, SyncAssumption DEF SyncInit, LiveNotes
  <2> HIDE DEF c
  <2>3. notes[n].bear_id = c
    BY <2>2 DEF InsertedNote
  <2> QED
    BY <2>2, <2>3, NotesAssumption
<1> QED
  BY <1>1, <1>2, <1>3 DEF CreateInv, OrphanInv, CreatesUnique, CreatorsAlone, UnbornInBear,
     PendingCreate, CreatesSucceed, OwnersKnown

THEOREM CreateInvariant == SyncSpec => []CreateInv
<1>1. SyncInit => CreateInv
  BY CreateInit
<1>2. CreateInv /\ [SyncNext]_syncVars => CreateInv'
  BY CreateStep
<1> QED
  BY <1>1, <1>2, PTL DEF SyncSpec

\* However many requests create notes at the same time, with the same key or
\* others, and however they interleave with the bridge: once the handlers are
\* done every note Bear does not have is the note of a create row, and none is
\* left over by the loser of a race.
THEOREM OrphansExcluded == SyncSpec => []NoOrphans
<1>1. CreateInv => NoOrphans
  <2> SUFFICES ASSUME CreateInv, HandlersQuiet, faults = 0,
                      NEW n \in LiveNotes, notes[n].bear_id = NULL
               PROVE  \E i \in Ids : write_queue[i].action = "create" /\ write_queue[i].note_id = n
    BY DEF NoOrphans
  <2>1. Owned(n)
    BY DEF CreateInv, OrphanInv, OwnersKnown
  <2>2. \A h \in Handlers : handlers[h].step \notin {"enqueue_create", "delete_created"}
    BY DEF HandlersQuiet, At
  <2> QED
    BY <2>1, <2>2 DEF Owned
<1> QED
  BY <1>1, CreateInvariant, PTL

-----------------------------------------------------------------------------
(***************************************************************************)
(* The ids of Bear.                                                        *)
(***************************************************************************)
\* Either nothing of the bridge comes inside a handler or there is one handler.
OneAtATime == ~Interleaved \/ \A g, h \in Handlers : g = h

\* The acknowledgement of row i brings the id of a note that Bear has made.
Given(i) == i \in DOMAIN acks /\ ActionOf(i) = "create" /\ acks[i].bear_id # NULL

\* The id it brings is the one Bear returned, not one that was found by title.
Own(i) == Given(i) /\ NoteOf(i) \notin Marked("found")

IdsDiffer ==
  \A m, n \in LiveNotes : notes[m].bear_id # NULL /\ notes[m].bear_id = notes[n].bear_id => m = n

\* A copy has the id its note has, or none if the bridge came in between.
CopiesFresh ==
  \A h \in Handlers : Updates(h) /\ handlers[h].note_id \in LiveNotes =>
    \/ handlers[h].copy.bear_id = notes[handlers[h].note_id].bear_id
    \/ Interleaved /\ handlers[h].copy.bear_id = NULL

IdsGivenByBear ==
  /\ \A n \in LiveNotes : notes[n].bear_id # NULL => bear[notes[n].bear_id] # NULL
  /\ \A h \in Handlers : Updates(h) /\ handlers[h].copy.bear_id # NULL =>
       bear[handlers[h].copy.bear_id] # NULL

NewIdsUnused ==
  \A i \in DOMAIN acks : Own(i) =>
    /\ \A n \in LiveNotes : notes[n].bear_id # acks[i].bear_id
    /\ \A h \in Handlers : Updates(h) => handlers[h].copy.bear_id # acks[i].bear_id
    /\ \A j \in DOMAIN acks : Own(j) /\ acks[j].bear_id = acks[i].bear_id => i = j

IdsInv == CreateInv /\ IdsDiffer /\ CopiesFresh /\ IdsGivenByBear /\ NewIdsUnused

LEMMA LiveTyped ==
  ASSUME HubInv, NEW n \in LiveNotes
  PROVE  n \in HubIds /\ notes[n] \in NoteRow /\ notes[n].bear_id \in BearIds \cup {NULL}
BY NoteCases DEF HubInv, LiveNotes, NoteRow

\* The history only grows.
LEMMA MarksGrow ==
  ASSUME [SyncNext]_syncVars, BaseInv
  PROVE  marks \subseteq marks'
<1>1. CASE HandlerMoves \/ PushDelta \/ PushUnrecorded \/ LeaseBatch \/ AckBatch \/ LeaseTime
  BY <1>1 DEF HandlerMoves, PushDelta, PushUnrecorded, Push, LeaseBatch, AckBatch, LeaseTime, worldVars
<1>2. CASE QuietStep
  BY <1>2 DEF QuietStep, UserEdits, UserDeletes, ReadDelta, BridgeDies, AckRefused, TargetLost,
     SkipItem, ChangeBear, Verify, CopyConflict, VerifyFails, ItemFails, WriteBear,
     WriteReportsFailure, CreateUnnamed, SearchFinds, SearchFails, Searched,
     BearUpdate, BearCreate, ChangesBear, Verified, Applied, syncVars, worldVars
<1> QED
  BY <1>1, <1>2, StepCases

LEMMA GivenMoves ==
  ASSUME BaseInv, [SyncNext]_syncVars, NEW i \in DOMAIN acks', Own(i)'
  PROVE  \/ i \in DOMAIN acks /\ Own(i) /\ acks'[i].bear_id = acks[i].bear_id
         \/ /\ acks'[i].bear_id \in BearIds /\ bear[acks'[i].bear_id] = NULL
            /\ UNCHANGED handlerVars /\ phase = "apply"
            /\ i \notin DOMAIN acks /\ DOMAIN acks' = DOMAIN acks \cup {i}
<1>g. Given(i)' /\ NoteOf(i)' \notin Marked("found")' /\ marks \subseteq marks'
  BY MarksGrow DEF Own
<1>m. NoteOf(i)' = NoteOf(i) => NoteOf(i) \notin Marked("found")
  BY <1>g DEF Marked
<1>1. CASE UNCHANGED <<batch, acks>>
  BY <1>1, <1>g, <1>m DEF Own, Given, ActionOf, NoteOf
<1>2. ASSUME DOMAIN acks' = {} PROVE FALSE
  BY <1>2
<1>3. HandlerMoves \/ LeaseTime \/ PushDelta \/ PushUnrecorded => UNCHANGED <<batch, acks>>
  BY DEF HandlerMoves, LeaseTime, PushDelta, PushUnrecorded, Push, bridgeVars
<1>4. LeaseBatch => DOMAIN acks' = {}
  BY DEF LeaseBatch, BaseInv, BridgeInv, BatchShape
<1>5. AckBatch \/ BridgeDies \/ AckRefused => DOMAIN acks' = {}
  BY DEF AckBatch, BridgeDies, AckRefused, Nothing
<1>6. ReadDelta \/ (\E b \in BearIds : UserEdits(b) \/ UserDeletes(b)) \/ UNCHANGED syncVars =>
        UNCHANGED <<batch, acks>>
  BY DEF ReadDelta, UserEdits, UserDeletes, syncVars, bridgeVars
<1>7. ASSUME NEW j \in 1..MaxRows, Verify(j) \/ VerifyFails(j)
      PROVE  i \in DOMAIN acks /\ Own(i) /\ acks'[i].bear_id = acks[i].bear_id
  <2>1. PICK ack : VerifiedAck(j, ack) /\ acks' = [acks EXCEPT ![j] = ack]
    BY <1>7, VerifiedAcks
  <2>2. UNCHANGED batch
    BY <1>7 DEF Verify, VerifyFails, Verified
  <2> QED
    BY <1>g, <1>m, <2>1, <2>2 DEF Own, Given, ActionOf, NoteOf, VerifiedAck
<1>8. ASSUME NEW j \in 1..MaxRows,
             \/ TargetLost(j) \/ SkipItem(j) \/ ChangeBear(j) \/ CopyConflict(j) \/ ItemFails(j)
             \/ \E b \in BearIds : WriteReportsFailure(j, b) \/ CreateUnnamed(j, b)
      PROVE  i \in DOMAIN acks /\ Own(i) /\ acks'[i].bear_id = acks[i].bear_id
  <2>1. PICK ack : acks' = Put(acks, j, ack) /\ ack.bear_id = NULL
    <3> DEFINE a == [Ack("applied") EXCEPT !.bear_modified_at = Modified(TargetOf(j))]
               c == [Ack("applied") EXCEPT !.conflict_resolved = TRUE]
    <3>1. Ack("applied").bear_id = NULL /\ Ack("failed").bear_id = NULL
          /\ a.bear_id = NULL /\ c.bear_id = NULL
      BY DEF Ack
    <3>2. \/ acks' = Put(acks, j, Ack("applied")) \/ acks' = Put(acks, j, Ack("failed"))
          \/ acks' = Put(acks, j, a) \/ acks' = Put(acks, j, c)
      BY <1>8 DEF TargetLost, SkipItem, ChangeBear, CopyConflict, ItemFails, WriteReportsFailure,
         CreateUnnamed, Applied
    <3> HIDE DEF a, c
    <3> QED
      BY <3>1, <3>2
  <2>2. UNCHANGED batch
    BY <1>8 DEF TargetLost, SkipItem, ChangeBear, CopyConflict, ItemFails, WriteReportsFailure,
       CreateUnnamed, Applied
  <2> QED
    BY <1>g, <1>m, <2>1, <2>2 DEF Own, Given, ActionOf, NoteOf, Put
<1>9. ASSUME NEW j \in 1..MaxRows, NEW b \in BearIds, WriteBear(j, b)
      PROVE  \/ i \in DOMAIN acks /\ Own(i) /\ acks'[i].bear_id = acks[i].bear_id
             \/ /\ acks'[i].bear_id \in BearIds /\ bear[acks'[i].bear_id] = NULL
                /\ UNCHANGED handlerVars /\ phase = "apply"
                /\ i \notin DOMAIN acks /\ DOMAIN acks' = DOMAIN acks \cup {i}
  <2> DEFINE a == [Ack("applied") EXCEPT !.bear_id = b]
  <2>1. a.bear_id = b
    BY DEF Ack
  <2>2. acks' = Put(acks, j, a) /\ UNCHANGED <<batch, handlerVars>> /\ phase = "apply"
        /\ j \notin DOMAIN acks
    BY <1>9 DEF WriteBear, Turn, Todo
  <2> HIDE DEF a
  <2>3. CASE i = j
    <3>1. ActionOf(j) = "create"
      BY <1>g, <2>2, <2>3 DEF Given, ActionOf
    <3>2. bear[b] = NULL
      BY <1>9, <3>1 DEF WriteBear, BearUpdate, BearCreate
    <3> QED
      BY <2>1, <2>2, <2>3, <3>2 DEF Put
  <2>4. CASE i # j
    BY <1>g, <1>m, <2>2, <2>4 DEF Put, Own, Given, ActionOf, NoteOf
  <2> QED
    BY <2>3, <2>4
<1>11. ASSUME NEW j \in 1..MaxRows, SearchFails(j) \/ \E b \in BearIds : SearchFinds(j, b)
      PROVE  i \in DOMAIN acks /\ Own(i) /\ acks'[i].bear_id = acks[i].bear_id
  <2>1. PICK ack : SearchedAck(j, ack) /\ acks' = [acks EXCEPT ![j] = ack] /\ LastAcked(j)
    BY <1>11, SearchedAcks
  <2>2. UNCHANGED batch
    BY <1>11 DEF SearchFails, SearchFinds, Searched
  <2>3. CASE i = j
    <3>1. acks'[j] = ack
      BY <2>1 DEF LastAcked
    <3>2. ack.bear_id # NULL
      BY <1>g, <2>3, <3>1 DEF Given
    <3>3. SearchFails(j) => ack.bear_id = NULL
      BY <2>1, <3>1, AckTypes DEF SearchFails, Searched, LastAcked, Outcomes
    <3>4. <<"found", NoteOf(j)>> \in marks'
      BY <1>11, <3>2, <3>3 DEF SearchFinds
    <3> QED
      BY <1>g, <2>2, <2>3, <3>4 DEF Marked, NoteOf
  <2>4. CASE i # j
    BY <1>g, <1>m, <2>1, <2>2, <2>4 DEF Own, Given, ActionOf, NoteOf
  <2> QED
    BY <2>3, <2>4
<1>10. CASE QuietStep
  BY <1>1, <1>2, <1>5, <1>6, <1>7, <1>8, <1>9, <1>10, <1>11 DEF QuietStep
<1> QED
  BY <1>1, <1>2, <1>3, <1>4, <1>5, <1>10, StepCases

\* A handler never gives a note an id that it had not.
LEMMA MovesKeepIds ==
  ASSUME OneAtATime, IdsInv, NEW h \in Handlers, Moves(h) \/ Stumbles(h), NEW n \in HubIds,
         Exists(notes'[n])
  PROVE  \/ Exists(notes[n]) /\ notes'[n].bear_id = notes[n].bear_id
         \/ notes'[n].bear_id = NULL
<1>1. BaseInv /\ HubInv
  BY DEF IdsInv, CreateInv, BaseInv
<1>2. ~Exists(GONE)
  BY DEF Exists
<1>3. CASE NoteWritten(h, n)
  BY <1>1, <1>3 DEF NoteWritten, IdsInv, CopiesFresh, LiveNotes
<1> QED
  BY <1>1, <1>2, <1>3, NoteMoves DEF NoteMade

LEMMA MovesKeepCopies ==
  ASSUME OneAtATime, IdsInv, NEW h \in Handlers, Moves(h) \/ Stumbles(h)
  PROVE  CopiesFresh'
<1>1. BaseInv /\ HubInv
  BY DEF IdsInv, CreateInv, BaseInv
<1>2. ~Exists(GONE) /\ ~Exists(NULL)
  BY DEF Exists
<1> SUFFICES ASSUME NEW g \in Handlers, Updates(g)', handlers'[g].note_id \in LiveNotes'
             PROVE  \/ handlers'[g].copy.bear_id = notes'[handlers'[g].note_id].bear_id
                    \/ Interleaved' /\ handlers'[g].copy.bear_id = NULL
  BY DEF CopiesFresh
<1>3. Interleaved' = Interleaved
  OBVIOUS
<1>4. CASE Updates(g) /\ SameHandler(g)
  <2> DEFINE n == handlers[g].note_id
  <2>1. n \in HubIds /\ Exists(notes'[n]) /\ handlers'[g].note_id = n
        /\ handlers'[g].copy = handlers[g].copy
    BY <1>4 DEF SameHandler, LiveNotes
  <2>2. notes[n] # NULL
    BY <1>1, <1>4 DEF HubInv, NotesKnown, Updates, Holds, UpdateSteps, CreateSteps
  <2>3. CASE notes'[n] = notes[n]
    BY <1>4, <2>1, <2>3 DEF IdsInv, CopiesFresh, LiveNotes
  <2>4. CASE NoteWritten(h, n)
    <3>1. n \in LiveNotes /\ Updates(h) /\ handlers[h].note_id = n
          /\ notes'[n].bear_id = handlers[h].copy.bear_id
      BY <2>1, <2>4 DEF NoteWritten, LiveNotes
    <3>2. CASE ~Interleaved
      BY <1>4, <2>1, <3>1, <3>2 DEF IdsInv, CopiesFresh
    <3>3. CASE g = h
      BY <2>1, <3>1, <3>3
    <3> QED
      BY <3>2, <3>3 DEF OneAtATime
  <2> QED
    BY <1>1, <1>2, <2>1, <2>2, <2>3, <2>4, NoteMoves DEF NoteMade
<1>5. CASE \E c \in Calls : /\ ReadsNote(h, c) /\ g = h /\ handlers'[h].note_id = c.note_id
                            /\ handlers'[h].copy = notes[c.note_id]
  BY <1>5 DEF ReadsNote
<1> QED
  BY <1>1, <1>4, <1>5, UpdaterMoves

\* Every id of a note or of a copy comes from where one was before.
LEMMA MovesKeepGiven ==
  ASSUME OneAtATime, IdsInv, NEW h \in Handlers, Moves(h) \/ Stumbles(h)
  PROVE  /\ \A n \in LiveNotes' : notes'[n].bear_id # NULL =>
              n \in LiveNotes /\ notes'[n].bear_id = notes[n].bear_id
         /\ \A g \in Handlers : Updates(g)' =>
              \/ Updates(g) /\ handlers'[g].copy = handlers[g].copy
              \/ \E n \in LiveNotes : handlers'[g].copy = notes[n]
<1>1. HubInv
  BY DEF IdsInv, CreateInv, BaseInv
<1>2. ASSUME NEW n \in LiveNotes', notes'[n].bear_id # NULL
      PROVE  n \in LiveNotes /\ notes'[n].bear_id = notes[n].bear_id
  BY <1>2, MovesKeepIds DEF LiveNotes
<1>3. ASSUME NEW g \in Handlers, Updates(g)'
      PROVE  \/ Updates(g) /\ handlers'[g].copy = handlers[g].copy
             \/ \E n \in LiveNotes : handlers'[g].copy = notes[n]
  BY <1>1, <1>3, UpdaterMoves DEF SameHandler, ReadsNote
<1> QED
  BY <1>2, <1>3

\* Where an id is new, Bear's transactions gave it: a push its own, an
\* acknowledgement the one of a note that was created.
NewId(n) ==
  \/ /\ phase = "push" /\ notes[n] = NULL /\ notes'[n].bear_id \in DOMAIN delta
     /\ NoteOfBear(notes'[n].bear_id) = {} /\ bear[notes'[n].bear_id] # NULL
  \/ /\ phase = "ack" /\ Exists(notes[n])
     /\ \E i \in DOMAIN acks : /\ Given(i) /\ acks[i].bear_id = notes'[n].bear_id
                               /\ NoteOf(i) = n

LEMMA PushIds ==
  ASSUME BaseInv, ProcessSyncPush(delta), phase = "push", NEW n \in HubIds, Exists(notes'[n])
  PROVE  \/ Exists(notes[n]) /\ notes'[n].bear_id = notes[n].bear_id
         \/ NewId(n)
<1>1. NotesTypeOK /\ BearInv
  BY DEF BaseInv, HubInv
<1>2. ~Exists(NULL) /\ ~Exists(GONE)
  BY DEF Exists
<1>3. PushFate(notes[n], notes'[n])
  BY <1>1, PushEffect
<1>4. CASE Exists(notes[n])
  <2>1. notes[n] # NULL
    BY <1>2, <1>4
  <2>2. IdsSettle
    BY PushIdsSettle
  <2>3. PushedNote(notes[n], notes'[n])
    BY <1>3, <1>4 DEF PushFate
  <2>4. notes[n].bear_id \in DOMAIN delta => notes'[n].bear_id = notes[n].bear_id
    <3> SUFFICES ASSUME notes[n].bear_id \in DOMAIN delta
                 PROVE  notes'[n].bear_id = notes[n].bear_id
      OBVIOUS
    <3>1. /\ notes[n].bear_id \in BearIds /\ delta[notes[n].bear_id] \in BearNote
          /\ notes'[n] = Upserted(notes[n], delta[notes[n].bear_id], notes[n].bear_id)
      BY <1>1, <1>2, <2>3 DEF PushedNote, BearInv
    <3> QED
      BY <1>1, <1>4, <3>1, NoteCases, UpsertedTyped
  <2> QED
    BY <1>4, <2>3, <2>4 DEF PushedNote
<1>5. CASE notes[n] = NULL
  <2>1. PICK b \in DOMAIN delta : /\ delta[b] \in BearNote /\ NoteOfBear(b) = {}
                                  /\ notes'[n] = InsertedNote(delta[b], b)
    BY <1>2, <1>3, <1>5 DEF PushFate, FreshNote
  <2>2. b \in BearIds /\ bear[b] # NULL
    BY <1>1 DEF BearInv
  <2>3. notes'[n].bear_id = b
    BY <2>1, <2>2, InsertedTyped
  <2> QED
    BY <1>5, <2>1, <2>2, <2>3 DEF NewId
<1>6. notes[n] # GONE
  BY <1>2, <1>3 DEF PushFate
<1> QED
  BY <1>1, <1>4, <1>5, <1>6, NoteCases

LEMMA AckIds ==
  ASSUME BaseInv, AckBatch, NEW n \in HubIds, Exists(notes'[n])
  PROVE  \/ Exists(notes[n]) /\ notes'[n].bear_id = notes[n].bear_id
         \/ NewId(n)
<1>1. phase = "ack"
  BY DEF AckBatch
<1>2. AckFate(n, notes[n], notes'[n], Len(write_queue))
  BY AckStepFate
<1>3. Exists(notes[n]) /\ IdFate(n, notes[n], notes'[n], Len(write_queue))
  BY <1>2 DEF AckFate
<1> SUFFICES ASSUME notes'[n].bear_id # notes[n].bear_id
             PROVE  NewId(n)
  BY <1>3
<1>4. PICK i : GivesId(n, i, notes'[n].bear_id)
  BY <1>3 DEF IdFate
<1>5. /\ i \in DOMAIN acks /\ ActionOf(i) = "create" /\ NoteOf(i) = n
      /\ acks[i].bear_id = notes'[n].bear_id /\ acks[i].bear_id # NULL
  BY <1>1, <1>4, GivenIds DEF GivesId
<1> QED
  BY <1>1, <1>3, <1>5 DEF NewId, Given

LEMMA TransactionIds ==
  ASSUME IdsInv, PushDelta \/ PushUnrecorded \/ AckBatch
  PROVE  /\ BaseInv /\ UNCHANGED <<handlers, bear>> /\ BridgeMayCall /\ DOMAIN acks' = {}
         /\ \A n \in LiveNotes' : \/ n \in LiveNotes /\ notes'[n].bear_id = notes[n].bear_id
                                  \/ NewId(n)
<1>1. BaseInv
  BY DEF IdsInv, CreateInv
<1>2. CASE PushDelta \/ PushUnrecorded
  <2>1. ProcessSyncPush(delta) /\ phase = "push" /\ UNCHANGED <<handlers, bear, acks>> /\ BridgeMayCall
    BY <1>2 DEF PushDelta, PushUnrecorded, Push, worldVars
  <2>2. DOMAIN acks = {}
    BY <1>1, <2>1 DEF BaseInv, BridgeInv, BatchShape
  <2>3. \A n \in LiveNotes' : \/ n \in LiveNotes /\ notes'[n].bear_id = notes[n].bear_id
                              \/ NewId(n)
    BY <1>1, <2>1, PushIds DEF LiveNotes
  <2> QED
    BY <1>1, <2>1, <2>2, <2>3
<1>3. CASE AckBatch
  <2>1. UNCHANGED <<handlers, bear>> /\ BridgeMayCall /\ DOMAIN acks' = {}
    BY <1>3 DEF AckBatch, worldVars, Nothing
  <2>2. \A n \in LiveNotes' : \/ n \in LiveNotes /\ notes'[n].bear_id = notes[n].bear_id
                              \/ NewId(n)
    BY <1>1, <1>3, AckIds DEF LiveNotes
  <2> QED
    BY <1>1, <2>1, <2>2
<1> QED
  BY <1>2, <1>3

\* A table says no id twice.
LEMMA DifferentIds ==
  /\ BearIdsDiffer(notes) <=> IdsDiffer
  /\ BearIdsDiffer(notes)' <=> IdsDiffer'
BY DEF BearIdsDiffer, IdsDiffer, LiveNotes

LEMMA TransactionsKeepUnique ==
  ASSUME IdsInv, PushDelta \/ PushUnrecorded \/ AckBatch
  PROVE  IdsDiffer'
<1>1. CASE PushDelta \/ PushUnrecorded
  <2>1. /\ BaseInv /\ NotesTypeOK /\ BearInv /\ IdsDiffer
        /\ \A n \in LiveNotes' : \/ n \in LiveNotes /\ notes'[n].bear_id = notes[n].bear_id
                                 \/ NewId(n)
    BY TransactionIds DEF IdsInv, BaseInv, HubInv
  <2>2. phase = "push" /\ ProcessSyncPush(delta)
    BY <1>1 DEF PushDelta, PushUnrecorded, Push
  <2> SUFFICES ASSUME NEW m \in LiveNotes', NEW n \in LiveNotes', notes'[m].bear_id # NULL,
                      notes'[m].bear_id = notes'[n].bear_id
               PROVE  m = n
    BY DEF IdsDiffer
  <2>3. m \in HubIds /\ n \in HubIds /\ Exists(notes'[m]) /\ Exists(notes'[n])
    BY DEF LiveNotes
  <2>4. ASSUME NEW k \in LiveNotes, NEW l \in LiveNotes', NewId(l),
               notes[k].bear_id = notes'[l].bear_id
        PROVE  FALSE
    BY <2>2, <2>4 DEF NewId, NoteOfBear
  <2>5. CASE NewId(m) /\ NewId(n)
    <3>1. notes[m] = NULL /\ notes[n] = NULL
      BY <2>2, <2>5 DEF NewId
    <3> QED
      BY <2>1, <2>2, <2>3, <3>1, PushEffect
  <2> QED
    BY <2>1, <2>4, <2>5 DEF IdsDiffer
<1>2. CASE AckBatch
  <2>1. TypeOK /\ IdsDiffer
    BY DEF IdsInv, CreateInv, BaseInv, HubInv
  <2>2. AckAccepted(acks) /\ notes' = AfterAcks(acks)[Len(write_queue)]
    BY <1>2 DEF AckBatch, AckItems
  <2>3. Len(write_queue) \in Nat /\ Ids = 1..Len(write_queue)
    BY <2>1, TableShape DEF Ids
  <2>4. CASE Len(write_queue) = 0
    <3>1. notes' = notes
      BY <2>1, <2>2, <2>4, AfterAcksSteps
    <3> QED
      BY <2>1, <3>1 DEF IdsDiffer, LiveNotes
  <2>5. CASE Len(write_queue) # 0
    <3>1. BearIdsDiffer(notes')
      BY <2>2, <2>3, <2>5 DEF AckAccepted
    <3> QED
      BY <3>1 DEF BearIdsDiffer, IdsDiffer, LiveNotes
  <2> QED
    BY <2>4, <2>5
<1> QED
  BY <1>1, <1>2

\* UNIQUE(bear_id) refuses no acknowledgement of ids that Bear returned.
LEMMA OwnIdsAccepted ==
  ASSUME IdsInv, phase = "ack", \A i \in DOMAIN acks : Given(i) => Own(i)
  PROVE  AckAccepted(acks)
<1>1. BaseInv /\ HubInv /\ TypeOK /\ NotesTypeOK /\ IdsDiffer /\ NewIdsUnused
  BY DEF IdsInv, CreateInv, BaseInv, HubInv
<1>2. AcksTypeOK
  BY <1>1, AcksTyped
<1> SUFFICES ASSUME NEW l \in Ids, NEW m \in HubIds, NEW n \in HubIds,
                    Exists(AfterAcks(acks)[l][m]), Exists(AfterAcks(acks)[l][n]),
                    AfterAcks(acks)[l][m].bear_id # NULL,
                    AfterAcks(acks)[l][m].bear_id = AfterAcks(acks)[l][n].bear_id
             PROVE  m = n
  BY DEF AckAccepted, BearIdsDiffer
<1> DEFINE new(k) == AfterAcks(acks)[l][k]
<1>3. l \in 0..Len(write_queue)
  BY <1>1, TableShape DEF Ids
<1>4. ASSUME NEW k \in HubIds, Exists(new(k)), new(k).bear_id # NULL
      PROVE  /\ k \in LiveNotes
             /\ \/ new(k).bear_id = notes[k].bear_id
                \/ \E i \in DOMAIN acks : /\ Own(i) /\ acks[i].bear_id = new(k).bear_id
                                          /\ NoteOf(i) = k
  <2>1. AckFate(k, notes[k], new(k), l)
    BY <1>1, <1>2, <1>3, AckLoopFate
  <2>2. Exists(notes[k]) /\ IdFate(k, notes[k], new(k), l)
    BY <1>4, <2>1 DEF AckFate
  <2>3. CASE new(k).bear_id # notes[k].bear_id
    <3>1. PICK i : GivesId(k, i, new(k).bear_id)
      BY <2>2, <2>3 DEF IdFate
    <3>2. /\ i \in DOMAIN acks /\ ActionOf(i) = "create" /\ NoteOf(i) = k
          /\ acks[i].bear_id = new(k).bear_id
      BY <1>1, <3>1, GivenIds DEF GivesId
    <3> QED
      BY <1>4, <2>2, <3>2 DEF Given, LiveNotes
  <2> QED
    BY <2>2, <2>3 DEF LiveNotes
<1> HIDE DEF new
<1>5. /\ Exists(new(m)) /\ Exists(new(n)) /\ new(m).bear_id # NULL
      /\ new(m).bear_id = new(n).bear_id
  BY DEF new
<1> QED
  BY <1>1, <1>4, <1>5 DEF IdsDiffer, NewIdsUnused

LEMMA TransactionsKeepCopies ==
  ASSUME IdsInv, PushDelta \/ PushUnrecorded \/ AckBatch
  PROVE  CopiesFresh'
<1>1. /\ HubInv /\ BaseInv /\ UNCHANGED handlers /\ BridgeMayCall
      /\ \A n \in LiveNotes' : \/ n \in LiveNotes /\ notes'[n].bear_id = notes[n].bear_id
                               \/ NewId(n)
  BY TransactionIds DEF BaseInv
<1> SUFFICES ASSUME NEW g \in Handlers, Updates(g), handlers[g].note_id \in LiveNotes'
             PROVE  \/ handlers[g].copy.bear_id = notes'[handlers[g].note_id].bear_id
                    \/ Interleaved /\ handlers[g].copy.bear_id = NULL
  BY <1>1 DEF CopiesFresh, Updates
<1> DEFINE n == handlers[g].note_id
<1>2. Interleaved
  BY <1>1 DEF BridgeMayCall, HandlersQuiet, At, Updates, UpdateSteps
<1>3. notes[n] # NULL
  BY <1>1 DEF HubInv, NotesKnown, Updates, Holds, UpdateSteps, CreateSteps
<1>4. CASE NewId(n)
  <2>1. PICK i \in DOMAIN acks : Given(i) /\ NoteOf(i) = n
    BY <1>3, <1>4 DEF NewId
  <2>2. i \in DOMAIN batch /\ ActionOf(i) = "create"
    BY <1>1, <2>1 DEF BaseInv, BridgeInv, BatchShape, Given
  <2>3. PendingCreate(n) /\ n \in HubIds
    BY <1>1, <2>1, <2>2, BatchItem DEF PendingCreate, Active
  <2> QED
    BY <1>2, <2>3 DEF IdsInv, CreateInv, OrphanInv, UnbornInBear
<1>5. CASE n \in LiveNotes /\ notes'[n].bear_id = notes[n].bear_id
  BY <1>5 DEF IdsInv, CopiesFresh
<1> QED
  BY <1>1, <1>4, <1>5

LEMMA TransactionsKeepGiven ==
  ASSUME IdsInv, PushDelta \/ PushUnrecorded \/ AckBatch
  PROVE  IdsGivenByBear' /\ NewIdsUnused'
<1>1. /\ BaseInv /\ UNCHANGED <<handlers, bear>> /\ DOMAIN acks' = {}
      /\ \A n \in LiveNotes' : \/ n \in LiveNotes /\ notes'[n].bear_id = notes[n].bear_id
                               \/ NewId(n)
  BY TransactionIds
<1>2. ASSUME NEW n \in LiveNotes', notes'[n].bear_id # NULL
      PROVE  bear[notes'[n].bear_id] # NULL
  <2>1. CASE NewId(n)
    BY <1>1, <1>2, <2>1 DEF NewId, BaseInv, BridgeInv, AckOK
  <2> QED
    BY <1>1, <1>2, <2>1 DEF IdsInv, IdsGivenByBear
<1>3. IdsGivenByBear'
  BY <1>1, <1>2 DEF IdsInv, IdsGivenByBear, Updates
<1> QED
  BY <1>1, <1>3 DEF NewIdsUnused

\* Steps that leave the hub alone, and those of its handlers, use no new id.
LEMMA OtherStepsKeepGiven ==
  ASSUME IdsInv, [SyncNext]_syncVars,
         \A n \in LiveNotes' : notes'[n].bear_id # NULL =>
           n \in LiveNotes /\ notes'[n].bear_id = notes[n].bear_id,
         \A g \in Handlers : Updates(g)' =>
           \/ Updates(g) /\ handlers'[g].copy = handlers[g].copy
           \/ \E n \in LiveNotes : handlers'[g].copy = notes[n]
  PROVE  IdsGivenByBear' /\ NewIdsUnused'
<1>1. BaseInv /\ BearGrow /\ HubInv /\ IdsGivenByBear /\ NewIdsUnused
  BY BearStep DEF IdsInv, CreateInv, BaseInv
<1>2. \A n \in LiveNotes : notes[n].bear_id \in BearIds \cup {NULL}
  BY <1>1, LiveTyped
<1>3. \A g \in Handlers : Updates(g) => handlers[g].copy.bear_id \in BearIds \cup {NULL}
  BY <1>1, HandlerFields
<1>4. IdsGivenByBear'
  <2>1. ASSUME NEW n \in LiveNotes', notes'[n].bear_id # NULL
        PROVE  bear'[notes'[n].bear_id] # NULL
    BY <1>1, <1>2, <2>1 DEF BearGrow, IdsGivenByBear
  <2>2. ASSUME NEW g \in Handlers, Updates(g)', handlers'[g].copy.bear_id # NULL
        PROVE  bear'[handlers'[g].copy.bear_id] # NULL
    <3>1. CASE Updates(g) /\ handlers'[g].copy = handlers[g].copy
      BY <1>1, <1>3, <2>2, <3>1 DEF BearGrow, IdsGivenByBear
    <3>2. CASE \E n \in LiveNotes : handlers'[g].copy = notes[n]
      BY <1>1, <1>2, <2>2, <3>2 DEF BearGrow, IdsGivenByBear
    <3> QED
      BY <2>2, <3>1, <3>2
  <2> QED
    BY <2>1, <2>2 DEF IdsGivenByBear
<1>5. NewIdsUnused'
  <2> SUFFICES ASSUME NEW i \in DOMAIN acks', Own(i)'
               PROVE  /\ \A n \in LiveNotes' : notes'[n].bear_id # acks'[i].bear_id
                      /\ \A g \in Handlers : Updates(g)' =>
                           handlers'[g].copy.bear_id # acks'[i].bear_id
                      /\ \A j \in DOMAIN acks' : Own(j)' /\ acks'[j].bear_id = acks'[i].bear_id =>
                           i = j
    BY DEF NewIdsUnused
  <2>1. acks'[i].bear_id # NULL
    BY DEF Own, Given
  <2> DEFINE Old(j) == j \in DOMAIN acks /\ Own(j) /\ acks'[j].bear_id = acks[j].bear_id
             New(j) == /\ acks'[j].bear_id \in BearIds /\ bear[acks'[j].bear_id] = NULL
                       /\ j \notin DOMAIN acks /\ DOMAIN acks' = DOMAIN acks \cup {j}
  <2>2. \A j \in DOMAIN acks' : Own(j)' => Old(j) \/ New(j)
    BY <1>1, GivenMoves
  <2>3. \A j : Old(j) => bear[acks[j].bear_id] # NULL
    BY <1>1 DEF BaseInv, BridgeInv, AckOK, Own, Given
  <2>4. \A n \in LiveNotes : notes[n].bear_id # acks'[i].bear_id
    BY <1>1, <2>1, <2>2 DEF NewIdsUnused, IdsGivenByBear
  <2>5. \A g \in Handlers : Updates(g) => handlers[g].copy.bear_id # acks'[i].bear_id
    BY <1>1, <2>1, <2>2 DEF NewIdsUnused, IdsGivenByBear
  <2>6. ASSUME NEW j \in DOMAIN acks', Own(j)', acks'[j].bear_id = acks'[i].bear_id
        PROVE  i = j
    <3>1. (Old(i) \/ New(i)) /\ (Old(j) \/ New(j))
      BY <2>2, <2>6
    <3>2. CASE Old(i) /\ Old(j)
      BY <1>1, <2>6, <3>2 DEF NewIdsUnused
    <3>3. CASE New(i) /\ New(j)
      BY <3>3
    <3>4. ~(Old(i) /\ New(j)) /\ ~(Old(j) /\ New(i))
      BY <2>3, <2>6
    <3> QED
      BY <3>1, <3>2, <3>3, <3>4
  <2>7. \A n \in LiveNotes' : notes'[n].bear_id # acks'[i].bear_id
    BY <2>1, <2>4
  <2>8. \A g \in Handlers : Updates(g)' => handlers'[g].copy.bear_id # acks'[i].bear_id
    BY <2>4, <2>5
  <2> QED
    BY <2>6, <2>7, <2>8
<1> QED
  BY <1>4, <1>5

LEMMA IdsStep ==
  ASSUME OneAtATime, IdsInv, [SyncNext]_syncVars
  PROVE  IdsInv'
<1>1. BaseInv /\ CreateInv' /\ OneAtATime
  BY CreateStep DEF IdsInv, CreateInv
<1>2. CASE PushDelta \/ PushUnrecorded \/ AckBatch
  BY <1>1, <1>2, TransactionsKeepUnique, TransactionsKeepCopies, TransactionsKeepGiven DEF IdsInv
<1>3. CASE HandlerMoves
  <2>1. PICK h \in Handlers : Moves(h) \/ Stumbles(h)
    BY <1>3 DEF HandlerMoves
  <2>2. CopiesFresh'
    BY <1>1, <2>1, MovesKeepCopies
  <2>3. IdsGivenByBear' /\ NewIdsUnused'
    BY <1>1, <2>1, MovesKeepGiven, OtherStepsKeepGiven
  <2>4. IdsDiffer'
    BY <1>1, <2>1, MovesKeepGiven DEF IdsDiffer, IdsInv
  <2> QED
    BY <1>1, <2>2, <2>3, <2>4 DEF IdsInv
<1>4. CASE QuietStep \/ LeaseBatch \/ LeaseTime
  <2>1. UNCHANGED <<notes, handlers>>
    BY <1>4, QuietStepsLeaveHub DEF handlerVars, LeaseBatch, LeaseTime
  <2>2. CopiesFresh' /\ IdsDiffer'
    BY <2>1 DEF IdsInv, CopiesFresh, IdsDiffer, LiveNotes, Updates
  <2>3. IdsGivenByBear' /\ NewIdsUnused'
    BY <2>1, OtherStepsKeepGiven DEF LiveNotes, Updates
  <2> QED
    BY <1>1, <2>2, <2>3 DEF IdsInv
<1> QED
  BY <1>1, <1>2, <1>3, <1>4, StepCases

LEMMA IdsInit ==
  ASSUME SyncInit
  PROVE  IdsInv
<1>1. CreateInv /\ HandlersQuiet /\ DOMAIN acks = {} /\ HubInv
  <2>1. CreateInv
    BY CreateInit
  <2> QED
    BY <2>1 DEF SyncInit, CreateInv, BaseInv, HandlersQuiet, At, Idle, Nothing
<1>2. ~\E h \in Handlers : Updates(h)
  BY <1>1 DEF HandlersQuiet, At, Updates, UpdateSteps
<1>3. ASSUME NEW n \in LiveNotes
      PROVE  \E b \in DOMAIN Existing : /\ notes[n].bear_id = b /\ Existing[b] = n
                                        /\ bear[b] # NULL
  <2>1. n \in HubIds /\ Exists(notes[n])
    BY DEF LiveNotes
  <2> DEFINE bb == CHOOSE b \in DOMAIN Existing : Existing[b] = n
  <2>2. (\E b \in DOMAIN Existing : Existing[b] = n) /\ notes[n] = InsertedNote(FirstNote, bb)
    BY <2>1 DEF SyncInit, Exists
  <2>3. bb \in DOMAIN Existing /\ Existing[bb] = n
    BY <2>2
  <2>4. notes[n].bear_id = bb
    BY <2>2 DEF InsertedNote
  <2>5. bb \in BearIds /\ bear[bb] = FirstNote
    BY <2>3, SyncAssumption DEF SyncInit
  <2>6. FirstNote \in BearNote
    BY SyncAssumption, NotesAssumption DEF FirstNote, BearNote, Seconds
  <2> QED
    BY <2>3, <2>4, <2>5, <2>6, NotesAssumption
<1>4. IdsDiffer
  BY <1>3 DEF IdsDiffer
<1>5. CopiesFresh /\ IdsGivenByBear /\ NewIdsUnused
  BY <1>1, <1>2, <1>3 DEF CopiesFresh, IdsGivenByBear, NewIdsUnused
<1> QED
  BY <1>1, <1>4, <1>5 DEF IdsInv

THEOREM IdsInvariant == ASSUME OneAtATime PROVE SyncSpec => []IdsInv
<1>1. SyncInit => IdsInv
  BY IdsInit
<1>2. IdsInv /\ [SyncNext]_syncVars => IdsInv'
  BY IdsStep
<1> QED
  BY <1>1, <1>2, PTL DEF SyncSpec

\* Whatever the handlers, the pushes and the faults do, no two notes have one
\* bear_id, and the id that Bear gave to a created note is the id of no other note:
\* only a create that was found by its title can make UNIQUE(bear_id) refuse the
\* acknowledgements of its batch.
THEOREM UniqueBearIds == ASSUME OneAtATime PROVE SyncSpec => []BearIDsUnique
<1>1. ASSUME IdsInv PROVE BearIDsUnique
  <2>1. BearIdsDiffer(notes)
    BY <1>1, DifferentIds DEF IdsInv
  <2>2. ASSUME phase = "ack", ~AckAccepted(acks)
        PROVE  \E i \in DOMAIN acks : ActionOf(i) = "create" /\ NoteOf(i) \in Marked("found")
    BY <1>1, <2>2, OwnIdsAccepted DEF Given, Own
  <2> QED
    BY <2>1, <2>2 DEF BearIDsUnique
<1> QED
  BY <1>1, IdsInvariant, PTL

-----------------------------------------------------------------------------
(***************************************************************************)
(* What a note becomes, by a handler and by a push.                        *)
(***************************************************************************)
LEMMA WrittenRow ==
  ASSUME HubInv, NEW h \in Handlers, NEW n \in HubIds, NoteWritten(h, n)
  PROVE  /\ UNCHANGED vars /\ handlers[h].copy \in NoteRow /\ handlers[h].call \in Calls
         /\ handlers[h].copy.sync_status # "conflict"
         /\ \/ /\ At(h, "update_note")
               /\ notes'[n] = Changed(handlers[h].call, handlers[h].copy)
               /\ notes'[n].sync_status = "pending_to_bear"
               /\ HandlerBecomes(h, StepTo(handlers[h], "enqueue"))
            \/ /\ At(h, "restore") /\ notes'[n] = handlers[h].copy
               /\ HandlerBecomes(h, Idle)
            \/ /\ At(h, "update_coalesced") /\ handlers[h].copy.bear_id = NULL
               /\ notes'[n] = [handlers[h].copy EXCEPT !.body = handlers[h].call.body]
               /\ notes'[n].sync_status = handlers[h].copy.sync_status
               /\ HandlerBecomes(h, Idle)
<1>1. /\ handlers[h].copy \in NoteRow /\ handlers[h].call \in Calls
      /\ handlers[h].copy.sync_status # "conflict"
      /\ At(h, "update_coalesced") => handlers[h].copy.bear_id = NULL
  BY HandlerFields DEF NoteWritten, Updates, UpdateSteps, At
<1>2. WritesSome(h) /\ Exists(notes[n]) /\ n = handlers[h].note_id
  BY DEF NoteWritten
<1>3. Changed(handlers[h].call, handlers[h].copy).sync_status = "pending_to_bear"
  BY <1>1, ChangedTyped
<1>4. [handlers[h].copy EXCEPT !.body = handlers[h].call.body].sync_status
        = handlers[h].copy.sync_status
  BY <1>1 DEF NoteRow
<1> QED
  BY <1>1, <1>2, <1>3, <1>4 DEF WritesSome, Writes, NoteBecomes

LEMMA PushedRow ==
  ASSUME BaseInv, ProcessSyncPush(delta), NEW n \in HubIds, Exists(notes[n]), Exists(notes'[n])
  PROVE  /\ notes[n] \in NoteRow /\ notes'[n].bear_id = notes[n].bear_id
         /\ \/ notes[n].bear_id \notin DOMAIN delta /\ notes'[n] = notes[n]
            \/ /\ notes[n].bear_id \in DOMAIN delta /\ notes[n].bear_id \in BearIds
               /\ delta[notes[n].bear_id] \in BearNote
               /\ notes'[n] = Upserted(notes[n], delta[notes[n].bear_id], notes[n].bear_id)
<1>1. NotesTypeOK /\ BearInv /\ PushFate(notes[n], notes'[n]) /\ notes[n] \in NoteRow
  BY PushEffect, NoteCases DEF BaseInv, HubInv
<1>2. ~Exists(GONE)
  BY DEF Exists
<1>3. PushedNote(notes[n], notes'[n])
  BY <1>1 DEF PushFate
<1>4. CASE notes[n].bear_id \in DOMAIN delta
  <2>1. /\ notes[n].bear_id \in BearIds /\ delta[notes[n].bear_id] \in BearNote
        /\ notes'[n] = Upserted(notes[n], delta[notes[n].bear_id], notes[n].bear_id)
    BY <1>1, <1>2, <1>3, <1>4 DEF PushedNote, BearInv
  <2> QED
    BY <1>1, <1>4, <2>1, UpsertedTyped
<1> QED
  BY <1>1, <1>3, <1>4 DEF PushedNote

\* A push leaves a conflict, settles nothing and keeps the body of a pending note.
LEMMA PushedStatus ==
  ASSUME BaseInv, ProcessSyncPush(delta), NEW n \in HubIds, Exists(notes[n]), Exists(notes'[n])
  PROVE  /\ notes[n].sync_status = "conflict" => notes'[n].sync_status = "conflict"
         /\ notes'[n].sync_status = "synced" => notes[n].sync_status = "synced"
         /\ notes[n].sync_status = "pending_to_bear" => notes'[n].body = notes[n].body
<1>1. notes[n] \in NoteRow
      /\ (notes[n].sync_status \in {"synced", "pending_to_bear", "conflict"})
  BY PushedRow DEF NoteRow, SyncStatuses
<1>2. CASE notes[n].bear_id \in DOMAIN delta
  BY <1>1, <1>2, PushedRow, UpsertedTyped
<1> QED
  BY <1>1, <1>2, PushedRow

-----------------------------------------------------------------------------
(***************************************************************************)
(* Conflicts.                                                              *)
(***************************************************************************)
\* No handler that changes a note in conflict is under way.
ConflictUntouched ==
  \A h \in Handlers : Updates(h) /\ handlers[h].note_id \in LiveNotes =>
    notes[handlers[h].note_id].sync_status # "conflict"

ConflictInv == BaseInv /\ ConflictUntouched

LEMMA ConflictStep ==
  ASSUME ~Interleaved, ConflictInv, [SyncNext]_syncVars
  PROVE  ConflictInv'
<1>1. BaseInv /\ BaseInv' /\ HubInv
  BY BaseStep DEF ConflictInv, BaseInv
<1>2. CASE HandlerMoves
  <2>1. PICK h \in Handlers : Moves(h) \/ Stumbles(h)
    BY <1>2 DEF HandlerMoves
  <2> SUFFICES ASSUME NEW g \in Handlers, Updates(g)', handlers'[g].note_id \in LiveNotes'
               PROVE  notes'[handlers'[g].note_id].sync_status # "conflict"
    BY <1>1 DEF ConflictInv, ConflictUntouched
  <2>2. CASE Updates(g) /\ SameHandler(g)
    <3> DEFINE n == handlers[g].note_id
    <3>1. n \in HubIds /\ Exists(notes'[n]) /\ handlers'[g].note_id = n
      BY <2>2 DEF SameHandler, LiveNotes
    <3>2. CASE notes'[n] = notes[n]
      BY <2>2, <3>1, <3>2 DEF ConflictInv, ConflictUntouched, LiveNotes
    <3>3. CASE NoteWritten(h, n)
      BY <1>1, <2>1, <3>1, <3>3, WrittenRow
    <3>4. notes'[n] # GONE
      BY <3>1 DEF Exists
    <3> QED
      BY <1>1, <2>1, <3>1, <3>2, <3>3, <3>4, NoteMoves DEF NoteMade
  <2>3. CASE \E c \in Calls : /\ ReadsNote(h, c) /\ handlers'[g].note_id = c.note_id
    BY <2>3 DEF ReadsNote
  <2> QED
    BY <1>1, <2>1, <2>2, <2>3, UpdaterMoves
<1>3. CASE PushDelta \/ PushUnrecorded \/ AckBatch
  <2>1. HandlersQuiet /\ UNCHANGED handlers
    BY <1>3 DEF PushDelta, PushUnrecorded, Push, AckBatch, BridgeMayCall
  <2> QED
    BY <1>1, <2>1 DEF ConflictInv, ConflictUntouched, HandlersQuiet, At, Updates, UpdateSteps
<1>4. CASE QuietStep \/ LeaseBatch \/ LeaseTime
  <2>1. UNCHANGED <<notes, handlers>>
    BY <1>4, QuietStepsLeaveHub DEF handlerVars, LeaseBatch, LeaseTime
  <2> QED
    BY <1>1, <2>1 DEF ConflictInv, ConflictUntouched, LiveNotes, Updates
<1> QED
  BY <1>1, <1>2, <1>3, <1>4, StepCases

LEMMA ConflictInit ==
  ASSUME SyncInit
  PROVE  ConflictInv
BY BaseInit DEF SyncInit, ConflictInv, ConflictUntouched, Idle, Updates, UpdateSteps

THEOREM ConflictInvariant == ASSUME ~Interleaved PROVE SyncSpec => []ConflictInv
<1>1. SyncInit => ConflictInv
  BY ConflictInit
<1>2. ConflictInv /\ [SyncNext]_syncVars => ConflictInv'
  BY ConflictStep
<1> QED
  BY <1>1, <1>2, PTL DEF SyncSpec

\* How a conflict of note n may end.
EndsByCopy(n) ==
  notes[n].sync_status = "conflict" /\ Exists(notes'[n]) =>
    \/ notes'[n].sync_status = "conflict"
    \/ \E i \in DOMAIN acks : /\ write_queue[i].note_id = n
                              /\ acks[i].conflict_resolved
                              /\ write_queue'[i].status = "applied"

LEMMA ConflictsEnd ==
  ASSUME ConflictInv, [SyncNext]_syncVars, NEW n \in LiveNotes
  PROVE  EndsByCopy(n)
<1>1. BaseInv /\ HubInv /\ n \in HubIds /\ Exists(notes[n])
  BY DEF ConflictInv, BaseInv, LiveNotes
<1> SUFFICES ASSUME notes[n].sync_status = "conflict", Exists(notes'[n]),
                    notes'[n].sync_status # "conflict"
             PROVE  \E i \in DOMAIN acks : /\ write_queue[i].note_id = n
                                           /\ acks[i].conflict_resolved
                                           /\ write_queue'[i].status = "applied"
  BY DEF EndsByCopy
<1>2. notes'[n] # notes[n] /\ notes'[n] # GONE /\ notes[n] # NULL
  BY <1>1 DEF Exists
<1>3. ~HandlerMoves
  <2>1. \A h \in Handlers : ~NoteWritten(h, n)
    BY DEF NoteWritten, ConflictInv, ConflictUntouched
  <2> QED
    BY <1>1, <1>2, <2>1, NoteMoves DEF HandlerMoves, NoteMade
<1>4. ~(PushDelta \/ PushUnrecorded)
  BY <1>1, PushedStatus DEF PushDelta, PushUnrecorded, Push
<1>5. CASE AckBatch
  <2>1. ConflictFate(n, notes[n], notes'[n], Len(write_queue))
    BY <1>1, <1>5, AckStepFate DEF AckFate
  <2>2. PICK i \in 1..Len(write_queue) : AckedBy(n, i) /\ acks[i].conflict_resolved
    BY <2>1 DEF ConflictFate
  <2>3. i \in DOMAIN acks /\ write_queue[i].note_id = n /\ acks[i].outcome = "applied"
    BY <2>2 DEF AckedBy, AckChangesNote
  <2>4. i \in Ids
    BY <1>1, <2>3 DEF BaseInv, BridgeInv, BatchShape
  <2>5. AckItems(acks)
    BY <1>5 DEF AckBatch
  <2>6. write_queue'[i].status = "applied"
    BY <1>1, <2>3, <2>4, <2>5, AckSettles
  <2> QED
    BY <2>2, <2>3, <2>6
<1>6. ~(QuietStep \/ LeaseBatch \/ LeaseTime)
  BY <1>2, QuietStepsLeaveHub DEF handlerVars, LeaseBatch, LeaseTime
<1> QED
  BY <1>1, <1>3, <1>4, <1>5, <1>6, StepCases

\* A conflict that the hub found is never lost: no handler, push or
\* acknowledgement of another kind takes it from the note, only the one that says
\* that the consumer's body was kept in a [Conflict] note.
THEOREM ConflictsEndByCopy == ASSUME ~Interleaved PROVE SyncSpec => ConflictEndsByCopy
<1>1. ConflictInv /\ [SyncNext]_syncVars => \A n \in LiveNotes : EndsByCopy(n)
  BY ConflictsEnd
<1>2. ConflictInv /\ [SyncNext]_syncVars =>
        [\A n \in LiveNotes :
           notes[n].sync_status = "conflict" /\ Exists(notes'[n]) =>
             \/ notes'[n].sync_status = "conflict"
             \/ \E i \in DOMAIN acks : /\ write_queue[i].note_id = n
                                       /\ acks[i].conflict_resolved
                                       /\ write_queue'[i].status = "applied"]_syncVars
  BY <1>1 DEF EndsByCopy
<1> QED
  BY <1>2, ConflictInvariant, PTL DEF SyncSpec, ConflictEndsByCopy

-----------------------------------------------------------------------------
(***************************************************************************)
(* The protection of pending bodies.                                       *)
(***************************************************************************)
\* A row names the Bear note that its note is.
RowTargets ==
  \A i \in Ids : /\ write_queue[i].payload.bear_id # NULL
                 /\ write_queue[i].note_id \in LiveNotes
                 => notes[write_queue[i].note_id].bear_id = write_queue[i].payload.bear_id

\* A note Bear does not have is pending, in the table and in every copy.
UnbornPending ==
  /\ \A n \in LiveNotes : notes[n].bear_id = NULL => notes[n].sync_status = "pending_to_bear"
  /\ \A h \in Handlers : Updates(h) /\ handlers[h].copy.bear_id = NULL =>
       handlers[h].copy.sync_status = "pending_to_bear"

TargetInv == IdsInv /\ RowTargets /\ UnbornPending

\* The bridge's transactions come between the handlers.
LEMMA TransactionsQuiet ==
  ASSUME ~Interleaved, PushDelta \/ PushUnrecorded \/ AckBatch
  PROVE  \A h \in Handlers : ~Updates(h)' /\ ~Updates(h) /\ At(h, "idle")
<1>1. HandlersQuiet /\ UNCHANGED handlers
  BY DEF PushDelta, PushUnrecorded, Push, AckBatch, BridgeMayCall
<1> QED
  BY <1>1 DEF HandlersQuiet, At, Updates, UpdateSteps

LEMMA TransactionsSettle ==
  ASSUME BaseInv, PushDelta \/ PushUnrecorded \/ AckBatch \/ LeaseBatch \/ LeaseTime \/ QuietStep
  PROVE  RowsSettle
<1>1. TypeOK /\ NotesTypeOK /\ BearInv
  BY DEF BaseInv, HubInv
<1>2. CASE PushDelta \/ PushUnrecorded
  <2>1. PICK D : FailQueueItemsForDeletedNotes(D)
    BY <1>2 DEF PushDelta, PushUnrecorded, Push, ProcessSyncPush
  <2> QED
    BY <1>1, <2>1, DeleteSettles
<1>3. CASE AckBatch
  BY <1>3, AckSettles DEF AckBatch
<1>4. CASE LeaseBatch \/ LeaseTime
  BY <1>1, <1>4, LeaseSettles, TickSettles DEF LeaseBatch, LeaseTime
<1>5. CASE QuietStep
  BY <1>1, <1>5, QuietStepsLeaveHub, UnchangedSettles DEF handlerVars
<1> QED
  BY <1>2, <1>3, <1>4, <1>5

LEMMA SettledTargets ==
  ASSUME TargetInv, RowsSettle,
         \A n \in LiveNotes' : \/ n \in LiveNotes /\ notes'[n].bear_id = notes[n].bear_id
                               \/ n \in LiveNotes /\ notes[n].bear_id = NULL
                               \/ notes[n] = NULL
  PROVE  RowTargets'
<1> SUFFICES ASSUME NEW i \in Ids', write_queue'[i].payload.bear_id # NULL,
                    write_queue'[i].note_id \in LiveNotes'
             PROVE  notes'[write_queue'[i].note_id].bear_id = write_queue'[i].payload.bear_id
  BY DEF RowTargets
<1>1. i \in Ids /\ Work(write_queue'[i]) = Work(write_queue[i])
  BY DEF RowsSettle, RowsKept
<1>2. /\ write_queue'[i].note_id = write_queue[i].note_id
      /\ write_queue'[i].payload = write_queue[i].payload
  BY <1>1 DEF Work
<1> DEFINE n == write_queue[i].note_id
<1>3. notes[n] # NULL
  BY <1>1 DEF TargetInv, IdsInv, CreateInv, BaseInv, HubInv, NotesKnown
<1> QED
  BY <1>1, <1>2, <1>3 DEF TargetInv, RowTargets

LEMMA TransactionsKeepTargets ==
  ASSUME TargetInv, PushDelta \/ PushUnrecorded \/ AckBatch
  PROVE  RowTargets'
<1>1. /\ IdsInv /\ BaseInv /\ RowsSettle /\ OrphanInv
      /\ \A n \in LiveNotes' : \/ n \in LiveNotes /\ notes'[n].bear_id = notes[n].bear_id
                               \/ NewId(n)
  BY TransactionIds, TransactionsSettle DEF TargetInv, IdsInv, CreateInv
<1>2. ASSUME NEW n \in LiveNotes', NewId(n)
      PROVE  (n \in LiveNotes /\ notes[n].bear_id = NULL) \/ notes[n] = NULL
  <2> SUFFICES ASSUME notes[n] # NULL PROVE n \in LiveNotes /\ notes[n].bear_id = NULL
    OBVIOUS
  <2>1. PICK i \in DOMAIN acks : Given(i) /\ NoteOf(i) = n
    BY <1>2 DEF NewId
  <2>2. i \in DOMAIN batch /\ ActionOf(i) = "create"
    BY <1>1, <2>1 DEF BaseInv, BridgeInv, BatchShape, Given
  <2>3. PendingCreate(n) /\ n \in HubIds
    BY <1>1, <2>1, <2>2, BatchItem DEF PendingCreate, Active
  <2>4. n \in LiveNotes
    BY <1>2, <2>3 DEF NewId, LiveNotes
  <2> QED
    BY <1>1, <2>3, <2>4 DEF OrphanInv, UnbornInBear
<1> QED
  BY <1>1, <1>2, SettledTargets

LEMMA MovesKeepTargets ==
  ASSUME ~Interleaved, TargetInv, NEW h \in Handlers, Moves(h) \/ Stumbles(h)
  PROVE  RowTargets'
<1>1. IdsInv /\ HubInv /\ BaseInv /\ OneAtATime
  BY DEF TargetInv, IdsInv, CreateInv, BaseInv, OneAtATime
<1> SUFFICES ASSUME NEW i \in Ids', write_queue'[i].payload.bear_id # NULL,
                    write_queue'[i].note_id \in LiveNotes'
             PROVE  notes'[write_queue'[i].note_id].bear_id = write_queue'[i].payload.bear_id
  BY DEF RowTargets
<1>2. CASE RowStays(i)
  <2> DEFINE n == write_queue[i].note_id
  <2>1. /\ i \in Ids /\ n \in LiveNotes' /\ n \in HubIds /\ Exists(notes'[n]) /\ notes[n] # NULL
        /\ write_queue'[i] = write_queue[i]
    BY <1>1, <1>2 DEF RowStays, LiveNotes, HubInv, NotesKnown
  <2>2. CASE notes'[n] = notes[n]
    BY <2>1, <2>2 DEF LiveNotes, TargetInv, RowTargets
  <2>3. CASE NoteWritten(h, n)
    <3>1. n \in LiveNotes /\ notes'[n].bear_id = notes[n].bear_id
      BY <1>1, <2>1, <2>3 DEF NoteWritten, LiveNotes, IdsInv, CopiesFresh
    <3> QED
      BY <2>1, <3>1 DEF TargetInv, RowTargets
  <2>4. notes'[n] # GONE
    BY <2>1 DEF Exists
  <2> QED
    BY <1>1, <2>1, <2>2, <2>3, <2>4, NoteMoves DEF NoteMade
<1>3. CASE Asks(h, i) /\ AskedRow(h, i, handlers[h].copy.bear_id)
  <2>1. UNCHANGED notes /\ Updates(h) /\ handlers[h].copy.bear_id # NULL
    BY <1>1, <1>3, AsksRows
  <2>2. write_queue'[i].note_id = handlers[h].note_id
        /\ write_queue'[i].payload.bear_id = handlers[h].copy.bear_id
    BY <1>3 DEF AskedRow
  <2> QED
    BY <1>1, <2>1, <2>2 DEF IdsInv, CopiesFresh, LiveNotes
<1>4. CASE AskedRow(h, i, NULL)
  BY <1>4 DEF AskedRow
<1>5. CASE i \in Ids /\ Merges(h, i)
  <2>1. write_queue[i].action = "create"
        /\ write_queue'[i].payload.bear_id = write_queue[i].payload.bear_id
    BY <1>1, <1>5, MergesRows
  <2>2. write_queue[i].payload.bear_id = NULL
    BY <1>1, <1>5, <2>1 DEF HubInv, RowsOK, RowShape
  <2> QED
    BY <2>1, <2>2
<1> QED
  BY <1>1, <1>2, <1>3, <1>4, <1>5, RowsMoved

LEMMA MovesKeepUnbornPending ==
  ASSUME TargetInv, NEW h \in Handlers, Moves(h) \/ Stumbles(h)
  PROVE  UnbornPending'
<1>1. BaseInv /\ HubInv /\ UnbornPending
  BY DEF TargetInv, IdsInv, CreateInv, BaseInv
<1>2. ASSUME NEW n \in LiveNotes', notes'[n].bear_id = NULL
      PROVE  notes'[n].sync_status = "pending_to_bear"
  <2>1. n \in HubIds /\ Exists(notes'[n]) /\ notes'[n] # GONE
    BY DEF LiveNotes, Exists
  <2>2. CASE notes'[n] = notes[n]
    BY <1>1, <1>2, <2>1, <2>2 DEF LiveNotes, UnbornPending
  <2>3. CASE NoteWritten(h, n)
    <3>1. handlers[h].copy.bear_id = NULL /\ Updates(h)
      BY <1>2, <2>3 DEF NoteWritten
    <3>2. handlers[h].copy.sync_status = "pending_to_bear"
      BY <1>1, <3>1 DEF UnbornPending
    <3> QED
      BY <1>1, <2>1, <2>3, <3>2, WrittenRow
  <2> QED
    BY <1>1, <2>1, <2>2, <2>3, NoteMoves DEF NoteMade
<1>3. ASSUME NEW g \in Handlers, Updates(g)', handlers'[g].copy.bear_id = NULL
      PROVE  handlers'[g].copy.sync_status = "pending_to_bear"
  <2>1. CASE Updates(g) /\ SameHandler(g)
    BY <1>1, <1>3, <2>1 DEF SameHandler, UnbornPending
  <2>2. CASE \E c \in Calls : ReadsNote(h, c) /\ handlers'[g].copy = notes[c.note_id]
    BY <1>1, <1>3, <2>2 DEF ReadsNote, UnbornPending
  <2> QED
    BY <1>1, <1>3, <2>1, <2>2, UpdaterMoves
<1> QED
  BY <1>2, <1>3 DEF UnbornPending

LEMMA TransactionsKeepUnbornPending ==
  ASSUME ~Interleaved, TargetInv, PushDelta \/ PushUnrecorded \/ AckBatch
  PROVE  UnbornPending'
<1>1. BaseInv /\ HubInv /\ UnbornPending /\ NULL \notin BearIds /\ IdsInv
  BY NotesAssumption DEF TargetInv, IdsInv, CreateInv, BaseInv
<1> SUFFICES ASSUME NEW n \in LiveNotes', notes'[n].bear_id = NULL
             PROVE  notes'[n].sync_status = "pending_to_bear"
  BY TransactionsQuiet DEF UnbornPending
<1>2. n \in HubIds /\ Exists(notes'[n])
  BY DEF LiveNotes
<1>3. ~NewId(n)
  BY <1>1 DEF NewId, Given, BaseInv, BearInv
<1>4. Exists(notes[n]) /\ notes[n].bear_id = NULL /\ notes[n].sync_status = "pending_to_bear"
  BY <1>1, <1>3, TransactionIds DEF LiveNotes, UnbornPending
<1>5. CASE PushDelta \/ PushUnrecorded
  <2>1. ProcessSyncPush(delta)
    BY <1>5 DEF PushDelta, PushUnrecorded, Push
  <2> QED
    BY <1>1, <1>2, <1>4, <2>1, PushedRow
<1>6. CASE AckBatch
  <2>1. StatusFate(n, notes[n], notes'[n], Len(write_queue))
    BY <1>1, <1>2, <1>4, <1>6, AckStepFate DEF AckFate
  <2> SUFFICES ASSUME notes'[n].sync_status # "pending_to_bear" PROVE FALSE
    OBVIOUS
  <2>2. PICK i : AckedBy(n, i) /\ acks[i].bear_id = NULL /\ ~acks[i].conflict_resolved
    BY <1>4, <2>1 DEF StatusFate
  <2>3. /\ i \in DOMAIN acks /\ i \in DOMAIN batch /\ acks[i].outcome = "applied"
        /\ write_queue[i].note_id = n
    BY <1>1, <2>2 DEF AckedBy, AckChangesNote, BaseInv, BridgeInv, BatchShape
  <2>4. ActionOf(i) # "create"
    BY <1>1, <1>6, <2>2, <2>3 DEF BaseInv, BridgeInv, AckOK, AckBatch
  <2>5. i \in Ids /\ write_queue[i].payload.bear_id # NULL
    BY <1>1, <2>3, <2>4, BatchItem
  <2> QED
    BY <1>2, <1>4, <2>3, <2>5 DEF TargetInv, RowTargets, LiveNotes
<1> QED
  BY <1>5, <1>6

LEMMA TargetStep ==
  ASSUME ~Interleaved, TargetInv, [SyncNext]_syncVars
  PROVE  TargetInv'
<1>1. OneAtATime /\ IdsInv /\ BaseInv
  BY DEF OneAtATime, TargetInv, IdsInv, CreateInv
<1>2. IdsInv'
  BY <1>1, IdsStep
<1>3. CASE HandlerMoves
  BY <1>2, <1>3, MovesKeepTargets, MovesKeepUnbornPending DEF HandlerMoves, TargetInv
<1>4. CASE PushDelta \/ PushUnrecorded \/ AckBatch
  BY <1>2, <1>4, TransactionsKeepTargets, TransactionsKeepUnbornPending DEF TargetInv
<1>5. CASE QuietStep \/ LeaseBatch \/ LeaseTime
  <2>1. UNCHANGED <<notes, handlers>> /\ RowsSettle
    BY <1>1, <1>5, QuietStepsLeaveHub, TransactionsSettle DEF handlerVars, LeaseBatch, LeaseTime
  <2>2. RowTargets'
    BY <2>1, SettledTargets DEF LiveNotes
  <2>3. UnbornPending'
    BY <2>1 DEF TargetInv, UnbornPending, LiveNotes, Updates
  <2> QED
    BY <1>2, <2>2, <2>3 DEF TargetInv
<1> QED
  BY <1>1, <1>3, <1>4, <1>5, StepCases

LEMMA TargetInit ==
  ASSUME SyncInit
  PROVE  TargetInv
<1>1. IdsInv /\ HubInv
  BY IdsInit DEF IdsInv, CreateInv, BaseInv
<1>2. RowTargets /\ \A h \in Handlers : ~Updates(h)
  <2>1. Ids = {} /\ \A h \in Handlers : handlers[h] = Idle
    BY DEF SyncInit, Init, Ids
  <2> QED
    BY <2>1, IdleShape DEF RowTargets, Updates, UpdateSteps
<1>3. ASSUME NEW n \in LiveNotes
      PROVE  notes[n].bear_id # NULL
  <2> DEFINE bb == CHOOSE b \in DOMAIN Existing : Existing[b] = n
  <2>1. n \in HubIds /\ Exists(notes[n])
    BY DEF LiveNotes
  <2>2. (\E b \in DOMAIN Existing : Existing[b] = n) /\ notes[n] = InsertedNote(FirstNote, bb)
    BY <2>1 DEF SyncInit, Exists
  <2>3. bb \in DOMAIN Existing
    BY <2>2
  <2>4. bb \in BearIds
    BY <2>3, SyncAssumption
  <2>5. notes[n].bear_id = bb
    BY <2>2 DEF InsertedNote
  <2> QED
    BY <2>4, <2>5, NotesAssumption
<1> QED
  BY <1>1, <1>2, <1>3 DEF TargetInv, UnbornPending

OneHandler == \A g, h \in Handlers : g = h

ActiveUpdate(n) ==
  \E i \in Ids : /\ Active(write_queue[i]) /\ write_queue[i].note_id = n
                 /\ write_queue[i].action = "update"

\* A note is not settled while an update of it is active or is about to be
\* enqueued, and no handler is about to write such a note back as settled.
ProtectedNotes ==
  /\ \A n \in LiveNotes : ActiveUpdate(n) => notes[n].sync_status # "synced"
  /\ \A h \in Handlers :
       /\ At(h, "enqueue") /\ handlers[h].call.action = "update"
          /\ handlers[h].note_id \in LiveNotes
          => notes[handlers[h].note_id].sync_status # "synced"
       /\ MaxFaults = 0 => ~At(h, "restore")
       /\ OneHandler /\ Updates(h) /\ handlers[h].copy.sync_status = "synced" =>
            ~ActiveUpdate(handlers[h].note_id)

ProtectInv == TargetInv /\ ProtectedNotes

\* Handlers write a settled note only back, when their enqueue has failed.
LEMMA MovesSettle ==
  ASSUME TargetInv, NEW h \in Handlers, Moves(h) \/ Stumbles(h), NEW n \in HubIds,
         Exists(notes'[n]), notes'[n].sync_status = "synced"
  PROVE  \/ notes'[n] = notes[n]
         \/ /\ At(h, "restore") /\ n = handlers[h].note_id /\ Updates(h) /\ UNCHANGED vars
            /\ handlers[h].copy.sync_status = "synced" /\ HandlerBecomes(h, Idle)
            /\ notes'[n] = handlers[h].copy
<1>1. BaseInv /\ HubInv /\ UnbornPending
  BY DEF TargetInv, IdsInv, CreateInv, BaseInv
<1>2. CASE NoteWritten(h, n)
  <2>1. Updates(h) /\ n = handlers[h].note_id
    BY <1>2 DEF NoteWritten
  <2>2. handlers[h].copy.bear_id = NULL => handlers[h].copy.sync_status = "pending_to_bear"
    BY <1>1, <2>1 DEF UnbornPending
  <2> QED
    BY <1>1, <1>2, <2>1, <2>2, WrittenRow
<1>3. notes'[n] # GONE
  BY DEF Exists
<1> QED
  BY <1>1, <1>2, <1>3, NoteMoves DEF NoteMade

\* An update is active after a move if it was before or if it was just enqueued.
LEMMA MovesActivate ==
  ASSUME HubInv, NEW h \in Handlers, Moves(h) \/ Stumbles(h), NEW n, ActiveUpdate(n)'
  PROVE  \/ ActiveUpdate(n)
         \/ /\ At(h, "enqueue") /\ handlers[h].call.action = "update" /\ UNCHANGED notes
            /\ handlers[h].note_id = n /\ HandlerBecomes(h, Idle)
<1>1. PICK i \in Ids' : /\ Active(write_queue'[i]) /\ write_queue'[i].note_id = n
                        /\ write_queue'[i].action = "update"
  BY DEF ActiveUpdate
<1>2. CASE RowStays(i)
  BY <1>1, <1>2 DEF RowStays, ActiveUpdate
<1>3. CASE Asks(h, i) /\ AskedRow(h, i, handlers[h].copy.bear_id)
  BY <1>1, <1>3 DEF Asks, AskedRow
<1>4. CASE AsksCreate(h, i) /\ AskedRow(h, i, NULL)
  BY <1>1, <1>4, AsksCreateRows DEF AskedRow
<1>5. CASE i \in Ids /\ Merges(h, i)
  BY <1>1, <1>5, MergesRows
<1> QED
  BY <1>2, <1>3, <1>4, <1>5, RowsMoved

\* The steps a handler can be at before it enqueues.
LEMMA EnqueuersMove ==
  ASSUME HubInv, NEW h \in Handlers, Moves(h) \/ Stumbles(h), NEW g \in Handlers,
         At(g, "enqueue")', handlers'[g].call.action = "update"
  PROVE  \/ At(g, "enqueue") /\ handlers'[g] = handlers[g]
         \/ /\ g = h /\ At(h, "update_note") /\ WritesSome(h)
            /\ handlers'[h].note_id = handlers[h].note_id
<1>1. handlers'[h] = Idle => ~At(h, "enqueue")'
  BY DEF Idle, At
<1>2. \A to \in Steps \ {"enqueue"} : HandlerBecomes(h, StepTo(handlers[h], to)) => ~At(h, "enqueue")'
  BY StepToFields DEF HandlerBecomes, At
<1>3. ASSUME g = h, ChoosesWrite(h) PROVE FALSE
  <2>1. PICK to \in {"enqueue", "find_create", "coalesce", "update_note"} :
          /\ HandlerBecomes(h, StepTo(handlers[h], to))
          /\ to = "enqueue" => handlers[h].call.action = "add_tag"
    BY <1>3 DEF ChoosesWrite, Turns
  <2>2. to = "enqueue"
    BY <1>2, <1>3, <2>1 DEF Steps
  <2>3. handlers'[h].call = handlers[h].call
    BY <2>1, <2>2, StepToFields DEF HandlerBecomes, Steps
  <2> QED
    BY <1>3, <2>1, <2>2, <2>3
<1>4. \A to \in Steps : HandlerBecomes(h, StepTo(handlers[h], to)) =>
        handlers'[h].note_id = handlers[h].note_id
  BY StepToFields DEF HandlerBecomes
<1>5. ASSUME g = h, WritesSome(h)
      PROVE  At(h, "update_note") /\ handlers'[h].note_id = handlers[h].note_id
  BY <1>1, <1>4, <1>5 DEF WritesSome, Writes, HandlerBecomes, Steps
<1>6. ASSUME g = h, ~ChoosesWrite(h), ~WritesSome(h) PROVE FALSE
  <2>1. Moves(h) \/ Stumbles(h)
    OBVIOUS
  <2>2. ~Forgets(h)
    BY <1>1, <1>6 DEF Forgets, HandlerBecomes
  <2>3. \A c \in Calls : ~ReadsNote(h, c)
    BY <1>6 DEF ReadsNote, HandlerBecomes, At
  <2>4. \A c \in Calls : ~StartsCreate(h, c)
    BY <1>6, StartStates DEF At
  <2>5. ~DeletesSome(h)
    BY <1>1, <1>2, <1>6 DEF DeletesSome, Deletes, HandlerBecomes, Steps
  <2>6. \A i : ~Asks(h, i) /\ ~AsksCreate(h, i) /\ ~Merges(h, i)
    BY <1>1, <1>2, <1>6 DEF Asks, AsksCreate, Merges, HandlerBecomes, Steps
  <2>7. \A n \in HubIds : ~Inserts(h, n)
    BY <1>6 DEF Inserts, HandlerBecomes, At
  <2>8. ~Turns(h, "enqueue", "restore") /\ ~Turns(h, "enqueue_create", "delete_created")
    BY <1>2, <1>6 DEF Turns, Steps
  <2> QED
    BY <1>6, <2>1, <2>2, <2>3, <2>4, <2>5, <2>6, <2>7, <2>8 DEF Moves, Stumbles
<1>7. CASE g # h
  BY <1>7, OthersKeptByMove DEF At
<1> QED
  BY <1>3, <1>5, <1>6, <1>7

LEMMA RestorersMove ==
  ASSUME HubInv, NEW h \in Handlers, Moves(h), NEW g \in Handlers, At(g, "restore")'
  PROVE  At(g, "restore")
<1>1. handlers'[h] = Idle => ~At(h, "restore")'
  BY DEF Idle, At
<1>2. \A to \in Steps \ {"restore"} : HandlerBecomes(h, StepTo(handlers[h], to)) => ~At(h, "restore")'
  BY StepToFields DEF HandlerBecomes, At
<1>3. CASE g = h
  <2>1. ~Forgets(h)
    BY <1>1, <1>3 DEF Forgets, HandlerBecomes
  <2>2. \A c \in Calls : ~ReadsNote(h, c)
    BY <1>3 DEF ReadsNote, HandlerBecomes, At
  <2>3. \A c \in Calls : ~StartsCreate(h, c)
    BY <1>3, StartStates DEF At
  <2>4. ~ChoosesWrite(h)
    BY <1>2, <1>3 DEF ChoosesWrite, Turns, Steps
  <2>5. ~DeletesSome(h) /\ ~WritesSome(h)
    BY <1>1, <1>2, <1>3 DEF DeletesSome, Deletes, WritesSome, Writes, HandlerBecomes, Steps
  <2>6. \A i : ~Asks(h, i) /\ ~AsksCreate(h, i) /\ ~Merges(h, i)
    BY <1>1, <1>2, <1>3 DEF Asks, AsksCreate, Merges, HandlerBecomes, Steps
  <2>7. \A n \in HubIds : ~Inserts(h, n)
    BY <1>3 DEF Inserts, HandlerBecomes, At
  <2> QED
    BY <2>1, <2>2, <2>3, <2>4, <2>5, <2>6, <2>7 DEF Moves
<1>4. CASE g # h
  BY <1>4, OthersKeptByMove DEF At
<1> QED
  BY <1>3, <1>4

LEMMA MovesKeepProtected ==
  ASSUME OneHandler \/ MaxFaults = 0, ProtectInv, NEW h \in Handlers,
         Moves(h) \/ (Stumbles(h) /\ Fault)
  PROVE  ProtectedNotes'
<1>1. BaseInv /\ HubInv /\ TargetInv /\ ProtectedNotes /\ (Moves(h) \/ Stumbles(h))
  BY DEF ProtectInv, TargetInv, IdsInv, CreateInv, BaseInv
<1>2. MaxFaults = 0 => Moves(h)
  BY <1>1 DEF Fault, BaseInv, CountersOK
<1>3. ASSUME MaxFaults = 0, NEW g \in Handlers PROVE ~At(g, "restore")'
  BY <1>1, <1>2, <1>3, RestorersMove DEF ProtectedNotes
<1>4. ASSUME NEW n \in LiveNotes', ActiveUpdate(n)', notes'[n].sync_status = "synced"
      PROVE  FALSE
  <2>1. n \in HubIds /\ Exists(notes'[n])
    BY DEF LiveNotes
  <2>2. CASE notes'[n] = notes[n]
    <3>1. n \in LiveNotes /\ notes[n].sync_status = "synced"
      BY <1>4, <2>1, <2>2 DEF LiveNotes
    <3> QED
      BY <1>1, <1>4, <3>1, MovesActivate DEF ProtectedNotes
  <2>3. CASE /\ At(h, "restore") /\ n = handlers[h].note_id /\ Updates(h) /\ UNCHANGED vars
             /\ handlers[h].copy.sync_status = "synced"
    <3>1. ActiveUpdate(n)
      BY <1>4, <2>3 DEF ActiveUpdate, vars, Ids
    <3> QED
      BY <1>1, <2>3, <3>1 DEF ProtectedNotes
  <2> QED
    BY <1>1, <1>4, <2>1, <2>2, <2>3, MovesSettle
<1>5. ASSUME NEW g \in Handlers, At(g, "enqueue")', handlers'[g].call.action = "update",
             handlers'[g].note_id \in LiveNotes',
             notes'[handlers'[g].note_id].sync_status = "synced"
      PROVE  FALSE
  <2> DEFINE n == handlers'[g].note_id
  <2>1. n \in HubIds /\ Exists(notes'[n])
    BY <1>5 DEF LiveNotes
  <2>2. CASE At(g, "enqueue") /\ handlers'[g] = handlers[g]
    <3>1. CASE notes'[n] = notes[n]
      <4>1. n = handlers[g].note_id /\ n \in LiveNotes /\ handlers[g].call.action = "update"
        BY <1>5, <2>1, <2>2, <3>1 DEF LiveNotes
      <4> QED
        BY <1>1, <1>5, <2>2, <3>1, <4>1 DEF ProtectedNotes
    <3>2. CASE At(h, "restore")
      BY <1>1, <2>2, <3>2 DEF ProtectedNotes, OneHandler, At
    <3> QED
      BY <1>1, <1>5, <2>1, <3>1, <3>2, MovesSettle
  <2>3. CASE g = h /\ At(h, "update_note") /\ WritesSome(h) /\ n = handlers[h].note_id
    <3>1. NoteBecomes(n, Changed(handlers[h].call, handlers[h].copy))
      BY <2>3 DEF WritesSome, Writes, At
    <3>2. notes'[n] = Changed(handlers[h].call, handlers[h].copy)
      BY <2>1, <3>1 DEF NoteBecomes
    <3>3. handlers[h].call \in Calls /\ handlers[h].copy \in NoteRow
      BY <1>1, <2>3, HandlerFields DEF At, Updates, UpdateSteps
    <3> QED
      BY <1>5, <3>2, <3>3, ChangedTyped
  <2> QED
    BY <1>1, <1>5, <2>2, <2>3, EnqueuersMove
<1>6. ASSUME OneHandler, NEW g \in Handlers, Updates(g)', handlers'[g].copy.sync_status = "synced",
             ActiveUpdate(handlers[g].note_id)'
      PROVE  FALSE
  <2>1. g = h
    BY <1>6 DEF OneHandler
  <2>2. CASE Updates(g) /\ SameHandler(g)
    <3>1. ~ActiveUpdate(handlers[g].note_id) /\ handlers'[g].note_id = handlers[g].note_id
      BY <1>1, <1>6, <2>2 DEF SameHandler, ProtectedNotes
    <3>2. ~HandlerBecomes(h, Idle)
      BY <1>6, <2>1, IdleShape DEF HandlerBecomes, Updates, UpdateSteps
    <3> QED
      BY <1>1, <1>6, <3>1, <3>2, MovesActivate
  <2>3. CASE \E c \in Calls : /\ ReadsNote(h, c) /\ handlers'[g].note_id = c.note_id
                              /\ handlers'[g].copy = notes[c.note_id]
    <3>1. PICK c \in Calls : /\ c.note_id \in LiveNotes /\ notes[c.note_id].sync_status = "synced"
                             /\ handlers'[g].note_id = c.note_id /\ UNCHANGED vars
      BY <1>6, <2>3 DEF ReadsNote
    <3>2. ~ActiveUpdate(c.note_id)
      BY <1>1, <3>1 DEF ProtectedNotes
    <3> QED
      BY <1>6, <3>1, <3>2 DEF ActiveUpdate, vars, Ids
  <2> QED
    BY <1>1, <1>6, <2>1, <2>2, <2>3, UpdaterMoves
<1> QED
  BY <1>3, <1>4, <1>5, <1>6 DEF ProtectedNotes

\* The bridge's transactions revive no update.
LEMMA SettledUpdates ==
  ASSUME RowsSettle, NEW n, ActiveUpdate(n)'
  PROVE  \E i \in Ids : /\ Active(write_queue[i]) /\ Active(write_queue'[i])
                        /\ write_queue[i].note_id = n /\ write_queue[i].action = "update"
BY DEF RowsSettle, RowsKept, Work, ActiveUpdate

LEMMA TransactionsKeepProtected ==
  ASSUME ~Interleaved, ProtectInv, PushDelta \/ PushUnrecorded \/ AckBatch
  PROVE  ProtectedNotes'
<1>1. BaseInv /\ HubInv /\ IdsInv /\ ProtectedNotes /\ RowsSettle
  BY TransactionsSettle DEF ProtectInv, TargetInv, IdsInv, CreateInv, BaseInv
<1>2. \A h \in Handlers : ~Updates(h)'
  BY TransactionsQuiet
<1> SUFFICES ASSUME NEW n \in LiveNotes', ActiveUpdate(n)', notes'[n].sync_status = "synced"
             PROVE  FALSE
  BY <1>2 DEF ProtectedNotes, Updates, At, UpdateSteps
<1>3. PICK r \in Ids : /\ Active(write_queue[r]) /\ Active(write_queue'[r])
                       /\ write_queue[r].note_id = n /\ write_queue[r].action = "update"
  BY <1>1, SettledUpdates
<1>4. n \in HubIds /\ Exists(notes'[n]) /\ notes[n] # NULL
  BY <1>1, <1>3 DEF LiveNotes, HubInv, NotesKnown
<1>5. n \in LiveNotes
  BY <1>1, <1>4, TransactionIds DEF NewId, LiveNotes
<1>6. notes[n].sync_status # "synced" /\ Exists(notes[n])
  BY <1>1, <1>3, <1>5 DEF ProtectedNotes, ActiveUpdate, LiveNotes
<1>7. CASE PushDelta \/ PushUnrecorded
  BY <1>1, <1>4, <1>6, <1>7, PushedStatus DEF PushDelta, PushUnrecorded, Push
<1>8. CASE AckBatch
  <2>1. SettledFate(n, notes[n], notes'[n], Len(write_queue))
    BY <1>1, <1>4, <1>6, <1>8, AckStepFate DEF AckFate
  <2>2. PICK i : AckedBy(n, i) /\ ~OthersActive(acks, i)
    BY <1>6, <2>1 DEF SettledFate
  <2>3. i \in DOMAIN acks /\ write_queue[i].note_id = n
    BY <2>2 DEF AckedBy, AckChangesNote
  <2>4. r \notin DOMAIN acks
    <3>1. \A j \in DOMAIN acks : acks[j].outcome \in Outcomes
      BY <1>1, AcksTyped
    <3> QED
      BY <1>1, <1>3, <1>8, <3>1, AckSettles DEF AckBatch, Outcomes, Active
  <2> QED
    BY <1>3, <2>2, <2>3, <2>4 DEF OthersActive
<1> QED
  BY <1>7, <1>8

LEMMA ProtectStep ==
  ASSUME ~Interleaved, OneHandler \/ MaxFaults = 0, ProtectInv, [SyncNext]_syncVars
  PROVE  ProtectInv'
<1>1. BaseInv /\ TargetInv /\ ProtectedNotes
  BY DEF ProtectInv, TargetInv, IdsInv, CreateInv
<1>2. TargetInv'
  BY <1>1, TargetStep
<1>3. CASE HandlerMoves
  BY <1>2, <1>3, MovesKeepProtected DEF HandlerMoves, ProtectInv
<1>4. CASE PushDelta \/ PushUnrecorded \/ AckBatch
  BY <1>2, <1>4, TransactionsKeepProtected DEF ProtectInv
<1>5. CASE QuietStep \/ LeaseBatch \/ LeaseTime
  <2>1. UNCHANGED <<notes, handlers>> /\ RowsSettle
    BY <1>1, <1>5, QuietStepsLeaveHub, TransactionsSettle DEF handlerVars, LeaseBatch, LeaseTime
  <2>2. \A n : ActiveUpdate(n)' => ActiveUpdate(n)
    BY <2>1, SettledUpdates DEF ActiveUpdate
  <2>3. ProtectedNotes'
    BY <1>1, <2>1, <2>2 DEF ProtectedNotes, LiveNotes, Updates, At
  <2> QED
    BY <1>2, <2>3 DEF ProtectInv
<1> QED
  BY <1>1, <1>3, <1>4, <1>5, StepCases

LEMMA ProtectInit ==
  ASSUME SyncInit
  PROVE  ProtectInv
<1>1. TargetInv
  BY TargetInit
<1>2. Ids = {} /\ \A h \in Handlers : handlers[h] = Idle
  BY DEF SyncInit, Init, Ids
<1>3. \A h \in Handlers : ~Updates(h)
  BY <1>2, IdleShape DEF Updates, UpdateSteps
<1> QED
  BY <1>1, <1>2, <1>3 DEF ProtectInv, ProtectedNotes, ActiveUpdate, Updates, At, UpdateSteps

THEOREM ProtectInvariant ==
  ASSUME ~Interleaved, OneHandler \/ MaxFaults = 0
  PROVE  SyncSpec => []ProtectInv
<1>1. SyncInit => ProtectInv
  BY ProtectInit
<1>2. ProtectInv /\ [SyncNext]_syncVars => ProtectInv'
  BY ProtectStep
<1> QED
  BY <1>1, <1>2, PTL DEF SyncSpec

BodyProtected(n) ==
  /\ notes[n].sync_status # "conflict" /\ Exists(notes'[n])
  /\ \E i \in Ids : /\ Active(write_queue[i])
                    /\ write_queue[i].note_id = n
                    /\ write_queue[i].action = "update"
  => notes'[n].body = notes[n].body

LEMMA PushesProtect ==
  ASSUME ProtectInv, [SyncNext]_syncVars, phase = "push", phase' # "push", NEW n \in LiveNotes
  PROVE  BodyProtected(n)
<1>1. BaseInv /\ HubInv /\ ProtectedNotes /\ n \in HubIds /\ Exists(notes[n])
  BY DEF ProtectInv, TargetInv, IdsInv, CreateInv, BaseInv, LiveNotes
<1> SUFFICES ASSUME notes[n].sync_status # "conflict", Exists(notes'[n]), ActiveUpdate(n)
             PROVE  notes'[n].body = notes[n].body
  BY DEF BodyProtected, ActiveUpdate
<1>2. notes[n].sync_status = "pending_to_bear"
  <2>1. notes[n] \in NoteRow
    BY <1>1, NoteCases DEF HubInv
  <2> QED
    BY <1>1, <2>1 DEF ProtectedNotes, NoteRow, SyncStatuses
<1>3. CASE PushDelta \/ PushUnrecorded
  BY <1>1, <1>2, <1>3, PushedStatus DEF PushDelta, PushUnrecorded, Push
<1>4. CASE QuietStep
  BY <1>4, QuietStepsLeaveHub DEF handlerVars
<1>5. ~(HandlerMoves \/ LeaseBatch \/ AckBatch \/ LeaseTime)
  BY DEF HandlerMoves, LeaseBatch, AckBatch, LeaseTime, bridgeVars
<1> QED
  BY <1>1, <1>3, <1>4, <1>5, StepCases

\* What a consumer wrote is what the hub shows until Bear has it: no push replaces
\* the body of a note, however often one is repeated after a crash, as long as an
\* update of the note waits in the queue or is leased.
THEOREM ProtectedBodies ==
  ASSUME ~Interleaved, OneHandler \/ MaxFaults = 0
  PROVE  SyncSpec => ProtectedUntilApplied
<1>1. ProtectInv /\ [SyncNext]_syncVars =>
        (phase = "push" /\ phase' # "push" => \A n \in LiveNotes : BodyProtected(n))
  BY PushesProtect
<1>2. ProtectInv /\ [SyncNext]_syncVars =>
        [phase = "push" /\ phase' # "push" =>
           \A n \in LiveNotes :
             /\ notes[n].sync_status # "conflict" /\ Exists(notes'[n])
             /\ \E i \in Ids : /\ Active(write_queue[i])
                               /\ write_queue[i].note_id = n
                               /\ write_queue[i].action = "update"
             => notes'[n].body = notes[n].body]_syncVars
  BY <1>1 DEF BodyProtected
<1> QED
  BY <1>2, ProtectInvariant, PTL DEF SyncSpec, ProtectedUntilApplied

-----------------------------------------------------------------------------
(***************************************************************************)
(* Bear's stamps, when no two changes of Bear fall into one second.        *)
(***************************************************************************)
\* A change of Bear's note b: it is deleted, or gets a stamp that none has yet.
BearTurns(b) ==
  \/ bear'[b] = GONE /\ Exists(bear[b])
  \/ /\ bear'[b] \in BearNote /\ bear[b] # GONE
     /\ bear'[b].modified_at = clock' /\ clock < clock'

BearMoves == clock <= clock' /\ \A b \in BearIds : bear'[b] = bear[b] \/ BearTurns(b)

LEMMA BearStays ==
  ASSUME BaseInv, UNCHANGED <<bear, clock>>
  PROVE  BearMoves
BY NotesAssumption DEF BaseInv, CountersOK, BearMoves, Seconds

LEMMA ClockTurns ==
  ASSUME BaseInv, 0 \notin Gaps, BearClock
  PROVE  clock < clock' /\ clock <= clock' /\ clock' \in Seconds
<1>1. PICK d \in Gaps : clock' = clock + d /\ clock' \in Seconds
  BY DEF BearClock
<1>2. d \in Nat /\ d # 0 /\ clock \in Nat
  BY SyncAssumption, NotesAssumption DEF BaseInv, CountersOK, Seconds
<1> QED
  BY <1>1, <1>2

LEMMA BearNoteTurns ==
  ASSUME BaseInv, 0 \notin Gaps, BearClock, NEW b \in BearIds, NEW new \in BearNote,
         new.modified_at = clock', bear[b] # GONE, bear' = [bear EXCEPT ![b] = new]
  PROVE  BearMoves /\ BearTurns(b)
BY ClockTurns DEF BearMoves, BearTurns, BaseInv, BearInv

LEMMA UserTurns ==
  ASSUME BaseInv, 0 \notin Gaps, NEW b \in BearIds, UserEdits(b) \/ UserDeletes(b)
  PROVE  BearMoves
<1>1. BearInv
  BY DEF BaseInv
<1>2. CASE UserEdits(b)
  <2>1. PICK body \in UserBodies :
          bear' = [bear EXCEPT ![b].body = body, ![b].modified_at = clock']
    BY <1>2 DEF UserEdits
  <2>2. /\ bear[b] \in BearNote /\ body \in Bodies /\ clock' \in Seconds /\ BearClock
        /\ bear[b] # GONE
    BY <1>1, <1>2, BearCases, SyncAssumption DEF UserEdits, BearClock, Exists
  <2> DEFINE new == [body |-> body, trashed |-> bear[b].trashed, modified_at |-> clock']
  <2>3. bear' = [bear EXCEPT ![b] = new]
    <3>1. [bear[b] EXCEPT !.body = body] =
            [body |-> body, trashed |-> bear[b].trashed, modified_at |-> bear[b].modified_at]
      BY <2>2 DEF BearNote
    <3>2. [[body |-> body, trashed |-> bear[b].trashed, modified_at |-> bear[b].modified_at]
             EXCEPT !.modified_at = clock'] = new
      OBVIOUS
    <3>3. bear' = [bear EXCEPT ![b] = [[bear[b] EXCEPT !.body = body] EXCEPT !.modified_at = clock']]
      BY <1>1, <2>1 DEF BearInv
    <3> QED
      BY <3>1, <3>2, <3>3, Zenon
  <2>4. new \in BearNote /\ new.modified_at = clock'
    BY <2>2 DEF BearNote
  <2> HIDE DEF new
  <2> QED
    BY <2>2, <2>3, <2>4, BearNoteTurns
<1>3. CASE UserDeletes(b)
  <2>1. Exists(bear[b]) /\ bear' = [bear EXCEPT ![b] = GONE] /\ clock' = clock
    BY <1>3 DEF UserDeletes
  <2> QED
    BY <1>1, <2>1, NotesAssumption DEF BearMoves, BearTurns, BearInv, BaseInv, CountersOK, Seconds
<1> QED
  BY <1>2, <1>3

\* The bridge's write turns the note it is about.
LEMMA WriteTurns ==
  ASSUME BaseInv, 0 \notin Gaps, NEW i \in Nat, NEW b \in BearIds, Turn(i), BearClock,
         BearUpdate(i, b) \/ BearCreate(i, b)
  PROVE  BearMoves /\ BearTurns(b)
<1>1. BearInv /\ i \in DOMAIN batch /\ clock' \in Seconds
  BY DEF BaseInv, Turn, Todo, BearClock
<1>2. CASE BearUpdate(i, b)
  <2> DEFINE new == [bear[b] EXCEPT !.body = BodyOf(i), !.modified_at = clock']
  <2>1. bear[b] \in BearNote /\ BodyOf(i) \in Bodies /\ bear[b] # GONE
    BY <1>1, <1>2, BearCases, BatchItem DEF BearUpdate, TargetLives, Exists
  <2>2. new \in BearNote /\ new.modified_at = clock'
    BY <1>1, <2>1 DEF BearNote
  <2>3. bear' = [bear EXCEPT ![b] = new]
    BY <1>2 DEF BearUpdate, ChangesBear
  <2> HIDE DEF new
  <2> QED
    BY <2>1, <2>2, <2>3, BearNoteTurns
<1>3. CASE BearCreate(i, b)
  <2> DEFINE new == [body |-> AsCreated(BodyOf(i)), trashed |-> FALSE, modified_at |-> clock']
  <2>1. AsCreated(BodyOf(i)) \in Bodies
    BY <1>1, <1>3, BatchItem DEF BearCreate
  <2>2. new \in BearNote /\ new.modified_at = clock'
    BY <1>1, <2>1 DEF BearNote
  <2>3. bear' = [bear EXCEPT ![b] = new] /\ bear[b] # GONE
    BY <1>3, NotesAssumption DEF BearCreate, ChangesBear
  <2> HIDE DEF new
  <2> QED
    BY <2>2, <2>3, BearNoteTurns
<1> QED
  BY <1>2, <1>3

LEMMA ChangeTurns ==
  ASSUME BaseInv, 0 \notin Gaps, NEW i \in Nat, ChangeBear(i)
  PROVE  BearMoves /\ TargetOf(i) \in BearIds /\ BearTurns(TargetOf(i))
<1> DEFINE b == TargetOf(i)
           new == [bear[b] EXCEPT !.trashed = @ \/ ActionOf(i) = "trash", !.modified_at = clock']
<1>1. BearInv /\ i \in DOMAIN batch /\ clock' \in Seconds /\ BearClock
  BY DEF BaseInv, ChangeBear, Turn, Todo, BearClock
<1>2. b \in BearIds /\ Exists(bear[b])
  BY <1>1, BatchItem DEF ChangeBear, TargetLives
<1>3. bear[b] \in BearNote /\ bear[b] # GONE
  BY <1>1, <1>2, BearCases DEF Exists
<1>4. new \in BearNote /\ new.modified_at = clock'
  BY <1>1, <1>3 DEF BearNote
<1>5. bear' = [bear EXCEPT ![b] = new]
  BY DEF ChangeBear, ChangesBear, Applied
<1> HIDE DEF new, b
<1>6. BearMoves /\ BearTurns(b)
  BY <1>1, <1>2, <1>3, <1>4, <1>5, BearNoteTurns
<1> QED
  BY <1>2, <1>6 DEF b

LEMMA BearStepMoves ==
  ASSUME BaseInv, 0 \notin Gaps, [SyncNext]_syncVars
  PROVE  BearMoves
<1>1. CASE HandlerMoves \/ PushDelta \/ PushUnrecorded \/ LeaseBatch \/ AckBatch \/ LeaseTime
  BY <1>1, BearStays DEF HandlerMoves, PushDelta, PushUnrecorded, Push, LeaseBatch, AckBatch,
     LeaseTime, worldVars
<1>2. CASE ReadDelta \/ BridgeDies \/ AckRefused \/ UNCHANGED syncVars
  BY <1>2, BearStays DEF ReadDelta, BridgeDies, AckRefused, syncVars, worldVars
<1>3. ASSUME NEW i \in 1..MaxRows, \/ TargetLost(i) \/ SkipItem(i) \/ CopyConflict(i) \/ ItemFails(i)
                                   \/ Verify(i) \/ VerifyFails(i) \/ SearchFails(i)
                                   \/ \E b \in BearIds : SearchFinds(i, b)
      PROVE  BearMoves
  BY <1>3, BearStays DEF TargetLost, SkipItem, CopyConflict, ItemFails, Verify, VerifyFails,
     SearchFails, SearchFinds, Searched, Verified, worldVars
<1>4. ASSUME NEW i \in 1..MaxRows, NEW b \in BearIds,
             WriteBear(i, b) \/ WriteReportsFailure(i, b) \/ CreateUnnamed(i, b)
      PROVE  BearMoves
  BY <1>4, WriteTurns DEF WriteBear, WriteReportsFailure, CreateUnnamed
<1>5. CASE QuietStep
  BY <1>2, <1>3, <1>4, <1>5, UserTurns, ChangeTurns DEF QuietStep
<1> QED
  BY <1>1, <1>5, StepCases

\* x says more of a note of Bear than y.
Newer(x, y) ==
  \/ x = GONE /\ y # GONE
  \/ Exists(x) /\ y = NULL
  \/ Exists(x) /\ Exists(y) /\ y.modified_at < x.modified_at

\* What was read of Bear's note b once.
Older(b, y) ==
  /\ Exists(y) => y.modified_at <= clock
  /\ y = bear[b] \/ Newer(bear[b], y)

\* The next push will tell the hub of Bear's note b.
Unpushed(b) == Newer(bear[b], pushed[b])

LEMMA TurnedNewer ==
  ASSUME BearInv, clock \in Seconds, clock' \in Seconds, BearMoves, NEW b \in BearIds,
         NEW y \in BearNote \cup {NULL, GONE}, Older(b, y)
  PROVE  /\ BearTurns(b) => Newer(bear'[b], y)
         /\ Newer(bear[b], y) => Newer(bear'[b], y)
         /\ (Exists(y) => y.modified_at <= clock') /\ (y = bear'[b] \/ Newer(bear'[b], y))
<1>1. bear[b] \in BearNote \cup {NULL, GONE} /\ NULL # GONE
      /\ NULL \notin BearNote /\ GONE \notin BearNote
  BY NotesAssumption DEF BearInv
<1>2. \A x \in BearNote : Exists(x) /\ x.modified_at \in Int
  BY <1>1, NotesAssumption DEF Exists, BearNote, Seconds
<1>3. ~Exists(NULL) /\ ~Exists(GONE)
  BY DEF Exists
<1>4. Exists(y) => y \in BearNote
  BY <1>3
<1>5. ASSUME BearTurns(b) PROVE Newer(bear'[b], y) /\ clock <= clock'
  <2>1. CASE bear'[b] = GONE /\ Exists(bear[b])
    <3>1. y # GONE
      BY <1>1, <1>2, <1>3, <2>1 DEF Older, Newer
    <3> QED
      BY <2>1, <3>1 DEF Newer, BearMoves
  <2>2. CASE /\ bear'[b] \in BearNote /\ bear[b] # GONE
             /\ bear'[b].modified_at = clock' /\ clock < clock'
    <3>1. y # GONE
      BY <1>1, <1>2, <1>3, <2>2 DEF Older, Newer
    <3>2. CASE y = NULL
      BY <1>2, <2>2, <3>2 DEF Newer, BearMoves
    <3>3. CASE y \in BearNote
      <4>1. Exists(y) /\ y.modified_at <= clock /\ y.modified_at \in Int
        BY <1>2, <3>3 DEF Older
      <4>2. clock \in Int /\ clock' \in Int
        BY <1>2, <2>2, NotesAssumption DEF Seconds
      <4>3. y.modified_at < bear'[b].modified_at
        BY <2>2, <4>1, <4>2
      <4> QED
        BY <1>2, <2>2, <4>1, <4>3 DEF Newer, BearMoves
    <3> QED
      BY <3>1, <3>2, <3>3
  <2> QED
    BY <1>5, <2>1, <2>2 DEF BearTurns
<1>6. bear'[b] = bear[b] \/ BearTurns(b)
  BY DEF BearMoves
<1>7. Exists(y) => y.modified_at <= clock'
  <2> SUFFICES ASSUME Exists(y) PROVE y.modified_at <= clock'
    OBVIOUS
  <2>1. y.modified_at \in Int /\ y.modified_at <= clock /\ clock <= clock' /\ clock \in Int
    BY <1>2, <1>4, NotesAssumption DEF Older, BearMoves, Seconds
  <2>2. clock' \in Int
    BY NotesAssumption DEF Seconds
  <2> QED
    BY <2>1, <2>2
<1>8. y = bear'[b] \/ Newer(bear'[b], y)
  BY <1>5, <1>6 DEF Older
<1> QED
  BY <1>5, <1>6, <1>7, <1>8

BearStamps ==
  \A b \in BearIds :
    /\ Older(b, bear[b]) /\ Older(b, pushed[b])
    /\ b \in DOMAIN delta => Older(b, delta[b]) /\ Unpushed(b)

LEMMA PushedStays ==
  ASSUME [SyncNext]_syncVars, BaseInv, ~PushDelta
  PROVE  UNCHANGED pushed /\ (ReadDelta \/ delta' = delta \/ DOMAIN delta' = {})
<1>1. CASE HandlerMoves \/ PushUnrecorded \/ LeaseBatch \/ AckBatch \/ LeaseTime
  BY <1>1 DEF HandlerMoves, PushUnrecorded, Push, LeaseBatch, AckBatch, LeaseTime, bridgeVars, Nothing
<1>2. CASE QuietStep
  BY <1>2 DEF QuietStep, UserEdits, UserDeletes, ReadDelta, BridgeDies, AckRefused, TargetLost,
     SkipItem, ChangeBear, Verify, CopyConflict, VerifyFails, ItemFails, WriteBear,
     WriteReportsFailure, CreateUnnamed, SearchFinds, SearchFails, Verified, Searched, Applied,
     syncVars, bridgeVars, Nothing
<1> QED
  BY <1>1, <1>2, StepCases

LEMMA StampsStep ==
  ASSUME BaseInv, BearStamps, 0 \notin Gaps, [SyncNext]_syncVars
  PROVE  BearStamps'
<1>1. /\ BearInv /\ BearInv' /\ BearMoves /\ clock \in Seconds /\ clock' \in Seconds
  BY BearStep, BearStepMoves, CountersStep DEF BaseInv, CountersOK
<1>2. \A b \in BearIds : /\ bear[b] \in BearNote \cup {NULL, GONE}
                         /\ pushed[b] \in BearNote \cup {NULL, GONE}
                         /\ b \in DOMAIN delta => delta[b] \in BearNote \cup {NULL, GONE}
  BY <1>1 DEF BearInv
<1>3. ASSUME NEW b \in BearIds, NEW y \in BearNote \cup {NULL, GONE}, Older(b, y)
      PROVE  /\ Exists(y) => y.modified_at <= clock'
             /\ y = bear'[b] \/ Newer(bear'[b], y)
             /\ Newer(bear[b], y) => Newer(bear'[b], y)
  BY <1>1, <1>3, TurnedNewer
<1>4. ASSUME NEW b \in BearIds PROVE Older(b, bear[b])'
  <2>1. Older(b, bear[b])
    BY DEF BearStamps
  <2>2. CASE bear'[b] = bear[b]
    BY <1>2, <1>3, <2>1, <2>2 DEF Older
  <2>3. CASE BearTurns(b)
    BY <1>1, <2>3, NotesAssumption DEF BearTurns, Older, Exists, Seconds
  <2> QED
    BY <1>1, <2>2, <2>3 DEF BearMoves
<1>5. CASE UNCHANGED pushed /\ (delta' = delta \/ DOMAIN delta' = {})
  <2>1. ASSUME NEW b \in BearIds PROVE Older(b, pushed[b])'
    BY <1>2, <1>3, <1>5 DEF BearStamps, Older
  <2>2. ASSUME NEW b \in BearIds, b \in DOMAIN delta'
        PROVE  Older(b, delta[b])' /\ Unpushed(b)'
    BY <1>2, <1>3, <1>5, <2>2 DEF BearStamps, Older, Unpushed
  <2> QED
    BY <1>4, <2>1, <2>2 DEF BearStamps
<1>6. CASE ReadDelta
  <2>1. /\ UNCHANGED <<bear, pushed, clock>> /\ delta' = [b \in ChangedInBear |-> bear[b]]
    BY <1>6 DEF ReadDelta, worldVars
  <2>2. ASSUME NEW b \in BearIds, b \in DOMAIN delta'
        PROVE  Older(b, delta[b])' /\ Unpushed(b)'
    <3>1. bear[b] # pushed[b] /\ delta'[b] = bear'[b]
      BY <2>1, <2>2 DEF ChangedInBear
    <3> QED
      BY <1>4, <2>1, <3>1 DEF BearStamps, Older, Unpushed
  <2> QED
    BY <1>4, <2>1, <2>2 DEF BearStamps, Older
<1>7. CASE PushDelta
  <2>1. /\ UNCHANGED <<bear, clock>> /\ DOMAIN delta' = {}
        /\ pushed' = [b \in BearIds |-> IF b \in DOMAIN delta THEN delta[b] ELSE pushed[b]]
    BY <1>7 DEF PushDelta, Push, worldVars, Nothing
  <2> QED
    BY <1>4, <2>1 DEF BearStamps, Older
<1> QED
  BY <1>5, <1>6, <1>7, PushedStays

\* Notes that an item settled, or may settle, although the bridge did not change
\* them in Bear.
Skipped == Marked("copied") \cup Marked("trash") \cup Marked("update") \cup Marked("add_tag")
             \cup Marked("found")

LEMMA MarkedSkipped ==
  ASSUME NEW n, NEW what \in {"copied", "trash", "update", "add_tag", "found"},
         <<what, n>> \in marks
  PROVE  n \in Skipped
BY DEF Skipped, Marked

LEMMA SkippedGrows ==
  ASSUME [SyncNext]_syncVars, BaseInv
  PROVE  Skipped \subseteq Skipped'
BY MarksGrow DEF Skipped, Marked

\* The note of Bear that row i of the batch is about.
AckTarget(i) == IF ActionOf(i) = "create" THEN acks[i].bear_id ELSE TargetOf(i)

AckStays(i) ==
  /\ i \in DOMAIN acks /\ UNCHANGED batch
  /\ acks'[i].outcome = acks[i].outcome
  /\ acks'[i].conflict_resolved = acks[i].conflict_resolved
  /\ AckTarget(i)' = AckTarget(i)

\* An acknowledgement is an old one, a failure, of a note that is skipped, of a
\* note that Bear has just changed, or of one whose id is still to be found.
LEMMA AcksMove ==
  ASSUME BaseInv, 0 \notin Gaps, [SyncNext]_syncVars, NEW i \in DOMAIN acks'
  PROVE  \/ AckStays(i)
         \/ acks'[i].outcome = "failed"
         \/ NoteOf(i)' \in Skipped'
         \/ ~acks'[i].conflict_resolved /\ \E b \in BearIds : AckTarget(i)' = b /\ BearTurns(b)
         \/ ~acks'[i].conflict_resolved /\ AckTarget(i)' = NULL
<1>1. UNCHANGED <<batch, acks>> => AckStays(i)
  BY DEF AckStays, AckTarget, ActionOf, TargetOf
<1>2. HandlerMoves \/ LeaseTime \/ PushDelta \/ PushUnrecorded => UNCHANGED <<batch, acks>>
  BY DEF HandlerMoves, LeaseTime, PushDelta, PushUnrecorded, Push, bridgeVars
<1>3. ~(LeaseBatch \/ AckBatch \/ AckRefused \/ BridgeDies)
  BY DEF LeaseBatch, BaseInv, BridgeInv, BatchShape, AckBatch, AckRefused, BridgeDies, Nothing
<1>4. ReadDelta \/ (\E b \in BearIds : UserEdits(b) \/ UserDeletes(b)) \/ UNCHANGED syncVars =>
        UNCHANGED <<batch, acks>>
  BY DEF ReadDelta, UserEdits, UserDeletes, syncVars, bridgeVars
<1>5. ASSUME NEW j \in 1..MaxRows, Verify(j) \/ VerifyFails(j)
      PROVE  AckStays(i)
  <2>1. PICK ack : VerifiedAck(j, ack) /\ acks' = [acks EXCEPT ![j] = ack]
    BY <1>5, VerifiedAcks
  <2>2. UNCHANGED batch
    BY <1>5 DEF Verify, VerifyFails, Verified
  <2> QED
    BY <2>1, <2>2 DEF AckStays, AckTarget, ActionOf, TargetOf, VerifiedAck
<1>6. ASSUME NEW j \in 1..MaxRows, NEW ack, acks' = Put(acks, j, ack), UNCHANGED batch
      PROVE  AckStays(i) \/ (i = j /\ acks'[i] = ack)
  BY <1>6 DEF Put, AckStays, AckTarget, ActionOf, TargetOf
<1>7. ASSUME NEW j \in 1..MaxRows,
             TargetLost(j) \/ ItemFails(j) \/ \E b \in BearIds : WriteReportsFailure(j, b)
      PROVE  AckStays(i) \/ acks'[i].outcome = "failed"
  <2>1. acks' = Put(acks, j, Ack("failed")) /\ UNCHANGED batch
    BY <1>7 DEF TargetLost, ItemFails, WriteReportsFailure, Applied
  <2> QED
    BY <1>6, <2>1, AckTypes DEF Outcomes
<1>8. ASSUME NEW j \in 1..MaxRows, CopyConflict(j)
      PROVE  AckStays(i) \/ NoteOf(i)' \in Skipped'
  <2>1. /\ acks' = Put(acks, j, [Ack("applied") EXCEPT !.conflict_resolved = TRUE])
        /\ UNCHANGED batch /\ <<"copied", NoteOf(j)>> \in marks'
    BY <1>8 DEF CopyConflict, Applied
  <2>2. NoteOf(j)' = NoteOf(j)
    BY <2>1 DEF NoteOf
  <2>3. NoteOf(j) \in Skipped'
    BY <2>1 DEF Skipped, Marked
  <2> QED
    BY <1>6, <2>1, <2>2, <2>3
<1>9. ASSUME NEW j \in 1..MaxRows, SkipItem(j)
      PROVE  AckStays(i) \/ NoteOf(i)' \in Skipped'
  <2>1. /\ \E ack : acks' = Put(acks, j, ack)
        /\ UNCHANGED batch /\ <<ActionOf(j), NoteOf(j)>> \in marks'
        /\ ActionOf(j) \in {"update", "trash", "add_tag"}
    BY <1>9, BatchItem DEF SkipItem, Applied, Turn, Todo
  <2>2. NoteOf(j)' = NoteOf(j)
    BY <2>1 DEF NoteOf
  <2>3. NoteOf(j) \in Skipped'
    BY <2>1 DEF Skipped, Marked
  <2> QED
    BY <1>6, <2>1, <2>2, <2>3
<1>10. ASSUME NEW j \in 1..MaxRows, ChangeBear(j)
       PROVE  \/ AckStays(i)
              \/ /\ ~acks'[i].conflict_resolved
                 /\ \E b \in BearIds : AckTarget(i)' = b /\ BearTurns(b)
  <2>1. acks' = Put(acks, j, Ack("applied")) /\ UNCHANGED batch /\ ActionOf(j) # "create"
    BY <1>10 DEF ChangeBear, Applied
  <2>2. TargetOf(j) \in BearIds /\ BearTurns(TargetOf(j))
    BY <1>10, ChangeTurns
  <2>3. AckTarget(j)' = TargetOf(j)
    BY <2>1 DEF AckTarget, ActionOf, TargetOf
  <2>4. CASE i = j /\ acks'[i] = Ack("applied")
    <3>1. ~acks'[i].conflict_resolved
      BY <2>4, AckTypes DEF Outcomes
    <3>2. AckTarget(i)' = TargetOf(j)
      BY <2>3, <2>4
    <3> QED
      BY <2>2, <3>1, <3>2
  <2>5. AckStays(i) \/ (i = j /\ acks'[i] = Ack("applied"))
    BY <1>6, <2>1
  <2> QED
    BY <2>4, <2>5
<1>11. ASSUME NEW j \in 1..MaxRows, NEW b \in BearIds, WriteBear(j, b)
       PROVE  \/ AckStays(i)
              \/ /\ ~acks'[i].conflict_resolved
                 /\ \E c \in BearIds : AckTarget(i)' = c /\ BearTurns(c)
  <2> DEFINE a == [Ack("applied") EXCEPT !.bear_id = b]
  <2>1. a.bear_id = b /\ ~a.conflict_resolved
    BY DEF Ack
  <2>2. acks' = Put(acks, j, a) /\ UNCHANGED batch
        /\ (ActionOf(j) # "create" => b = TargetOf(j))
    BY <1>11 DEF WriteBear, BearUpdate, BearCreate
  <2>3. BearTurns(b)
    BY <1>11, WriteTurns DEF WriteBear
  <2> HIDE DEF a
  <2>4. AckTarget(j)' = b
    BY <2>1, <2>2 DEF AckTarget, ActionOf, TargetOf, Put
  <2>5. CASE i = j /\ acks'[i] = a
    <3>1. ~acks'[i].conflict_resolved
      BY <2>1, <2>5
    <3>2. AckTarget(i)' = b
      BY <2>4, <2>5
    <3> QED
      BY <2>3, <3>1, <3>2
  <2>6. AckStays(i) \/ (i = j /\ acks'[i] = a)
    BY <1>6, <2>2
  <2> QED
    BY <2>5, <2>6
<1>12. ASSUME NEW j \in 1..MaxRows, NEW b \in BearIds, CreateUnnamed(j, b)
       PROVE  AckStays(i) \/ (~acks'[i].conflict_resolved /\ AckTarget(i)' = NULL)
  <2>1. acks' = Put(acks, j, Ack("applied")) /\ UNCHANGED batch /\ ActionOf(j) = "create"
    BY <1>12 DEF CreateUnnamed, BearCreate
  <2>2. CASE i = j /\ acks'[i] = Ack("applied")
    BY <2>1, <2>2 DEF Ack, AckTarget, ActionOf
  <2> QED
    BY <1>6, <2>1, <2>2
<1>13. ASSUME NEW j \in 1..MaxRows, SearchFails(j)
       PROVE  AckStays(i) \/ acks'[i].outcome = "failed"
  <2>1. acks' = [acks EXCEPT ![j] = Ack("failed")] /\ UNCHANGED batch
    BY <1>13 DEF SearchFails, Searched
  <2> QED
    BY <2>1 DEF AckStays, AckTarget, ActionOf, TargetOf, Ack
<1>14. ASSUME NEW j \in 1..MaxRows, NEW b \in BearIds, SearchFinds(j, b)
       PROVE  AckStays(i) \/ NoteOf(i)' \in Skipped'
  <2>1. /\ \E ack : acks' = [acks EXCEPT ![j] = ack]
        /\ UNCHANGED batch /\ <<"found", NoteOf(j)>> \in marks'
    BY <1>14 DEF SearchFinds, Searched
  <2>2. NoteOf(j)' = NoteOf(j) /\ NoteOf(j) \in Skipped'
    BY <2>1 DEF NoteOf, Skipped, Marked
  <2> QED
    BY <2>1, <2>2 DEF AckStays, AckTarget, ActionOf, TargetOf
<1>15. CASE QuietStep
  BY <1>1, <1>3, <1>4, <1>5, <1>7, <1>8, <1>9, <1>10, <1>11, <1>12, <1>13, <1>14, <1>15
     DEF QuietStep
<1> QED
  BY <1>1, <1>2, <1>3, <1>15, StepCases

-----------------------------------------------------------------------------
(***************************************************************************)
(* Convergence.                                                            *)
(***************************************************************************)
\* The row says what the last push said of its note, or the next will tell.
Mirrors(row) ==
  /\ row.bear_id \in BearIds
  /\ \/ Unpushed(row.bear_id)
     \/ /\ Exists(pushed[row.bear_id])
        /\ row.body = pushed[row.bear_id].body /\ row.trashed = pushed[row.bear_id].trashed

SettledNotes ==
  \A n \in LiveNotes \ Skipped : notes[n].sync_status = "synced" => Mirrors(notes[n])

SettledCopies ==
  \A h \in Handlers : /\ Updates(h) /\ handlers[h].copy.sync_status = "synced"
                      /\ handlers[h].note_id \notin Skipped
                      => Mirrors(handlers[h].copy)

\* What the bridge reports as done is in Bear and the hub has not heard of it.
DoneUnpushed ==
  \A i \in DOMAIN acks : acks[i].outcome = "applied" /\ NoteOf(i) \notin Skipped =>
    /\ ~acks[i].conflict_resolved
    /\ AckTarget(i) = NULL \/ Unpushed(AckTarget(i))

ConvergeInv == TargetInv /\ BearStamps /\ SettledNotes /\ SettledCopies /\ DoneUnpushed

LEMMA UnpushedStays ==
  ASSUME BaseInv, BearStamps, 0 \notin Gaps, [SyncNext]_syncVars, UNCHANGED pushed,
         NEW b \in BearIds
  PROVE  /\ BearTurns(b) => Unpushed(b)'
         /\ Unpushed(b) => Unpushed(b)'
<1>1. /\ BearInv /\ BearMoves /\ clock \in Seconds /\ clock' \in Seconds
      /\ pushed[b] \in BearNote \cup {NULL, GONE}
  BY BearStepMoves, CountersStep DEF BaseInv, CountersOK, BearInv
<1>2. Older(b, pushed[b])
  BY DEF BearStamps
<1> QED
  BY <1>1, <1>2, TurnedNewer DEF Unpushed

LEMMA MirrorsStays ==
  ASSUME BaseInv, BearStamps, 0 \notin Gaps, [SyncNext]_syncVars, UNCHANGED pushed,
         NEW row, Mirrors(row)
  PROVE  Mirrors(row)'
BY UnpushedStays DEF Mirrors

LEMMA DoneStep ==
  ASSUME ConvergeInv, 0 \notin Gaps, [SyncNext]_syncVars
  PROVE  DoneUnpushed'
<1>1. BaseInv /\ BaseInv' /\ BearStamps /\ DoneUnpushed
  BY BaseStep DEF ConvergeInv, TargetInv, IdsInv, CreateInv
<1>2. CASE PushDelta
  <2>1. DOMAIN acks' = {}
    BY <1>1, <1>2 DEF PushDelta, Push, BaseInv, BridgeInv, BatchShape
  <2> QED
    BY <2>1 DEF DoneUnpushed
<1>3. CASE ~PushDelta
  <2>1. UNCHANGED pushed
    BY <1>1, <1>3, PushedStays
  <2> SUFFICES ASSUME NEW i \in DOMAIN acks', acks'[i].outcome = "applied",
                      NoteOf(i)' \notin Skipped'
               PROVE  /\ ~acks'[i].conflict_resolved
                      /\ AckTarget(i)' = NULL \/ Unpushed(AckTarget(i))'
    BY DEF DoneUnpushed
  <2>2. CASE AckStays(i)
    <3>1. NoteOf(i)' = NoteOf(i)
      BY <2>2 DEF AckStays, NoteOf
    <3>2. NoteOf(i) \notin Skipped
      BY <1>1, <3>1, SkippedGrows
    <3>3. ~acks[i].conflict_resolved /\ (AckTarget(i) = NULL \/ Unpushed(AckTarget(i)))
      BY <1>1, <2>2, <3>2 DEF AckStays, DoneUnpushed
    <3>4. AckTarget(i) \in BearIds \cup {NULL}
      <4>1. i \in DOMAIN acks /\ i \in DOMAIN batch /\ AckOK(i) /\ acks[i] \in AckRecord
            /\ acks[i].outcome = "applied"
        BY <1>1, <2>2 DEF AckStays, BaseInv, BridgeInv, BatchShape
      <4> QED
        BY <1>1, <3>3, <4>1, BatchItem DEF AckOK, AckTarget, AckRecord
    <3>5. CASE AckTarget(i) # NULL
      <4> DEFINE b == AckTarget(i)
      <4>1. b \in BearIds /\ Unpushed(b)
        BY <3>3, <3>4, <3>5
      <4>2. Newer(bear'[b], pushed'[b])
        BY <1>1, <2>1, <4>1, UnpushedStays DEF Unpushed
      <4> QED
        BY <2>2, <3>3, <4>2 DEF AckStays, Unpushed
    <3>6. CASE AckTarget(i) = NULL
      BY <2>2, <3>3, <3>6 DEF AckStays
    <3> QED
      BY <3>5, <3>6
  <2> QED
    BY <1>1, <2>1, <2>2, AcksMove, UnpushedStays
<1> QED
  BY <1>2, <1>3

LEMMA MovesKeepSettled ==
  ASSUME ConvergeInv, 0 \notin Gaps, [SyncNext]_syncVars, UNCHANGED <<pushed, marks>>,
         NEW h \in Handlers, Moves(h) \/ Stumbles(h)
  PROVE  SettledNotes' /\ SettledCopies'
<1>1. /\ BaseInv /\ HubInv /\ BearStamps /\ TargetInv /\ SettledNotes /\ SettledCopies
  BY DEF ConvergeInv, TargetInv, IdsInv, CreateInv, BaseInv
<1>2. \A row : Mirrors(row) => Mirrors(row)'
  BY <1>1, MirrorsStays
<1>3. Skipped' = Skipped
  BY DEF Skipped, Marked
<1>4. ASSUME NEW n \in LiveNotes' \ Skipped, notes'[n].sync_status = "synced"
      PROVE  Mirrors(notes[n])'
  <2>1. n \in HubIds /\ Exists(notes'[n])
    BY <1>4 DEF LiveNotes
  <2>2. CASE notes'[n] = notes[n]
    <3>1. Mirrors(notes[n])
      BY <1>1, <1>4, <2>1, <2>2 DEF SettledNotes, LiveNotes
    <3> QED
      BY <1>2, <2>2, <3>1
  <2>3. CASE /\ n = handlers[h].note_id /\ Updates(h) /\ handlers[h].copy.sync_status = "synced"
             /\ notes'[n] = handlers[h].copy
    <3>1. Mirrors(handlers[h].copy)
      BY <1>1, <1>4, <2>3 DEF SettledCopies
    <3> QED
      BY <1>2, <2>3, <3>1
  <2> QED
    BY <1>1, <1>4, <2>1, <2>2, <2>3, MovesSettle
<1>5. ASSUME NEW g \in Handlers, Updates(g)', handlers'[g].copy.sync_status = "synced",
             handlers'[g].note_id \notin Skipped
      PROVE  Mirrors(handlers[g].copy)'
  <2>1. CASE Updates(g) /\ SameHandler(g)
    <3>1. Mirrors(handlers[g].copy) /\ handlers'[g].copy = handlers[g].copy
      BY <1>1, <1>5, <2>1 DEF SettledCopies, SameHandler
    <3> QED
      BY <1>2, <3>1
  <2>2. CASE \E c \in Calls : /\ ReadsNote(h, c) /\ handlers'[g].note_id = c.note_id
                              /\ handlers'[g].copy = notes[c.note_id]
    <3>1. PICK c \in Calls : /\ c.note_id \in LiveNotes /\ handlers'[g].note_id = c.note_id
                             /\ handlers'[g].copy = notes[c.note_id]
      BY <2>2 DEF ReadsNote
    <3>2. Mirrors(notes[c.note_id])
      BY <1>1, <1>5, <3>1 DEF SettledNotes
    <3> QED
      BY <1>2, <3>1, <3>2
  <2> QED
    BY <1>1, <1>5, <2>1, <2>2, UpdaterMoves
<1> QED
  BY <1>3, <1>4, <1>5 DEF SettledNotes, SettledCopies

\* What a push makes of a settled note.
LEMMA PushedMirrors ==
  ASSUME ConvergeInv, PushDelta \/ PushUnrecorded, NEW n \in LiveNotes' \ Skipped,
         notes'[n].sync_status = "synced"
  PROVE  Mirrors(notes[n])'
<1>1. /\ BaseInv /\ NotesTypeOK /\ BearInv /\ BearStamps /\ SettledNotes
      /\ ProcessSyncPush(delta) /\ UNCHANGED bear
      /\ n \in HubIds /\ Exists(notes'[n])
  BY DEF ConvergeInv, TargetInv, IdsInv, CreateInv, BaseInv, HubInv, PushDelta, PushUnrecorded,
     Push, worldVars, LiveNotes
<1>2. \/ pushed' = pushed
      \/ pushed' = [b \in BearIds |-> IF b \in DOMAIN delta THEN delta[b] ELSE pushed[b]]
  BY DEF PushDelta, PushUnrecorded
<1>3. ASSUME NEW b \in DOMAIN delta, delta[b] \in BearNote, notes'[n].bear_id = b,
             notes'[n].body = delta[b].body, notes'[n].trashed = delta[b].trashed
      PROVE  Mirrors(notes[n])'
  <2>1. b \in BearIds /\ Unpushed(b) /\ Exists(delta[b])
    BY <1>1, <1>3, NotesAssumption DEF BearInv, BearStamps, Exists
  <2>2. CASE pushed' = pushed
    <3>1. Newer(bear'[b], pushed'[b])
      BY <1>1, <2>1, <2>2 DEF Unpushed
    <3> QED
      BY <1>3, <2>1, <3>1 DEF Mirrors, Unpushed
  <2>3. CASE pushed'[b] = delta[b]
    BY <1>3, <2>1, <2>3 DEF Mirrors
  <2> QED
    BY <1>2, <2>1, <2>2, <2>3
<1>4. CASE Exists(notes[n])
  <2>1. notes[n] \in NoteRow /\ notes'[n].bear_id = notes[n].bear_id
        /\ notes[n].sync_status = "synced"
    BY <1>1, <1>4, PushedRow, PushedStatus
  <2>2. CASE notes[n].bear_id \notin DOMAIN delta /\ notes'[n] = notes[n]
    <3> DEFINE b == notes[n].bear_id
    <3>1. Mirrors(notes[n])
      BY <1>1, <1>4, <2>1 DEF SettledNotes, LiveNotes
    <3>2. b \in BearIds /\ pushed'[b] = pushed[b] /\ bear'[b] = bear[b]
      BY <1>1, <1>2, <2>2, <3>1 DEF Mirrors
    <3> QED
      BY <2>2, <3>1, <3>2 DEF Mirrors, Unpushed
  <2>3. CASE /\ notes[n].bear_id \in DOMAIN delta /\ notes[n].bear_id \in BearIds
             /\ delta[notes[n].bear_id] \in BearNote
             /\ notes'[n] = Upserted(notes[n], delta[notes[n].bear_id], notes[n].bear_id)
    <3>1. notes'[n].body = delta[notes[n].bear_id].body
          /\ notes'[n].trashed = delta[notes[n].bear_id].trashed
      BY <2>1, <2>3, UpsertedTyped
    <3> QED
      BY <1>3, <2>1, <2>3, <3>1
  <2> QED
    BY <1>1, <1>4, <2>2, <2>3, PushedRow
<1>5. CASE notes[n] = NULL
  <2>1. PICK b \in DOMAIN delta : delta[b] \in BearNote /\ notes'[n] = InsertedNote(delta[b], b)
    BY <1>1, <1>5, PushEffect DEF PushFate, FreshNote, Exists
  <2>2. b \in BearIds
    BY <1>1 DEF BearInv
  <2> QED
    BY <1>3, <2>1, <2>2, InsertedTyped
<1>6. notes[n] # GONE
  BY <1>1, PushEffect DEF PushFate, Exists
<1> QED
  BY <1>1, <1>4, <1>5, <1>6, NoteCases

\* What the acknowledgements make of a note that they settle.
LEMMA AckedMirrors ==
  ASSUME ConvergeInv, AckBatch, NEW n \in LiveNotes' \ Skipped, notes'[n].sync_status = "synced"
  PROVE  Mirrors(notes[n])'
<1>1. /\ BaseInv /\ IdsInv /\ RowTargets /\ UnbornPending /\ SettledNotes /\ DoneUnpushed
      /\ UNCHANGED <<bear, pushed>> /\ phase = "ack" /\ n \in HubIds /\ Exists(notes'[n])
      /\ NULL \notin BearIds
  BY NotesAssumption DEF ConvergeInv, TargetInv, IdsInv, CreateInv, AckBatch, worldVars, LiveNotes
<1>2. AckFate(n, notes[n], notes'[n], Len(write_queue))
  BY <1>1, AckStepFate
<1>3. Exists(notes[n]) /\ SettledFate(n, notes[n], notes'[n], Len(write_queue))
      /\ IdFate(n, notes[n], notes'[n], Len(write_queue))
      /\ notes'[n].body = notes[n].body /\ notes'[n].trashed = notes[n].trashed
  BY <1>1, <1>2 DEF AckFate
<1>4. ASSUME NEW i, NEW b, GivesId(n, i, b)
      PROVE  b \in BearIds /\ Unpushed(b) /\ notes[n].bear_id = NULL
  <2>1. /\ i \in DOMAIN acks /\ i \in Ids /\ acks[i].outcome = "applied" /\ b \in BearIds
        /\ ActionOf(i) = "create" /\ write_queue[i].action = "create"
        /\ NoteOf(i) = n /\ write_queue[i].note_id = n /\ acks[i].bear_id = b
    BY <1>1, <1>4, GivenIds
  <2>2. Unpushed(b)
    BY <1>1, <2>1, NotesAssumption DEF DoneUnpushed, AckTarget
  <2>3. write_queue[i].status = "processing"
    BY <1>1, <2>1 DEF BaseInv, BridgeInv, BatchShape, BatchLeased
  <2>4. PendingCreate(n) /\ n \in LiveNotes
    BY <1>1, <1>3, <2>1, <2>3 DEF PendingCreate, Active, LiveNotes
  <2>5. notes[n].bear_id = NULL
    BY <1>1, <2>4 DEF IdsInv, CreateInv, OrphanInv, UnbornInBear
  <2> QED
    BY <2>1, <2>2, <2>5
<1>5. \/ notes'[n].bear_id = notes[n].bear_id
      \/ /\ notes'[n].bear_id \in BearIds /\ Unpushed(notes'[n].bear_id)
         /\ notes[n].bear_id = NULL
  BY <1>3, <1>4 DEF IdFate
<1>6. ASSUME notes'[n].bear_id \in BearIds, Unpushed(notes'[n].bear_id)
      PROVE  Mirrors(notes[n])'
  BY <1>1, <1>6 DEF Mirrors, Unpushed
<1>7. CASE notes[n].sync_status = "synced"
  <2>1. Mirrors(notes[n]) /\ notes[n].bear_id # NULL
    BY <1>1, <1>3, <1>7 DEF SettledNotes, LiveNotes, UnbornPending
  <2>2. notes'[n].bear_id = notes[n].bear_id
    BY <1>5, <2>1
  <2> QED
    BY <1>1, <1>3, <2>1, <2>2 DEF Mirrors, Unpushed
<1>8. CASE \E i \in 1..Len(write_queue) :
             /\ AckedBy(n, i)
             /\ \/ acks[i].conflict_resolved
                \/ acks[i].bear_id = NULL
                \/ \E j \in 1..Len(write_queue) : GivesId(n, j, notes'[n].bear_id)
  <2>1. PICK i \in 1..Len(write_queue) :
             /\ AckedBy(n, i)
             /\ \/ acks[i].conflict_resolved
                \/ acks[i].bear_id = NULL
                \/ \E j \in 1..Len(write_queue) : GivesId(n, j, notes'[n].bear_id)
    BY <1>8
  <2>2. /\ i \in DOMAIN acks /\ i \in DOMAIN batch /\ acks[i].outcome = "applied"
        /\ write_queue[i].note_id = n /\ AckOK(i)
    BY <1>1, <2>1 DEF AckedBy, AckChangesNote, BaseInv, BridgeInv, BatchShape
  <2>3. NoteOf(i) = n /\ i \in Ids /\ TargetOf(i) = write_queue[i].payload.bear_id
        /\ TargetOf(i) \in BearIds \cup {NULL} /\ (ActionOf(i) = "create" <=> TargetOf(i) = NULL)
    BY <1>1, <2>2, BatchItem
  <2>4. ~acks[i].conflict_resolved /\ (AckTarget(i) = NULL \/ Unpushed(AckTarget(i)))
    BY <1>1, <2>2, <2>3 DEF DoneUnpushed
  <2>5. CASE acks[i].bear_id = NULL
    <3>1. ActionOf(i) # "create"
      BY <1>1, <2>2, <2>4, <2>5 DEF AckOK
    <3>2. n \in LiveNotes /\ TargetOf(i) # NULL
      BY <1>1, <1>3, <2>3, <3>1 DEF LiveNotes
    <3>3. notes[n].bear_id = TargetOf(i) /\ TargetOf(i) \in BearIds
      BY <1>1, <2>2, <2>3, <3>2 DEF RowTargets
    <3>4. notes'[n].bear_id = TargetOf(i) /\ Unpushed(TargetOf(i))
      BY <1>5, <2>4, <3>1, <3>2, <3>3 DEF AckTarget
    <3> QED
      BY <1>6, <3>3, <3>4
  <2>6. CASE \E j \in 1..Len(write_queue) : GivesId(n, j, notes'[n].bear_id)
    BY <1>4, <1>6, <2>6
  <2> QED
    BY <2>1, <2>4, <2>5, <2>6
<1> QED
  BY <1>3, <1>7, <1>8 DEF SettledFate

LEMMA ConvergeStep ==
  ASSUME ~Interleaved, 0 \notin Gaps, ConvergeInv, [SyncNext]_syncVars
  PROVE  ConvergeInv'
<1>1. /\ BaseInv /\ TargetInv' /\ BearStamps' /\ DoneUnpushed' /\ BearStamps
      /\ SettledNotes /\ SettledCopies
  BY TargetStep, StampsStep, DoneStep DEF ConvergeInv, TargetInv, IdsInv, CreateInv
<1>2. Skipped \subseteq Skipped'
  BY <1>1, SkippedGrows
<1>3. CASE HandlerMoves
  BY <1>1, <1>3, MovesKeepSettled DEF HandlerMoves, bridgeVars, worldVars, ConvergeInv
<1>4. CASE PushDelta \/ PushUnrecorded \/ AckBatch
  <2>1. SettledCopies'
    BY <1>4, TransactionsQuiet DEF SettledCopies
  <2>2. SettledNotes'
    BY <1>2, <1>4, PushedMirrors, AckedMirrors DEF SettledNotes
  <2> QED
    BY <1>1, <2>1, <2>2 DEF ConvergeInv
<1>5. CASE ~PushDelta /\ (QuietStep \/ LeaseBatch \/ LeaseTime)
  <2>1. UNCHANGED <<notes, handlers, pushed>>
    BY <1>1, <1>5, QuietStepsLeaveHub, PushedStays DEF handlerVars, LeaseBatch, LeaseTime
  <2>2. \A row : Mirrors(row) => Mirrors(row)'
    BY <1>1, <2>1, MirrorsStays
  <2>3. ASSUME NEW n \in LiveNotes' \ Skipped', notes'[n].sync_status = "synced"
        PROVE  Mirrors(notes[n])'
    <3>1. Mirrors(notes[n])
      BY <1>1, <1>2, <2>1, <2>3 DEF SettledNotes, LiveNotes
    <3> QED
      BY <2>1, <2>2, <3>1
  <2>4. ASSUME NEW h \in Handlers, Updates(h)', handlers'[h].copy.sync_status = "synced",
               handlers'[h].note_id \notin Skipped'
        PROVE  Mirrors(handlers[h].copy)'
    <3>1. Mirrors(handlers[h].copy)
      BY <1>1, <1>2, <2>1, <2>4 DEF SettledCopies, Updates
    <3> QED
      BY <2>1, <2>2, <3>1
  <2> QED
    BY <1>1, <2>3, <2>4 DEF ConvergeInv, SettledNotes, SettledCopies
<1> QED
  BY <1>1, <1>3, <1>4, <1>5, StepCases

LEMMA ConvergeInit ==
  ASSUME SyncInit
  PROVE  ConvergeInv
<1>1. TargetInv /\ BaseInv /\ \A h \in Handlers : handlers[h] = Idle
  BY TargetInit, BaseInit DEF SyncInit
<1>2. DOMAIN acks = {} /\ DOMAIN delta = {} /\ pushed = bear /\ clock = 0
  BY DEF SyncInit, Nothing
<1>3. FirstNote \in BearNote
  BY SyncAssumption, NotesAssumption DEF FirstNote, BearNote, Seconds
<1>4. BearStamps
  <2>1. \A b \in BearIds : Exists(bear[b]) => bear[b].modified_at <= clock
    BY <1>2 DEF SyncInit, FirstNote, Exists
  <2> QED
    BY <1>2, <2>1 DEF BearStamps, Older
<1>5. ASSUME NEW n \in LiveNotes PROVE Mirrors(notes[n])
  <2> DEFINE c == CHOOSE b \in DOMAIN Existing : Existing[b] = n
  <2>1. \E b \in DOMAIN Existing : Existing[b] = n
    BY <1>5 DEF SyncInit, LiveNotes, Exists
  <2>2. c \in DOMAIN Existing
    BY <2>1
  <2>3. c \in BearIds /\ notes[n] = InsertedNote(FirstNote, c) /\ bear[c] = FirstNote
    BY <2>1, <2>2, SyncAssumption DEF SyncInit, LiveNotes
  <2> HIDE DEF c
  <2>4. notes[n].bear_id = c /\ notes[n].body = FirstNote.body /\ notes[n].trashed = FirstNote.trashed
    BY <1>3, <2>3, InsertedTyped
  <2>5. Exists(pushed[c]) /\ pushed[c] = FirstNote
    BY <1>2, <1>3, <2>3, NotesAssumption DEF Exists
  <2> QED
    BY <2>3, <2>4, <2>5 DEF Mirrors
<1>6. \A h \in Handlers : ~Updates(h)
  BY <1>1, IdleShape DEF Updates, UpdateSteps
<1> QED
  BY <1>1, <1>2, <1>4, <1>5, <1>6 DEF ConvergeInv, SettledNotes, SettledCopies, DoneUnpushed

THEOREM ConvergeInvariant ==
  ASSUME ~Interleaved, 0 \notin Gaps
  PROVE  SyncSpec => []ConvergeInv
<1>1. SyncInit => ConvergeInv
  BY ConvergeInit
<1>2. ConvergeInv /\ [SyncNext]_syncVars => ConvergeInv'
  BY ConvergeStep
<1> QED
  BY <1>1, <1>2, PTL DEF SyncSpec

\* The hub's settled notes that no item settled without a change of Bear.
ToldOfBear ==
  \A n \in SyncedNotes \ Skipped :
    LET b == notes[n].bear_id
    IN /\ b \in BearIds
       /\ bear[b] = pushed[b] => SaysWhatBearSays(n)

\* After any crashes, repeated pushes, lost acknowledgements and failed items: a
\* settled note says what Bear says as soon as what Bear has was pushed, unless
\* an item settled it as a conflict copy or because Bear had what it asks for, or
\* a note of Bear was taken for the one it had to create.
THEOREM NotesConverge ==
  ASSUME ~Interleaved, 0 \notin Gaps
  PROVE  SyncSpec => []ToldOfBear
<1>1. ASSUME ConvergeInv PROVE ToldOfBear
  <2> SUFFICES ASSUME NEW n \in SyncedNotes \ Skipped
               PROVE  /\ notes[n].bear_id \in BearIds
                      /\ bear[notes[n].bear_id] = pushed[notes[n].bear_id] => SaysWhatBearSays(n)
    BY DEF ToldOfBear
  <2> DEFINE b == notes[n].bear_id
  <2>1. Mirrors(notes[n])
    BY <1>1 DEF ConvergeInv, SettledNotes, SyncedNotes
  <2>2. bear[b] = pushed[b] => ~Unpushed(b)
    <3> SUFFICES ASSUME bear[b] = pushed[b], Unpushed(b) PROVE FALSE
      OBVIOUS
    <3>1. b \in BearIds
      BY <2>1 DEF Mirrors
    <3>2. bear[b] \in BearNote \cup {NULL, GONE}
      BY <1>1, <3>1 DEF ConvergeInv, TargetInv, IdsInv, CreateInv, BaseInv, BearInv
    <3>3. Exists(bear[b]) => bear[b].modified_at \in Int
      BY <3>2, NotesAssumption DEF Exists, BearNote, Seconds
    <3> QED
      BY <3>3, NotesAssumption DEF Unpushed, Newer, Exists
  <2> QED
    BY <2>1, <2>2, NotesAssumption DEF Mirrors, SaysWhatBearSays
<1> QED
  BY <1>1, ConvergeInvariant, PTL

\* The runs' property, as long as no update and no tag was skipped because Bear had
\* it, and no note of Bear was taken for a new one by its title: when nothing is in
\* flight every settled note says what Bear says.
THEOREM Convergence ==
  ASSUME ~Interleaved, 0 \notin Gaps
  PROVE  SyncSpec => [](Marked("update") \cup Marked("add_tag") \cup Marked("found") = {}
                         => Converged)
<1>1. ToldOfBear => (Marked("update") \cup Marked("add_tag") \cup Marked("found") = {}
                       => Converged)
  BY DEF ToldOfBear, Converged, NothingInFlight, ChangedInBear, Skipped
<1> QED
  BY <1>1, NotesConverge, PTL
=============================================================================
