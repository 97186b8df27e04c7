----------------------------- MODULE NotesTable -----------------------------
(***************************************************************************)
(* The hub's notes table and the store transactions that change it:        *)
(* the bridge's pushes (ProcessSyncPush), the acknowledgements             *)
(* (AckQueueItems with its effect on sync_status) and the single-statement *)
(* writes of the consumer handlers (src/internal/store/sqlite.go).         *)
(*                                                                         *)
(* A row keeps what the synchronisation looks at.  The title is left out:  *)
(* an update takes it from the first line of the body and so does Bear, so *)
(* a title never differs where the body does not.  trashed stands for the  *)
(* metadata columns, which a push always takes from Bear.                  *)
(*                                                                         *)
(* A body is a sequence of lines; modified_at is a second on a clock.      *)
(***************************************************************************)
EXTENDS WriteQueue

CONSTANTS
  HubIds,     \* ids the hub may give to notes; none is used twice
  BearIds,    \* ids Bear may give to notes; none is used twice
  Bodies,     \* bodies of notes
  MaxClock,   \* bound: seconds
  GONE        \* a row that was deleted; NULL is a row that never existed

VARIABLE notes

Seconds == 0..MaxClock
SyncStatuses == {"synced", "pending_to_bear", "conflict"}

NoteRow ==
  [bear_id : BearIds \cup {NULL}, body : Bodies, trashed : BOOLEAN,
   sync_status : SyncStatuses, modified_at : Seconds,
   pending_bear_body : Bodies \cup {NULL},
   expected_bear_modified_at : Seconds \cup {NULL}]

\* What Bear's database says of a note.
BearNote == [body : Bodies, trashed : BOOLEAN, modified_at : Seconds]

\* NULL and GONE are no values of any column and no rows.
ASSUME NotesAssumption ==
  /\ NULL # GONE /\ MaxClock \in Nat
  /\ NULL \notin HubIds /\ NULL \notin BearIds /\ NULL \notin Bodies /\ NULL \notin Seconds
  /\ {NULL, GONE} \cap NoteRow = {} /\ {NULL, GONE} \cap BearNote = {}

Exists(row) == row \notin {NULL, GONE}
LiveNotes == {n \in HubIds : Exists(notes[n])}
NoteOfBear(b) == {n \in LiveNotes : notes[n].bear_id = b}

-----------------------------------------------------------------------------
(***************************************************************************)
(* ProcessSyncPush                                                         *)
(***************************************************************************)
\* Without a snapshot (create flow) every difference is a conflict; with one,
\* both sides must have changed the body.
DetectContentConflict(row, in) ==
  IF \/ row.pending_bear_body = NULL
     \/ /\ in.body # row.pending_bear_body
        /\ row.body # row.pending_bear_body
  THEN "conflict"
  ELSE "pending_to_bear"

IsEcho(row, in) == in.modified_at = row.expected_bear_modified_at

\* updateExistingNote on a pending_to_bear row: everything but the body.
UpsertPending(row, in) ==
  [row EXCEPT
     !.trashed = in.trashed,
     !.modified_at = in.modified_at,
     !.sync_status = IF ~IsEcho(row, in) /\ in.modified_at # row.modified_at
                     THEN DetectContentConflict(row, in) ELSE @,
     !.expected_bear_modified_at = IF IsEcho(row, in) THEN NULL ELSE @]

\* Mutant: a row in conflict is overwritten like any other.
UpsertSettledAlways(row, in, b) ==
  [bear_id |-> b, body |-> in.body, trashed |-> in.trashed,
   sync_status |-> "synced", modified_at |-> in.modified_at,
   pending_bear_body |-> NULL, expected_bear_modified_at |-> NULL]

\* Any other row is overwritten as a whole and keeps only a conflict.
UpsertSettled(row, in, b) ==
  [bear_id |-> b, body |-> in.body, trashed |-> in.trashed,
   sync_status |-> IF row.sync_status = "conflict" THEN "conflict" ELSE "synced",
   modified_at |-> in.modified_at,
   pending_bear_body |-> NULL, expected_bear_modified_at |-> NULL]

Upserted(row, in, b) ==
  IF row.sync_status = "pending_to_bear" THEN UpsertPending(row, in)
  ELSE UpsertSettled(row, in, b)

InsertedNote(in, b) ==
  [bear_id |-> b, body |-> in.body, trashed |-> in.trashed,
   sync_status |-> "synced", modified_at |-> in.modified_at,
   pending_bear_body |-> NULL, expected_bear_modified_at |-> NULL]

\* The request maps Bear ids to what Bear says of them, GONE for the deleted
\* ones.  Unknown notes get fresh ids; deleted ones take their queue items
\* with them.
ProcessSyncPush(delta) ==
  LET upserts == {b \in DOMAIN delta : Exists(delta[b])}
      deleted == UNION {NoteOfBear(b) : b \in DOMAIN delta \ upserts}
      unknown == {b \in upserts : NoteOfBear(b) = {}}
      fresh == {n \in HubIds : notes[n] = NULL}
  IN \E id \in [unknown -> fresh] :
       /\ \A a, b \in unknown : id[a] = id[b] => a = b
       /\ FailQueueItemsForDeletedNotes(deleted)
       /\ notes' = [n \in HubIds |->
            IF n \in deleted THEN GONE
            ELSE IF n \in LiveNotes /\ notes[n].bear_id \in upserts
              THEN Upserted(notes[n], delta[notes[n].bear_id], notes[n].bear_id)
            ELSE IF \E b \in unknown : id[b] = n
              THEN LET b == CHOOSE b \in unknown : id[b] = n IN InsertedNote(delta[b], b)
            ELSE notes[n]]

-----------------------------------------------------------------------------
(***************************************************************************)
(* AckQueueItems: one transaction that settles the rows of the batch in    *)
(* order and moves the sync_status of their notes.                         *)
(***************************************************************************)
Ack(outcome) ==
  [outcome |-> outcome, conflict_resolved |-> FALSE, bear_id |-> NULL,
   bear_modified_at |-> NULL]

Settled(row) ==
  [row EXCEPT !.sync_status = "synced", !.pending_bear_body = NULL,
              !.expected_bear_modified_at = NULL]

\* ackUpdateNoteStatus
AckedConflictCopy(row, others) ==
  IF row.sync_status = "conflict" /\ ~others THEN Settled(row) ELSE row

AckedCreate(row, ack, others) ==
  [row EXCEPT
     !.bear_id = ack.bear_id,
     !.sync_status = IF others THEN "pending_to_bear" ELSE "synced",
     !.pending_bear_body = IF others THEN row.body ELSE NULL,
     !.expected_bear_modified_at = ack.bear_modified_at]

\* Mutants: the rows still queued are not looked at; Bear's stamp is not kept.
AckedChangeIgnoresOthers(row, ack, others) == Settled(row)
AckedChangeForgetsStamp(row, ack, others) ==
  IF others THEN [row EXCEPT !.expected_bear_modified_at = NULL] ELSE Settled(row)

AckedChange(row, ack, others) ==
  IF others THEN [row EXCEPT !.expected_bear_modified_at = ack.bear_modified_at]
  ELSE Settled(row)

AckedNote(row, ack, others) ==
  CASE ~Exists(row) -> row
    [] Exists(row) /\ ack.conflict_resolved -> AckedConflictCopy(row, others)
    [] Exists(row) /\ ~ack.conflict_resolved ->
         IF row.sync_status = "conflict" THEN row
         ELSE IF ack.bear_id # NULL THEN AckedCreate(row, ack, others)
         ELSE AckedChange(row, ack, others)

\* Other rows of the note that are still active when row i is settled: the
\* rows of the batch before i are settled already.
OthersActive(acks, i) ==
  \E j \in Ids \ {i} :
    /\ write_queue[j].note_id = write_queue[i].note_id
    /\ Active(write_queue[j])
    /\ ~(j \in DOMAIN acks /\ j < i /\ write_queue[j].status = "processing")

\* Mutant: a failed item settles its note too.
AckChangesNoteAnyOutcome(acks, i) ==
  /\ i \in DOMAIN acks
  /\ write_queue[i].status = "processing"
  /\ write_queue[i].note_id \in HubIds

AckChangesNote(acks, i) ==
  /\ i \in DOMAIN acks
  /\ acks[i].outcome = "applied"
  /\ write_queue[i].status = "processing"
  /\ write_queue[i].note_id \in HubIds

\* The table once row i is settled.
AckStep(acks, table, i) ==
  IF AckChangesNote(acks, i)
  THEN [table EXCEPT ![write_queue[i].note_id] =
          AckedNote(@, acks[i], OthersActive(acks, i))]
  ELSE table

\* The table after each row of the loop.
AfterAcks(acks) ==
  LET after[i \in 0..Len(write_queue)] ==
        IF i = 0 THEN notes ELSE AckStep(acks, after[i - 1], i)
  IN after

\* UNIQUE(bear_id) of the notes table.
BearIdsDiffer(table) ==
  \A m, n \in HubIds :
    /\ Exists(table[m]) /\ Exists(table[n])
    /\ table[m].bear_id # NULL /\ table[m].bear_id = table[n].bear_id
    => m = n

\* It is checked after each row, and aborts the transaction.
AckAccepted(acks) == \A i \in Ids : BearIdsDiffer(AfterAcks(acks)[i])

AckItems(acks) ==
  /\ AckAccepted(acks)
  /\ AckQueueItems([i \in DOMAIN acks |-> acks[i].outcome])
  /\ notes' = AfterAcks(acks)[Len(write_queue)]

-----------------------------------------------------------------------------
(***************************************************************************)
(* Single-statement writes.                                                *)
(***************************************************************************)
\* UpdateNote writes every column; a note deleted meanwhile stays deleted.
UpdateNote(n, row) ==
  notes' = [notes EXCEPT ![n] = IF Exists(@) THEN row ELSE @]

CreateNote(n, row) ==
  /\ notes[n] = NULL
  /\ notes' = [notes EXCEPT ![n] = row]

DeleteNote(n) ==
  notes' = [notes EXCEPT ![n] = IF Exists(@) THEN GONE ELSE @]

NotesTypeOK == notes \in [HubIds -> NoteRow \cup {NULL, GONE}]
=============================================================================
