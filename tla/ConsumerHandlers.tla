-------------------------- MODULE ConsumerHandlers --------------------------
(***************************************************************************)
(* The consumer API's write handlers (src/internal/api/notes_handler.go,   *)
(* tags_handler.go).  A handler is a sequence of store calls, each of them *)
(* atomic, with nothing that keeps them together: between two calls of a   *)
(* handler any other handler and any transaction of the bridge may run.    *)
(* A handler's step names the store call it makes next.                    *)
(*                                                                         *)
(* "trash" stands for trashNote and archiveNote, which differ only in the  *)
(* flag they set; "add_tag" for the handlers that enqueue and leave the    *)
(* note alone.  A request that is answered with an error before its first  *)
(* write changes nothing and is left out.                                  *)
(***************************************************************************)
EXTENDS NotesTable

CONSTANTS
  Calls,     \* the requests consumers send, and send again
  Handlers   \* requests served at the same time

VARIABLE handlers

handlerVars == <<vars, notes, handlers>>

\* A call of the API: [consumer, key, action, note_id, body]; note_id is NULL
\* for a create, body is NULL unless the action sets it.
Idle == [step |-> "idle", call |-> NULL, note_id |-> NULL, copy |-> NULL]

Steps == {"idle", "check_key", "update_note", "enqueue", "restore", "find_create",
          "coalesce", "update_coalesced", "delete_orphan", "create_note",
          "enqueue_create", "delete_created"}

Handler ==
  [step : Steps, call : Calls \cup {NULL}, note_id : HubIds \cup {NULL},
   copy : NoteRow \cup {NULL}]

\* The queue row a call asks for.
Write(c, n, bear) ==
  [consumer |-> c.consumer, key |-> c.key, action |-> c.action, note_id |-> n,
   payload |-> [title |-> NULL, body |-> c.body, bear_id |-> bear]]

ASSUME CallsAssumption ==
  /\ \A c \in Calls, n \in HubIds, bear \in BearIds \cup {NULL} :
       Write(c, n, bear) \in Requests
  /\ \A c \in Calls : c.action \in {"create", "update", "trash", "add_tag"}

Goto(h, step) == handlers' = [handlers EXCEPT ![h].step = step]
Answer(h) == handlers' = [handlers EXCEPT ![h] = Idle]
At(h, step) == handlers[h].step = step

\* The rows a handler's key finds, and the ones that end the handler early.
Found(c) == RowsForKey(c.key, c.consumer)
Answered(c) == {i \in Found(c) : write_queue[i].status # "failed"}
IsReplay(c) == Answered(c) # {}

-----------------------------------------------------------------------------
(***************************************************************************)
(* updateNote, trashNote, archiveNote, addTag                              *)
(***************************************************************************)
\* GetNote and the checks on what it returned.
GetNote(h, c) ==
  /\ At(h, "idle")
  /\ c.action # "create"
  /\ c.note_id \in LiveNotes
  /\ LET note == notes[c.note_id]
     IN /\ note.sync_status # "conflict"
        /\ c.action \in {"trash", "add_tag"} => note.bear_id # NULL
        /\ handlers' = [handlers EXCEPT ![h] =
             [step |-> "check_key", call |-> c, note_id |-> c.note_id, copy |-> note]]
  /\ UNCHANGED <<vars, notes>>

\* GetQueueItemByIdempotencyKey: a key that was accepted and did not fail ends
\* the handler; otherwise the first write comes next.
FirstWrite(c, note) ==
  CASE c.action = "add_tag" -> "enqueue"
    [] c.action = "update" /\ note.bear_id = NULL -> "find_create"
    [] OTHER -> "update_note"

CheckKey(h) ==
  /\ At(h, "check_key")
  /\ LET c == handlers[h].call
     IN IF IsReplay(c) THEN Answer(h) ELSE Goto(h, FirstWrite(c, handlers[h].copy))
  /\ UNCHANGED <<vars, notes>>

\* snapshotPendingBear: only the first pending write takes a snapshot.
SnapshotPendingBear(note) ==
  IF note.pending_bear_body = NULL THEN note.body ELSE note.pending_bear_body

\* Mutant: the snapshot is taken after the body is set.
ChangedThenSnapshot(c, note) ==
  [note EXCEPT !.body = IF c.action = "update" THEN c.body ELSE @,
               !.trashed = IF c.action = "trash" THEN TRUE ELSE @,
               !.sync_status = "pending_to_bear",
               !.pending_bear_body =
                 IF @ # NULL THEN @
                 ELSE IF c.action = "update" THEN c.body ELSE note.body]

Changed(c, note) ==
  [note EXCEPT !.body = IF c.action = "update" THEN c.body ELSE @,
               !.trashed = IF c.action = "trash" THEN TRUE ELSE @,
               !.sync_status = "pending_to_bear",
               !.pending_bear_body = SnapshotPendingBear(note)]

WriteNote(h) ==
  /\ At(h, "update_note")
  /\ UpdateNote(handlers[h].note_id, Changed(handlers[h].call, handlers[h].copy))
  /\ Goto(h, "enqueue")
  /\ UNCHANGED vars

Enqueue(h) ==
  /\ At(h, "enqueue")
  /\ EnqueueWrite(Write(handlers[h].call, handlers[h].note_id, handlers[h].copy.bear_id))
  /\ Answer(h)
  /\ UNCHANGED notes

\* The enqueue failed: the note is written back as it was read.
EnqueueFails(h) ==
  /\ At(h, "enqueue")
  /\ IF handlers[h].call.action = "add_tag" THEN Answer(h) ELSE Goto(h, "restore")
  /\ UNCHANGED <<vars, notes>>

RestoreNote(h) ==
  /\ At(h, "restore")
  /\ UpdateNote(handlers[h].note_id, handlers[h].copy)
  /\ Answer(h)
  /\ UNCHANGED vars

-----------------------------------------------------------------------------
(***************************************************************************)
(* handleCreateUpdateCoalesce: an update of a note Bear does not have yet. *)
(***************************************************************************)
\* The SELECT of CoalesceCreateUpdate; without a pending create the handler ends.
FindCreate(h) ==
  /\ At(h, "find_create")
  /\ IF PendingRows("create", handlers[h].note_id, handlers[h].call.consumer) = {}
     THEN Answer(h) ELSE Goto(h, "coalesce")
  /\ UNCHANGED <<vars, notes>>

\* Mutant: the UPDATE relies on the SELECT and does not look at the status.
CoalesceUnguarded(h) ==
  /\ At(h, "coalesce")
  /\ \E i \in Ids :
       /\ write_queue[i].note_id = handlers[h].note_id
       /\ write_queue[i].action = "create"
       /\ write_queue' = [write_queue EXCEPT ![i].payload.body = handlers[h].call.body,
                                             ![i].secondary = handlers[h].call.key]
  /\ Goto(h, "update_coalesced")
  /\ UNCHANGED <<acceptedAs, notes>>

\* Its UPDATE: the create may have been leased since, which ends the handler too.
Coalesce(h) ==
  LET w == Write(handlers[h].call, handlers[h].note_id, NULL)
  IN /\ At(h, "coalesce")
     /\ \/ CoalesceCreateUpdate(w) /\ Goto(h, "update_coalesced")
        \/ /\ PendingRows("create", w.note_id, w.consumer) = {}
           /\ Answer(h) /\ UNCHANGED vars
     /\ UNCHANGED notes

UpdateCoalesced(h) ==
  /\ At(h, "update_coalesced")
  /\ UpdateNote(handlers[h].note_id,
                [handlers[h].copy EXCEPT !.body = handlers[h].call.body])
  /\ Answer(h)
  /\ UNCHANGED vars

-----------------------------------------------------------------------------
(***************************************************************************)
(* createNote                                                              *)
(***************************************************************************)
\* The key is looked up first; a failed create leaves an orphaned note.
FailedCreates(c) == {i \in Found(c) : write_queue[i].action = "create"}

CheckCreateKey(h, c) ==
  /\ At(h, "idle")
  /\ c.action = "create"
  /\ ~IsReplay(c)
  /\ \/ /\ FailedCreates(c) = {}
        /\ handlers' = [handlers EXCEPT ![h] =
             [Idle EXCEPT !.step = "create_note", !.call = c]]
     \/ \E i \in FailedCreates(c) :
          handlers' = [handlers EXCEPT ![h] =
            [Idle EXCEPT !.step = "delete_orphan", !.call = c,
                         !.note_id = write_queue[i].note_id]]
  /\ UNCHANGED <<vars, notes>>

DeleteOrphan(h) ==
  /\ At(h, "delete_orphan")
  /\ DeleteNote(handlers[h].note_id)
  /\ Goto(h, "create_note")
  /\ UNCHANGED vars

NewNote(c, now) ==
  [bear_id |-> NULL, body |-> c.body, trashed |-> FALSE,
   sync_status |-> "pending_to_bear", modified_at |-> now,
   pending_bear_body |-> NULL, expected_bear_modified_at |-> NULL]

InsertNote(h, n, now) ==
  /\ At(h, "create_note")
  /\ CreateNote(n, NewNote(handlers[h].call, now))
  /\ handlers' = [handlers EXCEPT ![h].step = "enqueue_create", ![h].note_id = n]
  /\ UNCHANGED vars

\* Mutant: the note of the request that came second stays.
EnqueueCreateKeepsNote(h) ==
  /\ At(h, "enqueue_create")
  /\ EnqueueWrite(Write(handlers[h].call, handlers[h].note_id, NULL))
  /\ Answer(h)
  /\ UNCHANGED notes

\* If the key already has a row for another note, this handler's note is the
\* orphan of a race and goes.
EnqueueCreate(h) ==
  LET w == Write(handlers[h].call, handlers[h].note_id, NULL)
  IN /\ At(h, "enqueue_create")
     /\ EnqueueWrite(w)
     /\ IF write_queue'[acceptedAs'[w]].note_id = w.note_id
        THEN Answer(h) ELSE Goto(h, "delete_created")
     /\ UNCHANGED notes

EnqueueCreateFails(h) ==
  /\ At(h, "enqueue_create")
  /\ Goto(h, "delete_created")
  /\ UNCHANGED <<vars, notes>>

DeleteCreated(h) ==
  /\ At(h, "delete_created")
  /\ DeleteNote(handlers[h].note_id)
  /\ Answer(h)
  /\ UNCHANGED vars

\* The hub is restarted, or the request is cancelled between two store calls.
HandlerDies(h) ==
  /\ ~At(h, "idle")
  /\ Answer(h)
  /\ UNCHANGED <<vars, notes>>

-----------------------------------------------------------------------------
HandlerStep(h, now) ==
  \/ \E c \in Calls : GetNote(h, c) \/ CheckCreateKey(h, c)
  \/ CheckKey(h) \/ WriteNote(h) \/ Enqueue(h) \/ RestoreNote(h)
  \/ FindCreate(h) \/ Coalesce(h) \/ UpdateCoalesced(h)
  \/ DeleteOrphan(h) \/ \E n \in HubIds : InsertNote(h, n, now)
  \/ EnqueueCreate(h) \/ DeleteCreated(h)

HandlerFault(h) ==
  EnqueueFails(h) \/ EnqueueCreateFails(h) \/ HandlerDies(h)

HandlersTypeOK == handlers \in [Handlers -> Handler]
=============================================================================
