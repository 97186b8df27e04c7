------------------------------ MODULE DeltaSync ------------------------------
(***************************************************************************)
(* How the bridge finds out what changed in Bear (src/cmd/bridge/sync.go,  *)
(* state.go): the first export, the delta of the later cycles, the known   *)
(* ids, the junction table scan and the state file between them.           *)
(*                                                                         *)
(* Every read of Bear's database is a step of its own: there is no read    *)
(* transaction around them, and Bear's user may change it in between.      *)
(* Steps that only compute are part of the read before them.               *)
(*                                                                         *)
(* A note is a revision with a modification date, a tag a title with one;  *)
(* pairs are the tags of a note; files are the attachments of one note.    *)
(* Tags are numbered by their primary key, *)
(* the order in which Bear's database returns them.  Backlinks are read    *)
(* like tags and pinned pairs like pairs; they are left out.  The          *)
(* protection of notes with pending writes is in NoteSync.                 *)
(***************************************************************************)
EXTENDS Integers, FiniteSets, Functions

CONSTANTS
  BearIds, Files,
  Tags,             \* tag ids: numbers
  Titles,           \* titles of tags
  FileNote,         \* the note that the files are attached to
  NULL,             \* no such note; no state file
  Kinds,            \* the kinds of changes Bear's user makes
  OpenPhases,       \* steps of a cycle before which the user may change Bear
  FullScanInterval, \* junctionFullScanInterval (12 in the code)
  MaxChanges, MaxClock, MaxCrashes \* bounds

\* BridgeState, the contents of the state file.
Known == [LastSyncAt : 0..MaxClock, LastDBModTime : 0..MaxChanges,
          KnownNoteIDs : SUBSET BearIds, KnownTagIDs : SUBSET Tags,
          KnownAttachmentIDs : SUBSET Files,
          KnownNoteTagPairs : UNION {[S -> SUBSET Tags] : S \in SUBSET BearIds},
          JunctionFullScanCounter : Nat]

ASSUME DeltaAssumption ==
  /\ Kinds \subseteq {"create", "edit", "delete", "tag", "attach", "detach",
                      "touch", "create_tag", "rename_tag", "delete_tag", "reuse_title"}
  /\ Tags \subseteq Nat /\ FileNote \in BearIds
  /\ OpenPhases \subseteq STRING
  /\ FullScanInterval \in Nat \ {0}
  /\ MaxChanges \in Nat /\ MaxClock \in Nat /\ MaxCrashes \in Nat

\* Ids of three tables are three kinds of things, and NULL is not a value of any.
ASSUME KindsApart ==
  /\ BearIds \cap Tags = {} /\ BearIds \cap Files = {} /\ Tags \cap Files = {}
  /\ NULL \notin Titles /\ NULL \notin Known
  /\ NULL \notin [rev : Nat, modified : Nat]
  /\ NULL \notin [title : Titles, modified : Nat]

VARIABLES
  notes,     \* Bear: id -> [rev, modified]
  tags,      \* Bear: id -> [title, modified]
  pairs,     \* Bear: id -> tags of the note
  files,     \* Bear: attachments
  dates,     \* Bear: their modification dates
  gone,      \* Bear: ids of what was deleted, never used again
  changes,   \* Bear: commits so far, which is what the file times tell
  clock,
  saved,     \* the state file
  state,     \* the bridge: the state it works on
  phase,     \* the bridge: the step that comes next
  req,       \* the bridge: the request it builds
  hub,       \* the hub: [notes, tags, pairs, files, served, blobs]: the tables,
             \* the attachments with a file_path, the files on its disk
  missed,    \* history: files whose last upload failed
  crashes

bearVars == <<notes, tags, pairs, files, dates, gone, changes>>
deltaVars == <<bearVars, clock, saved, state, phase, req, hub, missed, crashes>>

Current == {b \in BearIds : notes[b] # NULL}
CurrentTags == {t \in Tags : tags[t] # NULL}
EmptyReq ==
  [notes |-> <<>>, tags |-> <<>>, pairs |-> <<>>, files |-> {},
   deleted |-> {}, deletedTags |-> {}, deletedFiles |-> {}]
Revs(S) == [b \in S |-> notes[b].rev]
TitlesOf(T) == [t \in T |-> tags[t].title]

\* The later of two partial functions wins.
Over(f, g) == [b \in DOMAIN f \cup DOMAIN g |-> IF b \in DOMAIN g THEN g[b] ELSE f[b]]

-----------------------------------------------------------------------------
(***************************************************************************)
(* Bear's user                                                             *)
(***************************************************************************)
MayChange(kind) ==
  /\ kind \in Kinds /\ changes < MaxChanges
  /\ phase \in OpenPhases \cup {"idle"}

Commit ==
  /\ changes' = changes + 1
  /\ UNCHANGED <<clock, saved, state, phase, req, hub, missed, crashes>>

CreateNote(b) ==
  /\ MayChange("create") /\ notes[b] = NULL /\ b \notin gone
  /\ notes' = [notes EXCEPT ![b] = [rev |-> changes, modified |-> clock]]
  /\ Commit /\ UNCHANGED <<tags, pairs, files, dates, gone>>

EditNote(b) ==
  /\ MayChange("edit") /\ b \in Current
  /\ notes' = [notes EXCEPT ![b] = [rev |-> changes, modified |-> clock]]
  /\ Commit /\ UNCHANGED <<tags, pairs, files, dates, gone>>

\* A note goes with its tags and its attachments.
DeleteNote(b) ==
  /\ MayChange("delete") /\ b \in Current
  /\ notes' = [notes EXCEPT ![b] = NULL]
  /\ pairs' = [pairs EXCEPT ![b] = {}]
  /\ LET attached == IF b = FileNote THEN files ELSE {}
     IN files' = files \ attached /\ gone' = gone \cup {b} \cup attached
  /\ Commit /\ UNCHANGED <<tags, dates>>

\* Tagging leaves the note's modification date alone.
TagNote(b) ==
  /\ MayChange("tag") /\ b \in Current
  /\ \E T \in SUBSET CurrentTags \ {pairs[b]} : pairs' = [pairs EXCEPT ![b] = T]
  /\ Commit /\ UNCHANGED <<notes, tags, files, dates, gone>>

\* A document keeps the date it had as a file, an image gets a new one.
AttachFile(f) ==
  /\ MayChange("attach") /\ FileNote \in Current /\ f \notin files \cup gone
  /\ files' = files \cup {f}
  /\ \E date \in {0, clock} : dates' = [dates EXCEPT ![f] = date]
  /\ Commit /\ UNCHANGED <<notes, tags, pairs, gone>>

DetachFile(f) ==
  /\ MayChange("detach") /\ f \in files
  /\ files' = files \ {f}
  /\ gone' = gone \cup {f}
  /\ Commit /\ UNCHANGED <<notes, tags, pairs, dates>>

\* Bear adds to what it knows of a file, such as the text found in an image.
TouchFile(f) ==
  /\ MayChange("touch") /\ f \in files
  /\ dates' = [dates EXCEPT ![f] = clock]
  /\ Commit /\ UNCHANGED <<notes, tags, pairs, files, gone>>

\* Bear's tags have different titles.  A title that was another tag's may come
\* back under a new id before the hub was told ("reuse_title") or not.
TitleFree(title) ==
  /\ \A u \in CurrentTags : tags[u].title # title
  /\ "reuse_title" \in Kinds \/ title \notin Range(hub.tags)

CreateTag(t, title) ==
  /\ MayChange("create_tag") /\ tags[t] = NULL /\ t \notin gone
  /\ \A u \in Tags : u < t => tags[u] # NULL \/ u \in gone
  /\ TitleFree(title)
  /\ tags' = [tags EXCEPT ![t] = [title |-> title, modified |-> clock]]
  /\ Commit /\ UNCHANGED <<notes, pairs, files, dates, gone>>

RenameTag(t, title) ==
  /\ MayChange("rename_tag") /\ t \in CurrentTags
  /\ TitleFree(title)
  /\ tags' = [tags EXCEPT ![t] = [title |-> title, modified |-> clock]]
  /\ Commit /\ UNCHANGED <<notes, pairs, files, dates, gone>>

DeleteTag(t) ==
  /\ MayChange("delete_tag") /\ t \in CurrentTags
  /\ tags' = [tags EXCEPT ![t] = NULL]
  /\ pairs' = [b \in BearIds |-> pairs[b] \ {t}]
  /\ gone' = gone \cup {t}
  /\ Commit /\ UNCHANGED <<notes, files, dates>>

UserChanges ==
  \/ \E b \in BearIds : CreateNote(b) \/ EditNote(b) \/ DeleteNote(b) \/ TagNote(b)
  \/ \E f \in Files : AttachFile(f) \/ DetachFile(f) \/ TouchFile(f)
  \/ \E t \in Tags : \/ DeleteTag(t)
                   \/ \E title \in Titles : CreateTag(t, title) \/ RenameTag(t, title)

-----------------------------------------------------------------------------
(***************************************************************************)
(* The hub's side of a push: syncPush and ProcessSyncPush, one transaction *)
(* that a violated constraint rolls back.                                  *)
(***************************************************************************)
NotesThen(r) == DOMAIN hub.notes \cup DOMAIN r.notes
TagsThen(r) == DOMAIN hub.tags \cup DOMAIN r.tags

\* upsertTag, one tag after the other, under UNIQUE(title): the title another
\* tag has when t is written.  Deletions come later in the transaction.
TitleThen(r, u, t) ==
  IF u \in DOMAIN r.tags /\ u < t THEN r.tags[u]
  ELSE IF u \in DOMAIN hub.tags THEN hub.tags[u] ELSE NULL

TitleClash(r) ==
  \E t \in DOMAIN r.tags : \E u \in TagsThen(r) \ {t} : TitleThen(r, u, t) = r.tags[t]

\* upsertAttachment under the foreign key: its note must be there.
Dangling(r) == r.files # {} /\ FileNote \notin NotesThen(r)

Refused(r) == TitleClash(r) \/ Dangling(r)

\* Mutant: the attachments to clean up are looked up after the transaction.
CleanupIDsAfter(r) == r.deletedFiles \cap (r.files \ r.deletedFiles)

\* collectAttachmentCleanupIDs looks the attachments up before the
\* transaction deletes them.
CleanupIDs(r) == r.deletedFiles \cap hub.files

NotesAfter(r) == Restrict(Over(hub.notes, r.notes), NotesThen(r) \ r.deleted)
TagsAfter(r) == Restrict(Over(hub.tags, r.tags), TagsThen(r) \ r.deletedTags)

\* Mutant: the tags of a deleted note stay.
PairsAfterKept(r) == Over(hub.pairs, Restrict(r.pairs, DOMAIN r.pairs \cap NotesThen(r)))

\* Tags of a note are replaced as a whole; pairs of unknown notes or tags are
\* skipped.  Deleting a note or a tag cascades to its pairs.
PairsAfter(r) ==
  LET replaced == Over(hub.pairs, r.pairs)
  IN [b \in DOMAIN replaced \cap DOMAIN NotesAfter(r) |->
        replaced[b] \cap DOMAIN TagsAfter(r)]

\* Deleting a note cascades to its attachments.
FilesAfter(r) ==
  IF FileNote \in DOMAIN NotesAfter(r)
  THEN (hub.files \cup r.files) \ r.deletedFiles ELSE {}

\* An attachment comes from Bear without a path: pushed again, it loses the
\* one that its upload set.
ServedAfter(r) == (hub.served \ r.files) \cap FilesAfter(r)

Pushed(r) ==
  [notes |-> NotesAfter(r), tags |-> TagsAfter(r), pairs |-> PairsAfter(r),
   files |-> FilesAfter(r), served |-> ServedAfter(r),
   blobs |-> hub.blobs \ CleanupIDs(r)]

\* A push that is refused ends the cycle with an error: nothing is saved.
PushThen(r, next) ==
  IF Refused(r)
  THEN phase' = "idle" /\ UNCHANGED hub
  ELSE phase' = next /\ hub' = Pushed(r)

-----------------------------------------------------------------------------
(***************************************************************************)
(* Run                                                                     *)
(***************************************************************************)
Keep == UNCHANGED <<bearVars, clock, missed, crashes>>

\* The file times are read before anything else of the cycle.
StartCycle ==
  /\ phase = "idle"
  /\ req' = EmptyReq
  /\ IF saved = NULL
     THEN phase' = "all_notes" /\ UNCHANGED state
     ELSE /\ saved.LastDBModTime # changes
          /\ state' = [saved EXCEPT !.LastDBModTime = changes]
          /\ phase' = "notes"
  /\ UNCHANGED <<saved, hub>> /\ Keep

-----------------------------------------------------------------------------
(***************************************************************************)
(* initialSync                                                             *)
(***************************************************************************)
ReadAllNotes ==
  /\ phase = "all_notes"
  /\ req' = [req EXCEPT !.notes = Revs(Current)]
  /\ phase' = "all_rest"
  /\ UNCHANGED <<saved, state, hub>> /\ Keep

ReadAllRest ==
  /\ phase = "all_rest"
  /\ req' = [req EXCEPT !.tags = TitlesOf(CurrentTags), !.files = files,
                        !.pairs = Restrict(pairs, {b \in Current : pairs[b] # {}})]
  /\ phase' = "push_notes"
  /\ UNCHANGED <<saved, state, hub>> /\ Keep

\* pushNotesBatched: a push of notes without pairs clears their tags.
PushNotes ==
  /\ phase = "push_notes"
  /\ PushThen([EmptyReq EXCEPT !.notes = req.notes,
                               !.pairs = [b \in DOMAIN req.notes |-> {}]], "push_meta")
  /\ UNCHANGED <<saved, state, req>> /\ Keep

PushMeta ==
  /\ phase = "push_meta"
  /\ PushThen([req EXCEPT !.notes = <<>>], "upload_all")
  /\ UNCHANGED <<saved, state, req>> /\ Keep

\* syncUploadAttachment: the attachment is looked up, the file written and its
\* path stored.
SyncUploadAttachment(S) ==
  [hub EXCEPT !.blobs = @ \cup (S \cap hub.files), !.served = @ \cup (S \cap hub.files)]

\* uploadAttachmentModels: one call for each attachment of the push, found by
\* its Bear id; what fails is logged and forgotten.
Upload(next) ==
  /\ \E S \in SUBSET req.files :
       /\ hub' = SyncUploadAttachment(S)
       /\ missed' = (missed \cup req.files) \ S
  /\ phase' = next
  /\ UNCHANGED <<saved, state, req, bearVars, clock, crashes>>

UploadAll == phase = "upload_all" /\ Upload("save_initial")

SaveInitial ==
  /\ phase = "save_initial"
  /\ saved' = [LastSyncAt |-> clock, LastDBModTime |-> changes,
               KnownNoteIDs |-> DOMAIN req.notes, KnownTagIDs |-> DOMAIN req.tags,
               KnownAttachmentIDs |-> req.files,
               KnownNoteTagPairs |-> req.pairs, JunctionFullScanCounter |-> 0]
  /\ phase' = "idle"
  /\ UNCHANGED <<state, req, hub>> /\ Keep

-----------------------------------------------------------------------------
(***************************************************************************)
(* deltaSync                                                               *)
(***************************************************************************)
\* Mutant: strictly after.
ReadNotesAfter ==
  /\ phase = "notes"
  /\ req' = [req EXCEPT !.notes = Revs({b \in Current : notes[b].modified > state.LastSyncAt})]
  /\ phase' = "tags"
  /\ UNCHANGED <<saved, state, hub>> /\ Keep

\* Notes modified at or after the last push.
ReadNotes ==
  /\ phase = "notes"
  /\ req' = [req EXCEPT !.notes = Revs({b \in Current : notes[b].modified >= state.LastSyncAt})]
  /\ phase' = "tags"
  /\ UNCHANGED <<saved, state, hub>> /\ Keep

\* Mutant: a tag is pushed when it is new.
ReadTagsUnknown ==
  /\ phase = "tags"
  /\ req' = [req EXCEPT !.tags = TitlesOf(CurrentTags \ state.KnownTagIDs)]
  /\ phase' = "files"
  /\ UNCHANGED <<saved, state, hub>> /\ Keep

\* Tags modified at or after the last push.
ReadTags ==
  /\ phase = "tags"
  /\ req' = [req EXCEPT !.tags =
       TitlesOf({t \in CurrentTags : tags[t].modified >= state.LastSyncAt})]
  /\ phase' = "files"
  /\ UNCHANGED <<saved, state, hub>> /\ Keep

\* Attachments modified at or after the last push, and (readNewAttachments)
\* the unknown ones, whatever their date.
ReadFiles ==
  /\ phase = "files"
  /\ req' = [req EXCEPT !.files = {f \in files : \/ dates[f] >= state.LastSyncAt
                                                    \/ f \notin state.KnownAttachmentIDs},
                        !.deletedFiles = state.KnownAttachmentIDs \ files]
  /\ phase' = "pairs"
  /\ UNCHANGED <<saved, state, hub>> /\ Keep

FullScanDue ==
  /\ state.JunctionFullScanCounter > 0
  /\ state.JunctionFullScanCounter % FullScanInterval = 0

ReadPairs ==
  /\ phase = "pairs"
  /\ req' = [req EXCEPT !.pairs = [b \in DOMAIN req.notes |-> pairs[b]]]
  /\ phase' = IF FullScanDue THEN "full_scan" ELSE "deletions"
  /\ UNCHANGED <<saved, state, hub>> /\ Keep

\* junctionFullScan: notes whose tags differ from the known pairs; a note in
\* the delta too gets the union of what was read twice.
KnownTags(b) ==
  IF b \in DOMAIN state.KnownNoteTagPairs THEN state.KnownNoteTagPairs[b] ELSE {}

\* mergeNoteTags
MergeNoteTags(f, g) ==
  [b \in DOMAIN f \cup DOMAIN g |->
     (IF b \in DOMAIN f THEN f[b] ELSE {}) \cup (IF b \in DOMAIN g THEN g[b] ELSE {})]

FindChangedJunctionNotes == {b \in BearIds : KnownTags(b) # pairs[b]}

JunctionFullScan ==
  /\ phase = "full_scan"
  /\ req' = [req EXCEPT !.pairs =
       MergeNoteTags(@, Restrict(pairs, FindChangedJunctionNotes))]
  /\ state' = [state EXCEPT !.KnownNoteTagPairs = pairs]
  /\ phase' = "deletions"
  /\ UNCHANGED <<saved, hub>> /\ Keep

Counted == [state EXCEPT !.JunctionFullScanCounter = @ + 1]

IsEmptyPush(r) == r = EmptyReq

\* Mutant: what is known and not in the delta is taken for deleted.
DetectDeletionsInDelta ==
  /\ phase = "deletions"
  /\ LET r == [req EXCEPT !.deleted = state.KnownNoteIDs \ DOMAIN req.notes,
                          !.deletedTags = state.KnownTagIDs \ DOMAIN req.tags]
     IN /\ req' = r
        /\ IF IsEmptyPush(r)
           THEN saved' = Counted /\ phase' = "idle" /\ UNCHANGED state
           ELSE /\ state' = [state EXCEPT !.LastSyncAt = clock]
                /\ phase' = "push"
                /\ UNCHANGED saved
  /\ UNCHANGED hub /\ Keep

\* The last read; an empty delta ends here, any other takes the time now.
DetectDeletions ==
  /\ phase = "deletions"
  /\ LET r == [req EXCEPT !.deleted = state.KnownNoteIDs \ Current,
                          !.deletedTags = state.KnownTagIDs \ CurrentTags]
     IN /\ req' = r
        /\ IF IsEmptyPush(r)
           THEN saved' = Counted /\ phase' = "idle" /\ UNCHANGED state
           ELSE /\ state' = [state EXCEPT !.LastSyncAt = clock]
                /\ phase' = "push"
                /\ UNCHANGED saved
  /\ UNCHANGED hub /\ Keep

\* Mutant: the state is saved as soon as the hub has the metadata.
PushDeltaSaves ==
  /\ phase = "push"
  /\ PushThen(req, "upload")
  /\ saved' = IF Refused(req) THEN saved
              ELSE [Counted EXCEPT !.KnownNoteIDs = Current,
                                   !.KnownTagIDs = CurrentTags,
                                   !.KnownAttachmentIDs = files,
                                   !.KnownNoteTagPairs = pairs]
  /\ UNCHANGED <<state, req>> /\ Keep

PushDelta ==
  /\ phase = "push"
  /\ PushThen(req, "upload")
  /\ UNCHANGED <<saved, state, req>> /\ Keep

UploadDelta == phase = "upload" /\ Upload("known_ids")

\* Mutant: only the notes of this delta are known.
UpdateKnownIDsOfDelta ==
  /\ phase = "known_ids"
  /\ saved' = [Counted EXCEPT !.KnownNoteIDs = DOMAIN req.notes,
                              !.KnownTagIDs = CurrentTags,
                              !.KnownAttachmentIDs = files,
                              !.KnownNoteTagPairs = pairs]
  /\ phase' = "idle"
  /\ UNCHANGED <<state, req, hub>> /\ Keep

\* updateKnownIDs reads Bear again; then the state is saved.
UpdateKnownIDs ==
  /\ phase = "known_ids"
  /\ saved' = [Counted EXCEPT !.KnownNoteIDs = Current,
                              !.KnownTagIDs = CurrentTags,
                              !.KnownAttachmentIDs = files,
                              !.KnownNoteTagPairs = pairs]
  /\ phase' = "idle"
  /\ UNCHANGED <<state, req, hub>> /\ Keep

\* The bridge is killed, or a call fails: nothing of the cycle is kept but
\* what the hub has.
Crash ==
  /\ phase # "idle" /\ crashes < MaxCrashes
  /\ crashes' = crashes + 1
  /\ phase' = "idle"
  /\ UNCHANGED <<bearVars, clock, saved, state, req, hub, missed>>

Tick ==
  /\ clock < MaxClock
  /\ clock' = clock + 1
  /\ UNCHANGED <<bearVars, saved, state, phase, req, hub, missed, crashes>>

-----------------------------------------------------------------------------
DeltaInit ==
  /\ notes = [b \in BearIds |-> NULL]
  /\ tags = [t \in Tags |-> NULL] /\ pairs = [b \in BearIds |-> {}]
  /\ files = {} /\ dates = [f \in Files |-> 0] /\ gone = {} /\ changes = 0 /\ clock = 0
  /\ saved = NULL /\ state = NULL /\ phase = "idle" /\ req = EmptyReq
  /\ hub = [notes |-> <<>>, tags |-> <<>>, pairs |-> <<>>,
            files |-> {}, served |-> {}, blobs |-> {}]
  /\ missed = {} /\ crashes = 0

CycleStep ==
  \/ StartCycle
  \/ ReadAllNotes \/ ReadAllRest \/ PushNotes \/ PushMeta \/ UploadAll \/ SaveInitial
  \/ ReadNotes \/ ReadTags \/ ReadFiles \/ ReadPairs \/ JunctionFullScan \/ DetectDeletions
  \/ PushDelta \/ UploadDelta \/ UpdateKnownIDs

DeltaNext == UserChanges \/ CycleStep \/ Crash \/ Tick

DeltaSpec == DeltaInit /\ [][DeltaNext]_deltaVars

\* The daemon's ticker goes on; Bear's user and the crashes need not.
FairDeltaSpec == DeltaSpec /\ WF_deltaVars(CycleStep)

-----------------------------------------------------------------------------
\* Types of the state; the hub keeps tags for no note it does not have, and
\* serves no file that is not on its disk.
DeltaTypeOK ==
  /\ Current \subseteq BearIds \ gone /\ files \subseteq Files \ gone
  /\ CurrentTags \subseteq Tags \ gone
  /\ pairs \in [BearIds -> SUBSET CurrentTags] /\ dates \in [Files -> 0..clock]
  /\ \A b \in Current : notes[b] \in [rev : 0..MaxChanges, modified : 0..clock]
  /\ \A t \in CurrentTags : tags[t] \in [title : Titles, modified : 0..clock]
  /\ {saved, state} \ {NULL} \subseteq Known
  /\ DOMAIN hub.pairs \subseteq DOMAIN hub.notes
  /\ UNION Range(hub.pairs) \subseteq DOMAIN hub.tags
  /\ hub.served \subseteq hub.files \cap hub.blobs /\ missed \subseteq Files

\* The next cycle would be skipped: Bear's files have not changed since the
\* last one that was saved.
NothingToDo ==
  phase = "idle" /\ saved # NULL /\ saved.LastDBModTime = changes

\* sync.go: the delta reads notes at or after the last push, "for
\* overlap-window protection".  When the next cycle would be skipped, the hub
\* has every note of Bear as Bear has it.
NotesMirrored ==
  NothingToDo =>
    \A b \in Current : b \in DOMAIN hub.notes /\ hub.notes[b] = notes[b].rev

\* The hub has no note or tag that Bear has deleted, if no cycle was cut short.
\* (One that is killed between the push and the saving of the state leaves notes
\* the bridge does not know: deleted later, they stay in the hub.)
NoGhosts ==
  NothingToDo /\ crashes = 0 =>
    DOMAIN hub.notes \subseteq Current /\ DOMAIN hub.tags \subseteq CurrentTags

\* sync.go: attachments missed by the date are detected as unknown ones.  The
\* file of each was uploaded unless its upload failed: whatever was killed in
\* between, the hub can serve it when the next cycle would be skipped, although
\* a push that repeats an attachment makes the hub forget where its file is.
FilesServed ==
  NothingToDo => files \subseteq hub.files /\ files \subseteq hub.served \cup missed

\* sync_handler.go: files are removed from the disk with their attachments,
\* also where the deletion of a note takes the attachments along: no file stays
\* on the hub without one, if no cycle was cut short.
NoStrayBlobs == crashes = 0 => hub.blobs \subseteq hub.files

\* e2e_test.go: "junction table changes without note modification are detected
\* during the full-scan cycle": after one, the hub has Bear's tags.
TagsAfterFullScan ==
  /\ NothingToDo
  /\ saved.JunctionFullScanCounter > 1
  /\ (saved.JunctionFullScanCounter - 1) % FullScanInterval = 0
  => \A b \in Current \cap DOMAIN hub.notes :
       pairs[b] = IF b \in DOMAIN hub.pairs THEN hub.pairs[b] ELSE {}

\* Once Bear's user stops, the hub gets all the notes and all the tags with
\* their titles, and keeps them: no cycle is refused or skipped for ever.
EventuallyMirrored ==
  <>[](/\ \A b \in Current : b \in DOMAIN hub.notes /\ hub.notes[b] = notes[b].rev
       /\ \A t \in CurrentTags : t \in DOMAIN hub.tags /\ hub.tags[t] = tags[t].title)

\* The hub as a replica of Bear: its notes, tags and attachments.
Items == BearIds \cup Tags \cup Files

InBear ==
  [i \in Items |-> IF i \in Current THEN notes[i].rev
                  ELSE IF i \in CurrentTags THEN tags[i].title
                  ELSE IF i \in files THEN TRUE ELSE NULL]

InHub ==
  [i \in Items |-> IF i \in DOMAIN hub.notes THEN hub.notes[i]
                  ELSE IF i \in DOMAIN hub.tags THEN hub.tags[i]
                  ELSE IF i \in hub.files THEN TRUE ELSE NULL]

R == INSTANCE Replica WITH Absent <- NULL, source <- InBear, copy <- InHub

\* README.md: the hub "acts as a read replica of Bear's notes".  Where Bear does
\* not change during a cycle, no push, repeated or cut short, gives the hub a
\* value that Bear does not have, or takes one away that Bear has.
ReplicaOfBear == R!Spec
=============================================================================
