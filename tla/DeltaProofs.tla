----------------------------- MODULE DeltaProofs -----------------------------
(***************************************************************************)
(* Theorems about DeltaSync, for all sets of notes, tags and files and all *)
(* bounds.  DeltaTypes needs no hypothesis.  NotesInv holds where Bear     *)
(* does not change between the read of the notes and the time that the     *)
(* bridge takes for the next one (NotesWindow).  RequestInv, FilesInv and  *)
(* CleanInv hold where Bear does not change during a cycle.                *)
(***************************************************************************)
EXTENDS DeltaSync, TLAPS

Partial(D, V) == UNION {[S -> V] : S \in SUBSET D}

Revisions == 0..MaxChanges
NoteRows == [rev : Revisions, modified : 0..MaxClock]
TagRows == [title : Titles, modified : 0..MaxClock]

Requests ==
  [notes : Partial(BearIds, Revisions), tags : Partial(Tags, Titles),
   pairs : Partial(BearIds, SUBSET Tags), files : SUBSET Files,
   deleted : SUBSET BearIds, deletedTags : SUBSET Tags, deletedFiles : SUBSET Files]

Hubs ==
  [notes : Partial(BearIds, Revisions), tags : Partial(Tags, Titles),
   pairs : Partial(BearIds, SUBSET Tags), files : SUBSET Files,
   served : SUBSET Files, blobs : SUBSET Files]

InitialPhases ==
  {"all_notes", "all_rest", "push_notes", "push_meta", "upload_all", "save_initial"}
ReadPhases == {"notes", "tags", "files", "pairs", "full_scan", "deletions"}
SendPhases == {"push", "upload", "known_ids"}
DeltaPhases == ReadPhases \cup SendPhases

-----------------------------------------------------------------------------
(***************************************************************************)
(* Inductive invariants                                                    *)
(***************************************************************************)
BearTypes ==
  /\ notes \in [BearIds -> NoteRows \cup {NULL}]
  /\ tags \in [Tags -> TagRows \cup {NULL}]
  /\ pairs \in [BearIds -> SUBSET Tags]
  /\ files \in SUBSET Files /\ dates \in [Files -> 0..MaxClock]
  /\ gone \in SUBSET (BearIds \cup Tags \cup Files)
  /\ changes \in 0..MaxChanges /\ clock \in 0..MaxClock

\* What is deleted does not come back; nothing is of the future; only the tags
\* there are have pairs, and different titles; files have their note.
BearInv ==
  /\ Current \cap gone = {} /\ CurrentTags \cap gone = {} /\ files \cap gone = {}
  /\ \A b \in Current : notes[b].modified <= clock
  /\ \A t \in CurrentTags : tags[t].modified <= clock
  /\ \A f \in Files : dates[f] <= clock
  /\ \A b \in BearIds : pairs[b] \subseteq CurrentTags
  /\ \A t, u \in CurrentTags : t # u => tags[t].title # tags[u].title
  /\ files # {} => FileNote \in Current

StateInv(s) == s.LastSyncAt <= clock /\ s.LastDBModTime <= changes

BridgeTypes ==
  /\ saved \in Known \cup {NULL} /\ state \in Known \cup {NULL}
  /\ req \in Requests
  /\ phase \in {"idle"} \cup InitialPhases \cup DeltaPhases
  /\ missed \in SUBSET Files /\ crashes \in 0..MaxCrashes
  /\ saved # NULL => StateInv(saved)
  /\ phase \in InitialPhases => saved = NULL
  /\ phase \in DeltaPhases => saved # NULL /\ state # NULL /\ StateInv(state)

HubInv ==
  /\ hub \in Hubs
  /\ DOMAIN hub.pairs \subseteq DOMAIN hub.notes
  /\ \A b \in DOMAIN hub.pairs : hub.pairs[b] \subseteq DOMAIN hub.tags
  /\ hub.served \subseteq hub.files \cap hub.blobs

DeltaTypes == BearTypes /\ BearInv /\ BridgeTypes /\ HubInv

\* The phases between the read of the notes and the time that is taken for the
\* next read of them.
NotesWindow ==
  (InitialPhases \ {"all_notes"}) \cup (ReadPhases \ {"notes"})

Mirrored(b) == b \in DOMAIN hub.notes /\ hub.notes[b] = notes[b].rev
Sent(b) == b \in DOMAIN req.notes /\ req.notes[b] = notes[b].rev

\* A change that came after the file times were read and that the next cycle
\* finds by its date.
Later(b) == notes[b].modified >= state.LastSyncAt /\ state.LastDBModTime # changes

\* A note that the hub does not have is found by its date; the request has the
\* notes that were found, and a cycle that found none leaves none out.
NotesInv ==
  /\ saved # NULL =>
       /\ saved.KnownNoteIDs \subseteq Current \cup gone
       /\ \A b \in Current : notes[b].modified >= saved.LastSyncAt \/ Mirrored(b)
       /\ saved.LastDBModTime = changes => \A b \in Current : Mirrored(b)
  /\ phase \in {"all_rest", "push_notes", "push_meta", "upload_all", "save_initial"} =>
       DOMAIN req.notes = Current /\ \A b \in Current : Sent(b)
  /\ phase \in {"push_meta", "upload_all", "save_initial"} =>
       \A b \in Current : Mirrored(b)
  /\ phase \in InitialPhases \cup ReadPhases => req.deleted = {}
  /\ phase \in DeltaPhases =>
       /\ saved.LastDBModTime # changes
       /\ state.KnownNoteIDs = saved.KnownNoteIDs
       /\ state.LastSyncAt >= saved.LastSyncAt
  /\ phase \in ReadPhases => state.LastSyncAt = saved.LastSyncAt
  /\ phase \in ReadPhases \ {"notes"} =>
       /\ DOMAIN req.notes = {b \in Current : notes[b].modified >= saved.LastSyncAt}
       /\ \A b \in DOMAIN req.notes : Sent(b)
  /\ phase = "push" =>
       /\ req.deleted \subseteq gone
       /\ \A b \in Current : Sent(b) \/ Later(b) \/ (b \notin DOMAIN req.notes /\ Mirrored(b))
  /\ phase \in {"upload", "known_ids"} => \A b \in Current : Mirrored(b) \/ Later(b)

\* The request is what the reads said, as long as Bear has not changed.
RequestInv ==
  /\ phase \in {"push_notes", "push_meta", "upload_all", "save_initial"} =>
       /\ req.tags = TitlesOf(CurrentTags) /\ req.files = files
  /\ phase \in InitialPhases => req.deletedTags = {} /\ req.deletedFiles = {}
  /\ phase \in DeltaPhases =>
       /\ state.KnownTagIDs = saved.KnownTagIDs
       /\ state.KnownAttachmentIDs = saved.KnownAttachmentIDs
       /\ \A b \in DOMAIN req.notes : b \in Current /\ Sent(b)
  /\ phase \in {"files", "pairs", "full_scan", "deletions", "push"} =>
       \A t \in DOMAIN req.tags : t \in CurrentTags /\ req.tags[t] = tags[t].title
  /\ phase \in {"pairs", "full_scan", "deletions", "push", "upload", "known_ids"} =>
       /\ req.files = {f \in files : \/ dates[f] >= saved.LastSyncAt
                                     \/ f \notin saved.KnownAttachmentIDs}
       /\ req.deletedFiles = saved.KnownAttachmentIDs \ files
  /\ phase = "push" =>
       /\ req.deleted = saved.KnownNoteIDs \ Current
       /\ req.deletedTags = saved.KnownTagIDs \ CurrentTags
       /\ \A b \in Current : b \in DOMAIN req.notes \/ b \in DOMAIN hub.notes

Served(f) == f \in hub.files /\ f \in hub.served \cup missed

\* An attachment whose file the hub does not have is found by its date or as an
\* unknown one, also after a cycle that was cut short.
FilesInv ==
  /\ saved # NULL =>
       /\ saved.KnownAttachmentIDs \subseteq files \cup gone
       /\ \A f \in files : \/ dates[f] >= saved.LastSyncAt
                           \/ f \notin saved.KnownAttachmentIDs
                           \/ Served(f)
       /\ saved.LastDBModTime = changes => \A f \in files : Served(f)
  /\ phase \in {"upload", "upload_all"} =>
       \A f \in files : f \in hub.files /\ (Served(f) \/ f \in req.files)
  /\ phase \in {"known_ids", "save_initial"} => \A f \in files : Served(f)

\* What the hub has, the bridge knows, or Bear has it: as long as no cycle is
\* cut short between the push and the saving of the state.
CleanInv ==
  crashes = 0 =>
    /\ hub.blobs \subseteq hub.files
    /\ saved = NULL /\ phase \notin {"push_meta", "upload_all", "save_initial"} =>
         DOMAIN hub.notes = {}
    /\ saved = NULL /\ phase \notin {"upload_all", "save_initial"} =>
         DOMAIN hub.tags = {} /\ hub.files = {}
    /\ saved # NULL /\ phase \notin {"upload", "known_ids"} =>
         /\ DOMAIN hub.notes \subseteq saved.KnownNoteIDs
         /\ DOMAIN hub.tags \subseteq saved.KnownTagIDs
         /\ hub.files \subseteq saved.KnownAttachmentIDs
    /\ phase \in {"push_meta", "upload_all", "save_initial", "upload", "known_ids"} =>
         DOMAIN hub.notes \subseteq Current
    /\ phase \in {"upload_all", "save_initial", "upload", "known_ids"} =>
         DOMAIN hub.tags \subseteq CurrentTags /\ hub.files \subseteq files
    /\ saved # NULL /\ saved.LastDBModTime = changes =>
         DOMAIN hub.notes \subseteq Current /\ DOMAIN hub.tags \subseteq CurrentTags

-----------------------------------------------------------------------------
(***************************************************************************)
(* Partial functions, requests and the hub                                 *)
(***************************************************************************)
\* A function on a subset of D is a partial function on D.
LEMMA PartialIntro ==
  ASSUME NEW D, NEW V, NEW S \in SUBSET D, NEW f \in [S -> V]
  PROVE  f \in Partial(D, V)
BY DEF Partial

LEMMA PartialElim ==
  ASSUME NEW D, NEW V, NEW f \in Partial(D, V)
  PROVE  /\ DOMAIN f \in SUBSET D /\ f \in [DOMAIN f -> V]
         /\ \A x \in DOMAIN f : f[x] \in V
BY DEF Partial

\* The function of nothing.
LEMMA EmptyFunction ==
  ASSUME NEW D, NEW V
  PROVE  <<>> \in Partial(D, V) /\ DOMAIN <<>> = {}
<1>1. <<>> \in [{} -> V] /\ DOMAIN <<>> = {}
  OBVIOUS
<1> QED BY <1>1, PartialIntro

LEMMA RestrictPartial ==
  ASSUME NEW D, NEW V, NEW f, NEW S \in SUBSET D, \A x \in S : f[x] \in V
  PROVE  /\ Restrict(f, S) \in Partial(D, V) /\ DOMAIN Restrict(f, S) = S
         /\ \A x \in S : Restrict(f, S)[x] = f[x]
<1>1. Restrict(f, S) \in [S -> V]
  BY DEF Restrict
<1> QED BY <1>1, PartialIntro DEF Restrict

LEMMA OverPartial ==
  ASSUME NEW D, NEW V, NEW f \in Partial(D, V), NEW g \in Partial(D, V)
  PROVE  /\ Over(f, g) \in Partial(D, V)
         /\ DOMAIN Over(f, g) = DOMAIN f \cup DOMAIN g
         /\ \A x \in DOMAIN f \cup DOMAIN g :
              Over(f, g)[x] = IF x \in DOMAIN g THEN g[x] ELSE f[x]
<1>1. Over(f, g) \in [DOMAIN f \cup DOMAIN g -> V]
  BY PartialElim DEF Over
<1>2. DOMAIN f \cup DOMAIN g \in SUBSET D
  BY PartialElim
<1> QED BY <1>1, <1>2, PartialIntro DEF Over

\* The request of nothing is a request.
LEMMA EmptyRequest ==
  /\ EmptyReq \in Requests
  /\ DOMAIN EmptyReq.notes = {} /\ DOMAIN EmptyReq.tags = {} /\ DOMAIN EmptyReq.pairs = {}
BY EmptyFunction DEF EmptyReq, Requests

\* What the hub has after it took a request.
LEMMA PushedFields ==
  ASSUME HubInv, NEW r \in Requests
  PROVE  /\ Pushed(r) \in Hubs
         /\ Pushed(r).notes = NotesAfter(r) /\ Pushed(r).tags = TagsAfter(r)
         /\ Pushed(r).files = FilesAfter(r) /\ Pushed(r).served = ServedAfter(r)
         /\ Pushed(r).blobs = hub.blobs \ CleanupIDs(r)
         /\ DOMAIN NotesAfter(r) = (DOMAIN hub.notes \cup DOMAIN r.notes) \ r.deleted
         /\ \A b \in DOMAIN NotesAfter(r) :
              NotesAfter(r)[b] = IF b \in DOMAIN r.notes THEN r.notes[b] ELSE hub.notes[b]
         /\ DOMAIN TagsAfter(r) = (DOMAIN hub.tags \cup DOMAIN r.tags) \ r.deletedTags
         /\ \A t \in DOMAIN TagsAfter(r) :
              TagsAfter(r)[t] = IF t \in DOMAIN r.tags THEN r.tags[t] ELSE hub.tags[t]
         /\ Pushed(r).pairs = PairsAfter(r)
         /\ DOMAIN PairsAfter(r) \subseteq DOMAIN NotesAfter(r)
         /\ \A b \in DOMAIN PairsAfter(r) : PairsAfter(r)[b] \subseteq DOMAIN TagsAfter(r)
<1> DEFINE N == Over(hub.notes, r.notes)
           T == Over(hub.tags, r.tags)
           P == Over(hub.pairs, r.pairs)
<1>h. /\ hub.notes \in Partial(BearIds, Revisions) /\ hub.tags \in Partial(Tags, Titles)
      /\ hub.pairs \in Partial(BearIds, SUBSET Tags)
      /\ hub.files \in SUBSET Files /\ hub.served \in SUBSET Files /\ hub.blobs \in SUBSET Files
  BY DEF HubInv, Hubs
<1>r. /\ r.notes \in Partial(BearIds, Revisions) /\ r.tags \in Partial(Tags, Titles)
      /\ r.pairs \in Partial(BearIds, SUBSET Tags) /\ r.files \in SUBSET Files
      /\ r.deletedFiles \in SUBSET Files
  BY DEF Requests
<1>n. /\ N \in Partial(BearIds, Revisions) /\ DOMAIN N = NotesThen(r)
      /\ \A b \in DOMAIN N : N[b] = IF b \in DOMAIN r.notes THEN r.notes[b] ELSE hub.notes[b]
  <2>1. N \in Partial(BearIds, Revisions)
    BY <1>h, <1>r, OverPartial
  <2> QED BY <2>1 DEF Over, NotesThen
<1>t. /\ T \in Partial(Tags, Titles) /\ DOMAIN T = TagsThen(r)
      /\ \A t \in DOMAIN T : T[t] = IF t \in DOMAIN r.tags THEN r.tags[t] ELSE hub.tags[t]
  <2>1. T \in Partial(Tags, Titles)
    BY <1>h, <1>r, OverPartial
  <2> QED BY <2>1 DEF Over, TagsThen
<1>p. P \in Partial(BearIds, SUBSET Tags)
  BY <1>h, <1>r, OverPartial
<1> HIDE DEF N, T, P
<1>1. /\ NotesAfter(r) \in Partial(BearIds, Revisions)
      /\ DOMAIN NotesAfter(r) = NotesThen(r) \ r.deleted
      /\ \A b \in NotesThen(r) \ r.deleted : NotesAfter(r)[b] = N[b]
  <2>1. NotesAfter(r) = Restrict(N, NotesThen(r) \ r.deleted)
    BY DEF NotesAfter, N
  <2>2. /\ NotesThen(r) \ r.deleted \in SUBSET BearIds
        /\ \A b \in NotesThen(r) \ r.deleted : N[b] \in Revisions
    BY <1>n, PartialElim
  <2> DEFINE S == NotesThen(r) \ r.deleted
  <2>3. /\ Restrict(N, S) \in Partial(BearIds, Revisions) /\ DOMAIN Restrict(N, S) = S
        /\ \A x \in S : Restrict(N, S)[x] = N[x]
    <3> HIDE DEF S
    <3>1. S \in SUBSET BearIds /\ \A x \in S : N[x] \in Revisions
      BY <2>2 DEF S
    <3> QED BY <3>1, RestrictPartial
  <2> QED BY <2>1, <2>3
<1>2. /\ TagsAfter(r) \in Partial(Tags, Titles)
      /\ DOMAIN TagsAfter(r) = TagsThen(r) \ r.deletedTags
      /\ \A t \in TagsThen(r) \ r.deletedTags : TagsAfter(r)[t] = T[t]
  <2>1. TagsAfter(r) = Restrict(T, TagsThen(r) \ r.deletedTags)
    BY DEF TagsAfter, T
  <2>2. /\ TagsThen(r) \ r.deletedTags \in SUBSET Tags
        /\ \A t \in TagsThen(r) \ r.deletedTags : T[t] \in Titles
    BY <1>t, PartialElim
  <2> DEFINE S == TagsThen(r) \ r.deletedTags
  <2>3. /\ Restrict(T, S) \in Partial(Tags, Titles) /\ DOMAIN Restrict(T, S) = S
        /\ \A x \in S : Restrict(T, S)[x] = T[x]
    <3> HIDE DEF S
    <3>1. S \in SUBSET Tags /\ \A x \in S : T[x] \in Titles
      BY <2>2 DEF S
    <3> QED BY <3>1, RestrictPartial
  <2> QED BY <2>1, <2>3
<1>3. /\ PairsAfter(r) \in Partial(BearIds, SUBSET Tags)
      /\ DOMAIN PairsAfter(r) \subseteq DOMAIN NotesAfter(r)
      /\ \A b \in DOMAIN PairsAfter(r) : PairsAfter(r)[b] \subseteq DOMAIN TagsAfter(r)
  <2> DEFINE S == DOMAIN P \cap DOMAIN NotesAfter(r)
  <2>1. PairsAfter(r) = [b \in S |-> P[b] \cap DOMAIN TagsAfter(r)]
    BY DEF PairsAfter, P
  <2>2. S \in SUBSET BearIds /\ \A b \in S : P[b] \in SUBSET Tags
    BY <1>p, PartialElim
  <2>3. [b \in S |-> P[b] \cap DOMAIN TagsAfter(r)] \in [S -> SUBSET Tags]
    BY <2>2
  <2> HIDE DEF S
  <2>4. PairsAfter(r) \in Partial(BearIds, SUBSET Tags)
    BY <2>1, <2>2, <2>3, PartialIntro
  <2> QED BY <2>1, <2>4 DEF S
<1>4. FilesAfter(r) \in SUBSET Files /\ ServedAfter(r) \in SUBSET Files
  BY <1>h, <1>r DEF FilesAfter, ServedAfter
<1>5. Pushed(r) \in Hubs
  BY <1>h, <1>1, <1>2, <1>3, <1>4 DEF Pushed, Hubs
<1> QED BY <1>n, <1>t, <1>1, <1>2, <1>3, <1>5 DEF Pushed, NotesThen, TagsThen

-----------------------------------------------------------------------------
(***************************************************************************)
(* Types                                                                   *)
(***************************************************************************)
LEMMA RowsAreThere == NULL \notin NoteRows /\ NULL \notin TagRows
<1>1. NoteRows \subseteq [rev : Nat, modified : Nat] /\ TagRows \subseteq [title : Titles, modified : Nat]
  BY DEF NoteRows, TagRows, Revisions
<1> QED BY <1>1, KindsApart

LEMMA CurrentRows ==
  ASSUME BearTypes
  PROVE  /\ \A b \in Current : /\ b \in BearIds /\ notes[b] \in NoteRows
                               /\ notes[b].rev \in Revisions /\ notes[b].modified \in 0..MaxClock
         /\ \A t \in CurrentTags : /\ t \in Tags /\ tags[t] \in TagRows
                                   /\ tags[t].title \in Titles /\ tags[t].modified \in 0..MaxClock
BY DEF BearTypes, Current, CurrentTags, NoteRows, TagRows

\* A note that is written.
LEMMA NoteWritten ==
  ASSUME BearTypes, BearInv, NEW b \in BearIds, b \notin gone, changes < MaxChanges,
         notes' = [notes EXCEPT ![b] = [rev |-> changes, modified |-> clock]],
         Commit, UNCHANGED <<tags, pairs, files, dates, gone>>
  PROVE  /\ BearTypes' /\ BearInv'
         /\ Current' = Current \cup {b}
         /\ \A c \in Current' : (c # b /\ notes'[c] = notes[c]) \/ notes'[c].modified = clock
<1> DEFINE row == [rev |-> changes, modified |-> clock]
<1>1. row \in NoteRows /\ row.modified = clock /\ row # NULL
  BY RowsAreThere DEF BearTypes, NoteRows, Revisions
<1> HIDE DEF row
<1>2. notes' \in [BearIds -> NoteRows \cup {NULL}] /\ notes'[b] = row
      /\ \A c \in BearIds \ {b} : notes'[c] = notes[c]
  BY <1>1 DEF BearTypes, row
<1>3. BearTypes'
  BY <1>2, DeltaAssumption DEF BearTypes, Commit
<1>4. Current' = Current \cup {b} /\ CurrentTags' = CurrentTags
  BY <1>1, <1>2 DEF Current, CurrentTags
<1>5. \A c \in Current' : (c # b /\ notes'[c] = notes[c]) \/ notes'[c].modified = clock
  BY <1>1, <1>2 DEF Current
<1>6. clock' = clock
  BY DEF Commit
<1>7. BearInv'
  BY <1>2, <1>4, <1>5, <1>6, <1>1 DEF BearInv, BearTypes
<1> QED BY <1>3, <1>4, <1>5, <1>7

\* A tag that is written under a title of its own.
LEMMA TagWritten ==
  ASSUME BearTypes, BearInv, NEW t \in Tags, t \notin gone, changes < MaxChanges,
         NEW title \in Titles, TitleFree(title),
         tags' = [tags EXCEPT ![t] = [title |-> title, modified |-> clock]],
         Commit, UNCHANGED <<notes, pairs, files, dates, gone>>
  PROVE  BearTypes' /\ BearInv'
<1> DEFINE row == [title |-> title, modified |-> clock]
<1>1. row \in TagRows /\ row.modified = clock /\ row.title = title /\ row # NULL
  BY RowsAreThere DEF BearTypes, TagRows
<1> HIDE DEF row
<1>2. tags' \in [Tags -> TagRows \cup {NULL}] /\ tags'[t] = row
      /\ \A u \in Tags \ {t} : tags'[u] = tags[u]
  BY <1>1 DEF BearTypes, row
<1>3. BearTypes'
  BY <1>2, DeltaAssumption DEF BearTypes, Commit
<1>4. Current' = Current /\ CurrentTags' = CurrentTags \cup {t}
  BY <1>1, <1>2 DEF Current, CurrentTags
<1>6. clock' = clock
  BY DEF Commit
<1>7. \A u \in CurrentTags' : u \in Tags /\ (u = t \/ (u \in CurrentTags /\ tags'[u] = tags[u]))
  BY <1>2, <1>4 DEF CurrentTags
<1>8. \A u \in CurrentTags' : tags'[u].modified <= clock
  BY <1>1, <1>2, <1>7 DEF BearInv, BearTypes
<1>9. \A u, v \in CurrentTags' : u # v => tags'[u].title # tags'[v].title
  BY <1>1, <1>2, <1>7 DEF BearInv, TitleFree
<1>10. BearInv'
  BY <1>4, <1>6, <1>8, <1>9 DEF BearInv
<1> QED BY <1>3, <1>10

\* Bear's database stays in order, whatever its user does.
LEMMA BearStep ==
  ASSUME BearTypes, BearInv, UserChanges
  PROVE  BearTypes' /\ BearInv'
<1> USE DeltaAssumption
<1>n. ASSUME NEW b \in BearIds, CreateNote(b) \/ EditNote(b) PROVE BearTypes' /\ BearInv'
  <2>1. b \notin gone /\ changes < MaxChanges
    BY <1>n DEF CreateNote, EditNote, MayChange, BearInv
  <2> QED BY <1>n, <2>1, NoteWritten DEF CreateNote, EditNote
<1>d. ASSUME NEW b \in BearIds, DeleteNote(b) PROVE BearTypes' /\ BearInv'
  <2>1. /\ notes' = [notes EXCEPT ![b] = NULL] /\ pairs' = [pairs EXCEPT ![b] = {}]
        /\ files' = files \ (IF b = FileNote THEN files ELSE {})
        /\ gone' = gone \cup {b} \cup (IF b = FileNote THEN files ELSE {})
        /\ tags' = tags /\ dates' = dates /\ clock' = clock /\ changes' = changes + 1
        /\ changes < MaxChanges /\ b \in Current
    BY <1>d DEF DeleteNote, Commit, MayChange
  <2>2. BearTypes'
    BY <2>1 DEF BearTypes
  <2>3. /\ Current' = Current \ {b} /\ CurrentTags' = CurrentTags
        /\ \A c \in Current' : notes'[c] = notes[c]
    BY <2>1 DEF Current, CurrentTags, BearTypes
  <2>4. /\ Current \subseteq BearIds /\ CurrentTags \subseteq Tags /\ files \subseteq Files
    BY DEF Current, CurrentTags, BearTypes
  <2>5. /\ Current' \cap gone' = {} /\ CurrentTags' \cap gone' = {} /\ files' \cap gone' = {}
    BY <2>1, <2>3, <2>4, KindsApart DEF BearInv
  <2>6. \A c \in BearIds : pairs'[c] \subseteq CurrentTags'
    BY <2>1, <2>3 DEF BearInv, BearTypes
  <2>7. files' # {} => FileNote \in Current'
    BY <2>1, <2>3 DEF BearInv
  <2> QED BY <2>1, <2>2, <2>3, <2>5, <2>6, <2>7 DEF BearInv
<1>t. ASSUME NEW b \in BearIds, TagNote(b) PROVE BearTypes' /\ BearInv'
  <2>1. PICK T \in SUBSET CurrentTags : pairs' = [pairs EXCEPT ![b] = T]
    BY <1>t DEF TagNote
  <2>2. /\ UNCHANGED <<notes, tags, files, dates, gone, clock>> /\ changes' = changes + 1
        /\ changes < MaxChanges
    BY <1>t DEF TagNote, Commit, MayChange
  <2>3. Current' = Current /\ CurrentTags' = CurrentTags /\ CurrentTags \subseteq Tags
    BY <2>2 DEF Current, CurrentTags
  <2>4. pairs' \in [BearIds -> SUBSET Tags] /\ \A c \in BearIds : pairs'[c] \subseteq CurrentTags
    BY <2>1, <2>3 DEF BearTypes, BearInv
  <2>5. BearTypes'
    BY <2>2, <2>4 DEF BearTypes
  <2>6. BearInv'
    BY <2>2, <2>3, <2>4 DEF BearInv
  <2> QED BY <2>5, <2>6
<1>f. ASSUME NEW f \in Files, AttachFile(f) \/ DetachFile(f) \/ TouchFile(f)
      PROVE  BearTypes' /\ BearInv'
  <2>1. /\ UNCHANGED <<notes, tags, pairs, clock>> /\ changes' = changes + 1
        /\ changes < MaxChanges
    BY <1>f DEF AttachFile, DetachFile, TouchFile, Commit, MayChange
  <2>2. Current' = Current /\ CurrentTags' = CurrentTags /\ Current \subseteq BearIds /\ CurrentTags \subseteq Tags
    BY <2>1 DEF Current, CurrentTags
  <2>3. CASE AttachFile(f)
    <3>1. PICK date \in {0, clock} : dates' = [dates EXCEPT ![f] = date]
      BY <2>3 DEF AttachFile
    <3> QED BY <2>1, <2>2, <2>3, <3>1 DEF AttachFile, BearTypes, BearInv
  <2>4. CASE DetachFile(f)
    BY <2>1, <2>2, <2>4, KindsApart DEF DetachFile, BearTypes, BearInv
  <2>5. CASE TouchFile(f)
    BY <2>1, <2>2, <2>5 DEF TouchFile, BearTypes, BearInv
  <2> QED BY <1>f, <2>3, <2>4, <2>5
<1>w. ASSUME NEW t \in Tags, NEW title \in Titles, CreateTag(t, title) \/ RenameTag(t, title)
      PROVE  BearTypes' /\ BearInv'
  <2>1. t \notin gone /\ changes < MaxChanges
    BY <1>w DEF CreateTag, RenameTag, MayChange, BearInv
  <2> QED BY <1>w, <2>1, TagWritten DEF CreateTag, RenameTag
<1>x. ASSUME NEW t \in Tags, DeleteTag(t) PROVE BearTypes' /\ BearInv'
  <2>1. /\ tags' = [tags EXCEPT ![t] = NULL] /\ pairs' = [b \in BearIds |-> pairs[b] \ {t}]
        /\ gone' = gone \cup {t} /\ UNCHANGED <<notes, files, dates, clock>>
        /\ changes' = changes + 1 /\ changes < MaxChanges
    BY <1>x DEF DeleteTag, Commit, MayChange
  <2>2. /\ Current' = Current /\ CurrentTags' = CurrentTags \ {t}
        /\ \A u \in CurrentTags' : tags'[u] = tags[u]
    BY <2>1 DEF Current, CurrentTags, BearTypes
  <2>3. Current \subseteq BearIds /\ CurrentTags \subseteq Tags /\ files \subseteq Files
    BY DEF Current, CurrentTags, BearTypes
  <2>4. BearTypes'
    BY <2>1 DEF BearTypes
  <2>5. Current' \cap gone' = {} /\ CurrentTags' \cap gone' = {} /\ files' \cap gone' = {}
    BY <2>1, <2>2, <2>3, KindsApart DEF BearInv
  <2> QED BY <2>1, <2>2, <2>4, <2>5 DEF BearInv
<1> QED BY <1>n, <1>d, <1>t, <1>f, <1>w, <1>x DEF UserChanges

\* Bear's user changes nothing but Bear, and does so in an open phase.
LEMMA UserLeaves ==
  ASSUME UserChanges
  PROVE  /\ UNCHANGED <<clock, saved, state, phase, req, hub, missed, crashes>>
         /\ changes' = changes + 1 /\ changes < MaxChanges
         /\ phase \in OpenPhases \cup {"idle"}
BY DEF UserChanges, CreateNote, EditNote, DeleteNote, TagNote, AttachFile, DetachFile, TouchFile,
       CreateTag, RenameTag, DeleteTag, Commit, MayChange

\* The fields of a state that is worked on.
LEMMA StateFields ==
  ASSUME NEW s \in Known
  PROVE  /\ s.LastSyncAt \in 0..MaxClock /\ s.LastDBModTime \in 0..MaxChanges
         /\ s.KnownNoteIDs \in SUBSET BearIds /\ s.KnownTagIDs \in SUBSET Tags
         /\ s.KnownAttachmentIDs \in SUBSET Files /\ s.JunctionFullScanCounter \in Nat
         /\ s.KnownNoteTagPairs \in Partial(BearIds, SUBSET Tags)
BY DEF Known, Partial

\* A step of the cycle leaves Bear and the clock alone.
LEMMA CycleLeaves ==
  ASSUME CycleStep
  PROVE  UNCHANGED <<bearVars, clock, crashes>>
BY DEF CycleStep, StartCycle, ReadAllNotes, ReadAllRest, PushNotes, PushMeta, UploadAll, SaveInitial,
       ReadNotes, ReadTags, ReadFiles, ReadPairs, JunctionFullScan, DetectDeletions, PushDelta,
       UploadDelta, UpdateKnownIDs, Upload, Keep

\* The requests of the first export are requests.
LEMMA InitialRequests ==
  ASSUME req \in Requests
  PROVE  /\ [EmptyReq EXCEPT !.notes = req.notes,
                             !.pairs = [b \in DOMAIN req.notes |-> {}]] \in Requests
         /\ [req EXCEPT !.notes = <<>>] \in Requests
<1> DEFINE P == [b \in DOMAIN req.notes |-> {}]
<1>1. req.notes \in Partial(BearIds, Revisions)
  BY DEF Requests
<1>2. DOMAIN req.notes \in SUBSET BearIds
  BY <1>1, PartialElim
<1>3. P \in [DOMAIN req.notes -> SUBSET Tags]
  OBVIOUS
<1>4. P \in Partial(BearIds, SUBSET Tags)
  <2> HIDE DEF P
  <2> QED BY <1>2, <1>3, PartialIntro
<1> HIDE DEF P
<1>5. [EmptyReq EXCEPT !.notes = req.notes, !.pairs = P] \in Requests
  BY <1>1, <1>4, EmptyRequest DEF Requests
<1>6. [req EXCEPT !.notes = <<>>] \in Requests
  BY EmptyFunction DEF Requests
<1> QED BY <1>5, <1>6 DEF P

\* The hub stays in order when it is pushed to.
LEMMA PushKeepsHub ==
  ASSUME HubInv, NEW r \in Requests, NEW next, PushThen(r, next)
  PROVE  HubInv' /\ phase' \in {"idle", next}
<1>1. CASE Refused(r)
  BY <1>1 DEF PushThen, HubInv
<1>2. CASE ~ Refused(r)
  <2>1. hub' = Pushed(r) /\ phase' = next
    BY <1>2 DEF PushThen
  <2>2. ServedAfter(r) \subseteq FilesAfter(r) \cap (hub.blobs \ CleanupIDs(r))
    BY DEF HubInv, ServedAfter, FilesAfter, CleanupIDs
  <2>3. /\ hub' \in Hubs /\ hub'.notes = NotesAfter(r) /\ hub'.tags = TagsAfter(r)
        /\ hub'.pairs = PairsAfter(r) /\ hub'.files = FilesAfter(r)
        /\ hub'.served = ServedAfter(r) /\ hub'.blobs = hub.blobs \ CleanupIDs(r)
    BY <2>1, PushedFields
  <2>4. /\ DOMAIN PairsAfter(r) \subseteq DOMAIN NotesAfter(r)
        /\ \A b \in DOMAIN PairsAfter(r) : PairsAfter(r)[b] \subseteq DOMAIN TagsAfter(r)
    BY PushedFields
  <2>5. HubInv'
    BY <2>2, <2>3, <2>4 DEF HubInv
  <2> QED BY <2>1, <2>5
<1> QED BY <1>1, <1>2

LEMMA UploadKeepsHub ==
  ASSUME HubInv, req \in Requests, missed \in SUBSET Files, NEW next, Upload(next)
  PROVE  /\ HubInv' /\ missed' \in SUBSET Files
         /\ hub'.notes = hub.notes /\ hub'.tags = hub.tags /\ hub'.files = hub.files
         /\ UNCHANGED <<saved, state, req, bearVars, clock, crashes>> /\ phase' = next
<1>1. PICK S \in SUBSET req.files : hub' = SyncUploadAttachment(S) /\ missed' = (missed \cup req.files) \ S
  BY DEF Upload
<1>2. req.files \in SUBSET Files
  BY DEF Requests
<1>3. /\ hub' = [hub EXCEPT !.blobs = @ \cup (S \cap hub.files), !.served = @ \cup (S \cap hub.files)]
      /\ hub \in Hubs
  BY <1>1 DEF SyncUploadAttachment, HubInv
<1>4. /\ hub'.notes = hub.notes /\ hub'.tags = hub.tags /\ hub'.pairs = hub.pairs
      /\ hub'.files = hub.files
      /\ hub'.blobs = hub.blobs \cup (S \cap hub.files)
      /\ hub'.served = hub.served \cup (S \cap hub.files)
  BY <1>3 DEF Hubs
<1>5. hub' \in Hubs
  BY <1>2, <1>3 DEF Hubs
<1> QED BY <1>1, <1>2, <1>4, <1>5 DEF HubInv, Upload

\* What the reads return fits into a request.
LEMMA ReadTypes ==
  ASSUME BearTypes
  PROVE  /\ \A S \in SUBSET Current : /\ Revs(S) \in Partial(BearIds, Revisions)
                                      /\ DOMAIN Revs(S) = S
                                      /\ \A b \in S : Revs(S)[b] = notes[b].rev
         /\ \A S \in SUBSET CurrentTags : /\ TitlesOf(S) \in Partial(Tags, Titles)
                                          /\ DOMAIN TitlesOf(S) = S
                                          /\ \A t \in S : TitlesOf(S)[t] = tags[t].title
         /\ \A S \in SUBSET BearIds : /\ [b \in S |-> pairs[b]] \in Partial(BearIds, SUBSET Tags)
                                      /\ Restrict(pairs, S) \in Partial(BearIds, SUBSET Tags)
<1>1. ASSUME NEW S \in SUBSET Current
      PROVE  /\ Revs(S) \in Partial(BearIds, Revisions) /\ DOMAIN Revs(S) = S
             /\ \A b \in S : Revs(S)[b] = notes[b].rev
  <2>1. S \in SUBSET BearIds /\ Revs(S) \in [S -> Revisions]
    BY CurrentRows DEF Revs
  <2> QED BY <2>1, PartialIntro DEF Revs
<1>2. ASSUME NEW S \in SUBSET CurrentTags
      PROVE  /\ TitlesOf(S) \in Partial(Tags, Titles) /\ DOMAIN TitlesOf(S) = S
             /\ \A t \in S : TitlesOf(S)[t] = tags[t].title
  <2>1. S \in SUBSET Tags /\ TitlesOf(S) \in [S -> Titles]
    BY CurrentRows DEF TitlesOf
  <2> QED BY <2>1, PartialIntro DEF TitlesOf
<1>3. ASSUME NEW S \in SUBSET BearIds
      PROVE  /\ [b \in S |-> pairs[b]] \in Partial(BearIds, SUBSET Tags)
             /\ Restrict(pairs, S) \in Partial(BearIds, SUBSET Tags)
  <2>1. [b \in S |-> pairs[b]] \in [S -> SUBSET Tags]
    BY DEF BearTypes
  <2> QED BY <2>1, PartialIntro DEF Restrict
<1> QED BY <1>1, <1>2, <1>3

Reads == ReadAllNotes \/ ReadAllRest \/ ReadNotes \/ ReadTags \/ ReadFiles \/ ReadPairs

\* What a read adds to the request.
LEMMA ReadSteps ==
  ASSUME BearTypes, BridgeTypes, Reads
  PROVE  req' \in Requests /\ UNCHANGED <<saved, state, hub, missed>>
<1>q. req \in Requests
  BY DEF BridgeTypes
<1>n. /\ Current \in SUBSET BearIds /\ CurrentTags \in SUBSET Tags
      /\ DOMAIN req.notes \in SUBSET BearIds
  <2>1. req.notes \in Partial(BearIds, Revisions)
    BY <1>q DEF Requests
  <2> QED BY <2>1, PartialElim DEF Current, CurrentTags
<1>1. ASSUME ReadAllNotes PROVE req' \in Requests
  <2>1. Revs(Current) \in Partial(BearIds, Revisions)
    BY ReadTypes
  <2> QED BY <1>q, <1>1, <2>1 DEF ReadAllNotes, Requests
<1>2. ASSUME ReadAllRest PROVE req' \in Requests
  <2> DEFINE T == TitlesOf(CurrentTags)
             P == Restrict(pairs, {b \in Current : pairs[b] # {}})
  <2>1. T \in Partial(Tags, Titles) /\ P \in Partial(BearIds, SUBSET Tags)
    BY <1>n, ReadTypes
  <2> HIDE DEF T, P
  <2>2. req' = [req EXCEPT !.tags = T, !.files = files, !.pairs = P] /\ files \in SUBSET Files
    BY <1>2 DEF ReadAllRest, T, P, BearTypes
  <2> QED BY <1>q, <2>1, <2>2 DEF Requests
<1>3. ASSUME ReadNotes PROVE req' \in Requests
  <2> DEFINE S == {b \in Current : notes[b].modified >= state.LastSyncAt}
  <2>1. Revs(S) \in Partial(BearIds, Revisions)
    BY ReadTypes
  <2> HIDE DEF S
  <2>2. req' = [req EXCEPT !.notes = Revs(S)]
    BY <1>3 DEF ReadNotes, S
  <2> QED BY <1>q, <2>1, <2>2 DEF Requests
<1>4. ASSUME ReadTags PROVE req' \in Requests
  <2> DEFINE S == {t \in CurrentTags : tags[t].modified >= state.LastSyncAt}
  <2>1. TitlesOf(S) \in Partial(Tags, Titles)
    BY ReadTypes
  <2> HIDE DEF S
  <2>2. req' = [req EXCEPT !.tags = TitlesOf(S)]
    BY <1>4 DEF ReadTags, S
  <2> QED BY <1>q, <2>1, <2>2 DEF Requests
<1>5. ASSUME ReadFiles PROVE req' \in Requests
  <2> DEFINE S == {f \in files : dates[f] >= state.LastSyncAt \/ f \notin state.KnownAttachmentIDs}
  <2>1. state \in Known
    BY <1>5 DEF ReadFiles, BridgeTypes, DeltaPhases, ReadPhases
  <2>2. S \in SUBSET Files /\ state.KnownAttachmentIDs \ files \in SUBSET Files
    BY <2>1, StateFields DEF BearTypes
  <2> HIDE DEF S
  <2>3. req' = [req EXCEPT !.files = S, !.deletedFiles = state.KnownAttachmentIDs \ files]
    BY <1>5 DEF ReadFiles, S
  <2> QED BY <1>q, <2>2, <2>3 DEF Requests
<1>6. ASSUME ReadPairs PROVE req' \in Requests
  <2> DEFINE P == [b \in DOMAIN req.notes |-> pairs[b]]
  <2>1. P \in Partial(BearIds, SUBSET Tags)
    BY <1>n, ReadTypes
  <2> HIDE DEF P
  <2>2. req' = [req EXCEPT !.pairs = P]
    BY <1>6 DEF ReadPairs, P
  <2> QED BY <1>q, <2>1, <2>2 DEF Requests
<1> QED
  BY <1>1, <1>2, <1>3, <1>4, <1>5, <1>6
  DEF Reads, ReadAllNotes, ReadAllRest, ReadNotes, ReadTags, ReadFiles, ReadPairs, Keep

-----------------------------------------------------------------------------
(***************************************************************************)
(* What the steps of a cycle do to the state and to the request            *)
(***************************************************************************)
\* The known ids of two states.
SameIDs(s, t) ==
  /\ s.KnownNoteIDs = t.KnownNoteIDs /\ s.KnownTagIDs = t.KnownTagIDs
  /\ s.KnownAttachmentIDs = t.KnownAttachmentIDs

LEMMA StartEffect ==
  ASSUME BearTypes, BridgeTypes, StartCycle
  PROVE  /\ phase = "idle" /\ req' = EmptyReq /\ UNCHANGED <<saved, hub, missed>>
         /\ saved = NULL => phase' = "all_notes" /\ state' = state
         /\ saved # NULL => /\ phase' = "notes" /\ saved.LastDBModTime # changes
                            /\ saved \in Known /\ state' \in Known
                            /\ state'.LastSyncAt = saved.LastSyncAt
                            /\ state'.LastDBModTime = changes
                            /\ SameIDs(state', saved)
<1>1. ASSUME saved # NULL
      PROVE  /\ saved \in Known /\ state' \in Known /\ state'.LastSyncAt = saved.LastSyncAt
             /\ state'.LastDBModTime = changes /\ SameIDs(state', saved)
  <2>1. saved \in Known /\ state' = [saved EXCEPT !.LastDBModTime = changes]
        /\ changes \in 0..MaxChanges
    BY <1>1 DEF StartCycle, BridgeTypes, BearTypes
  <2> QED BY <2>1 DEF Known, SameIDs
<1> QED BY <1>1 DEF StartCycle, Keep

LEMMA ScanEffect ==
  ASSUME BearTypes, BridgeTypes, JunctionFullScan
  PROVE  /\ phase = "full_scan" /\ phase' = "deletions" /\ UNCHANGED <<saved, hub, missed>>
         /\ req' \in Requests /\ req'.notes = req.notes /\ req'.tags = req.tags
         /\ req'.files = req.files /\ req'.deleted = req.deleted
         /\ req'.deletedTags = req.deletedTags /\ req'.deletedFiles = req.deletedFiles
         /\ state \in Known /\ state' \in Known
         /\ state'.LastSyncAt = state.LastSyncAt /\ state'.LastDBModTime = state.LastDBModTime
         /\ SameIDs(state', state)
<1> DEFINE M == MergeNoteTags(req.pairs, Restrict(pairs, FindChangedJunctionNotes))
<1>1. state \in Known /\ req \in Requests
  BY DEF JunctionFullScan, BridgeTypes, DeltaPhases, ReadPhases
<1>2. M \in Partial(BearIds, SUBSET Tags)
  <2> DEFINE G == Restrict(pairs, FindChangedJunctionNotes)
             D == DOMAIN req.pairs \cup DOMAIN G
  <2>1. /\ req.pairs \in Partial(BearIds, SUBSET Tags) /\ G \in Partial(BearIds, SUBSET Tags)
    BY <1>1, ReadTypes DEF Requests, FindChangedJunctionNotes
  <2> HIDE DEF G
  <2>2. D \in SUBSET BearIds /\ M \in [D -> SUBSET Tags]
    BY <2>1, PartialElim DEF MergeNoteTags, G
  <2> HIDE DEF M, D
  <2> QED BY <2>2, PartialIntro
<1>3. pairs \in Partial(BearIds, SUBSET Tags)
  BY PartialIntro DEF BearTypes
<1>4. /\ req' = [req EXCEPT !.pairs = M]
      /\ state' = [state EXCEPT !.KnownNoteTagPairs = pairs]
  BY <1>1 DEF JunctionFullScan, Requests
<1> HIDE DEF M
<1>5. /\ req' \in Requests /\ req'.notes = req.notes /\ req'.tags = req.tags
      /\ req'.files = req.files /\ req'.deleted = req.deleted
      /\ req'.deletedTags = req.deletedTags /\ req'.deletedFiles = req.deletedFiles
  BY <1>1, <1>2, <1>4 DEF Requests
<1>6. /\ state' \in Known
      /\ state'.LastSyncAt = state.LastSyncAt /\ state'.LastDBModTime = state.LastDBModTime
      /\ SameIDs(state', state)
  BY <1>1, <1>3, <1>4 DEF Known, SameIDs, Partial
<1> QED BY <1>1, <1>5, <1>6 DEF JunctionFullScan, Keep

\* A state that is saved after a cycle: one more cycle is counted.
LEMMA CountedFields ==
  ASSUME state \in Known
  PROVE  /\ Counted \in Known
         /\ Counted.LastSyncAt = state.LastSyncAt /\ Counted.LastDBModTime = state.LastDBModTime
         /\ SameIDs(Counted, state)
BY DEF Counted, Known, SameIDs

LEMMA DetectEffect ==
  ASSUME BearTypes, BridgeTypes, DetectDeletions
  PROVE  /\ phase = "deletions" /\ UNCHANGED <<hub, missed>> /\ state \in Known
         /\ req' \in Requests /\ req'.notes = req.notes /\ req'.tags = req.tags
         /\ req'.files = req.files /\ req'.deletedFiles = req.deletedFiles
         /\ req'.deleted = state.KnownNoteIDs \ Current
         /\ req'.deletedTags = state.KnownTagIDs \ CurrentTags
         /\ \/ /\ phase' = "idle" /\ UNCHANGED state /\ saved' \in Known
               /\ saved'.LastSyncAt = state.LastSyncAt
               /\ saved'.LastDBModTime = state.LastDBModTime /\ SameIDs(saved', state)
               /\ DOMAIN req.notes = {} /\ req.files = {}
               /\ state.KnownNoteIDs \subseteq Current /\ state.KnownTagIDs \subseteq CurrentTags
            \/ /\ phase' = "push" /\ UNCHANGED saved /\ state' \in Known
               /\ state'.LastSyncAt = clock
               /\ state'.LastDBModTime = state.LastDBModTime /\ SameIDs(state', state)
<1> DEFINE r == [req EXCEPT !.deleted = state.KnownNoteIDs \ Current,
                            !.deletedTags = state.KnownTagIDs \ CurrentTags]
<1>1. state \in Known /\ req \in Requests
  BY DEF DetectDeletions, BridgeTypes, DeltaPhases, ReadPhases
<1>2. /\ r \in Requests /\ r.notes = req.notes /\ r.tags = req.tags
      /\ r.files = req.files /\ r.deletedFiles = req.deletedFiles
      /\ r.deleted = state.KnownNoteIDs \ Current
      /\ r.deletedTags = state.KnownTagIDs \ CurrentTags
  BY <1>1, StateFields DEF Requests
<1>3. /\ phase = "deletions" /\ UNCHANGED <<hub, missed>> /\ req' = r
      /\ IF IsEmptyPush(r)
         THEN saved' = Counted /\ phase' = "idle" /\ UNCHANGED state
         ELSE /\ state' = [state EXCEPT !.LastSyncAt = clock] /\ phase' = "push"
              /\ UNCHANGED saved
  BY DEF DetectDeletions, Keep
<1> HIDE DEF r
<1>4. CASE IsEmptyPush(r)
  <2>1. r = EmptyReq
    BY <1>4 DEF IsEmptyPush
  <2>2. /\ DOMAIN r.notes = {} /\ r.files = {} /\ r.deleted = {} /\ r.deletedTags = {}
    BY <2>1, EmptyRequest DEF EmptyReq
  <2>3. /\ DOMAIN req.notes = {} /\ req.files = {}
        /\ state.KnownNoteIDs \subseteq Current /\ state.KnownTagIDs \subseteq CurrentTags
    BY <1>2, <2>2
  <2>4. saved' = Counted /\ phase' = "idle" /\ UNCHANGED state
    BY <1>3, <1>4
  <2> QED BY <1>1, <1>2, <1>3, <2>3, <2>4, CountedFields
<1>5. CASE ~ IsEmptyPush(r)
  <2>1. state' = [state EXCEPT !.LastSyncAt = clock] /\ phase' = "push" /\ UNCHANGED saved
    BY <1>3, <1>5
  <2>2. clock \in 0..MaxClock
    BY DEF BearTypes
  <2>3. /\ state' \in Known /\ state'.LastSyncAt = clock
        /\ state'.LastDBModTime = state.LastDBModTime /\ SameIDs(state', state)
    BY <1>1, <2>1, <2>2 DEF Known, SameIDs
  <2> QED BY <1>1, <1>2, <1>3, <2>1, <2>3
<1> QED BY <1>4, <1>5

LEMMA SaveInitialEffect ==
  ASSUME BearTypes, BridgeTypes, SaveInitial
  PROVE  /\ phase = "save_initial" /\ phase' = "idle" /\ UNCHANGED <<state, req, hub, missed>>
         /\ saved' \in Known /\ saved'.LastSyncAt = clock /\ saved'.LastDBModTime = changes
         /\ saved'.KnownNoteIDs = DOMAIN req.notes /\ saved'.KnownTagIDs = DOMAIN req.tags
         /\ saved'.KnownAttachmentIDs = req.files
<1>1. /\ req.notes \in Partial(BearIds, Revisions) /\ req.tags \in Partial(Tags, Titles)
      /\ req.pairs \in Partial(BearIds, SUBSET Tags) /\ req.files \in SUBSET Files
  BY DEF BridgeTypes, Requests
<1>2. DOMAIN req.notes \in SUBSET BearIds /\ DOMAIN req.tags \in SUBSET Tags
  BY <1>1, PartialElim
<1>3. saved' \in Known
  BY <1>1, <1>2 DEF SaveInitial, Known, Partial, BearTypes
<1> QED BY <1>3 DEF SaveInitial, Keep

LEMMA UpdateEffect ==
  ASSUME BearTypes, BridgeTypes, UpdateKnownIDs
  PROVE  /\ phase = "known_ids" /\ phase' = "idle" /\ UNCHANGED <<state, req, hub, missed>>
         /\ state \in Known
         /\ saved' \in Known /\ saved'.LastSyncAt = state.LastSyncAt
         /\ saved'.LastDBModTime = state.LastDBModTime
         /\ saved'.KnownNoteIDs = Current /\ saved'.KnownTagIDs = CurrentTags
         /\ saved'.KnownAttachmentIDs = files
<1>1. state \in Known
  BY DEF UpdateKnownIDs, BridgeTypes, DeltaPhases, SendPhases
<1>2. Counted \in Known
  BY <1>1, CountedFields
<1>3. /\ Current \in SUBSET BearIds /\ CurrentTags \in SUBSET Tags /\ files \in SUBSET Files
  BY DEF Current, CurrentTags, BearTypes
<1>4. pairs \in UNION {[S -> SUBSET Tags] : S \in SUBSET BearIds}
  BY DEF BearTypes
<1> DEFINE C == Counted
           v == [C EXCEPT !.KnownNoteIDs = Current, !.KnownTagIDs = CurrentTags,
                          !.KnownAttachmentIDs = files, !.KnownNoteTagPairs = pairs]
<1>5. saved' = v
  BY DEF UpdateKnownIDs
<1> HIDE DEF C
<1>6. /\ v \in Known /\ v.LastSyncAt = C.LastSyncAt /\ v.LastDBModTime = C.LastDBModTime
      /\ v.KnownNoteIDs = Current /\ v.KnownTagIDs = CurrentTags /\ v.KnownAttachmentIDs = files
  <2>1. C \in Known
    BY <1>2 DEF C
  <2> QED BY <2>1, <1>3, <1>4 DEF Known
<1>7. C.LastSyncAt = state.LastSyncAt /\ C.LastDBModTime = state.LastDBModTime
  BY <1>1, CountedFields DEF C
<1> HIDE DEF v
<1> QED BY <1>1, <1>5, <1>6, <1>7 DEF UpdateKnownIDs, Keep

LEMMA TypesInit == DeltaInit => DeltaTypes
<1> SUFFICES ASSUME DeltaInit PROVE DeltaTypes
  OBVIOUS
<1> USE DeltaAssumption
<1>1. Current = {} /\ CurrentTags = {}
  BY DEF DeltaInit, Current, CurrentTags
<1>2. BearTypes /\ BearInv
  BY <1>1 DEF DeltaInit, BearTypes, BearInv
<1>3. BridgeTypes
  BY EmptyRequest DEF DeltaInit, BridgeTypes, InitialPhases, DeltaPhases, ReadPhases, SendPhases
<1>4. HubInv
  <2>1. hub \in Hubs /\ DOMAIN hub.pairs = {} /\ hub.served = {}
    BY EmptyFunction DEF DeltaInit, Hubs
  <2> QED BY <2>1 DEF HubInv
<1> QED BY <1>2, <1>3, <1>4 DEF DeltaTypes

LEMMA TypesStep == DeltaTypes /\ [DeltaNext]_deltaVars => DeltaTypes'
<1> SUFFICES ASSUME DeltaTypes, [DeltaNext]_deltaVars PROVE DeltaTypes'
  OBVIOUS
<1> USE DeltaAssumption DEF InitialPhases, DeltaPhases, ReadPhases, SendPhases
<1>t. BearTypes /\ BearInv /\ BridgeTypes /\ HubInv
  BY DEF DeltaTypes
<1>s. ASSUME saved # NULL PROVE saved \in Known
  BY <1>s, <1>t DEF BridgeTypes
<1>b. ASSUME UNCHANGED <<bearVars, clock>> PROVE BearTypes' /\ BearInv'
  BY <1>t, <1>b DEF BearTypes, BearInv, bearVars, Current, CurrentTags
<1>h. ASSUME UNCHANGED hub PROVE HubInv'
  BY <1>t, <1>h DEF HubInv
<1>i. ASSUME NEW s \in Known, StateInv(s), clock' >= clock, changes' >= changes,
             clock' \in Nat, changes' \in Nat
      PROVE  s.LastSyncAt <= clock' /\ s.LastDBModTime <= changes'
  BY <1>t, <1>i, StateFields DEF StateInv, BearTypes
<1>1. CASE UserChanges
  <2>1. BearTypes' /\ BearInv'
    BY <1>t, <1>1, BearStep
  <2>2. UNCHANGED <<clock, saved, state, phase, req, hub, missed, crashes>> /\ changes' = changes + 1
    BY <1>1, UserLeaves
  <2>3. clock' >= clock /\ changes' >= changes /\ clock' \in Nat /\ changes' \in Nat
    BY <1>t, <2>2 DEF BearTypes
  <2>4. BridgeTypes'
    BY <1>t, <1>i, <2>2, <2>3 DEF BridgeTypes, StateInv
  <2> QED BY <1>h, <2>1, <2>2, <2>4 DEF DeltaTypes
<1>2. CASE Tick
  <2>1. /\ UNCHANGED <<bearVars, saved, state, phase, req, hub, missed, crashes>>
        /\ clock' = clock + 1 /\ clock < MaxClock
    BY <1>2 DEF Tick
  <2>2. BearTypes'
    BY <1>t, <2>1 DEF BearTypes, bearVars
  <2>3. BearInv'
    <3>1. Current' = Current /\ CurrentTags' = CurrentTags
      BY <2>1 DEF bearVars, Current, CurrentTags
    <3>2. UNCHANGED <<notes, tags, pairs, files, dates, gone>> /\ clock' = clock + 1 /\ clock \in Nat
      BY <1>t, <2>1 DEF bearVars, BearTypes
    <3>3. \A b \in Current : notes[b].modified <= clock + 1
      BY <1>t, <3>2, CurrentRows DEF BearInv
    <3>4. \A t \in CurrentTags : tags[t].modified <= clock + 1
      BY <1>t, <3>2, CurrentRows DEF BearInv
    <3>5. \A f \in Files : dates[f] <= clock + 1
      BY <1>t, <3>2 DEF BearInv, BearTypes
    <3> QED BY <1>t, <3>1, <3>2, <3>3, <3>4, <3>5 DEF BearInv
  <2>4. clock' >= clock /\ changes' >= changes /\ clock' \in Nat /\ changes' \in Nat
    BY <1>t, <2>1 DEF BearTypes, bearVars
  <2>5. BridgeTypes'
    BY <1>t, <1>i, <2>1, <2>4 DEF BridgeTypes, StateInv
  <2> QED BY <1>h, <2>1, <2>2, <2>3, <2>5 DEF DeltaTypes
<1>3. CASE Crash
  <2>1. BridgeTypes'
    BY <1>t, <1>3 DEF Crash, BridgeTypes, StateInv, bearVars
  <2> QED BY <1>3, <1>b, <1>h, <2>1 DEF Crash, DeltaTypes
<1>4. CASE UNCHANGED deltaVars
  <2>1. BridgeTypes'
    BY <1>t, <1>4 DEF deltaVars, BridgeTypes, StateInv, bearVars
  <2> QED BY <1>4, <1>b, <1>h, <2>1 DEF deltaVars, DeltaTypes
<1>5. CASE CycleStep
  <2>1. UNCHANGED <<bearVars, clock, crashes>> /\ changes' = changes
    BY <1>5, CycleLeaves DEF bearVars
  <2>2. BearTypes' /\ BearInv'
    BY <1>b, <2>1
  <2>3. SUFFICES BridgeTypes' /\ HubInv'
    BY <2>2 DEF DeltaTypes
  <2>4. CASE StartCycle
    <3>1. BridgeTypes'
      <4>1. /\ clock \in Nat /\ changes \in Nat
        BY <1>t DEF BearTypes
      <4>2. CASE saved = NULL
        BY <1>t, <2>1, <2>4, <4>2, StartEffect, EmptyRequest DEF BridgeTypes
      <4>3. CASE saved # NULL
        <5>1. /\ phase' = "notes" /\ state' \in Known /\ UNCHANGED <<saved, missed>>
              /\ req' = EmptyReq /\ state'.LastSyncAt = saved.LastSyncAt
              /\ state'.LastDBModTime = changes
          BY <1>t, <2>4, <4>3, StartEffect
        <5> QED BY <1>t, <2>1, <4>1, <4>3, <5>1, EmptyRequest, KindsApart DEF BridgeTypes, StateInv
      <4> QED BY <4>2, <4>3
    <3> QED BY <1>t, <1>h, <2>4, <3>1, StartEffect
  <2>5. CASE Reads
    <3>1. req' \in Requests /\ UNCHANGED <<saved, state, hub, missed>>
      BY <1>t, <2>5, ReadSteps
    <3>2. \/ phase \in InitialPhases /\ phase' \in InitialPhases
          \/ phase \in DeltaPhases /\ phase' \in DeltaPhases
      BY <2>5 DEF Reads, ReadAllNotes, ReadAllRest, ReadNotes, ReadTags, ReadFiles, ReadPairs
    <3>3. BridgeTypes'
      BY <1>t, <2>1, <3>1, <3>2 DEF BridgeTypes, StateInv
    <3> QED BY <1>h, <3>1, <3>3
  <2>6. CASE JunctionFullScan
    <3>1. BridgeTypes'
      BY <1>t, <2>1, <2>6, ScanEffect, KindsApart DEF BridgeTypes, StateInv
    <3> QED BY <1>t, <1>h, <2>6, <3>1, ScanEffect
  <2>7. CASE DetectDeletions
    <3>1. StateInv(state) /\ saved # NULL /\ clock <= clock /\ state.LastDBModTime <= changes
      BY <1>t, <2>7, DetectEffect DEF BridgeTypes, StateInv, BearTypes
    <3>2. BridgeTypes'
      <4>1. /\ phase = "deletions" /\ UNCHANGED missed /\ req' \in Requests /\ state \in Known
        BY <1>t, <2>7, DetectEffect
      <4>2. CASE /\ phase' = "idle" /\ UNCHANGED state /\ saved' \in Known
                 /\ saved'.LastSyncAt = state.LastSyncAt
                 /\ saved'.LastDBModTime = state.LastDBModTime
        <5>1. (StateInv(saved))'
          BY <2>1, <3>1, <4>2 DEF StateInv
        <5> QED BY <1>t, <2>1, <4>1, <4>2, <5>1 DEF BridgeTypes
      <4>3. CASE /\ phase' = "push" /\ UNCHANGED saved /\ state' \in Known
                 /\ state'.LastSyncAt = clock /\ state'.LastDBModTime = state.LastDBModTime
        <5>1. (StateInv(state))' /\ (StateInv(saved))'
          BY <1>t, <2>1, <3>1, <4>3 DEF StateInv, BridgeTypes, BearTypes
        <5> QED BY <1>t, <2>1, <3>1, <4>1, <4>3, <5>1, KindsApart DEF BridgeTypes
      <4> QED BY <1>t, <2>7, <4>2, <4>3, DetectEffect
    <3> QED BY <1>t, <1>h, <2>7, <3>2, DetectEffect
  <2>8. CASE PushNotes \/ PushMeta \/ PushDelta
    <3>1. UNCHANGED <<saved, state, req, missed>>
      BY <2>8 DEF PushNotes, PushMeta, PushDelta, Keep
    <3>2. HubInv' /\ \/ phase' = "idle"
                     \/ phase \in InitialPhases /\ phase' \in InitialPhases
                     \/ phase \in DeltaPhases /\ phase' \in DeltaPhases
      <4>1. CASE PushNotes
        BY <1>t, <4>1, InitialRequests, PushKeepsHub DEF PushNotes, BridgeTypes
      <4>2. CASE PushMeta
        BY <1>t, <4>2, InitialRequests, PushKeepsHub DEF PushMeta, BridgeTypes
      <4>3. CASE PushDelta
        BY <1>t, <4>3, PushKeepsHub DEF PushDelta, BridgeTypes
      <4> QED BY <2>8, <4>1, <4>2, <4>3
    <3>3. BridgeTypes'
      BY <1>t, <2>1, <3>1, <3>2 DEF BridgeTypes, StateInv
    <3> QED BY <3>2, <3>3
  <2>9. CASE UploadAll \/ UploadDelta
    <3>1. /\ HubInv' /\ missed' \in SUBSET Files /\ UNCHANGED <<saved, state, req>>
          /\ \/ phase \in InitialPhases /\ phase' \in InitialPhases
             \/ phase \in DeltaPhases /\ phase' \in DeltaPhases
      BY <1>t, <2>9, UploadKeepsHub DEF UploadAll, UploadDelta, BridgeTypes
    <3>2. BridgeTypes'
      BY <1>t, <2>1, <3>1 DEF BridgeTypes, StateInv
    <3> QED BY <3>1, <3>2
  <2>10. CASE SaveInitial
    <3>1. BridgeTypes'
      BY <1>t, <2>1, <2>10, SaveInitialEffect DEF BridgeTypes, StateInv, BearTypes
    <3> QED BY <1>t, <1>h, <2>10, <3>1, SaveInitialEffect
  <2>11. CASE UpdateKnownIDs
    <3>1. BridgeTypes'
      BY <1>t, <2>1, <2>11, UpdateEffect DEF BridgeTypes, StateInv
    <3> QED BY <1>t, <1>h, <2>11, <3>1, UpdateEffect
  <2> QED
    BY <1>5, <2>4, <2>5, <2>6, <2>7, <2>8, <2>9, <2>10, <2>11 DEF CycleStep, Reads
<1> QED BY <1>1, <1>2, <1>3, <1>4, <1>5 DEF DeltaNext

LEMMA TypesImply == DeltaTypes => DeltaTypeOK
<1> SUFFICES ASSUME DeltaTypes PROVE DeltaTypeOK
  OBVIOUS
<1> USE DeltaAssumption
<1>t. BearTypes /\ BearInv /\ BridgeTypes /\ HubInv
  BY DEF DeltaTypes
<1>1. Current \subseteq BearIds /\ CurrentTags \subseteq Tags
  BY DEF Current, CurrentTags
<1>2. pairs \in [BearIds -> SUBSET CurrentTags] /\ dates \in [Files -> 0..clock]
  BY <1>t DEF BearTypes, BearInv
<1>3. \A b \in Current : notes[b] \in [rev : 0..MaxChanges, modified : 0..clock]
  BY <1>t DEF BearTypes, BearInv, Current, NoteRows, Revisions
<1>4. \A t \in CurrentTags : tags[t] \in [title : Titles, modified : 0..clock]
  BY <1>t DEF BearTypes, BearInv, CurrentTags, TagRows
<1>5. UNION Range(hub.pairs) \subseteq DOMAIN hub.tags
  BY <1>t DEF HubInv, Range
<1> QED BY <1>t, <1>1, <1>2, <1>3, <1>4, <1>5 DEF DeltaTypeOK, BearTypes, BearInv, BridgeTypes, HubInv

\* DeltaTypeOK for every set of notes, tags and files, whenever Bear changes:
\* the bridge and the hub keep their types, the hub has tags only for notes it
\* has and only those that it has, and serves no file that it has not.
THEOREM DeltaTypesHold == DeltaSpec => []DeltaTypeOK
<1>1. DeltaSpec => []DeltaTypes
  BY TypesInit, TypesStep, PTL DEF DeltaSpec
<1> QED BY <1>1, TypesImply, PTL

-----------------------------------------------------------------------------
(***************************************************************************)
(* NotesMirrored                                                           *)
(***************************************************************************)
\* What the user may do to notes and files: what goes is gone for good, what is
\* written has the time now, a file that is new was never there.
LEMMA UserEffect ==
  ASSUME BearTypes, BearInv, UserChanges
  PROVE  /\ gone \subseteq gone' /\ Current \subseteq Current' \cup gone'
         /\ files \subseteq files' \cup gone'
         /\ \A b \in Current' : \/ b \in Current /\ notes'[b] = notes[b]
                                \/ notes'[b].modified = clock
         /\ \A f \in files' : \/ f \in files /\ dates'[f] \in {dates[f], clock}
                              \/ f \notin files \cup gone
<1> DEFINE Goal == /\ gone \subseteq gone' /\ Current \subseteq Current' \cup gone'
                   /\ files \subseteq files' \cup gone'
                   /\ \A b \in Current' : \/ b \in Current /\ notes'[b] = notes[b]
                                          \/ notes'[b].modified = clock
                   /\ \A f \in files' : \/ f \in files /\ dates'[f] \in {dates[f], clock}
                                        \/ f \notin files \cup gone
<1>n. ASSUME NEW b \in BearIds, CreateNote(b) \/ EditNote(b) PROVE Goal
  <2>1. b \notin gone /\ changes < MaxChanges
    BY <1>n DEF CreateNote, EditNote, MayChange, BearInv
  <2>2. /\ Current' = Current \cup {b} /\ UNCHANGED <<gone, files, dates>>
        /\ \A c \in Current' : (c # b /\ notes'[c] = notes[c]) \/ notes'[c].modified = clock
    BY <1>n, <2>1, NoteWritten DEF CreateNote, EditNote
  <2> QED BY <2>2
<1>d. ASSUME NEW b \in BearIds, DeleteNote(b) PROVE Goal
  <2>1. /\ notes' = [notes EXCEPT ![b] = NULL]
        /\ files' = files \ (IF b = FileNote THEN files ELSE {})
        /\ gone' = gone \cup {b} \cup (IF b = FileNote THEN files ELSE {})
        /\ dates' = dates
    BY <1>d DEF DeleteNote
  <2>2. Current' = Current \ {b} /\ \A c \in Current' : notes'[c] = notes[c]
    BY <2>1 DEF Current, BearTypes
  <2> QED BY <2>1, <2>2
<1>f. ASSUME NEW f \in Files, AttachFile(f) \/ DetachFile(f) \/ TouchFile(f) PROVE Goal
  <2>1. UNCHANGED notes /\ Current' = Current
    BY <1>f DEF AttachFile, DetachFile, TouchFile, Current
  <2>2. \A g \in Files \ {f} : dates'[g] = dates[g]
    BY <1>f DEF AttachFile, DetachFile, TouchFile, BearTypes
  <2>3. AttachFile(f) => files' = files \cup {f} /\ f \notin files \cup gone /\ gone' = gone
    BY DEF AttachFile
  <2>4. DetachFile(f) => files' = files \ {f} /\ gone' = gone \cup {f} /\ dates' = dates
    BY DEF DetachFile
  <2>5. TouchFile(f) => files' = files /\ gone' = gone /\ dates'[f] = clock
    BY DEF TouchFile, BearTypes
  <2> QED BY <1>f, <2>1, <2>2, <2>3, <2>4, <2>5 DEF BearTypes
<1>o. ASSUME UNCHANGED <<notes, files, dates>>, gone \subseteq gone' PROVE Goal
  BY <1>o DEF Current
<1> HIDE DEF Goal
<1>1. Goal
  BY <1>n, <1>d, <1>f, <1>o DEF UserChanges, TagNote, DeleteTag, CreateTag, RenameTag
<1> QED BY <1>1 DEF Goal

\* A push changes the hub as PushedFields says, or not at all.
LEMMA PushEffect ==
  ASSUME HubInv, NEW r \in Requests, NEW next, next # "idle", PushThen(r, next)
  PROVE  \/ phase' = "idle" /\ hub' = hub /\ Refused(r)
         \/ /\ phase' = next /\ ~ Refused(r)
            /\ DOMAIN hub'.notes = (DOMAIN hub.notes \cup DOMAIN r.notes) \ r.deleted
            /\ \A b \in DOMAIN hub'.notes :
                 hub'.notes[b] = IF b \in DOMAIN r.notes THEN r.notes[b] ELSE hub.notes[b]
            /\ DOMAIN hub'.tags = (DOMAIN hub.tags \cup DOMAIN r.tags) \ r.deletedTags
            /\ \A t \in DOMAIN hub'.tags :
                 hub'.tags[t] = IF t \in DOMAIN r.tags THEN r.tags[t] ELSE hub.tags[t]
            /\ hub'.files = FilesAfter(r) /\ hub'.served = ServedAfter(r)
            /\ hub'.blobs = hub.blobs \ CleanupIDs(r)
            /\ (FileNote \in DOMAIN NotesAfter(r)) = (FileNote \in DOMAIN hub'.notes)
<1>1. CASE Refused(r)
  BY <1>1 DEF PushThen
<1>2. CASE ~ Refused(r)
  <2>1. hub' = Pushed(r) /\ phase' = next
    BY <1>2 DEF PushThen
  <2>2. /\ hub'.notes = NotesAfter(r) /\ hub'.tags = TagsAfter(r)
        /\ hub'.files = FilesAfter(r) /\ hub'.served = ServedAfter(r)
        /\ hub'.blobs = hub.blobs \ CleanupIDs(r)
    BY <2>1, PushedFields
  <2>3. /\ DOMAIN hub'.notes = (DOMAIN hub.notes \cup DOMAIN r.notes) \ r.deleted
        /\ \A b \in DOMAIN hub'.notes :
             hub'.notes[b] = IF b \in DOMAIN r.notes THEN r.notes[b] ELSE hub.notes[b]
    <3>1. /\ DOMAIN NotesAfter(r) = (DOMAIN hub.notes \cup DOMAIN r.notes) \ r.deleted
          /\ \A b \in DOMAIN NotesAfter(r) :
               NotesAfter(r)[b] = IF b \in DOMAIN r.notes THEN r.notes[b] ELSE hub.notes[b]
      BY PushedFields
    <3> QED BY <2>2, <3>1
  <2>4. /\ DOMAIN hub'.tags = (DOMAIN hub.tags \cup DOMAIN r.tags) \ r.deletedTags
        /\ \A t \in DOMAIN hub'.tags :
             hub'.tags[t] = IF t \in DOMAIN r.tags THEN r.tags[t] ELSE hub.tags[t]
    <3>1. /\ DOMAIN TagsAfter(r) = (DOMAIN hub.tags \cup DOMAIN r.tags) \ r.deletedTags
          /\ \A t \in DOMAIN TagsAfter(r) :
               TagsAfter(r)[t] = IF t \in DOMAIN r.tags THEN r.tags[t] ELSE hub.tags[t]
      BY PushedFields
    <3> QED BY <2>2, <3>1
  <2> QED BY <1>2, <2>1, <2>2, <2>3, <2>4
<1> QED BY <1>1, <1>2

\* The fields of the two requests of the first export.
LEMMA InitialFields ==
  ASSUME req \in Requests
  PROVE  LET n == [EmptyReq EXCEPT !.notes = req.notes,
                                   !.pairs = [b \in DOMAIN req.notes |-> {}]]
             m == [req EXCEPT !.notes = <<>>]
         IN /\ n.notes = req.notes /\ DOMAIN n.tags = {} /\ n.files = {}
            /\ n.deleted = {} /\ n.deletedTags = {} /\ n.deletedFiles = {}
            /\ DOMAIN m.notes = {} /\ m.tags = req.tags /\ m.files = req.files
            /\ m.deleted = req.deleted /\ m.deletedTags = req.deletedTags
            /\ m.deletedFiles = req.deletedFiles
<1> DEFINE P == [b \in DOMAIN req.notes |-> {}]
<1> HIDE DEF P
<1>1. /\ [EmptyReq EXCEPT !.notes = req.notes, !.pairs = P].notes = req.notes
      /\ [EmptyReq EXCEPT !.notes = req.notes, !.pairs = P].tags = <<>>
      /\ [EmptyReq EXCEPT !.notes = req.notes, !.pairs = P].files = {}
      /\ [EmptyReq EXCEPT !.notes = req.notes, !.pairs = P].deleted = {}
      /\ [EmptyReq EXCEPT !.notes = req.notes, !.pairs = P].deletedTags = {}
      /\ [EmptyReq EXCEPT !.notes = req.notes, !.pairs = P].deletedFiles = {}
  BY DEF EmptyReq
<1>2. DOMAIN <<>> = {}
  BY EmptyFunction
<1>3. /\ [req EXCEPT !.notes = <<>>].notes = <<>> /\ [req EXCEPT !.notes = <<>>].tags = req.tags
      /\ [req EXCEPT !.notes = <<>>].files = req.files
      /\ [req EXCEPT !.notes = <<>>].deleted = req.deleted
      /\ [req EXCEPT !.notes = <<>>].deletedTags = req.deletedTags
      /\ [req EXCEPT !.notes = <<>>].deletedFiles = req.deletedFiles
  BY DEF Requests
<1> QED BY <1>1, <1>2, <1>3 DEF P

\* The fields that the reads fill, and that they leave alone.
LEMMA ReadFields ==
  ASSUME req \in Requests
  PROVE  /\ ReadAllNotes =>
              /\ req'.notes = Revs(Current) /\ req'.deleted = req.deleted
              /\ req'.deletedTags = req.deletedTags /\ req'.deletedFiles = req.deletedFiles
         /\ ReadAllRest =>
              /\ req'.notes = req.notes /\ req'.tags = TitlesOf(CurrentTags)
              /\ req'.files = files /\ req'.deleted = req.deleted
              /\ req'.deletedTags = req.deletedTags /\ req'.deletedFiles = req.deletedFiles
         /\ ReadNotes =>
              /\ req'.notes = Revs({b \in Current : notes[b].modified >= state.LastSyncAt})
              /\ req'.deleted = req.deleted
         /\ ReadTags =>
              /\ req'.tags = TitlesOf({t \in CurrentTags : tags[t].modified >= state.LastSyncAt})
              /\ req'.notes = req.notes /\ req'.deleted = req.deleted
         /\ ReadFiles =>
              /\ req'.files = {f \in files : \/ dates[f] >= state.LastSyncAt
                                             \/ f \notin state.KnownAttachmentIDs}
              /\ req'.deletedFiles = state.KnownAttachmentIDs \ files
              /\ req'.notes = req.notes /\ req'.deleted = req.deleted /\ req'.tags = req.tags
         /\ ReadPairs =>
              /\ req'.notes = req.notes /\ req'.deleted = req.deleted /\ req'.tags = req.tags
              /\ req'.files = req.files /\ req'.deletedFiles = req.deletedFiles
<1>1. ReadAllNotes =>
              /\ req'.notes = Revs(Current) /\ req'.deleted = req.deleted
              /\ req'.deletedTags = req.deletedTags /\ req'.deletedFiles = req.deletedFiles
  BY DEF ReadAllNotes, Requests
<1>2. ReadAllRest =>
              /\ req'.notes = req.notes /\ req'.tags = TitlesOf(CurrentTags)
              /\ req'.files = files /\ req'.deleted = req.deleted
              /\ req'.deletedTags = req.deletedTags /\ req'.deletedFiles = req.deletedFiles
  BY DEF ReadAllRest, Requests
<1>3. ReadNotes =>
              /\ req'.notes = Revs({b \in Current : notes[b].modified >= state.LastSyncAt})
              /\ req'.deleted = req.deleted
  BY DEF ReadNotes, Requests
<1>4. ReadTags =>
              /\ req'.tags = TitlesOf({t \in CurrentTags : tags[t].modified >= state.LastSyncAt})
              /\ req'.notes = req.notes /\ req'.deleted = req.deleted
  BY DEF ReadTags, Requests
<1>5. ReadFiles =>
              /\ req'.files = {f \in files : \/ dates[f] >= state.LastSyncAt
                                             \/ f \notin state.KnownAttachmentIDs}
              /\ req'.deletedFiles = state.KnownAttachmentIDs \ files
              /\ req'.notes = req.notes /\ req'.deleted = req.deleted /\ req'.tags = req.tags
  BY DEF ReadFiles, Requests
<1>6. ReadPairs =>
              /\ req'.notes = req.notes /\ req'.deleted = req.deleted /\ req'.tags = req.tags
              /\ req'.files = req.files /\ req'.deletedFiles = req.deletedFiles
  BY DEF ReadPairs, Requests
<1> QED BY <1>1, <1>2, <1>3, <1>4, <1>5, <1>6

LEMMA NotesInit == DeltaInit => NotesInv
BY DEF DeltaInit, NotesInv, InitialPhases, DeltaPhases, ReadPhases, SendPhases

\* The heart of it: with the window closed, a note that the hub has not is never
\* left behind, by a push that is refused, cut short or overtaken either.
LEMMA NotesStep ==
  ASSUME OpenPhases \cap NotesWindow = {}
  PROVE  DeltaTypes /\ DeltaTypes' /\ NotesInv /\ [DeltaNext]_deltaVars => NotesInv'
<1> SUFFICES ASSUME DeltaTypes, DeltaTypes', NotesInv, [DeltaNext]_deltaVars PROVE NotesInv'
  OBVIOUS
<1> USE DEF InitialPhases, DeltaPhases, ReadPhases, SendPhases
<1>t. BearTypes /\ BearInv /\ BridgeTypes /\ HubInv
  BY DEF DeltaTypes
<1>q. req \in Requests /\ clock \in Nat /\ changes \in Nat
  BY <1>t DEF BridgeTypes, BearTypes
<1>k. saved # NULL => saved \in Known /\ saved.LastSyncAt \in Nat /\ saved.LastDBModTime \in Nat
                      /\ saved.LastSyncAt <= clock /\ saved.LastDBModTime <= changes
  BY <1>t, StateFields DEF BridgeTypes, StateInv
<1>l. phase \in DeltaPhases =>
        /\ saved # NULL /\ state \in Known /\ state.LastSyncAt \in Nat /\ state.LastDBModTime \in Nat
        /\ state.LastSyncAt <= clock /\ state.LastDBModTime <= changes
  BY <1>t, StateFields DEF BridgeTypes, StateInv
<1>m. \A b \in Current : b \in BearIds /\ notes[b].modified \in Nat /\ notes[b].modified <= clock
  BY <1>t, CurrentRows DEF BearInv
<1>1. CASE UserChanges
  <2>1. /\ UNCHANGED <<clock, saved, state, phase, req, hub>>
        /\ changes' = changes + 1 /\ phase \in {"idle", "all_notes", "notes", "push", "upload", "known_ids"}
    BY <1>1, <1>t, UserLeaves DEF NotesWindow, BridgeTypes
  <2>2. /\ gone \subseteq gone' /\ Current \subseteq Current' \cup gone'
        /\ \A b \in Current' : \/ b \in Current /\ notes'[b] = notes[b]
                               \/ notes'[b].modified = clock
    BY <1>1, <1>t, UserEffect
  <2>3. \A b \in Current' : \/ /\ b \in Current /\ notes'[b] = notes[b]
                               /\ Mirrored(b) => Mirrored(b)'
                               /\ Sent(b) => Sent(b)'
                            \/ notes'[b].modified = clock
    BY <2>1, <2>2 DEF Mirrored, Sent
  <2>4. saved # NULL =>
          /\ saved.KnownNoteIDs \subseteq Current' \cup gone'
          /\ \A b \in Current' : notes'[b].modified >= saved.LastSyncAt \/ Mirrored(b)'
          /\ saved.LastDBModTime # changes'
    BY <1>q, <1>k, <2>1, <2>2, <2>3 DEF NotesInv
  <2>5. phase \in SendPhases => \A b \in Current' : Later(b)' \/ (b \in Current /\ notes'[b] = notes[b])
    BY <1>q, <1>l, <2>1, <2>2 DEF Later
  <2>6. phase \in SendPhases => \A b \in Current' \cap Current : Later(b) => Later(b)' \/ notes'[b] # notes[b]
    BY <1>q, <1>l, <2>1, <2>2 DEF Later
  <2>7. phase = "push" =>
          /\ req.deleted \subseteq gone'
          /\ \A b \in Current' :
               Sent(b)' \/ Later(b)' \/ (b \notin DOMAIN req.notes /\ Mirrored(b)')
    <3>1. phase = "push" => /\ req.deleted \subseteq gone
                            /\ \A b \in Current : Sent(b) \/ Later(b) \/ (b \notin DOMAIN req.notes /\ Mirrored(b))
      BY DEF NotesInv
    <3>2. \A b \in Current' : b \in Current /\ notes'[b] = notes[b] =>
             (Mirrored(b) => Mirrored(b)') /\ (Sent(b) => Sent(b)')
      BY <2>1 DEF Mirrored, Sent
    <3> QED BY <2>2, <2>5, <2>6, <3>1, <3>2
  <2>8. phase \in {"upload", "known_ids"} => \A b \in Current' : Mirrored(b)' \/ Later(b)'
    <3>1. phase \in {"upload", "known_ids"} => \A b \in Current : Mirrored(b) \/ Later(b)
      BY DEF NotesInv
    <3>2. \A b \in Current' : b \in Current /\ notes'[b] = notes[b] => (Mirrored(b) => Mirrored(b)')
      BY <2>1 DEF Mirrored
    <3> QED BY <2>2, <2>5, <2>6, <3>1, <3>2
  <2> QED BY <1>l, <2>1, <2>4, <2>7, <2>8 DEF NotesInv
<1>2. CASE Tick \/ UNCHANGED deltaVars
  <2>1. UNCHANGED <<notes, gone, changes, saved, state, phase, req, hub>> /\ Current' = Current
    BY <1>2 DEF Tick, deltaVars, bearVars, Current
  <2> QED BY <2>1 DEF NotesInv, Mirrored, Sent, Later
<1>3. CASE Crash
  <2>1. UNCHANGED <<notes, gone, changes, saved, hub>> /\ Current' = Current /\ phase' = "idle"
    BY <1>3 DEF Crash, bearVars, Current
  <2> QED BY <2>1 DEF NotesInv, Mirrored
<1>4. CASE CycleStep
  <2>1. UNCHANGED <<notes, gone, changes, clock>> /\ Current' = Current
    BY <1>4, CycleLeaves DEF bearVars, Current
  <2>2. CASE StartCycle
    <3>1. req'.deleted = {} /\ UNCHANGED <<saved, hub>>
      BY <1>t, <2>2, StartEffect DEF EmptyReq
    <3>2. CASE saved = NULL
      BY <1>t, <2>1, <2>2, <3>1, <3>2, StartEffect DEF NotesInv, Mirrored
    <3>3. CASE saved # NULL
      <4>1. /\ phase' = "notes" /\ saved.LastDBModTime # changes
            /\ state'.LastSyncAt = saved.LastSyncAt /\ state'.KnownNoteIDs = saved.KnownNoteIDs
        BY <1>t, <2>2, <3>3, StartEffect DEF SameIDs
      <4> QED BY <1>k, <2>1, <3>1, <3>3, <4>1 DEF NotesInv, Mirrored
    <3> QED BY <3>2, <3>3
  <2>3. CASE Reads
    <3>1. UNCHANGED <<saved, state, hub>>
      BY <1>t, <2>3, ReadSteps
    <3>2. CASE ReadAllNotes
      <4>1. /\ phase = "all_notes" /\ phase' = "all_rest" /\ req'.deleted = req.deleted
            /\ DOMAIN req'.notes = Current /\ \A b \in Current : req'.notes[b] = notes[b].rev
        BY <1>t, <1>q, <3>2, ReadFields, ReadTypes DEF ReadAllNotes
      <4>2. saved = NULL
        BY <1>t, <4>1 DEF BridgeTypes
      <4> QED BY <2>1, <3>1, <4>1, <4>2 DEF NotesInv, Sent
    <3>3. CASE ReadNotes
      <4> DEFINE S == {b \in Current : notes[b].modified >= state.LastSyncAt}
      <4>1. /\ DOMAIN Revs(S) = S /\ \A b \in S : Revs(S)[b] = notes[b].rev
        BY <1>t, ReadTypes
      <4>2. /\ phase = "notes" /\ phase' = "tags" /\ req'.deleted = req.deleted
            /\ req'.notes = Revs(S)
        BY <1>q, <3>3, ReadFields DEF ReadNotes
      <4>3. state.LastSyncAt = saved.LastSyncAt
        BY <4>2 DEF NotesInv
      <4>4. /\ DOMAIN req'.notes = {b \in Current' : notes'[b].modified >= saved'.LastSyncAt}
            /\ \A b \in DOMAIN req'.notes : Sent(b)'
        BY <2>1, <3>1, <4>1, <4>2, <4>3 DEF Sent
      <4> HIDE DEF S
      <4> QED BY <2>1, <3>1, <4>2, <4>4 DEF NotesInv, Mirrored
    <3>4. CASE ReadAllRest \/ ReadTags \/ ReadFiles \/ ReadPairs
      <4>1. /\ req'.notes = req.notes /\ req'.deleted = req.deleted
            /\ \/ phase = "all_rest" /\ phase' = "push_notes"
               \/ phase \in ReadPhases \ {"notes"} /\ phase' \in ReadPhases \ {"notes"}
        BY <1>q, <3>4, ReadFields DEF ReadAllRest, ReadTags, ReadFiles, ReadPairs
      <4> QED BY <2>1, <3>1, <4>1 DEF NotesInv, Mirrored, Sent
    <3> QED BY <2>3, <3>2, <3>3, <3>4 DEF Reads
  <2>4. CASE JunctionFullScan
    <3>1. /\ phase = "full_scan" /\ phase' = "deletions" /\ UNCHANGED <<saved, hub>>
          /\ req'.notes = req.notes /\ req'.deleted = req.deleted
          /\ state'.LastSyncAt = state.LastSyncAt /\ state'.KnownNoteIDs = state.KnownNoteIDs
      BY <1>t, <2>4, ScanEffect DEF SameIDs
    <3> QED BY <2>1, <3>1 DEF NotesInv, Mirrored, Sent
  <2>5. CASE DetectDeletions
    <3>1. /\ phase = "deletions" /\ UNCHANGED hub /\ req'.notes = req.notes
          /\ req'.deleted = state.KnownNoteIDs \ Current
      BY <1>t, <2>5, DetectEffect
    <3>2. /\ saved # NULL /\ saved.KnownNoteIDs \subseteq Current \cup gone
          /\ state.KnownNoteIDs = saved.KnownNoteIDs /\ state.LastSyncAt = saved.LastSyncAt
          /\ \A b \in Current : notes[b].modified >= saved.LastSyncAt \/ Mirrored(b)
          /\ DOMAIN req.notes = {b \in Current : notes[b].modified >= saved.LastSyncAt}
          /\ \A b \in DOMAIN req.notes : Sent(b)
          /\ saved.LastDBModTime # changes
      BY <1>l, <3>1 DEF NotesInv
    <3>3. CASE /\ phase' = "idle" /\ saved' \in Known /\ saved'.LastSyncAt = state.LastSyncAt
               /\ SameIDs(saved', state) /\ DOMAIN req.notes = {}
      <4>1. \A b \in Current : Mirrored(b)
        BY <3>2, <3>3
      <4>2. saved'.KnownNoteIDs \subseteq Current \cup gone
        BY <3>2, <3>3 DEF SameIDs
      <4> QED BY <2>1, <3>1, <3>3, <4>1, <4>2 DEF NotesInv, Mirrored
    <3>4. CASE /\ phase' = "push" /\ UNCHANGED saved /\ state' \in Known
               /\ state'.LastSyncAt = clock /\ SameIDs(state', state)
      <4>1. state'.KnownNoteIDs = saved.KnownNoteIDs /\ state'.LastSyncAt >= saved.LastSyncAt
        BY <1>k, <1>q, <3>2, <3>4 DEF SameIDs
      <4>2. \A b \in Current : Sent(b)' \/ (b \notin DOMAIN req'.notes /\ Mirrored(b)')
        BY <2>1, <3>1, <3>2 DEF Mirrored, Sent
      <4>3. req'.deleted \subseteq gone'
        BY <2>1, <3>1, <3>2
      <4> QED BY <2>1, <3>1, <3>2, <3>4, <4>1, <4>2, <4>3 DEF NotesInv, Mirrored
    <3> QED BY <1>t, <2>5, <3>3, <3>4, DetectEffect
  <2>6. CASE PushNotes
    <3> DEFINE r == [EmptyReq EXCEPT !.notes = req.notes,
                                     !.pairs = [b \in DOMAIN req.notes |-> {}]]
    <3>1. /\ r \in Requests /\ r.notes = req.notes /\ r.deleted = {}
      BY <1>q, InitialRequests, InitialFields
    <3>2. PushThen(r, "push_meta") /\ phase = "push_notes" /\ UNCHANGED <<saved, state, req>>
      BY <2>6 DEF PushNotes
    <3> HIDE DEF r
    <3>3. saved = NULL /\ DOMAIN req.notes = Current /\ \A b \in Current : Sent(b)
      BY <1>t, <3>2 DEF BridgeTypes, NotesInv
    <3>4. CASE phase' = "idle"
      BY <2>1, <3>2, <3>3, <3>4 DEF NotesInv
    <3>5. CASE phase' = "push_meta"
      <4>1. /\ DOMAIN hub'.notes = (DOMAIN hub.notes \cup DOMAIN r.notes) \ r.deleted
            /\ \A b \in DOMAIN hub'.notes :
                 hub'.notes[b] = IF b \in DOMAIN r.notes THEN r.notes[b] ELSE hub.notes[b]
        BY <1>t, <3>1, <3>2, <3>5, PushEffect
      <4>2. \A b \in Current : Mirrored(b)'
        BY <2>1, <3>1, <3>3, <4>1 DEF Mirrored, Sent
      <4>3. \A b \in Current : Sent(b)'
        BY <2>1, <3>2, <3>3 DEF Sent
      <4> QED BY <2>1, <3>2, <3>3, <3>5, <4>2, <4>3 DEF NotesInv
    <3> QED BY <1>t, <3>1, <3>2, <3>4, <3>5, PushEffect
  <2>7. CASE PushMeta
    <3> DEFINE r == [req EXCEPT !.notes = <<>>]
    <3>1. r \in Requests /\ DOMAIN r.notes = {} /\ r.deleted = req.deleted
      BY <1>q, InitialRequests, InitialFields
    <3>2. PushThen(r, "upload_all") /\ phase = "push_meta" /\ UNCHANGED <<saved, state, req>>
      BY <2>7 DEF PushMeta
    <3> HIDE DEF r
    <3>3. /\ saved = NULL /\ DOMAIN req.notes = Current /\ req.deleted = {}
          /\ \A b \in Current : Sent(b) /\ Mirrored(b)
      BY <1>t, <3>2 DEF BridgeTypes, NotesInv
    <3>4. CASE phase' = "idle"
      BY <2>1, <3>2, <3>3, <3>4 DEF NotesInv
    <3>5. CASE phase' = "upload_all"
      <4>1. /\ DOMAIN hub'.notes = (DOMAIN hub.notes \cup DOMAIN r.notes) \ r.deleted
            /\ \A b \in DOMAIN hub'.notes :
                 hub'.notes[b] = IF b \in DOMAIN r.notes THEN r.notes[b] ELSE hub.notes[b]
        BY <1>t, <3>1, <3>2, <3>5, PushEffect
      <4>2. \A b \in Current : Mirrored(b)'
        BY <2>1, <3>1, <3>3, <4>1 DEF Mirrored
      <4>3. \A b \in Current : Sent(b)'
        BY <2>1, <3>2, <3>3 DEF Sent
      <4> QED BY <2>1, <3>2, <3>3, <3>5, <4>2, <4>3 DEF NotesInv
    <3> QED BY <1>t, <3>1, <3>2, <3>4, <3>5, PushEffect
  <2>8. CASE PushDelta
    <3>1. PushThen(req, "upload") /\ phase = "push" /\ UNCHANGED <<saved, state, req>>
      BY <2>8 DEF PushDelta
    <3>2. CASE phase' = "idle"
      <4>1. hub' = hub
        BY <1>t, <1>q, <3>1, <3>2, PushEffect
      <4> QED BY <2>1, <3>1, <3>2, <4>1 DEF NotesInv, Mirrored
    <3>3. CASE phase' = "upload"
      <4>1. /\ DOMAIN hub'.notes = (DOMAIN hub.notes \cup DOMAIN req.notes) \ req.deleted
            /\ \A b \in DOMAIN hub'.notes :
                 hub'.notes[b] = IF b \in DOMAIN req.notes THEN req.notes[b] ELSE hub.notes[b]
        BY <1>t, <1>q, <3>1, <3>3, PushEffect
      <4>2. \A b \in Current : b \notin req.deleted
        BY <1>t, <3>1 DEF NotesInv, BearInv
      <4>3. \A b \in Current : Sent(b) \/ Later(b) \/ (b \notin DOMAIN req.notes /\ Mirrored(b))
        BY <3>1 DEF NotesInv
      <4>4. \A b \in Current : Mirrored(b)' \/ Later(b)
        BY <2>1, <4>1, <4>2, <4>3 DEF Mirrored, Sent
      <4>5. \A b \in Current : Later(b) => Later(b)' /\ notes[b].modified >= saved.LastSyncAt
        BY <1>k, <1>l, <1>m, <2>1, <3>1 DEF Later, NotesInv
      <4>6. \A b \in Current : notes[b].modified >= saved.LastSyncAt \/ Mirrored(b)'
        BY <4>4, <4>5
      <4> QED BY <1>l, <2>1, <3>1, <3>3, <4>4, <4>5, <4>6 DEF NotesInv
    <3> QED BY <1>t, <1>q, <3>1, <3>2, <3>3, PushEffect
  <2>9. CASE UploadAll \/ UploadDelta
    <3>1. /\ hub'.notes = hub.notes /\ UNCHANGED <<saved, state, req>>
          /\ \/ phase = "upload_all" /\ phase' = "save_initial"
             \/ phase = "upload" /\ phase' = "known_ids"
      BY <1>t, <2>9, UploadKeepsHub DEF UploadAll, UploadDelta, BridgeTypes
    <3>2. \A b \in Current : /\ Mirrored(b)' = Mirrored(b) /\ Sent(b)' = Sent(b)
                             /\ Later(b)' = Later(b)
      BY <2>1, <3>1 DEF Mirrored, Sent, Later
    <3> QED BY <2>1, <3>1, <3>2 DEF NotesInv
  <2>10. CASE SaveInitial
    <3>1. /\ phase = "save_initial" /\ phase' = "idle" /\ UNCHANGED hub
          /\ saved'.KnownNoteIDs = DOMAIN req.notes
      BY <1>t, <2>10, SaveInitialEffect
    <3>2. DOMAIN req.notes = Current /\ \A b \in Current : Mirrored(b)
      BY <3>1 DEF NotesInv
    <3> QED BY <2>1, <3>1, <3>2 DEF NotesInv, Mirrored
  <2>11. CASE UpdateKnownIDs
    <3>1. /\ phase = "known_ids" /\ phase' = "idle" /\ UNCHANGED <<state, hub>>
          /\ saved'.LastSyncAt = state.LastSyncAt /\ saved'.LastDBModTime = state.LastDBModTime
          /\ saved'.KnownNoteIDs = Current
      BY <1>t, <2>11, UpdateEffect
    <3>2. \A b \in Current : Mirrored(b) \/ Later(b)
      BY <3>1 DEF NotesInv
    <3> QED BY <2>1, <3>1, <3>2 DEF NotesInv, Mirrored, Later
  <2> QED
    BY <1>4, <2>2, <2>3, <2>4, <2>5, <2>6, <2>7, <2>8, <2>9, <2>10, <2>11 DEF CycleStep, Reads
<1> QED BY <1>1, <1>2, <1>3, <1>4 DEF DeltaNext

\* NotesMirrored for every set of notes, where Bear's user may change anything
\* at any time but between the read of the notes and the time that is taken for
\* the next read: in that window, and only there, an edit can be left behind.
THEOREM NotesMirroredHolds ==
  ASSUME OpenPhases \cap NotesWindow = {}
  PROVE  DeltaSpec => []NotesMirrored
<1>1. DeltaSpec => []DeltaTypes
  BY TypesInit, TypesStep, PTL DEF DeltaSpec
<1>2. NotesInv => NotesMirrored
  BY DEF NotesInv, NotesMirrored, NothingToDo, Mirrored
<1> QED BY <1>1, <1>2, NotesInit, NotesStep, PTL DEF DeltaSpec

-----------------------------------------------------------------------------
(***************************************************************************)
(* The request, when Bear does not change during a cycle                   *)
(***************************************************************************)
LEMMA RequestInit == DeltaInit => RequestInv
BY DEF DeltaInit, RequestInv, InitialPhases, DeltaPhases, ReadPhases, SendPhases

LEMMA RequestStep ==
  ASSUME OpenPhases = {}
  PROVE  DeltaTypes /\ NotesInv /\ RequestInv /\ [DeltaNext]_deltaVars => RequestInv'
<1> SUFFICES ASSUME DeltaTypes, NotesInv, RequestInv, [DeltaNext]_deltaVars PROVE RequestInv'
  OBVIOUS
<1> USE DEF InitialPhases, DeltaPhases, ReadPhases, SendPhases
<1>t. BearTypes /\ BearInv /\ BridgeTypes /\ HubInv
  BY DEF DeltaTypes
<1>q. req \in Requests
  BY <1>t DEF BridgeTypes
<1>1. CASE UserChanges \/ Crash
  <2>1. phase' = "idle"
    BY <1>1, UserLeaves DEF Crash
  <2> QED BY <2>1 DEF RequestInv
<1>2. CASE Tick \/ UNCHANGED deltaVars
  <2>1. /\ UNCHANGED <<notes, tags, files, dates, saved, state, phase, req, hub>>
        /\ Current' = Current /\ CurrentTags' = CurrentTags
        /\ TitlesOf(CurrentTags)' = TitlesOf(CurrentTags)
    BY <1>2 DEF Tick, deltaVars, bearVars, Current, CurrentTags, TitlesOf
  <2> QED BY <2>1 DEF RequestInv, Sent
<1>3. CASE CycleStep
  <2>1. /\ UNCHANGED <<notes, tags, files, dates>>
        /\ Current' = Current /\ CurrentTags' = CurrentTags
        /\ TitlesOf(CurrentTags)' = TitlesOf(CurrentTags)
    BY <1>3, CycleLeaves DEF bearVars, Current, CurrentTags, TitlesOf
  <2>2. CASE StartCycle
    <3>1. req' = EmptyReq
      BY <1>t, <2>2, StartEffect
    <3>2. /\ DOMAIN req'.notes = {} /\ req'.deletedTags = {} /\ req'.deletedFiles = {}
      BY <3>1, EmptyRequest DEF EmptyReq
    <3>3. CASE saved = NULL
      BY <1>t, <2>2, <3>2, <3>3, StartEffect DEF RequestInv
    <3>4. CASE saved # NULL
      <4>1. /\ phase' = "notes" /\ UNCHANGED saved
            /\ state'.KnownTagIDs = saved.KnownTagIDs
            /\ state'.KnownAttachmentIDs = saved.KnownAttachmentIDs
        BY <1>t, <2>2, <3>4, StartEffect DEF SameIDs
      <4> QED BY <3>2, <4>1 DEF RequestInv
    <3> QED BY <3>3, <3>4
  <2>3. CASE Reads
    <3>1. UNCHANGED <<saved, state, hub>>
      BY <1>t, <2>3, ReadSteps
    <3>2. CASE ReadAllNotes
      <4>1. /\ phase = "all_notes" /\ phase' = "all_rest"
            /\ req'.deletedTags = req.deletedTags /\ req'.deletedFiles = req.deletedFiles
        BY <1>q, <3>2, ReadFields DEF ReadAllNotes
      <4> QED BY <4>1 DEF RequestInv
    <3>3. CASE ReadAllRest
      <4>1. /\ phase = "all_rest" /\ phase' = "push_notes"
            /\ req'.tags = TitlesOf(CurrentTags) /\ req'.files = files
            /\ req'.deletedTags = req.deletedTags /\ req'.deletedFiles = req.deletedFiles
        BY <1>q, <3>3, ReadFields DEF ReadAllRest
      <4> QED BY <2>1, <4>1 DEF RequestInv
    <3>4. CASE ReadNotes
      <4> DEFINE S == {b \in Current : notes[b].modified >= state.LastSyncAt}
      <4>1. /\ DOMAIN Revs(S) = S /\ \A b \in S : Revs(S)[b] = notes[b].rev
        BY <1>t, ReadTypes
      <4>2. phase = "notes" /\ phase' = "tags" /\ req'.notes = Revs(S)
        BY <1>q, <3>4, ReadFields DEF ReadNotes
      <4>3. \A b \in DOMAIN req'.notes : b \in Current' /\ Sent(b)'
        BY <2>1, <4>1, <4>2 DEF Sent
      <4> HIDE DEF S
      <4> QED BY <3>1, <4>2, <4>3 DEF RequestInv
    <3>5. CASE ReadTags
      <4> DEFINE S == {t \in CurrentTags : tags[t].modified >= state.LastSyncAt}
      <4>1. /\ DOMAIN TitlesOf(S) = S /\ \A t \in S : TitlesOf(S)[t] = tags[t].title
        BY <1>t, ReadTypes
      <4>2. /\ phase = "tags" /\ phase' = "files" /\ req'.tags = TitlesOf(S)
            /\ req'.notes = req.notes
        BY <1>q, <3>5, ReadFields DEF ReadTags
      <4>3. \A t \in DOMAIN req'.tags : t \in CurrentTags' /\ req'.tags[t] = tags'[t].title
        BY <2>1, <4>1, <4>2
      <4>4. \A b \in DOMAIN req'.notes : b \in Current' /\ Sent(b)'
        BY <2>1, <4>2 DEF RequestInv, Sent
      <4> HIDE DEF S
      <4> QED BY <3>1, <4>2, <4>3, <4>4 DEF RequestInv
    <3>6. CASE ReadFiles
      <4>1. /\ phase = "files" /\ phase' = "pairs"
            /\ req'.files = {f \in files : \/ dates[f] >= state.LastSyncAt
                                           \/ f \notin state.KnownAttachmentIDs}
            /\ req'.deletedFiles = state.KnownAttachmentIDs \ files
            /\ req'.notes = req.notes /\ req'.tags = req.tags
        BY <1>q, <3>6, ReadFields DEF ReadFiles
      <4>2. /\ state.LastSyncAt = saved.LastSyncAt
            /\ state.KnownAttachmentIDs = saved.KnownAttachmentIDs
        BY <4>1 DEF NotesInv, RequestInv
      <4>3. \A b \in DOMAIN req'.notes : b \in Current' /\ Sent(b)'
        BY <2>1, <4>1 DEF RequestInv, Sent
      <4>4. \A t \in DOMAIN req'.tags : t \in CurrentTags' /\ req'.tags[t] = tags'[t].title
        BY <2>1, <4>1 DEF RequestInv
      <4>5. /\ req'.files = {f \in files' : \/ dates'[f] >= saved'.LastSyncAt
                                            \/ f \notin saved'.KnownAttachmentIDs}
            /\ req'.deletedFiles = saved'.KnownAttachmentIDs \ files'
        BY <2>1, <3>1, <4>1, <4>2
      <4> QED BY <3>1, <4>1, <4>3, <4>4, <4>5 DEF RequestInv
    <3>7. CASE ReadPairs
      <4>1. /\ phase = "pairs" /\ phase' \in {"full_scan", "deletions"}
            /\ req'.notes = req.notes /\ req'.tags = req.tags
            /\ req'.files = req.files /\ req'.deletedFiles = req.deletedFiles
        BY <1>q, <3>7, ReadFields DEF ReadPairs
      <4> QED BY <2>1, <3>1, <4>1 DEF RequestInv, Sent
    <3> QED BY <2>3, <3>2, <3>3, <3>4, <3>5, <3>6, <3>7 DEF Reads
  <2>4. CASE JunctionFullScan
    <3>1. /\ phase = "full_scan" /\ phase' = "deletions" /\ UNCHANGED saved
          /\ req'.notes = req.notes /\ req'.tags = req.tags /\ req'.files = req.files
          /\ req'.deletedFiles = req.deletedFiles
          /\ state'.KnownTagIDs = state.KnownTagIDs
          /\ state'.KnownAttachmentIDs = state.KnownAttachmentIDs
      BY <1>t, <2>4, ScanEffect DEF SameIDs
    <3> QED BY <2>1, <3>1 DEF RequestInv, Sent
  <2>5. CASE DetectDeletions
    <3>1. /\ phase = "deletions" /\ UNCHANGED hub
          /\ req'.notes = req.notes /\ req'.tags = req.tags
          /\ req'.files = req.files /\ req'.deletedFiles = req.deletedFiles
          /\ req'.deleted = state.KnownNoteIDs \ Current
          /\ req'.deletedTags = state.KnownTagIDs \ CurrentTags
      BY <1>t, <2>5, DetectEffect
    <3>2. CASE phase' = "idle"
      BY <3>2 DEF RequestInv
    <3>3. CASE phase' = "push" /\ UNCHANGED saved /\ SameIDs(state', state)
      <4>1. /\ state.KnownNoteIDs = saved.KnownNoteIDs /\ saved # NULL
            /\ \A b \in Current : b \in DOMAIN req.notes \/ b \in DOMAIN hub.notes
        BY <1>t, <3>1 DEF NotesInv, BridgeTypes, Mirrored
      <4>2. state'.KnownTagIDs = state.KnownTagIDs
            /\ state'.KnownAttachmentIDs = state.KnownAttachmentIDs
        BY <3>3 DEF SameIDs
      <4> QED BY <2>1, <3>1, <3>3, <4>1, <4>2 DEF RequestInv, Sent
    <3> QED BY <1>t, <2>5, <3>2, <3>3, DetectEffect
  <2>6. CASE PushNotes \/ PushMeta \/ PushDelta
    <3>1. /\ UNCHANGED <<saved, state, req>>
          /\ \/ phase' = "idle"
             \/ phase = "push_notes" /\ phase' = "push_meta"
             \/ phase = "push_meta" /\ phase' = "upload_all"
             \/ phase = "push" /\ phase' = "upload"
      BY <2>6 DEF PushNotes, PushMeta, PushDelta, PushThen
    <3> QED BY <2>1, <3>1 DEF RequestInv, Sent
  <2>7. CASE UploadAll \/ UploadDelta
    <3>1. /\ UNCHANGED <<saved, state, req>>
          /\ \/ phase = "upload_all" /\ phase' = "save_initial"
             \/ phase = "upload" /\ phase' = "known_ids"
      BY <2>7 DEF UploadAll, UploadDelta, Upload
    <3> QED BY <2>1, <3>1 DEF RequestInv, Sent
  <2>8. CASE SaveInitial \/ UpdateKnownIDs
    <3>1. phase' = "idle"
      BY <2>8 DEF SaveInitial, UpdateKnownIDs
    <3> QED BY <3>1 DEF RequestInv
  <2> QED
    BY <1>3, <2>2, <2>3, <2>4, <2>5, <2>6, <2>7, <2>8 DEF CycleStep, Reads
<1> QED BY <1>1, <1>2, <1>3 DEF DeltaNext

-----------------------------------------------------------------------------
(***************************************************************************)
(* FilesServed                                                             *)
(***************************************************************************)
\* The requests that carry files are accepted only with the files' note in the
\* hub, so none of Bear's files is left out.
LEMMA DeltaPushFiles ==
  ASSUME DeltaTypes, RequestInv, PushDelta, phase' = "upload"
  PROVE  /\ hub'.files \subseteq hub.files \cup req.files
         /\ \A f \in files : f \in hub.files \cup req.files => f \in hub'.files
         /\ \A f \in files \ req.files : f \in hub.served => f \in hub'.served
<1> USE DEF DeltaPhases, SendPhases
<1>t. BearInv /\ BridgeTypes /\ HubInv /\ req \in Requests
  BY DEF DeltaTypes, BridgeTypes
<1>1. PushThen(req, "upload") /\ phase = "push"
  BY DEF PushDelta
<1>2. /\ DOMAIN hub'.notes = (DOMAIN hub.notes \cup DOMAIN req.notes) \ req.deleted
      /\ hub'.files = FilesAfter(req) /\ hub'.served = ServedAfter(req)
      /\ (FileNote \in DOMAIN NotesAfter(req)) = (FileNote \in DOMAIN hub'.notes)
  BY <1>t, <1>1, PushEffect
<1>3. /\ req.deleted = saved.KnownNoteIDs \ Current
      /\ \A b \in Current : b \in DOMAIN req.notes \/ b \in DOMAIN hub.notes
      /\ req.deletedFiles = saved.KnownAttachmentIDs \ files
  BY <1>1 DEF RequestInv
<1>4. files # {} => FileNote \in DOMAIN NotesAfter(req)
  BY <1>t, <1>2, <1>3 DEF BearInv
<1>5. hub'.files \subseteq hub.files \cup req.files
  BY <1>2 DEF FilesAfter
<1>6. \A f \in files : f \in hub.files \cup req.files => f \in FilesAfter(req)
  BY <1>3, <1>4 DEF FilesAfter
<1>7. \A f \in files \ req.files : f \in hub.served => f \in ServedAfter(req)
  BY <1>t, <1>6 DEF ServedAfter, HubInv
<1> QED BY <1>2, <1>5, <1>6, <1>7

LEMMA MetaPushFiles ==
  ASSUME DeltaTypes, NotesInv, RequestInv, PushMeta, phase' = "upload_all"
  PROVE  /\ hub'.files \subseteq hub.files \cup files
         /\ \A f \in files : f \in hub'.files
<1> DEFINE r == [req EXCEPT !.notes = <<>>]
<1>t. BearInv /\ HubInv /\ req \in Requests
  BY DEF DeltaTypes, BridgeTypes
<1>1. PushThen(r, "upload_all") /\ phase = "push_meta"
  BY DEF PushMeta
<1>2. /\ r \in Requests /\ DOMAIN r.notes = {} /\ r.files = files /\ r.deleted = {} /\ r.deletedFiles = {}
  BY <1>t, <1>1, InitialRequests, InitialFields DEF RequestInv, NotesInv, InitialPhases
<1> HIDE DEF r
<1>3. /\ DOMAIN hub'.notes = (DOMAIN hub.notes \cup DOMAIN r.notes) \ r.deleted
      /\ hub'.files = FilesAfter(r)
      /\ (FileNote \in DOMAIN NotesAfter(r)) = (FileNote \in DOMAIN hub'.notes)
  BY <1>t, <1>1, <1>2, PushEffect
<1>4. \A b \in Current : b \in DOMAIN hub.notes
  BY <1>1 DEF NotesInv, Mirrored
<1>5. files # {} => FileNote \in DOMAIN NotesAfter(r)
  BY <1>t, <1>2, <1>3, <1>4 DEF BearInv
<1> QED BY <1>2, <1>3, <1>5 DEF FilesAfter

\* What an upload leaves: each file of the request is on the hub or missed.
LEMMA UploadFiles ==
  ASSUME HubInv, req \in Requests, NEW next, Upload(next)
  PROVE  /\ \A f \in hub.files : Served(f) \/ f \in req.files => Served(f)'
         /\ hub'.blobs \subseteq hub.blobs \cup hub.files
<1>1. PICK S \in SUBSET req.files : hub' = SyncUploadAttachment(S) /\ missed' = (missed \cup req.files) \ S
  BY DEF Upload
<1>2. /\ hub' = [hub EXCEPT !.blobs = @ \cup (S \cap hub.files), !.served = @ \cup (S \cap hub.files)]
      /\ hub \in Hubs
  BY <1>1 DEF SyncUploadAttachment, HubInv
<1>3. /\ hub'.files = hub.files /\ hub'.served = hub.served \cup (S \cap hub.files)
      /\ hub'.blobs = hub.blobs \cup (S \cap hub.files)
  BY <1>2 DEF Hubs
<1> QED BY <1>1, <1>3 DEF Served

LEMMA FilesInit == DeltaInit => FilesInv
BY DEF DeltaInit, FilesInv

LEMMA FilesStep ==
  ASSUME OpenPhases = {}
  PROVE  DeltaTypes /\ NotesInv /\ RequestInv /\ FilesInv /\ [DeltaNext]_deltaVars => FilesInv'
<1> SUFFICES ASSUME DeltaTypes, NotesInv, RequestInv, FilesInv, [DeltaNext]_deltaVars
             PROVE  FilesInv'
  OBVIOUS
<1> USE DEF InitialPhases, DeltaPhases, ReadPhases, SendPhases
<1>t. BearTypes /\ BearInv /\ BridgeTypes /\ HubInv
  BY DEF DeltaTypes
<1>q. req \in Requests /\ clock \in Nat /\ changes \in Nat
  BY <1>t DEF BridgeTypes, BearTypes
<1>k. saved # NULL => saved \in Known /\ saved.LastSyncAt \in Nat /\ saved.LastDBModTime \in Nat
                      /\ saved.LastSyncAt <= clock /\ saved.LastDBModTime <= changes
  BY <1>t, StateFields DEF BridgeTypes, StateInv
<1>1. CASE UserChanges
  <2>1. /\ UNCHANGED <<clock, saved, hub, missed>> /\ changes' = changes + 1 /\ phase' = "idle"
    BY <1>1, UserLeaves
  <2>2. /\ gone \subseteq gone' /\ files \subseteq files' \cup gone'
        /\ \A f \in files' : \/ f \in files /\ dates'[f] \in {dates[f], clock}
                             \/ f \notin files \cup gone
    BY <1>1, <1>t, UserEffect
  <2>3. \A f : Served(f)' = Served(f)
    BY <2>1 DEF Served
  <2> QED BY <1>q, <1>k, <2>1, <2>2, <2>3 DEF FilesInv
<1>2. CASE Tick \/ Crash \/ UNCHANGED deltaVars
  <2>1. /\ UNCHANGED <<files, dates, gone, changes, saved, req, hub, missed>>
        /\ phase' \in {phase, "idle"}
    BY <1>2 DEF Tick, Crash, deltaVars, bearVars
  <2> QED BY <2>1 DEF FilesInv, Served
<1>3. CASE CycleStep
  <2>1. UNCHANGED <<files, dates, gone, changes, clock>>
    BY <1>3, CycleLeaves DEF bearVars
  <2>2. CASE StartCycle \/ Reads \/ JunctionFullScan
    <3>1. UNCHANGED <<saved, hub, missed>>
      BY <1>t, <2>2, StartEffect, ReadSteps, ScanEffect
    <3>2. phase' \notin {"upload", "upload_all", "known_ids", "save_initial"}
      BY <2>2 DEF StartCycle, JunctionFullScan, Reads, ReadAllNotes, ReadAllRest, ReadNotes,
                  ReadTags, ReadFiles, ReadPairs
    <3> QED BY <2>1, <3>1, <3>2 DEF FilesInv, Served
  <2>3. CASE DetectDeletions
    <3>1. /\ phase = "deletions" /\ UNCHANGED <<hub, missed>>
      BY <1>t, <2>3, DetectEffect
    <3>2. CASE /\ phase' = "idle" /\ saved' \in Known /\ saved'.LastSyncAt = state.LastSyncAt
               /\ SameIDs(saved', state) /\ req.files = {}
      <4>1. /\ saved # NULL /\ state.LastSyncAt = saved.LastSyncAt
            /\ state.KnownAttachmentIDs = saved.KnownAttachmentIDs
            /\ req.files = {f \in files : \/ dates[f] >= saved.LastSyncAt
                                          \/ f \notin saved.KnownAttachmentIDs}
        BY <1>t, <3>1 DEF BridgeTypes, NotesInv, RequestInv
      <4>2. \A f \in files : Served(f)
        BY <3>2, <4>1 DEF FilesInv
      <4>3. saved'.KnownAttachmentIDs \subseteq files \cup gone
        BY <3>2, <4>1 DEF SameIDs, FilesInv
      <4> QED BY <2>1, <3>1, <3>2, <4>2, <4>3 DEF FilesInv, Served
    <3>3. CASE phase' = "push" /\ UNCHANGED saved
      BY <2>1, <3>1, <3>3 DEF FilesInv, Served
    <3> QED BY <1>t, <2>3, <3>2, <3>3, DetectEffect
  <2>4. CASE PushNotes
    <3>1. saved = NULL /\ UNCHANGED saved /\ phase' \in {"idle", "push_meta"}
      BY <1>t, <2>4 DEF PushNotes, PushThen, BridgeTypes
    <3> QED BY <3>1 DEF FilesInv
  <2>5. CASE PushMeta
    <3>1. /\ saved = NULL /\ UNCHANGED <<saved, req>> /\ phase' \in {"idle", "upload_all"}
          /\ req.files = files
      BY <1>t, <2>5 DEF PushMeta, PushThen, BridgeTypes, RequestInv
    <3>2. phase' = "upload_all" => \A f \in files : f \in hub'.files
      BY <2>5, MetaPushFiles
    <3> QED BY <2>1, <3>1, <3>2 DEF FilesInv
  <2>6. CASE PushDelta
    <3>1. /\ PushThen(req, "upload") /\ phase = "push" /\ UNCHANGED <<saved, state, req, missed>>
      BY <2>6 DEF PushDelta, Keep
    <3>2. /\ saved # NULL /\ saved.LastDBModTime # changes
          /\ req.files = {f \in files : \/ dates[f] >= saved.LastSyncAt
                                        \/ f \notin saved.KnownAttachmentIDs}
      BY <1>t, <3>1 DEF BridgeTypes, NotesInv, RequestInv
    <3>3. CASE phase' = "idle"
      <4>1. hub' = hub
        BY <1>t, <1>q, <3>1, <3>3, PushEffect
      <4> QED BY <2>1, <3>1, <3>3, <4>1 DEF FilesInv, Served
    <3>4. CASE phase' = "upload"
      <4>1. /\ \A f \in files : f \in hub.files \cup req.files => f \in hub'.files
            /\ \A f \in files \ req.files : f \in hub.served => f \in hub'.served
        BY <2>6, <3>4, DeltaPushFiles
      <4>2. \A f \in files \ req.files : Served(f) /\ Served(f)'
        BY <3>1, <3>2, <4>1 DEF FilesInv, Served
      <4>3. \A f \in files : f \in hub'.files
        BY <4>1, <4>2 DEF Served
      <4> QED BY <2>1, <3>1, <3>2, <3>4, <4>2, <4>3 DEF FilesInv
    <3> QED BY <1>t, <1>q, <3>1, <3>3, <3>4, PushEffect
  <2>7. CASE UploadAll \/ UploadDelta
    <3>1. /\ UNCHANGED <<saved, req>>
          /\ \/ phase = "upload_all" /\ phase' = "save_initial"
             \/ phase = "upload" /\ phase' = "known_ids"
          /\ \A f \in hub.files : Served(f) \/ f \in req.files => Served(f)'
      BY <1>t, <1>q, <2>7, UploadFiles DEF UploadAll, UploadDelta, Upload
    <3>2. \A f \in files : Served(f)'
      BY <3>1 DEF FilesInv
    <3> QED BY <2>1, <3>1, <3>2 DEF FilesInv
  <2>8. CASE SaveInitial
    <3>1. /\ phase = "save_initial" /\ phase' = "idle" /\ UNCHANGED <<hub, missed>>
          /\ saved'.KnownAttachmentIDs = req.files
      BY <1>t, <2>8, SaveInitialEffect
    <3>2. req.files = files /\ \A f \in files : Served(f)
      BY <3>1 DEF RequestInv, FilesInv
    <3> QED BY <2>1, <3>1, <3>2 DEF FilesInv, Served
  <2>9. CASE UpdateKnownIDs
    <3>1. /\ phase = "known_ids" /\ phase' = "idle" /\ UNCHANGED <<hub, missed>>
          /\ saved'.KnownAttachmentIDs = files
      BY <1>t, <2>9, UpdateEffect
    <3>2. \A f \in files : Served(f)
      BY <3>1 DEF FilesInv
    <3> QED BY <2>1, <3>1, <3>2 DEF FilesInv, Served
  <2> QED
    BY <1>3, <2>2, <2>3, <2>4, <2>5, <2>6, <2>7, <2>8, <2>9 DEF CycleStep, Reads
<1> QED BY <1>1, <1>2, <1>3 DEF DeltaNext

\* What holds of a bridge whose cycles Bear's changes do not meet.
LEMMA QuietInvariants ==
  ASSUME OpenPhases = {}
  PROVE  DeltaSpec => [](DeltaTypes /\ NotesInv /\ RequestInv /\ FilesInv)
<1>1. DeltaSpec => []DeltaTypes
  BY TypesInit, TypesStep, PTL DEF DeltaSpec
<1>2. DeltaTypes /\ DeltaTypes' /\ NotesInv /\ [DeltaNext]_deltaVars => NotesInv'
  BY NotesStep DEF NotesWindow
<1>3. DeltaTypes /\ NotesInv /\ RequestInv /\ [DeltaNext]_deltaVars => RequestInv'
  BY RequestStep
<1>4. DeltaTypes /\ NotesInv /\ RequestInv /\ FilesInv /\ [DeltaNext]_deltaVars => FilesInv'
  BY FilesStep
<1> QED
  BY <1>1, <1>2, <1>3, <1>4, NotesInit, RequestInit, FilesInit, PTL DEF DeltaSpec

\* FilesServed, whatever cycles are killed or refused: when the next cycle would
\* be skipped, the hub has every attachment of Bear, and its file, unless the
\* last upload of it failed.
THEOREM FilesServedHolds ==
  ASSUME OpenPhases = {}
  PROVE  DeltaSpec => []FilesServed
<1>1. FilesInv => FilesServed
  BY DEF FilesInv, FilesServed, NothingToDo, Served
<1> QED BY <1>1, QuietInvariants, PTL

-----------------------------------------------------------------------------
(***************************************************************************)
(* NoGhosts, NoStrayBlobs                                                  *)
(***************************************************************************)
\* The first export is not refused: the hub has no tag yet, Bear's have
\* different titles, and the files' note was pushed before them.
LEMMA FirstExportAccepted ==
  ASSUME DeltaTypes, NotesInv, RequestInv, DOMAIN hub.tags = {}
  PROVE  /\ PushNotes => phase' = "push_meta"
         /\ PushMeta => phase' = "upload_all"
<1>t. BearTypes /\ BearInv /\ HubInv /\ req \in Requests
  BY DEF DeltaTypes, BridgeTypes
<1>1. ASSUME PushNotes PROVE phase' = "push_meta"
  <2> DEFINE r == [EmptyReq EXCEPT !.notes = req.notes,
                                   !.pairs = [b \in DOMAIN req.notes |-> {}]]
  <2>1. r \in Requests /\ DOMAIN r.tags = {} /\ r.files = {}
    BY <1>t, InitialRequests, InitialFields
  <2>2. PushThen(r, "push_meta")
    BY <1>1 DEF PushNotes
  <2> HIDE DEF r
  <2>3. ~ Refused(r)
    BY <2>1 DEF Refused, TitleClash, Dangling
  <2> QED BY <2>2, <2>3 DEF PushThen
<1>2. ASSUME PushMeta PROVE phase' = "upload_all"
  <2> DEFINE r == [req EXCEPT !.notes = <<>>]
  <2>1. PushThen(r, "upload_all") /\ phase = "push_meta"
    BY <1>2 DEF PushMeta
  <2>2. r.tags = TitlesOf(CurrentTags) /\ r.files = files
    BY <1>t, <2>1, InitialFields DEF RequestInv
  <2> HIDE DEF r
  <2>3. /\ DOMAIN r.tags = CurrentTags
        /\ \A t \in CurrentTags : r.tags[t] = tags[t].title /\ tags[t].title \in Titles
    BY <1>t, <2>2, ReadTypes, CurrentRows
  <2>4. ~ TitleClash(r)
    <3> SUFFICES ASSUME NEW t \in DOMAIN r.tags, NEW u \in TagsThen(r) \ {t},
                        TitleThen(r, u, t) = r.tags[t]
                 PROVE  FALSE
      BY DEF TitleClash
    <3>1. u \in CurrentTags /\ t \in CurrentTags /\ u # t
      BY <2>3 DEF TagsThen
    <3>2. TitleThen(r, u, t) = r.tags[u] \/ TitleThen(r, u, t) = NULL
      BY DEF TitleThen
    <3>3. tags[u].title # tags[t].title
      BY <1>t, <3>1 DEF BearInv
    <3> QED BY <2>3, <3>1, <3>2, <3>3, KindsApart
  <2>5. ~ Dangling(r)
    <3>1. \A b \in Current : b \in DOMAIN hub.notes
      BY <2>1 DEF NotesInv, Mirrored
    <3> QED BY <1>t, <2>2, <3>1 DEF Dangling, NotesThen, BearInv
  <2> QED BY <2>1, <2>4, <2>5 DEF Refused, PushThen
<1> QED BY <1>1, <1>2

LEMMA CleanInit == DeltaInit => CleanInv
<1> SUFFICES ASSUME DeltaInit PROVE CleanInv
  OBVIOUS
<1>1. DOMAIN hub.notes = {} /\ DOMAIN hub.tags = {} /\ hub.files = {} /\ hub.blobs = {}
  BY EmptyFunction DEF DeltaInit
<1> QED BY <1>1 DEF DeltaInit, CleanInv

LEMMA CleanStep ==
  ASSUME OpenPhases = {}
  PROVE  DeltaTypes /\ NotesInv /\ RequestInv /\ CleanInv /\ [DeltaNext]_deltaVars => CleanInv'
<1> SUFFICES ASSUME DeltaTypes, NotesInv, RequestInv, CleanInv, [DeltaNext]_deltaVars,
                    crashes' = 0
             PROVE  CleanInv'
  BY DEF CleanInv
<1> USE DEF InitialPhases, DeltaPhases, ReadPhases, SendPhases
<1>t. BearTypes /\ BearInv /\ BridgeTypes /\ HubInv
  BY DEF DeltaTypes
<1>q. req \in Requests /\ changes \in Nat /\ crashes \in Nat
  BY <1>t DEF BridgeTypes, BearTypes
<1>k. saved # NULL => saved.LastDBModTime \in Nat /\ saved.LastDBModTime <= changes
  BY <1>t, StateFields DEF BridgeTypes, StateInv
<1>1. CASE UserChanges
  <2>1. UNCHANGED <<saved, hub, phase, crashes>> /\ changes' = changes + 1 /\ phase = "idle"
    BY <1>1, UserLeaves
  <2> QED BY <1>q, <1>k, <2>1 DEF CleanInv
<1>2. CASE Tick \/ UNCHANGED deltaVars
  <2>1. /\ UNCHANGED <<files, changes, saved, hub, phase, crashes>>
        /\ Current' = Current /\ CurrentTags' = CurrentTags
    BY <1>2 DEF Tick, deltaVars, bearVars, Current, CurrentTags
  <2> QED BY <2>1 DEF CleanInv
<1>3. CASE Crash
  <2>1. crashes' = crashes + 1
    BY <1>3 DEF Crash
  <2> QED BY <1>q, <2>1
<1>4. CASE CycleStep
  <2>1. /\ UNCHANGED <<files, changes>> /\ crashes = 0
        /\ Current' = Current /\ CurrentTags' = CurrentTags
    BY <1>4, CycleLeaves DEF bearVars, Current, CurrentTags
  <2>2. CASE StartCycle \/ Reads \/ JunctionFullScan
    <3>1. UNCHANGED <<saved, hub>>
      BY <1>t, <2>2, StartEffect, ReadSteps, ScanEffect
    <3>2. {phase, phase'} \cap {"push_meta", "upload", "upload_all", "known_ids", "save_initial"} = {}
      BY <2>2 DEF StartCycle, JunctionFullScan, Reads, ReadAllNotes, ReadAllRest, ReadNotes,
                  ReadTags, ReadFiles, ReadPairs
    <3> QED BY <2>1, <3>1, <3>2 DEF CleanInv
  <2>3. CASE DetectDeletions
    <3>1. phase = "deletions" /\ UNCHANGED hub
      BY <1>t, <2>3, DetectEffect
    <3>2. /\ saved # NULL /\ state.KnownNoteIDs = saved.KnownNoteIDs
          /\ state.KnownTagIDs = saved.KnownTagIDs
          /\ state.KnownAttachmentIDs = saved.KnownAttachmentIDs
      BY <1>t, <3>1 DEF BridgeTypes, NotesInv, RequestInv
    <3>3. CASE /\ phase' = "idle" /\ saved' \in Known /\ SameIDs(saved', state)
               /\ state.KnownNoteIDs \subseteq Current /\ state.KnownTagIDs \subseteq CurrentTags
      <4>1. saved' # NULL /\ saved'.KnownNoteIDs = saved.KnownNoteIDs
            /\ saved'.KnownTagIDs = saved.KnownTagIDs
            /\ saved'.KnownAttachmentIDs = saved.KnownAttachmentIDs
        BY <3>2, <3>3, KindsApart DEF SameIDs
      <4> QED BY <2>1, <3>1, <3>2, <3>3, <4>1 DEF CleanInv
    <3>4. CASE phase' = "push" /\ UNCHANGED saved
      BY <2>1, <3>1, <3>2, <3>4 DEF CleanInv
    <3> QED BY <1>t, <2>3, <3>3, <3>4, DetectEffect
  <2>4. CASE PushNotes
    <3> DEFINE r == [EmptyReq EXCEPT !.notes = req.notes,
                                     !.pairs = [b \in DOMAIN req.notes |-> {}]]
    <3>1. /\ r \in Requests /\ r.notes = req.notes /\ DOMAIN r.tags = {} /\ r.files = {}
          /\ r.deleted = {}
      BY <1>q, InitialRequests, InitialFields
    <3>2. PushThen(r, "push_meta") /\ phase = "push_notes" /\ UNCHANGED saved
      BY <2>4 DEF PushNotes
    <3> HIDE DEF r
    <3>3. /\ saved = NULL /\ DOMAIN req.notes = Current
          /\ DOMAIN hub.notes = {} /\ DOMAIN hub.tags = {} /\ hub.files = {} /\ hub.blobs = {}
      BY <1>t, <2>1, <3>2 DEF BridgeTypes, NotesInv, CleanInv
    <3>4. phase' = "push_meta"
      BY <2>4, <3>3, FirstExportAccepted
    <3>5. /\ DOMAIN hub'.notes = (DOMAIN hub.notes \cup DOMAIN r.notes) \ r.deleted
          /\ DOMAIN hub'.tags = (DOMAIN hub.tags \cup DOMAIN r.tags) \ r.deletedTags
          /\ hub'.files = FilesAfter(r) /\ hub'.blobs = hub.blobs \ CleanupIDs(r)
      BY <1>t, <3>1, <3>2, <3>4, PushEffect
    <3>6. hub'.files = {}
      BY <3>1, <3>3, <3>5 DEF FilesAfter
    <3> QED BY <2>1, <3>1, <3>2, <3>3, <3>4, <3>5, <3>6 DEF CleanInv
  <2>5. CASE PushMeta
    <3> DEFINE r == [req EXCEPT !.notes = <<>>]
    <3>1. r \in Requests /\ DOMAIN r.notes = {} /\ r.tags = req.tags
      BY <1>q, InitialRequests, InitialFields
    <3>2. PushThen(r, "upload_all") /\ phase = "push_meta" /\ UNCHANGED saved
      BY <2>5 DEF PushMeta
    <3> HIDE DEF r
    <3>3. /\ saved = NULL /\ req.tags = TitlesOf(CurrentTags) /\ DOMAIN hub.notes \subseteq Current
          /\ DOMAIN hub.tags = {} /\ hub.files = {} /\ hub.blobs = {}
      BY <1>t, <2>1, <3>2 DEF BridgeTypes, RequestInv, CleanInv
    <3>4. phase' = "upload_all"
      BY <2>5, <3>3, FirstExportAccepted
    <3>5. /\ DOMAIN hub'.notes = (DOMAIN hub.notes \cup DOMAIN r.notes) \ r.deleted
          /\ DOMAIN hub'.tags = (DOMAIN hub.tags \cup DOMAIN r.tags) \ r.deletedTags
          /\ hub'.blobs = hub.blobs \ CleanupIDs(r)
      BY <1>t, <3>1, <3>2, <3>4, PushEffect
    <3>6. hub'.files \subseteq files
      BY <2>5, <3>3, <3>4, MetaPushFiles
    <3>7. DOMAIN req.tags = CurrentTags
      BY <1>t, <3>3, ReadTypes
    <3> QED BY <2>1, <3>1, <3>2, <3>3, <3>4, <3>5, <3>6, <3>7 DEF CleanInv
  <2>6. CASE PushDelta
    <3>1. PushThen(req, "upload") /\ phase = "push" /\ UNCHANGED saved
      BY <2>6 DEF PushDelta
    <3>2. /\ saved # NULL /\ saved.LastDBModTime # changes
          /\ DOMAIN hub.notes \subseteq saved.KnownNoteIDs
          /\ DOMAIN hub.tags \subseteq saved.KnownTagIDs
          /\ hub.files \subseteq saved.KnownAttachmentIDs /\ hub.blobs \subseteq hub.files
      BY <1>t, <2>1, <3>1 DEF BridgeTypes, NotesInv, CleanInv
    <3>3. /\ DOMAIN req.notes \subseteq Current /\ DOMAIN req.tags \subseteq CurrentTags
          /\ req.files \subseteq files
          /\ req.deleted = saved.KnownNoteIDs \ Current
          /\ req.deletedTags = saved.KnownTagIDs \ CurrentTags
          /\ req.deletedFiles = saved.KnownAttachmentIDs \ files
      BY <3>1 DEF RequestInv
    <3>4. CASE phase' = "idle"
      <4>1. hub' = hub
        BY <1>t, <1>q, <3>1, <3>4, PushEffect
      <4> QED BY <2>1, <3>1, <3>2, <3>4, <4>1 DEF CleanInv
    <3>5. CASE phase' = "upload"
      <4>1. /\ DOMAIN hub'.notes = (DOMAIN hub.notes \cup DOMAIN req.notes) \ req.deleted
            /\ DOMAIN hub'.tags = (DOMAIN hub.tags \cup DOMAIN req.tags) \ req.deletedTags
            /\ hub'.files = FilesAfter(req) /\ hub'.blobs = hub.blobs \ CleanupIDs(req)
        BY <1>t, <1>q, <3>1, <3>5, PushEffect
      <4>2. DOMAIN hub'.notes \subseteq Current /\ DOMAIN hub'.tags \subseteq CurrentTags
        BY <3>2, <3>3, <4>1
      <4>3. hub'.files \subseteq files
        BY <3>2, <3>3, <4>1 DEF FilesAfter
      <4>4. \A f \in files : f \in hub.files => f \in hub'.files
        BY <2>6, <3>5, DeltaPushFiles
      <4>5. hub'.blobs \subseteq hub'.files
        BY <3>2, <3>3, <4>1, <4>4 DEF CleanupIDs
      <4> QED BY <2>1, <3>1, <3>2, <3>5, <4>2, <4>3, <4>5 DEF CleanInv
    <3> QED BY <1>t, <1>q, <3>1, <3>4, <3>5, PushEffect
  <2>7. CASE UploadAll \/ UploadDelta
    <3>1. /\ hub'.notes = hub.notes /\ hub'.tags = hub.tags /\ hub'.files = hub.files
          /\ UNCHANGED saved
          /\ hub'.blobs \subseteq hub.blobs \cup hub.files
          /\ \/ phase = "upload_all" /\ phase' = "save_initial"
             \/ phase = "upload" /\ phase' = "known_ids"
      BY <1>t, <1>q, <2>7, UploadKeepsHub, UploadFiles DEF UploadAll, UploadDelta, BridgeTypes
    <3> QED BY <2>1, <3>1 DEF CleanInv
  <2>8. CASE SaveInitial
    <3>1. /\ phase = "save_initial" /\ phase' = "idle" /\ UNCHANGED hub /\ saved' \in Known
          /\ saved'.KnownNoteIDs = DOMAIN req.notes /\ saved'.KnownTagIDs = DOMAIN req.tags
          /\ saved'.KnownAttachmentIDs = req.files
      BY <1>t, <2>8, SaveInitialEffect
    <3>2. /\ DOMAIN req.notes = Current /\ req.tags = TitlesOf(CurrentTags) /\ req.files = files
      BY <3>1 DEF RequestInv, NotesInv
    <3>3. DOMAIN req.tags = CurrentTags /\ saved' # NULL
      BY <1>t, <3>1, <3>2, ReadTypes, KindsApart
    <3> QED BY <2>1, <3>1, <3>2, <3>3 DEF CleanInv
  <2>9. CASE UpdateKnownIDs
    <3>1. /\ phase = "known_ids" /\ phase' = "idle" /\ UNCHANGED hub /\ saved' \in Known
          /\ saved'.KnownNoteIDs = Current /\ saved'.KnownTagIDs = CurrentTags
          /\ saved'.KnownAttachmentIDs = files
      BY <1>t, <2>9, UpdateEffect
    <3>2. saved' # NULL
      BY <3>1, KindsApart
    <3> QED BY <2>1, <3>1, <3>2 DEF CleanInv
  <2> QED
    BY <1>4, <2>2, <2>3, <2>4, <2>5, <2>6, <2>7, <2>8, <2>9 DEF CycleStep, Reads
<1> QED BY <1>1, <1>2, <1>3, <1>4 DEF DeltaNext

LEMMA CleanHolds ==
  ASSUME OpenPhases = {}
  PROVE  DeltaSpec => []CleanInv
<1>1. DeltaTypes /\ NotesInv /\ RequestInv /\ CleanInv /\ [DeltaNext]_deltaVars => CleanInv'
  BY CleanStep
<1> QED BY <1>1, QuietInvariants, CleanInit, PTL DEF DeltaSpec

\* NoGhosts: as long as no cycle is cut short, a push that is refused does not
\* count, the hub has neither a note nor a tag that Bear has deleted.
THEOREM NoGhostsHolds ==
  ASSUME OpenPhases = {}
  PROVE  DeltaSpec => []NoGhosts
<1>1. CleanInv => NoGhosts
  BY DEF CleanInv, NoGhosts, NothingToDo
<1> QED BY <1>1, CleanHolds, PTL

\* NoStrayBlobs, in the middle of a cycle too: the files that are looked up
\* before a push are those that lose their attachment in it, be it deleted
\* itself or with its note.
THEOREM NoStrayBlobsHolds ==
  ASSUME OpenPhases = {}
  PROVE  DeltaSpec => []NoStrayBlobs
<1>1. CleanInv => NoStrayBlobs
  BY DEF CleanInv, NoStrayBlobs
<1> QED BY <1>1, CleanHolds, PTL

-----------------------------------------------------------------------------
(***************************************************************************)
(* ReplicaOfBear                                                           *)
(***************************************************************************)
\* The value of an item in the hub, by its kind.
InHubByKind ==
  /\ \A b \in BearIds : InHub[b] = IF b \in DOMAIN hub.notes THEN hub.notes[b] ELSE NULL
  /\ \A t \in Tags : InHub[t] = IF t \in DOMAIN hub.tags THEN hub.tags[t] ELSE NULL
  /\ \A f \in Files : InHub[f] = IF f \in hub.files THEN TRUE ELSE NULL

LEMMA HubValues == HubInv => InHubByKind
<1> SUFFICES ASSUME HubInv PROVE InHubByKind
  OBVIOUS
<1>1. DOMAIN hub.notes \in SUBSET BearIds /\ DOMAIN hub.tags \in SUBSET Tags /\ hub.files \in SUBSET Files
  <2>1. hub.notes \in Partial(BearIds, Revisions) /\ hub.tags \in Partial(Tags, Titles)
        /\ hub.files \in SUBSET Files
    BY DEF HubInv, Hubs
  <2> QED BY <2>1, PartialElim
<1> QED BY <1>1, KindsApart DEF InHubByKind, InHub, Items

LEMMA BearValues ==
  ASSUME BearTypes
  PROVE  /\ \A b \in BearIds : InBear[b] = IF b \in Current THEN notes[b].rev ELSE NULL
         /\ \A t \in Tags : InBear[t] = IF t \in CurrentTags THEN tags[t].title ELSE NULL
         /\ \A f \in Files : InBear[f] = IF f \in files THEN TRUE ELSE NULL
<1>1. Current \subseteq BearIds /\ CurrentTags \subseteq Tags /\ files \subseteq Files
  BY DEF BearTypes, Current, CurrentTags
<1> QED BY <1>1, KindsApart DEF InBear, Items

\* Where every item of the hub keeps its value or gets Bear's, it synchronises.
LEMMA Synchronises ==
  ASSUME UNCHANGED InBear, \A i \in Items : InHub'[i] = InHub[i] \/ InHub'[i] = InBear[i]
  PROVE  R!Sync
<1> DEFINE S == {i \in Items : InHub'[i] = InBear[i]}
<1>1. InHub' = [i \in Items |-> IF i \in S THEN InBear[i] ELSE InHub[i]]
  <2>1. InHub' = [i \in Items |-> InHub'[i]]
    BY DEF InHub
  <2> QED BY <2>1
<1> QED BY <1>1 DEF R!Sync

\* A push that tells the truth about Bear, and does not lose the files' note,
\* brings the hub nearer to Bear.
LEMMA TruePush ==
  ASSUME DeltaTypes, HubInv', UNCHANGED bearVars,
         NEW r \in Requests, NEW next, next # "idle", PushThen(r, next),
         \A b \in DOMAIN r.notes : b \in Current /\ r.notes[b] = notes[b].rev,
         \A t \in DOMAIN r.tags : t \in CurrentTags /\ r.tags[t] = tags[t].title,
         r.files \subseteq files,
         r.deleted \cap Current = {}, r.deletedTags \cap CurrentTags = {},
         r.deletedFiles \cap files = {},
         FileNote \in Current => FileNote \in DOMAIN hub.notes \cup DOMAIN r.notes
  PROVE  R!Sync
<1>t. BearTypes /\ BearInv /\ HubInv
  BY DEF DeltaTypes
<1>b. UNCHANGED InBear
  BY DEF bearVars, InBear, Current, CurrentTags
<1>1. CASE hub' = hub
  <2>1. InHub' = InHub
    BY <1>1 DEF InHub
  <2> QED BY <1>b, <2>1, Synchronises
<1>2. CASE hub' # hub
  <2>1. /\ DOMAIN hub'.notes = (DOMAIN hub.notes \cup DOMAIN r.notes) \ r.deleted
        /\ \A b \in DOMAIN hub'.notes :
             hub'.notes[b] = IF b \in DOMAIN r.notes THEN r.notes[b] ELSE hub.notes[b]
        /\ DOMAIN hub'.tags = (DOMAIN hub.tags \cup DOMAIN r.tags) \ r.deletedTags
        /\ \A t \in DOMAIN hub'.tags :
             hub'.tags[t] = IF t \in DOMAIN r.tags THEN r.tags[t] ELSE hub.tags[t]
        /\ hub'.files = FilesAfter(r)
        /\ (FileNote \in DOMAIN NotesAfter(r)) = (FileNote \in DOMAIN hub'.notes)
    BY <1>t, <1>2, PushEffect
  <2>v. InHubByKind /\ InHubByKind'
    BY <1>t, HubValues, PTL
  <2>2. ASSUME NEW b \in BearIds PROVE InHub'[b] = InHub[b] \/ InHub'[b] = InBear[b]
    BY <1>t, <2>1, <2>v, BearValues DEF InHubByKind
  <2>3. ASSUME NEW t \in Tags PROVE InHub'[t] = InHub[t] \/ InHub'[t] = InBear[t]
    BY <1>t, <2>1, <2>v, BearValues DEF InHubByKind
  <2>4. ASSUME NEW f \in Files PROVE InHub'[f] = InHub[f] \/ InHub'[f] = InBear[f]
    <3>1. files # {} => FileNote \in DOMAIN NotesAfter(r)
      BY <1>t, <2>1 DEF BearInv
    <3>2. f \in hub'.files => f \in hub.files \/ f \in files
      BY <2>1 DEF FilesAfter
    <3>3. f \notin hub'.files => f \notin hub.files \/ f \notin files
      BY <2>1, <3>1 DEF FilesAfter
    <3> QED BY <1>t, <2>v, <3>2, <3>3, BearValues DEF InHubByKind
  <2> QED BY <1>b, <2>2, <2>3, <2>4, Synchronises DEF Items
<1> QED BY <1>1, <1>2

LEMMA StepsAreReplicaSteps ==
  ASSUME OpenPhases = {}
  PROVE  DeltaTypes /\ DeltaTypes' /\ NotesInv /\ RequestInv /\ [DeltaNext]_deltaVars
           => [R!Next]_<<InBear, InHub>>
<1> SUFFICES ASSUME DeltaTypes, DeltaTypes', NotesInv, RequestInv, [DeltaNext]_deltaVars
             PROVE  R!Change \/ R!Sync \/ UNCHANGED <<InBear, InHub>>
  BY DEF R!Next
<1> USE DEF InitialPhases, DeltaPhases, ReadPhases, SendPhases
<1>t. BearTypes /\ BearInv /\ BridgeTypes /\ HubInv /\ HubInv' /\ req \in Requests
  BY DEF DeltaTypes, BridgeTypes
<1>h. ASSUME UNCHANGED <<hub>> PROVE R!Change
  BY <1>h DEF R!Change, InHub
<1>1. CASE UserChanges
  BY <1>1, <1>h, UserLeaves
<1>2. CASE Tick \/ Crash \/ UNCHANGED deltaVars
  BY <1>2, <1>h DEF Tick, Crash, deltaVars
<1>3. CASE StartCycle \/ Reads \/ JunctionFullScan \/ DetectDeletions \/ SaveInitial \/ UpdateKnownIDs
  <2>1. UNCHANGED hub
    BY <1>3 DEF StartCycle, JunctionFullScan, Reads, ReadAllNotes, ReadAllRest, ReadNotes,
                ReadTags, ReadFiles, ReadPairs, DetectDeletions, SaveInitial, UpdateKnownIDs
  <2> QED BY <1>h, <2>1
<1>4. CASE UploadAll \/ UploadDelta
  <2>1. hub'.notes = hub.notes /\ hub'.tags = hub.tags /\ hub'.files = hub.files
    BY <1>t, <1>4, UploadKeepsHub DEF UploadAll, UploadDelta, BridgeTypes
  <2> QED BY <2>1 DEF R!Change, InHub
<1>5. CASE PushNotes
  <2> DEFINE r == [EmptyReq EXCEPT !.notes = req.notes,
                                   !.pairs = [b \in DOMAIN req.notes |-> {}]]
  <2>1. /\ r \in Requests /\ r.notes = req.notes /\ DOMAIN r.tags = {} /\ r.files = {}
        /\ r.deleted = {} /\ r.deletedTags = {} /\ r.deletedFiles = {}
    BY <1>t, InitialRequests, InitialFields
  <2>2. PushThen(r, "push_meta") /\ phase = "push_notes" /\ UNCHANGED bearVars
    BY <1>5 DEF PushNotes, Keep
  <2> HIDE DEF r
  <2>3. DOMAIN req.notes = Current /\ \A b \in Current : req.notes[b] = notes[b].rev
    BY <2>2 DEF NotesInv, Sent
  <2>4. /\ \A b \in DOMAIN r.notes : b \in Current /\ r.notes[b] = notes[b].rev
        /\ FileNote \in Current => FileNote \in DOMAIN hub.notes \cup DOMAIN r.notes
    BY <2>1, <2>3
  <2> QED BY <1>t, <2>1, <2>2, <2>4, TruePush
<1>6. CASE PushMeta
  <2> DEFINE r == [req EXCEPT !.notes = <<>>]
  <2>1. PushThen(r, "upload_all") /\ phase = "push_meta" /\ UNCHANGED bearVars
    BY <1>6 DEF PushMeta, Keep
  <2>2. /\ r \in Requests /\ DOMAIN r.notes = {} /\ r.tags = TitlesOf(CurrentTags)
        /\ r.files = files /\ r.deleted = {} /\ r.deletedTags = {} /\ r.deletedFiles = {}
    BY <1>t, <2>1, InitialRequests, InitialFields DEF NotesInv, RequestInv
  <2> HIDE DEF r
  <2>3. \A t \in DOMAIN r.tags : t \in CurrentTags /\ r.tags[t] = tags[t].title
    BY <1>t, <2>2, ReadTypes
  <2>4. FileNote \in Current => FileNote \in DOMAIN hub.notes
    BY <2>1 DEF NotesInv, Mirrored
  <2> QED BY <1>t, <2>1, <2>2, <2>3, <2>4, TruePush
<1>7. CASE PushDelta
  <2>1. PushThen(req, "upload") /\ phase = "push" /\ UNCHANGED bearVars
    BY <1>7 DEF PushDelta, Keep
  <2>2. /\ \A b \in DOMAIN req.notes : b \in Current /\ req.notes[b] = notes[b].rev
        /\ \A t \in DOMAIN req.tags : t \in CurrentTags /\ req.tags[t] = tags[t].title
        /\ req.files \subseteq files
        /\ req.deleted \cap Current = {} /\ req.deletedTags \cap CurrentTags = {}
        /\ req.deletedFiles \cap files = {}
        /\ FileNote \in Current => FileNote \in DOMAIN hub.notes \cup DOMAIN req.notes
    BY <2>1 DEF RequestInv, Sent
  <2> QED BY <1>t, <2>1, <2>2, TruePush
<1> QED
  BY <1>1, <1>2, <1>3, <1>4, <1>5, <1>6, <1>7 DEF DeltaNext, CycleStep, Reads

\* ReplicaOfBear: the hub is a replica of Bear.  Whatever cycles are repeated,
\* refused or killed, a push gives items of the hub the values that Bear has at
\* that moment, and nothing else changes them.
THEOREM HubIsReplica ==
  ASSUME OpenPhases = {}
  PROVE  DeltaSpec => ReplicaOfBear
<1>1. DeltaInit => R!Init
  <2> SUFFICES ASSUME DeltaInit PROVE R!Init
    OBVIOUS
  <2>1. DOMAIN hub.notes = {} /\ DOMAIN hub.tags = {} /\ hub.files = {}
    BY EmptyFunction DEF DeltaInit
  <2> QED BY <2>1 DEF R!Init, InHub
<1>2. DeltaTypes /\ DeltaTypes' /\ NotesInv /\ RequestInv /\ [DeltaNext]_deltaVars
        => [R!Next]_<<InBear, InHub>>
  BY StepsAreReplicaSteps
<1> QED
  BY <1>1, <1>2, QuietInvariants, PTL DEF DeltaSpec, ReplicaOfBear, R!Spec
=============================================================================
