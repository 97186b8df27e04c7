----------------------------- MODULE MCNoteSync -----------------------------
(***************************************************************************)
(* Requests and notes for the model-checking runs of NoteSync.             *)
(***************************************************************************)
EXTENDS NoteSync, TLC

CONSTANTS n1, n2, n3, B1, B2, B3, h1, h2

Call(consumer, key, action, note, body) ==
  [consumer |-> consumer, key |-> key, action |-> action, note_id |-> note,
   body |-> body]

\* All queue rows the calls may ask for.
WritesOf(calls) ==
  {[consumer |-> c.consumer, key |-> c.key, action |-> c.action, note_id |-> n,
    payload |-> [title |-> NULL, body |-> c.body, bear_id |-> b]] :
     c \in calls, n \in HubIds, b \in BearIds \cup {NULL}}

OneSynced == (B1 :> n1)
NoneSynced == <<>>

First == <<"first">>
Edited == {<<"edited">>}

\* An update, another consumer's tag, and a second update.
UpdateAndTag ==
  {Call("c1", "k1", "update", n1, <<"one">>),
   Call("c1", "k2", "add_tag", n1, NULL),
   Call("c2", "k1", "update", n1, <<"two">>)}
TagWrites == WritesOf(UpdateAndTag)

\* An update and the trashing of the same note.
UpdateAndTrash ==
  {Call("c1", "k1", "update", n1, <<"one">>),
   Call("c2", "k1", "trash", n1, NULL)}
TrashWrites == WritesOf(UpdateAndTrash)

\* Two consumers' creates with one title, and an update of whatever note was made.
CreatesAndUpdate ==
  {Call("c1", "k1", "create", NULL, <<"new">>),
   Call("c2", "k1", "create", NULL, <<"two">>),
   Call("c1", "k2", "update", n1, <<"one">>)}
CreateWrites == WritesOf(CreatesAndUpdate)

\* No call names these, and no property tells them apart.
CreateSymmetry ==
  Permutations({h1, h2}) \cup Permutations({B1, B2, B3}) \cup Permutations({n2, n3})

AllBodies ==
  {First, <<"edited">>, <<"one">>, <<"two">>, <<"new">>,
   AsCreated(<<"new">>), AsCreated(<<"one">>), AsCreated(<<"two">>)}
=============================================================================
