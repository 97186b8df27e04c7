---------------------------- MODULE MCWriteQueue ----------------------------
(***************************************************************************)
(* Request sets for the model-checking runs of WriteQueue.                 *)
(***************************************************************************)
EXTENDS WriteQueue

Req(consumer, key, action, note, title, body) ==
  [consumer |-> consumer, key |-> key, action |-> action, note_id |-> note,
   payload |-> [title |-> title, body |-> body, bear_id |-> NULL]]

\* Three successive updates of one note.
UpdateRequests ==
  {Req("c1", "k1", "update", "n1", NULL, "b1"),
   Req("c1", "k2", "update", "n1", NULL, "b2"),
   Req("c1", "k3", "update", "n1", NULL, "b3")}
=============================================================================
