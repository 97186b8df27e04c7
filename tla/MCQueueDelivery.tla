--------------------------- MODULE MCQueueDelivery ---------------------------
(***************************************************************************)
(* Request sets for the model-checking runs of QueueDelivery.              *)
(***************************************************************************)
EXTENDS QueueDelivery

Req(consumer, key, action, note, title, body) ==
  [consumer |-> consumer, key |-> key, action |-> action, note_id |-> note,
   payload |-> [title |-> title, body |-> body, bear_id |-> NULL]]

\* One consumer creates a note and updates it twice, so that an update may be
\* merged into the create, into the other update, or stand alone; another
\* consumer tags a note Bear has.
SomeRequests ==
  {Req("c1", "k1", "create", "n1", "t1", "b1"),
   Req("c1", "k2", "update", "n1", NULL, "b2"),
   Req("c1", "k3", "update", "n1", NULL, "b3"),
   Req("c2", "k1", "add_tag", "n2", NULL, NULL)}

\* These consumers are orderly, as NewestWriteWinsHolds assumes.
ASSUME OrderlyAssumption == OrderlyRequests
=============================================================================
