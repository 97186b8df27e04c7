------------------------------- MODULE MCBlobs -------------------------------
(***************************************************************************)
(* Uploads for the model-checking runs of AttachmentBlobs.                 *)
(***************************************************************************)
EXTENDS AttachmentBlobs

Upload(key, note, filename) ==
  [consumer |-> "c1", key |-> key, note_id |-> note, filename |-> filename]

\* One upload, sent again and again, also while it is being served.
SomeUploads == {Upload("k1", "n1", "f1")}
SomeRequests == {AddFile(c, b) : c \in SomeUploads, b \in Blobs}
=============================================================================
