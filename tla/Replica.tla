------------------------------- MODULE Replica -------------------------------
(***************************************************************************)
(* What the hub promises to be: "a read replica of Bear's notes"           *)
(* (README.md).  The source changes by itself; a synchronisation gives     *)
(* some items of the copy the values that the source has at that moment,   *)
(* and the copy changes in no other way.                                   *)
(***************************************************************************)
CONSTANTS
  Items,
  Absent   \* the value of an item that does not exist

VARIABLES source, copy

Init == copy = [i \in Items |-> Absent]

Change == UNCHANGED copy

Sync ==
  /\ UNCHANGED source
  /\ \E S \in SUBSET Items :
       copy' = [i \in Items |-> IF i \in S THEN source[i] ELSE copy[i]]

Next == Change \/ Sync

Spec == Init /\ [][Next]_<<source, copy>>
=============================================================================
