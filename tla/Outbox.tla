------------------------------- MODULE Outbox -------------------------------
(***************************************************************************)
(* What the hub promises a consumer whose write it accepted (README.md:    *)
(* writes are queued and "propagate back to Bear"), without leases,        *)
(* batches, acknowledgements or a bridge: an item that waits may be        *)
(* rewritten, is carried out as it stands, and is settled as done only if  *)
(* what it asks for in the end was carried out.  An item that failed may   *)
(* be taken up again; one that is done stays as it is.                     *)
(***************************************************************************)
CONSTANTS
  Items,
  Works,   \* what an item may ask for
  None     \* asked for by an item that does not exist yet

VARIABLES
  status,    \* "none", "queued", "done" or "failed"
  asked,     \* what each item asks for
  performed  \* per item, what was carried out for it

outboxVars == <<status, asked, performed>>

Init ==
  /\ status = [i \in Items |-> "none"]
  /\ asked = [i \in Items |-> None]
  /\ performed = [i \in Items |-> {}]

Waiting == {i \in Items : status[i] = "queued"}

\* A new write, a retry of a failed one, or a rewrite of one that waits.
Write(i) ==
  /\ status[i] # "done"
  /\ status' = [status EXCEPT ![i] = "queued"]
  /\ \E w \in Works : asked' = [asked EXCEPT ![i] = w]
  /\ UNCHANGED performed

\* Bear does, or has already, what a waiting item asks for: once or more.
Perform(i) ==
  /\ i \in Waiting
  /\ performed' = [performed EXCEPT ![i] = @ \cup {asked[i]}]
  /\ UNCHANGED <<status, asked>>

\* Some items are settled.
Settle(done, failed) ==
  /\ done \cup failed \subseteq Waiting /\ done \cap failed = {}
  /\ \A i \in done : asked[i] \in performed[i]
  /\ status' = [i \in Items |-> IF i \in done THEN "done"
                                ELSE IF i \in failed THEN "failed" ELSE status[i]]
  /\ UNCHANGED <<asked, performed>>

Next ==
  \/ \E i \in Items : Write(i) \/ Perform(i)
  \/ \E done, failed \in SUBSET Waiting : Settle(done, failed)

Spec == Init /\ [][Next]_outboxVars
=============================================================================
