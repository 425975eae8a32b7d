----------------------------- MODULE AtLeastOnce -----------------------------
(***************************************************************************)
(* What the sync outbox promises: a payload that is not withdrawn, because *)
(* newer payloads of its owner take its place or its owner is pruned,      *)
(* leaves the queue only because the server has it.  The server may        *)
(* receive a payload more than once, also one that was withdrawn while a   *)
(* request with it was on its way.                                         *)
(***************************************************************************)
CONSTANT Payload

VARIABLES queued,    \* payloads that wait for delivery
          received,  \* payloads the server has
          withdrawn  \* payloads the producers took back

vars == <<queued, received, withdrawn>>

Init == queued = {} /\ received = {} /\ withdrawn = {}

\* Queue new payloads and take back old ones; a payload that was delivered
\* may be taken back too.
Put(new, old) ==
  /\ new \cap (queued \cup received \cup withdrawn) = {}
  /\ queued' = (queued \ old) \cup new
  /\ withdrawn' = withdrawn \cup old
  /\ UNCHANGED received

Receive(batch) ==
  /\ received' = received \cup batch
  /\ UNCHANGED <<queued, withdrawn>>

\* The sender learns that the server has a batch.
Clear(batch) ==
  /\ batch \subseteq received
  /\ queued' = queued \ batch
  /\ UNCHANGED <<received, withdrawn>>

Next ==
  \/ \E new, old \in SUBSET Payload : Put(new, old)
  \/ \E batch \in SUBSET Payload : Receive(batch)
  \/ \E batch \in SUBSET queued : Clear(batch)

Spec == Init /\ [][Next]_vars
=============================================================================
