---------------------------- MODULE AckedDelivery ----------------------------
(***************************************************************************)
(* What a session promises its users (packages/host/src/statementStore/    *)
(* session/types.ts): a submitted payload may reach the receiving          *)
(* application, alone or with others, and only then may the sender's       *)
(* delivery promise be resolved.  Nothing arrives that was not sent, and   *)
(* nothing that happened is taken back, whatever crashes in between.       *)
(***************************************************************************)
CONSTANT Payload
VARIABLES submitted, received, resolved

vars == <<submitted, received, resolved>>

Init == submitted = {} /\ received = {} /\ resolved = {}

Submit(m) ==
  /\ m \notin submitted
  /\ submitted' = submitted \cup {m}
  /\ UNCHANGED <<received, resolved>>

Receive(batch) ==
  /\ batch \subseteq submitted
  /\ received' = received \cup batch
  /\ UNCHANGED <<submitted, resolved>>

Resolve(batch) ==
  /\ batch \subseteq received
  /\ resolved' = resolved \cup batch
  /\ UNCHANGED <<submitted, received>>

Next ==
  \/ \E m \in Payload : Submit(m)
  \/ \E batch \in SUBSET Payload : Receive(batch) \/ Resolve(batch)

Spec == Init /\ [][Next]_vars
=============================================================================
