----------------------- MODULE SubscriptionLifecycle -----------------------
(***************************************************************************)
(* What a subscription promises its two ends.  The consumer opens it once; *)
(* the producer runs for it at most once, and only after that; either end  *)
(* may be the first to finish, and neither ever comes back.  A consumer is *)
(* told of an interruption only when the producer is over.                 *)
(***************************************************************************)
CONSTANT Id

VARIABLES
  consumer,   \* "new", "open", "left" or "interrupted"
  producer    \* "new", "running", "over" or "refused"

Init ==
  /\ consumer = [i \in Id |-> "new"]
  /\ producer = [i \in Id |-> "new"]

Open(i) ==
  /\ consumer[i] = "new"
  /\ consumer' = [consumer EXCEPT ![i] = "open"]
  /\ UNCHANGED producer

(* The consumer leaves of its own accord, all its subscriptions at once when
   its page goes away. *)
Leave(S) ==
  /\ \A i \in S : consumer[i] = "open"
  /\ consumer' = [i \in Id |-> IF i \in S THEN "left" ELSE consumer[i]]
  /\ UNCHANGED producer

Interrupted(i) ==
  /\ consumer[i] = "open" /\ producer[i] \in {"over", "refused"}
  /\ consumer' = [consumer EXCEPT ![i] = "interrupted"]
  /\ UNCHANGED producer

Answer(i) ==
  /\ consumer[i] # "new" /\ producer[i] = "new"
  /\ \E answer \in {"running", "over", "refused"} :
       producer' = [producer EXCEPT ![i] = answer]
  /\ UNCHANGED consumer

Finish(S) ==
  /\ \A i \in S : producer[i] = "running"
  /\ producer' = [i \in Id |-> IF i \in S THEN "over" ELSE producer[i]]
  /\ UNCHANGED consumer

Next ==
  \/ \E i \in Id : Open(i) \/ Interrupted(i) \/ Answer(i)
  \/ \E S \in SUBSET Id : Leave(S) \/ Finish(S)

Spec == Init /\ [][Next]_<<consumer, producer>>

=============================================================================
