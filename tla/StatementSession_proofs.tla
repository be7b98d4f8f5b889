----------------------- MODULE StatementSession_proofs -----------------------
(* Proofs about StatementSession, for every instance of its constants. *)
EXTENDS StatementSession, SequenceTheorems, FiniteSetTheorems, FunctionTheorems,
        WellFoundedInduction, TLAPS

-----------------------------------------------------------------------------
(* Types of the operators the actions are built from. *)

LEMMA NoSessionType ==
  ASSUME NEW phase \in {"down", "initialization", "active", "disposed"}
  PROVE  NoSession(phase) \in SessionState
BY DEF NoSession, SessionState, Expiry, RequestId

(* Fields that no batching, surfacing or recovery step looks at. *)
LEMMA NextExpiryType ==
  ASSUME clock \in Nat, NEW last \in Nat
  PROVE  NextExpiry(last) \in Nat
BY BoundsAreNat DEF NextExpiry, Fresh

LEMMA UptoType ==
  ASSUME NEW ms \in Seq(Payload), NEW i \in 0 .. Len(ms)
  PROVE  Upto(ms, i) \subseteq Payload
BY DEF Upto

LEMMA OutgoingType ==
  ASSUME NEW s \in SessionState
  PROVE  Messages(s) \subseteq Payload /\ Tokens(s) \subseteq Payload
BY DEF SessionState, OutgoingRequest, Messages, Tokens

LEMMA PostedType ==
  ASSUME TypeOK, NEW p \in Peer, NEW s \in SessionState, NEW ms \in Seq(Payload)
  PROVE  /\ Posted(p, s, ms) \in SessionState
         /\ RequestStatements(p, s, ms) \subseteq Statement
         /\ Batches(s, ms) \in Seq(SUBSET Payload)
<1>1. NextExpiry(s.expiry) \in Nat
  BY NextExpiryType DEF TypeOK, SessionState, Expiry
<1>2. Len(ms) \in Nat /\ Len(requests[p]) \in Nat
  BY DEF TypeOK
<1>3. \A i \in 1 .. Len(ms) : Batches(s, ms)[i] \in SUBSET Payload
  BY OutgoingType, UptoType DEF Batches
<1>4. Batches(s, ms) \in Seq(SUBSET Payload)
  BY <1>2, <1>3 DEF Batches
<1>5. RequestStatements(p, s, ms) \subseteq Statement
  BY <1>1, <1>2, <1>3 DEF RequestStatements, Statement, RequestId, Expiry
<1>6. CASE ms = << >>
  BY <1>4, <1>5, <1>6 DEF Posted
<1>7. CASE ms # << >>
  <2>1. Len(ms) >= 1
    BY <1>7, <1>2, EmptySeq
  <2>2. [id |-> Len(requests[p]) + Len(ms),
         messages |-> Messages(s) \cup Upto(ms, Len(ms)),
         tokens |-> Tokens(s) \cup Upto(ms, Len(ms))] \in OutgoingRequest
    BY <1>2, OutgoingType, UptoType DEF OutgoingRequest, RequestId
  <2>3. NextExpiry(s.expiry) + Len(ms) - 1 \in Nat
    BY <1>1, <1>2, <2>1
  <2>4. QED BY <1>7, <2>2, <2>3, <1>4, <1>5 DEF Posted, SessionState, Expiry
<1>8. QED BY <1>6, <1>7

LEMMA ProcessMessageQueueType ==
  ASSUME TypeOK, NEW p \in Peer, NEW s \in SessionState, ProcessMessageQueue(p, s)
  PROVE  /\ sess' \in [Peer -> SessionState]
         /\ inflight' \subseteq Statement
         /\ requests' \in [Peer -> Seq(SUBSET Payload)]
<1>1. s.queue \in Seq(Payload)
  BY DEF SessionState
<1>2. PICK k \in 0 .. Len(s.queue) :
        LET taken == SubSeq(s.queue, 1, k) IN
        /\ sess' = [sess EXCEPT ![p] =
             [Posted(p, s, taken) EXCEPT !.queue = SubSeq(s.queue, k + 1, Len(s.queue))]]
        /\ inflight' = inflight \cup RequestStatements(p, s, taken)
        /\ requests' = [requests EXCEPT ![p] = @ \o Batches(s, taken)]
  BY DEF ProcessMessageQueue
<1> DEFINE taken == SubSeq(s.queue, 1, k)
           left == SubSeq(s.queue, k + 1, Len(s.queue))
<1>3. taken \in Seq(Payload) /\ left \in Seq(Payload)
  BY <1>1, SubSeqProperties
<1>4. /\ Posted(p, s, taken) \in SessionState
      /\ RequestStatements(p, s, taken) \subseteq Statement
      /\ Batches(s, taken) \in Seq(SUBSET Payload)
  BY <1>3, PostedType
<1>5. [Posted(p, s, taken) EXCEPT !.queue = left] \in SessionState
  BY <1>3, <1>4 DEF SessionState
<1>6. requests[p] \o Batches(s, taken) \in Seq(SUBSET Payload)
  BY <1>4, ConcatProperties DEF TypeOK
<1>7. QED BY <1>2, <1>4, <1>5, <1>6 DEF TypeOK

LEMMA SurfacedType ==
  ASSUME NEW s \in SessionState, NEW r \in Incoming
  PROVE  Surfaced(s, r) \in SessionState
<1>1. Append(s.buffered, r) \in Seq(Incoming)
  BY AppendProperties DEF SessionState
<1>2. r.id \in RequestId
  BY DEF Incoming
<1> DEFINE buffering == [s EXCEPT !.buffered = Append(@, r)]
<1>3. buffering \in SessionState
  BY <1>1 DEF SessionState
<1>4. [buffering EXCEPT !.known = @ \cup {r.id}, !.handed = @ \cup {r.id},
                        !.twice = @ \cup ({r.id} \cap s.handed)] \in SessionState
  BY <1>2, <1>3 DEF SessionState
<1>5. QED BY <1>3, <1>4 DEF Surfaced

LEMMA RouteRequestType ==
  ASSUME TypeOK, NEW p \in Peer, NEW s \in SessionState, NEW t \in Statement,
         RouteRequest(p, s, t)
  PROVE  sess' \in [Peer -> SessionState] /\ received' \subseteq Payload
<1>1. t.id \in RequestId /\ t.data \subseteq Payload
  BY DEF Statement
<1>2. [s EXCEPT !.incoming = t.id, !.responded = FALSE] \in SessionState
  BY <1>1 DEF SessionState
<1>3. Surfaced([s EXCEPT !.incoming = t.id, !.responded = FALSE],
               [id |-> t.id, data |-> t.data]) \in SessionState
  BY <1>1, <1>2, SurfacedType DEF Incoming
<1>4. QED BY <1>1, <1>3 DEF RouteRequest, HandedOver, TypeOK

LEMMA RestoredType ==
  ASSUME NEW p \in Peer, NEW s \in SessionState, NEW e \in Nat, s.own # None, s.peer # None
  PROVE  Restored(p, s, e) \in SessionState
<1>1. s.own \subseteq Statement /\ s.peer \subseteq Statement
  BY DEF SessionState
<1> DEFINE unacked == {t \in Decoded(p, s.own, "request") :
                         ~Acked(t, Decoded(p, s.own, "response"))}
           seeded == [s EXCEPT !.expiry = e,
                               !.seen = @ \cup {t \in s.own \cup s.peer : t.from # p}]
<1>2. seeded \in SessionState
  BY <1>1 DEF SessionState, Expiry
<1>3. CASE unacked = {}
  BY <1>2, <1>3 DEF Restored
<1>4. CASE unacked # {}
  <2> DEFINE t == CHOOSE u \in unacked : TRUE
  <2>1. t \in Statement
    BY <1>1, <1>4 DEF Decoded
  <2>2. [id |-> t.id, messages |-> t.data, tokens |-> {}] \in OutgoingRequest
    BY <2>1 DEF Statement, OutgoingRequest
  <2>3. Restored(p, s, e) = [seeded EXCEPT !.outgoing =
            [id |-> t.id, messages |-> t.data, tokens |-> {}]]
    BY <1>4 DEF Restored
  <2> HIDE DEF t, seeded
  <2>4. QED BY <1>2, <2>2, <2>3 DEF SessionState
<1>5. QED BY <1>3, <1>4

LEMMA RecoveredType ==
  ASSUME NEW p \in Peer, NEW s \in SessionState, s.peer # None
  PROVE  Recovered(p, s) \in SessionState
<1>1. s.peer \subseteq Statement
  BY DEF SessionState
<1> DEFINE theirs == Decoded(p, s.peer, "request")
           t == CHOOSE u \in theirs : TRUE
           answered == Acked(t, Decoded(p, s.peer, "response"))
           taken == [s EXCEPT !.incoming = t.id, !.responded = answered]
<1>2. CASE theirs = {}
  BY <1>2 DEF Recovered
<1>3. CASE theirs # {}
  <2>1. t \in Statement
    BY <1>1, <1>3 DEF Decoded
  <2>2. answered \in BOOLEAN
    BY DEF Acked
  <2>3. taken \in SessionState
    BY <2>1, <2>2 DEF SessionState, Statement
  <2>4. Surfaced(taken, [id |-> t.id, data |-> t.data]) \in SessionState
    BY <2>1, <2>3, SurfacedType DEF Statement, Incoming
  <2>5. Recovered(p, s) \in {taken, Surfaced(taken, [id |-> t.id, data |-> t.data])}
    BY <1>3 DEF Recovered
  <2>6. QED BY <2>3, <2>4, <2>5
<1>4. QED BY <1>2, <1>3
-----------------------------------------------------------------------------
(* Every step keeps the types. *)

LEMMA OnTopicType ==
  ASSUME TypeOK, NEW q \in Peer
  PROVE  OnTopicOf(q) \subseteq Statement
BY DEF TypeOK, OnTopicOf, Other, Peer

LEMMA IsNewType ==
  ASSUME TypeOK, NEW p \in Peer, NEW kind \in {"request", "response"}, IsNew(p, kind)
  PROVE  /\ store[Other(p)][kind] \in Statement
         /\ Marked(p, store[Other(p)][kind]) \in SessionState
<1>1. store[Other(p)][kind] \in Statement
  BY DEF TypeOK, IsNew, Other, Peer
<1>2. sess[p] \in SessionState
  BY DEF TypeOK
<1>3. [sess[p] EXCEPT !.seen = @ \cup {store[Other(p)][kind]}] \in SessionState
  BY <1>1, <1>2 DEF SessionState
<1>4. QED BY <1>1, <1>3 DEF Marked

LEMMA UnseenType ==
  ASSUME TypeOK, NEW p \in Peer
  PROVE  Unseen(p) \subseteq Statement
BY DEF TypeOK, Unseen

LEMMA SubscribedType ==
  ASSUME NEW s \in SessionState, NEW R \in SUBSET RequestId, NEW T \in SUBSET RequestId
  PROVE  [s EXCEPT !.subscribed = TRUE, !.live = TRUE, !.known = @ \cup R,
                   !.handed = R, !.twice = T] \in SessionState
<1>1. s.known \cup R \in SUBSET RequestId
  BY DEF SessionState
<1>2. QED BY <1>1 DEF SessionState

(* What the handlers assign to one session keeps its type. *)
LEMMA UpdatedSessionType ==
  ASSUME NEW s \in SessionState
  PROVE  /\ \A S \in SUBSET Statement : /\ [s EXCEPT !.own = S] \in SessionState
                                        /\ [s EXCEPT !.peer = S] \in SessionState
         /\ \A m \in Payload :
              [s EXCEPT !.live = TRUE, !.pending = @ \cup {m}] \in SessionState
         /\ \A e \in Nat :
              [s EXCEPT !.responded = TRUE, !.expiry = e] \in SessionState
         /\ [s EXCEPT !.subscribed = FALSE] \in SessionState
<1>1. ASSUME NEW S \in SUBSET Statement
      PROVE  [s EXCEPT !.own = S] \in SessionState /\ [s EXCEPT !.peer = S] \in SessionState
  BY DEF SessionState
<1>2. ASSUME NEW m \in Payload
      PROVE  [s EXCEPT !.live = TRUE, !.pending = @ \cup {m}] \in SessionState
  BY DEF SessionState
<1>3. ASSUME NEW e \in Nat
      PROVE  [s EXCEPT !.responded = TRUE, !.expiry = e] \in SessionState
  BY DEF SessionState, Expiry
<1>4. [s EXCEPT !.subscribed = FALSE] \in SessionState
  BY DEF SessionState
<1>5. QED BY <1>1, <1>2, <1>3, <1>4

LEMMA TypeStep ==
  ASSUME TypeOK, [Next]_vars
  PROVE  TypeOK'
<1>0. \A p \in Peer : sess[p] \in SessionState
  BY DEF TypeOK
<1>1. ASSUME NEW p \in Peer, Create(p) PROVE TypeOK'
  BY <1>1, NoSessionType DEF TypeOK, Create, history
<1>2. ASSUME NEW p \in Peer, QueryOwn(p) PROVE TypeOK'
  <2>1. failures' \in Nat
    BY <1>2 DEF TypeOK, QueryOwn
  <2>2. \A own \in SUBSET Statement : [sess[p] EXCEPT !.own = own] \in SessionState
    BY <1>0, UpdatedSessionType
  <2>3. sess' \in [Peer -> SessionState]
    <3>1. \E own \in SUBSET Statement :
            sess' = [sess EXCEPT ![p] = [sess[p] EXCEPT !.own = own]]
      BY <1>2, OnTopicType DEF TypeOK, QueryOwn
    <3>2. QED BY <2>2, <3>1 DEF TypeOK
  <2>4. QED BY <1>2, <2>1, <2>3 DEF TypeOK, QueryOwn, history
<1>3. ASSUME NEW p \in Peer, QueryPeer(p) PROVE TypeOK'
  <2>1. failures' \in Nat
    BY <1>3 DEF TypeOK, QueryPeer
  <2>2. \A own \in SUBSET Statement : [sess[p] EXCEPT !.peer = own] \in SessionState
    BY <1>0, UpdatedSessionType
  <2>3. OnTopicOf(Other(p)) \subseteq Statement
    BY OnTopicType DEF Other, Peer
  <2>4. sess' \in [Peer -> SessionState]
    <3>1. \E peer \in SUBSET Statement :
            sess' = [sess EXCEPT ![p] = [sess[p] EXCEPT !.peer = peer]]
      BY <1>3, <2>3 DEF TypeOK, QueryPeer
    <3>2. QED BY <2>2, <3>1 DEF TypeOK
  <2>5. QED BY <1>3, <2>1, <2>4 DEF TypeOK, QueryPeer, history
<1>4. ASSUME NEW p \in Peer, FinishInit(p) PROVE TypeOK'
  <2> DEFINE s == sess[p]
  <2>1. PICK e \in ObservedExpiries(s.own) :
          ProcessMessageQueue(p, [Recovered(p, Restored(p, s, e)) EXCEPT
             !.phase = "active", !.live = TRUE, !.own = None, !.peer = None, !.unseen = Unseen(p)])
    BY <1>4 DEF FinishInit
  <2>2. s \in SessionState /\ s.own # None /\ s.peer # None
    BY <1>0, <1>4 DEF FinishInit
  <2>3. e \in Nat
    BY <2>2 DEF SessionState, ObservedExpiries, Statement, Expiry
  <2>4. Restored(p, s, e) \in SessionState
    BY <2>2, <2>3, RestoredType
  <2>5. Restored(p, s, e).peer = s.peer
    BY <2>2 DEF Restored, SessionState
  <2>6. Recovered(p, Restored(p, s, e)) \in SessionState
    BY <2>2, <2>4, <2>5, RecoveredType
  <2>7. [Recovered(p, Restored(p, s, e)) EXCEPT !.phase = "active", !.live = TRUE,
            !.own = None, !.peer = None, !.unseen = Unseen(p)] \in SessionState
    BY <2>6, UnseenType DEF SessionState
  <2>8. RecoveredData(p, s) \subseteq Payload
    <3>1. s.peer \subseteq Statement
      BY <2>2 DEF SessionState
    <3>2. QED BY <3>1 DEF RecoveredData, Decoded, Statement
  <2>9. QED BY <1>4, <2>1, <2>7, <2>8, ProcessMessageQueueType
            DEF TypeOK, FinishInit, HandedOver
<1>5. ASSUME NEW p \in Peer, Dispose(p) PROVE TypeOK'
  BY <1>5, NoSessionType DEF TypeOK, Dispose, history
<1>6. ASSUME NEW p \in Peer, Crash(p) PROVE TypeOK'
  BY <1>6, NoSessionType DEF TypeOK, Crash, history
<1>7. ASSUME NEW p \in Peer, NEW m \in Payload, Submit(p, m) PROVE TypeOK'
  <2> DEFINE s == [sess[p] EXCEPT !.live = TRUE, !.pending = @ \cup {m}]
  <2>1. s \in SessionState
    BY <1>0, UpdatedSessionType
  <2>2. <<m>> \in Seq(Payload)
    OBVIOUS
  <2>3. /\ Posted(p, s, <<m>>) \in SessionState
        /\ RequestStatements(p, s, <<m>>) \subseteq Statement
        /\ Batches(s, <<m>>) \in Seq(SUBSET Payload)
    BY <2>1, <2>2, PostedType
  <2>4. requests[p] \o Batches(s, <<m>>) \in Seq(SUBSET Payload)
    BY <2>3, ConcatProperties DEF TypeOK
  <2>5. [s EXCEPT !.queue = Append(@, m)] \in SessionState
    BY <2>1, AppendProperties DEF SessionState
  <2>6. /\ sess' \in [Peer -> SessionState]
        /\ inflight' \subseteq Statement
        /\ requests' \in [Peer -> Seq(SUBSET Payload)]
    <3>1. CASE /\ sess' = [sess EXCEPT ![p] = Posted(p, s, <<m>>)]
               /\ inflight' = inflight \cup RequestStatements(p, s, <<m>>)
               /\ requests' = [requests EXCEPT ![p] = @ \o Batches(s, <<m>>)]
      BY <3>1, <2>3, <2>4 DEF TypeOK
    <3>2. CASE /\ sess' = [sess EXCEPT ![p] = [s EXCEPT !.queue = Append(@, m)]]
               /\ UNCHANGED <<inflight, requests>>
      BY <3>2, <2>5 DEF TypeOK
    <3>3. QED BY <1>7, <3>1, <3>2 DEF Submit
  <2>7. QED BY <1>7, <2>6 DEF TypeOK, Submit
<1>8. ASSUME NEW p \in Peer, Respond(p) PROVE TypeOK'
  <2> DEFINE s == sess[p]
  <2>1. s.expiry \in Nat /\ s.incoming \in RequestId
    BY <1>0, <1>8 DEF Respond, SessionState, Expiry
  <2>2. NextExpiry(s.expiry) \in Nat
    BY <2>1, NextExpiryType DEF TypeOK
  <2>3. [from |-> p, kind |-> "response", id |-> s.incoming, data |-> {},
         expiry |-> NextExpiry(s.expiry)] \in Statement
    BY <2>1, <2>2 DEF Statement, Expiry
  <2>4. [s EXCEPT !.responded = TRUE, !.expiry = NextExpiry(@)] \in SessionState
    BY <1>0, <2>2, UpdatedSessionType
  <2>5. sess' = [sess EXCEPT ![p] = [s EXCEPT !.responded = TRUE, !.expiry = NextExpiry(@)]]
    BY <1>8 DEF Respond, TypeOK
  <2>6. QED BY <1>8, <2>3, <2>4, <2>5 DEF TypeOK, Respond, history
<1>9. ASSUME NEW p \in Peer, Subscribe(p) PROVE TypeOK'
  <2> DEFINE s == sess[p]
  <2>1. s.buffered \in Seq(Incoming)
    BY <1>0 DEF SessionState
  <2>2. \A i \in DOMAIN s.buffered : s.buffered[i] \in Incoming
    BY <2>1
  <2> DEFINE replayed == {s.buffered[i].id : i \in DOMAIN s.buffered}
             repeated == {s.buffered[i].id : i \in
                            {j \in DOMAIN s.buffered :
                               \E k \in 1 .. j - 1 : s.buffered[k].id = s.buffered[j].id}}
             subscribed == [s EXCEPT !.subscribed = TRUE, !.live = TRUE,
                              !.known = @ \cup replayed, !.handed = replayed,
                              !.twice = repeated]
  <2>3. replayed \subseteq RequestId /\ repeated \subseteq RequestId
    BY <2>2 DEF Incoming
  <2>4. sess' \in [Peer -> SessionState]
    <3>1. subscribed \in SessionState
      BY <1>0, <2>3, SubscribedType
    <3>2. sess' = [sess EXCEPT ![p] = subscribed]
      BY <1>9 DEF Subscribe, TypeOK
    <3>3. QED BY <3>1, <3>2 DEF TypeOK
  <2>5. received' \subseteq Payload
    BY <1>9, <2>2 DEF Subscribe, TypeOK, Incoming
  <2>6. QED BY <1>9, <2>4, <2>5 DEF TypeOK, Subscribe
<1>10. ASSUME NEW p \in Peer, Unsubscribe(p) PROVE TypeOK'
  <2>1. [sess[p] EXCEPT !.subscribed = FALSE] \in SessionState
    BY <1>0, UpdatedSessionType
  <2>2. QED BY <1>10, <2>1 DEF TypeOK, Unsubscribe, history
<1>11. ASSUME NEW p \in Peer, DeliverRequest(p) PROVE TypeOK'
  BY <1>11, IsNewType, RouteRequestType DEF TypeOK, DeliverRequest
<1>12. ASSUME NEW p \in Peer, DeliverResponse(p) PROVE TypeOK'
  <2> DEFINE t == store[Other(p)].response
             s == Marked(p, t)
             settled == [s EXCEPT !.pending = @ \ s.outgoing.tokens, !.outgoing = None]
  <2>1. t \in Statement /\ s \in SessionState
    BY <1>12, IsNewType DEF DeliverResponse
  <2>2. settled \in SessionState
    BY <2>1 DEF SessionState
  <2>3. CASE AckMatches(s, t)
    <3>1. ProcessMessageQueue(p, settled) /\ resolved' \subseteq resolved \cup s.pending
      BY <1>12, <2>3 DEF DeliverResponse, RouteResponse
    <3>2. s.pending \subseteq Payload
      BY <2>1 DEF SessionState
    <3>3. QED BY <1>12, <2>2, <3>1, <3>2, ProcessMessageQueueType DEF TypeOK, DeliverResponse
  <2>4. CASE ~AckMatches(s, t)
    BY <1>12, <2>1, <2>4 DEF TypeOK, DeliverResponse, RouteResponse
  <2>5. QED BY <2>3, <2>4
<1>13. ASSUME NEW t \in inflight, Accept(t) \/ Refuse(t) \/ SubmitFails(t) PROVE TypeOK'
  <2>1. t \in Statement
    BY DEF TypeOK
  <2>2. t.from \in Peer /\ t.kind \in {"request", "response"}
    BY <2>1 DEF Statement
  <2>3. CASE Accept(t)
    BY <2>1, <2>2, <2>3 DEF TypeOK, Accept, history
  <2>4. CASE Refuse(t)
    BY <2>4 DEF TypeOK, Refuse, history
  <2>5. CASE SubmitFails(t)
    BY <2>5 DEF TypeOK, SubmitFails, history
  <2>6. QED BY <1>13, <2>3, <2>4, <2>5
<1>14. ASSUME Tick PROVE TypeOK'
  BY <1>14 DEF TypeOK, Tick, history
<1>15. ASSUME UNCHANGED vars PROVE TypeOK'
  BY <1>15 DEF TypeOK, vars
<1>16. QED
  BY <1>1, <1>2, <1>3, <1>4, <1>5, <1>6, <1>7, <1>8, <1>9, <1>10, <1>11, <1>12,
     <1>13, <1>14, <1>15 DEF Next

(* Every variable keeps its type. *)
THEOREM TypeCorrect == Spec => []TypeOK
<1>1. Init => TypeOK
  BY NoSessionType DEF Init, TypeOK
<1>2. QED BY <1>1, TypeStep, PTL DEF Spec
-----------------------------------------------------------------------------
(* The delivery invariant.  Histories only grow, and what was truthful stays
   so as they grow. *)

Grown(reqs, rcvd, subm, reqs2, rcvd2, subm2) ==
  /\ \A p \in Peer : \A i \in DOMAIN reqs[p] :
       i \in DOMAIN reqs2[p] /\ reqs2[p][i] = reqs[p][i]
  /\ rcvd \subseteq rcvd2
  /\ subm \subseteq subm2

LEMMA OtherPeer ==
  \A p \in Peer : Other(p) \in Peer /\ Other(p) # p /\ Other(Other(p)) = p
BY PeersDiffer DEF Other, Peer

LEMMA TruthfulPersists ==
  ASSUME NEW R1, NEW V1, NEW U1, NEW R2, NEW V2, NEW U2, Grown(R1, V1, U1, R2, V2, U2),
         NEW t \in Statement, Truthful(R1, V1, t)
  PROVE  Truthful(R2, V2, t)
<1>1. t.from \in Peer /\ Other(t.from) \in Peer
  BY OtherPeer DEF Statement
<1>2. QED BY <1>1 DEF Truthful, Encoded, Arrived, Grown

LEMMA SessionPersists ==
  ASSUME NEW R1, NEW V1, NEW U1, NEW R2, NEW V2, NEW U2, Grown(R1, V1, U1, R2, V2, U2),
         NEW p \in Peer, NEW s \in SessionState, SessionTruthful(R1, V1, U1, p, s)
  PROVE  SessionTruthful(R2, V2, U2, p, s)
<1>0. Other(p) \in Peer
  BY OtherPeer
<1>1. OutgoingTruthful(R2, p, s)
  BY DEF SessionTruthful, OutgoingTruthful, Encoded, Grown
<1>2. IncomingTruthful(R2, V2, p, s)
  BY <1>0 DEF SessionTruthful, IncomingTruthful, Encoded, Arrived, Grown
<1>3. TopicTruthful(R2, V2, p, s.own)
  <2>1. s.own # None => s.own \subseteq Statement
    BY DEF SessionState
  <2>2. QED BY <2>1, TruthfulPersists DEF SessionTruthful, TopicTruthful
<1>4. TopicTruthful(R2, V2, Other(p), s.peer)
  <2>1. s.peer # None => s.peer \subseteq Statement
    BY DEF SessionState
  <2>2. QED BY <2>1, TruthfulPersists DEF SessionTruthful, TopicTruthful
<1>5. \A i \in DOMAIN s.queue : s.queue[i] \in U2
  BY DEF SessionTruthful, Grown
<1>6. QED BY <1>1, <1>2, <1>3, <1>4, <1>5 DEF SessionTruthful

(* A step is covered by its histories, its new statements, the statements it
   stores and the one session it changes. *)
LEMMA StepPreserves ==
  ASSUME TypeOK, DeliveryInv, NEW p \in Peer,
         Grown(requests, received, submitted, requests', received', submitted'),
         \A q \in Peer : q # p => sess'[q] = sess[q],
         SessionTruthful(requests', received', submitted', p, sess'[p]),
         \A t \in inflight' \ inflight : Truthful(requests', received', t),
         store' = store,
         \A q \in Peer : \A i \in DOMAIN requests'[q] : requests'[q][i] \subseteq submitted',
         received' \subseteq submitted',
         resolved' \subseteq received'
  PROVE  DeliveryInv'
<1>1. \A t \in inflight' : Truthful(requests', received', t)
  BY TruthfulPersists DEF TypeOK, DeliveryInv
<1>2. \A q \in Peer : \A kind \in {"request", "response"} :
        KeptTruthful(requests', received', q, kind, store'[q][kind])
  BY TruthfulPersists DEF TypeOK, DeliveryInv, KeptTruthful
<1>3. \A q \in Peer : SessionTruthful(requests', received', submitted', q, sess'[q])
  BY SessionPersists DEF TypeOK, DeliveryInv
<1>4. QED BY <1>1, <1>2, <1>3 DEF DeliveryInv, AckImpliesReceived

(* Posting payloads: the new requests are encoded as the session and the
   statements say. *)
LEMMA PostedTruthful ==
  ASSUME TypeOK, NEW p \in Peer, NEW s \in SessionState, NEW ms \in Seq(Payload),
         OutgoingTruthful(requests, p, s),
         requests' = [requests EXCEPT ![p] = @ \o Batches(s, ms)]
  PROVE  /\ \A q \in Peer : \A i \in DOMAIN requests[q] :
              i \in DOMAIN requests'[q] /\ requests'[q][i] = requests[q][i]
         /\ OutgoingTruthful(requests', p, Posted(p, s, ms))
         /\ \A t \in RequestStatements(p, s, ms) :
              t.kind = "request" /\ Encoded(requests', t.from, t.id, t.data)
         /\ \A i \in DOMAIN requests'[p] :
              i \in DOMAIN requests[p] \/ requests'[p][i] \subseteq Messages(s) \cup Range(ms)
<1> DEFINE n == Len(requests[p])
           k == Len(ms)
           B == Batches(s, ms)
<1>1. requests[p] \in Seq(SUBSET Payload) /\ B \in Seq(SUBSET Payload)
  BY PostedType DEF TypeOK
<1>2. n \in Nat /\ k \in Nat /\ Len(B) = k /\ DOMAIN requests[p] = 1 .. n
  BY <1>1 DEF Batches
<1>3. requests'[p] = requests[p] \o B /\ \A q \in Peer : q # p => requests'[q] = requests[q]
  BY DEF TypeOK
<1>4. /\ requests'[p] \in Seq(SUBSET Payload) /\ Len(requests'[p]) = n + k
      /\ \A i \in 1 .. n : requests'[p][i] = requests[p][i]
      /\ \A i \in 1 .. k : requests'[p][n + i] = B[i]
  <2>1. /\ Len(requests'[p]) = n + k
        /\ \A i \in 1 .. n + k : requests'[p][i] = IF i <= n THEN requests[p][i] ELSE B[i - n]
    BY <1>1, <1>2, <1>3, ConcatProperties
  <2>2. requests'[p] \in Seq(SUBSET Payload)
    BY <1>1, <1>3, ConcatProperties
  <2>3. \A i \in 1 .. k : n + i \in 1 .. n + k /\ ~(n + i <= n) /\ (n + i) - n = i
    BY <1>2
  <2>4. QED BY <1>2, <2>1, <2>2, <2>3
<1>5. DOMAIN requests'[p] = 1 .. n + k
  BY <1>4, <1>2
<1>6. \A q \in Peer : \A i \in DOMAIN requests[q] :
        i \in DOMAIN requests'[q] /\ requests'[q][i] = requests[q][i]
  BY <1>2, <1>3, <1>4, <1>5
<1>7. OutgoingTruthful(requests', p, Posted(p, s, ms))
  <2>1. CASE ms = << >>
    BY <2>1, <1>6 DEF Posted, OutgoingTruthful, Encoded
  <2>2. CASE ms # << >>
    <3>1. k >= 1 /\ n + k \in DOMAIN requests'[p] /\ requests'[p][n + k] = B[k]
      BY <2>2, <1>2, <1>4, <1>5, EmptySeq
    <3>2. B[k] = Messages(s) \cup Upto(ms, k)
      BY <3>1, <1>2 DEF Batches
    <3>3. Tokens(s) \subseteq Messages(s)
      BY DEF OutgoingTruthful, Tokens, Messages
    <3>4. Posted(p, s, ms).outgoing = [id |-> n + k, messages |-> Messages(s) \cup Upto(ms, k),
                                       tokens |-> Tokens(s) \cup Upto(ms, k)]
      BY <2>2 DEF Posted, SessionState
    <3>5. QED BY <3>1, <3>2, <3>3, <3>4 DEF OutgoingTruthful, Encoded
  <2>3. QED BY <2>1, <2>2
<1>8. \A t \in RequestStatements(p, s, ms) :
        t.kind = "request" /\ Encoded(requests', t.from, t.id, t.data)
  <2>1. \A i \in 1 .. k : n + i \in DOMAIN requests'[p] /\ requests'[p][n + i] = B[i]
    BY <1>2, <1>4, <1>5
  <2>2. QED BY <2>1 DEF RequestStatements, Encoded
<1>9. \A i \in DOMAIN requests'[p] :
        i \in DOMAIN requests[p] \/ requests'[p][i] \subseteq Messages(s) \cup Range(ms)
  <2>1. \A j \in 1 .. k : B[j] \subseteq Messages(s) \cup Range(ms)
    BY <1>2 DEF Batches, Upto, Range
  <2>2. SUFFICES ASSUME NEW i \in DOMAIN requests'[p], i \notin DOMAIN requests[p]
                 PROVE  requests'[p][i] \subseteq Messages(s) \cup Range(ms)
    OBVIOUS
  <2>3. i - n \in 1 .. k /\ n + (i - n) = i
    BY <1>2, <1>5, <2>2
  <2>4. requests'[p][i] = B[i - n]
    BY <1>4, <2>3
  <2>5. QED BY <2>1, <2>3, <2>4
<1>10. QED BY <1>6, <1>7, <1>8, <1>9

LEMMA ProcessMessageQueueTruthful ==
  ASSUME TypeOK, DeliveryInv, NEW p \in Peer, NEW s \in SessionState,
         SessionTruthful(requests, received', submitted', p, s),
         ProcessMessageQueue(p, s),
         received \subseteq received', submitted' = submitted
  PROVE  /\ Grown(requests, received, submitted, requests', received', submitted')
         /\ \A q \in Peer : q # p => sess'[q] = sess[q]
         /\ SessionTruthful(requests', received', submitted', p, sess'[p])
         /\ \A t \in inflight' \ inflight : Truthful(requests', received', t)
         /\ \A q \in Peer : \A i \in DOMAIN requests'[q] : requests'[q][i] \subseteq submitted'
<1>1. s.queue \in Seq(Payload)
  BY DEF SessionState
<1>2. PICK k \in 0 .. Len(s.queue) :
        LET taken == SubSeq(s.queue, 1, k) IN
        /\ sess' = [sess EXCEPT ![p] =
             [Posted(p, s, taken) EXCEPT !.queue = SubSeq(s.queue, k + 1, Len(s.queue))]]
        /\ inflight' = inflight \cup RequestStatements(p, s, taken)
        /\ requests' = [requests EXCEPT ![p] = @ \o Batches(s, taken)]
  BY DEF ProcessMessageQueue
<1> DEFINE taken == SubSeq(s.queue, 1, k)
           left == SubSeq(s.queue, k + 1, Len(s.queue))
           posted == Posted(p, s, taken)
<1>3. /\ taken \in Seq(Payload) /\ left \in Seq(Payload)
      /\ Range(taken) \subseteq submitted
      /\ \A i \in DOMAIN left : left[i] \in submitted
  <2>1. taken \in Seq(Payload) /\ left \in Seq(Payload)
    BY <1>1, SubSeqProperties
  <2>2. /\ Len(taken) = k /\ \A i \in 1 .. k : taken[i] = s.queue[i]
        /\ Len(left) = Len(s.queue) - k
        /\ \A i \in 1 .. Len(s.queue) - k : left[i] = s.queue[k + i]
    <3>1. Len(s.queue) \in Nat
      BY <1>1
    <3>2. Len(taken) = k /\ \A i \in 1 .. k : taken[i] = s.queue[1 + i - 1]
      BY <1>1, <3>1, SubSeqProperties
    <3>3. /\ Len(left) = Len(s.queue) - k
          /\ \A i \in 1 .. Len(s.queue) - k : left[i] = s.queue[k + 1 + i - 1]
      BY <1>1, <3>1, SubSeqProperties
    <3>4. QED BY <3>1, <3>2, <3>3
  <2>3. \A i \in 1 .. Len(s.queue) : s.queue[i] \in submitted
    BY <1>1 DEF SessionTruthful
  <2>4. DOMAIN taken = 1 .. k /\ DOMAIN left = 1 .. Len(s.queue) - k
    BY <2>1, <2>2
  <2>5. \A i \in 1 .. k : i \in 1 .. Len(s.queue)
    BY <1>1
  <2>6. \A i \in 1 .. Len(s.queue) - k : k + i \in 1 .. Len(s.queue)
    BY <1>1
  <2> HIDE DEF taken, left
  <2>7. Range(taken) \subseteq submitted
    BY <2>2, <2>3, <2>4, <2>5 DEF Range
  <2>8. \A i \in DOMAIN left : left[i] \in submitted
    BY <2>2, <2>3, <2>4, <2>6
  <2>9. QED BY <2>1, <2>7, <2>8
<1>4. posted \in SessionState
  BY <1>3, PostedType
<1>5. OutgoingTruthful(requests, p, s)
  BY DEF SessionTruthful
<1>6. /\ \A q \in Peer : \A i \in DOMAIN requests[q] :
            i \in DOMAIN requests'[q] /\ requests'[q][i] = requests[q][i]
      /\ OutgoingTruthful(requests', p, posted)
      /\ \A t \in RequestStatements(p, s, taken) :
            t.kind = "request" /\ Encoded(requests', t.from, t.id, t.data)
      /\ \A i \in DOMAIN requests'[p] :
            i \in DOMAIN requests[p] \/ requests'[p][i] \subseteq Messages(s) \cup Range(taken)
  <2>1. requests' = [requests EXCEPT ![p] = @ \o Batches(s, taken)]
    BY <1>2
  <2>2. taken \in Seq(Payload)
    BY <1>3
  <2> HIDE DEF taken
  <2>3. QED BY <1>5, <2>1, <2>2, PostedTruthful
<1>7. Grown(requests, received, submitted, requests', received', submitted')
  BY <1>6 DEF Grown
<1>8. SessionTruthful(requests', received', submitted', p, s)
  <2>1. Grown(requests, received', submitted', requests', received', submitted')
    BY <1>6 DEF Grown
  <2>2. QED BY <2>1, SessionPersists
<1>9. SessionTruthful(requests', received', submitted', p, sess'[p])
  <2>1. sess'[p] = [posted EXCEPT !.queue = left]
    BY <1>2 DEF TypeOK
  <2>2. /\ posted.buffered = s.buffered /\ posted.known = s.known
        /\ posted.own = s.own /\ posted.peer = s.peer
    BY DEF Posted, SessionState
  <2> HIDE DEF posted, left
  <2>3. /\ sess'[p].buffered = s.buffered /\ sess'[p].known = s.known
        /\ sess'[p].own = s.own /\ sess'[p].peer = s.peer
        /\ sess'[p].outgoing = posted.outgoing /\ sess'[p].queue = left
    BY <1>4, <2>1, <2>2 DEF SessionState
  <2>4. OutgoingTruthful(requests', p, sess'[p])
    BY <1>6, <2>3 DEF OutgoingTruthful
  <2>5. IncomingTruthful(requests', received', p, sess'[p])
    BY <1>8, <2>3 DEF IncomingTruthful, SessionTruthful
  <2>6. QED BY <1>3, <1>8, <2>3, <2>4, <2>5 DEF SessionTruthful
<1>10. \A t \in inflight' \ inflight : Truthful(requests', received', t)
  BY <1>2, <1>6 DEF Truthful
<1>11. \A q \in Peer : \A i \in DOMAIN requests'[q] : requests'[q][i] \subseteq submitted'
  <2>1. Messages(s) \subseteq submitted
    BY <1>5 DEF OutgoingTruthful, Encoded, Messages, DeliveryInv
  <2>2. \A q \in Peer : q # p => requests'[q] = requests[q]
    BY <1>2 DEF TypeOK
  <2>3. \A i \in DOMAIN requests'[p] : requests'[p][i] \subseteq submitted
    BY <1>3, <1>6, <2>1 DEF DeliveryInv
  <2>4. QED BY <2>2, <2>3 DEF DeliveryInv
<1>12. \A q \in Peer : q # p => sess'[q] = sess[q]
  BY <1>2 DEF TypeOK
<1>13. QED BY <1>7, <1>9, <1>10, <1>11, <1>12

(* Surfacing a request keeps a session truthful, provided its payloads count
   as received when there is a subscriber. *)
LEMMA SurfacedTruthful ==
  ASSUME NEW R, NEW V, NEW U, NEW p \in Peer, NEW s \in SessionState,
         SessionTruthful(R, V, U, p, s), NEW r \in Incoming,
         Encoded(R, Other(p), r.id, r.data), s.subscribed => r.data \subseteq V
  PROVE  SessionTruthful(R, V, U, p, Surfaced(s, r))
<1> DEFINE after == Surfaced(s, r)
<1>1. s.buffered \in Seq(Incoming)
  BY DEF SessionState
<1>2. /\ after.buffered = Append(s.buffered, r)
      /\ after.known = IF s.subscribed THEN s.known \cup {r.id} ELSE s.known
      /\ after.outgoing = s.outgoing /\ after.queue = s.queue
      /\ after.own = s.own /\ after.peer = s.peer
  BY DEF Surfaced, SessionState
<1> HIDE DEF after
<1>3. \A i \in DOMAIN after.buffered :
        Encoded(R, Other(p), after.buffered[i].id, after.buffered[i].data)
  <2>1. \A i \in DOMAIN after.buffered : after.buffered[i] = r \/
           (i \in DOMAIN s.buffered /\ after.buffered[i] = s.buffered[i])
    BY <1>1, <1>2, AppendProperties
  <2>2. QED BY <2>1 DEF SessionTruthful, IncomingTruthful
<1>4. \A i \in after.known : Arrived(R, V, Other(p), i)
  BY <1>2 DEF SessionTruthful, IncomingTruthful, Arrived, Encoded
<1>5. OutgoingTruthful(R, p, after)
  BY <1>2 DEF SessionTruthful, OutgoingTruthful
<1>6. SessionTruthful(R, V, U, p, after)
  BY <1>2, <1>3, <1>4, <1>5 DEF SessionTruthful, IncomingTruthful
<1>7. QED BY <1>6 DEF after

LEMMA NoSessionTruthful ==
  ASSUME NEW R, NEW V, NEW U, NEW p \in Peer,
         NEW phase \in {"down", "initialization", "active", "disposed"}
  PROVE  SessionTruthful(R, V, U, p, NoSession(phase))
BY DEF NoSession, SessionTruthful, OutgoingTruthful, IncomingTruthful, TopicTruthful

LEMMA RestoredTruthful ==
  ASSUME NEW R, NEW V, NEW U, NEW p \in Peer, NEW s \in SessionState, NEW e \in Nat,
         s.own # None, s.peer # None, SessionTruthful(R, V, U, p, s)
  PROVE  SessionTruthful(R, V, U, p, Restored(p, s, e))
<1> DEFINE unacked == {t \in Decoded(p, s.own, "request") :
                         ~Acked(t, Decoded(p, s.own, "response"))}
           seeded == [s EXCEPT !.expiry = e,
                               !.seen = @ \cup {t \in s.own \cup s.peer : t.from # p}]
<1>1. /\ seeded.outgoing = s.outgoing /\ seeded.buffered = s.buffered
      /\ seeded.known = s.known /\ seeded.own = s.own /\ seeded.peer = s.peer
      /\ seeded.queue = s.queue
  BY DEF SessionState
<1>2. SessionTruthful(R, V, U, p, seeded)
  <2> HIDE DEF seeded
  <2>1. OutgoingTruthful(R, p, seeded) /\ IncomingTruthful(R, V, p, seeded)
    BY <1>1 DEF SessionTruthful, OutgoingTruthful, IncomingTruthful
  <2>2. QED BY <1>1, <2>1 DEF SessionTruthful
<1>3. CASE unacked = {}
  BY <1>2, <1>3 DEF Restored
<1>4. CASE unacked # {}
  <2> DEFINE t == CHOOSE u \in unacked : TRUE
             out == [id |-> t.id, messages |-> t.data, tokens |-> {}]
             restored == [seeded EXCEPT !.outgoing = out]
  <2>1. t \in s.own /\ t.kind = "request"
    BY <1>4 DEF Decoded
  <2>2. t.from = p /\ Truthful(R, V, t)
    BY <2>1 DEF SessionTruthful, TopicTruthful
  <2>3. Encoded(R, p, t.id, t.data)
    BY <2>1, <2>2 DEF Truthful
  <2>4. Restored(p, s, e) = restored
    BY <1>4 DEF Restored
  <2>6. /\ restored.outgoing = out /\ restored.buffered = s.buffered
        /\ restored.known = s.known /\ restored.own = s.own /\ restored.peer = s.peer
        /\ restored.queue = s.queue
    BY DEF SessionState
  <2> HIDE DEF t, seeded, restored
  <2>7. OutgoingTruthful(R, p, restored)
    BY <2>3, <2>6 DEF OutgoingTruthful
  <2>8. IncomingTruthful(R, V, p, restored)
    BY <2>6 DEF SessionTruthful, IncomingTruthful
  <2>9. QED BY <2>4, <2>6, <2>7, <2>8 DEF SessionTruthful
<1>5. QED BY <1>3, <1>4

LEMMA RecoveredTruthful ==
  ASSUME NEW R, NEW V, NEW U, NEW p \in Peer, NEW s \in SessionState,
         s.peer # None, SessionTruthful(R, V, U, p, s),
         s.subscribed => RecoveredData(p, s) \subseteq V
  PROVE  SessionTruthful(R, V, U, p, Recovered(p, s))
<1> DEFINE theirs == Decoded(p, s.peer, "request")
           t == CHOOSE u \in theirs : TRUE
           answered == Acked(t, Decoded(p, s.peer, "response"))
           taken == [s EXCEPT !.incoming = t.id, !.responded = answered]
<1>1. CASE theirs = {}
  BY <1>1 DEF Recovered
<1>2. CASE theirs # {}
  <2>1. t \in theirs /\ t \in s.peer /\ t.kind = "request"
    BY <1>2 DEF Decoded
  <2>2. t \in Statement
    BY <2>1 DEF SessionState
  <2>3. Encoded(R, Other(p), t.id, t.data)
    BY <2>1 DEF SessionTruthful, TopicTruthful, Truthful
  <2>4. ~answered => t.data \subseteq RecoveredData(p, s)
    BY <2>1 DEF RecoveredData
  <2>5. answered \in BOOLEAN /\ t.id \in RequestId
    BY <2>2 DEF Acked, Statement
  <2>6. Recovered(p, s) = IF answered THEN taken
                          ELSE Surfaced(taken, [id |-> t.id, data |-> t.data])
    BY <1>2 DEF Recovered
  <2>7. [id |-> t.id, data |-> t.data] \in Incoming
    BY <2>2 DEF Statement, Incoming
  <2>8. taken \in SessionState /\ taken.subscribed = s.subscribed
    BY <2>5 DEF SessionState
  <2>9. SessionTruthful(R, V, U, p, taken)
    <3>1. /\ taken.outgoing = s.outgoing /\ taken.buffered = s.buffered
          /\ taken.known = s.known /\ taken.own = s.own /\ taken.peer = s.peer
          /\ taken.queue = s.queue
      BY DEF SessionState
    <3> HIDE DEF taken
    <3>2. OutgoingTruthful(R, p, taken) /\ IncomingTruthful(R, V, p, taken)
      BY <3>1 DEF SessionTruthful, OutgoingTruthful, IncomingTruthful
    <3>3. QED BY <3>1, <3>2 DEF SessionTruthful
  <2> HIDE DEF taken, t, answered
  <2>10. CASE answered
    BY <2>6, <2>9, <2>10
  <2>11. CASE ~answered
    <3>1. taken.subscribed => t.data \subseteq V
      BY <2>4, <2>8, <2>11
    <3>2. SessionTruthful(R, V, U, p, Surfaced(taken, [id |-> t.id, data |-> t.data]))
      BY <2>3, <2>7, <2>8, <2>9, <3>1, SurfacedTruthful
    <3>3. QED BY <2>6, <2>11, <3>2
  <2>12. QED BY <2>10, <2>11
<1>3. QED BY <1>1, <1>2

(* Only these fields matter to truthfulness. *)
LEMMA SameFieldsTruthful ==
  ASSUME NEW R, NEW V, NEW U, NEW p \in Peer, NEW s, NEW s2,
         SessionTruthful(R, V, U, p, s),
         s2.outgoing = s.outgoing, s2.buffered = s.buffered, s2.known = s.known,
         s2.own = s.own, s2.peer = s.peer, s2.queue = s.queue
  PROVE  SessionTruthful(R, V, U, p, s2)
BY DEF SessionTruthful, OutgoingTruthful, IncomingTruthful

LEMMA IsNewTruthful ==
  ASSUME TypeOK, DeliveryInv, NEW p \in Peer, NEW kind \in {"request", "response"},
         IsNew(p, kind)
  PROVE  /\ Truthful(requests, received, store[Other(p)][kind])
         /\ store[Other(p)][kind].from = Other(p) /\ store[Other(p)][kind].kind = kind
         /\ SessionTruthful(requests, received, submitted, p, Marked(p, store[Other(p)][kind]))
<1>1. Other(p) \in Peer /\ store[Other(p)][kind] # None
  BY OtherPeer DEF IsNew
<1>2. KeptTruthful(requests, received, Other(p), kind, store[Other(p)][kind])
  BY <1>1 DEF DeliveryInv
<1>3. sess[p] \in SessionState /\ SessionTruthful(requests, received, submitted, p, sess[p])
  BY DEF TypeOK, DeliveryInv
<1> DEFINE s2 == Marked(p, store[Other(p)][kind])
<1>4. /\ s2.outgoing = sess[p].outgoing /\ s2.buffered = sess[p].buffered
      /\ s2.known = sess[p].known /\ s2.own = sess[p].own /\ s2.peer = sess[p].peer
      /\ s2.queue = sess[p].queue
  BY <1>3 DEF Marked, SessionState
<1>5. SessionTruthful(requests, received, submitted, p, s2)
  <2> HIDE DEF s2
  <2>1. QED BY <1>3, <1>4, SameFieldsTruthful
<1>6. QED BY <1>1, <1>2, <1>5 DEF KeptTruthful

LEMMA OnTopicTruthful ==
  ASSUME TypeOK, DeliveryInv, NEW q \in Peer
  PROVE  TopicTruthful(requests, received, q, OnTopicOf(q))
BY OtherPeer DEF DeliveryInv, OnTopicOf, KeptTruthful, TopicTruthful

LEMMA DeliveryStep ==
  ASSUME TypeOK, TypeOK', DeliveryInv, [Next]_vars
  PROVE  DeliveryInv'
<1>0. \A p \in Peer : /\ sess[p] \in SessionState
                       /\ SessionTruthful(requests, received, submitted, p, sess[p])
  BY DEF TypeOK, DeliveryInv
<1>a. /\ requests' = requests /\ received' = received /\ submitted' = submitted
         => Grown(requests, received, submitted, requests', received', submitted')
      /\ requests' = requests /\ received \subseteq received' /\ submitted' = submitted
         => Grown(requests, received, submitted, requests', received', submitted')
  BY DEF Grown
<1>1. ASSUME NEW p \in Peer, Create(p) \/ Dispose(p) \/ Crash(p) PROVE DeliveryInv'
  <2>1. \E phase \in {"initialization", "disposed", "down"} :
           sess' = [sess EXCEPT ![p] = NoSession(phase)]
    BY <1>1 DEF Create, Dispose, Crash
  <2>2. /\ inflight' \subseteq inflight /\ store' = store /\ requests' = requests
        /\ UNCHANGED history
    BY <1>1 DEF Create, Dispose, Crash
  <2>3. SessionTruthful(requests', received', submitted', p, sess'[p])
    BY <2>1, NoSessionTruthful DEF TypeOK
  <2>4. \A q \in Peer : q # p => sess'[q] = sess[q]
    BY <2>1 DEF TypeOK
  <2>5. QED BY <1>a, <2>2, <2>3, <2>4, StepPreserves DEF history, DeliveryInv, AckImpliesReceived
<1>2. ASSUME NEW p \in Peer, QueryOwn(p) \/ QueryPeer(p) PROVE DeliveryInv'
  <2>1. /\ TopicTruthful(requests, received, p, {}) /\ TopicTruthful(requests, received, Other(p), {})
        /\ TopicTruthful(requests, received, p, OnTopicOf(p))
        /\ TopicTruthful(requests, received, Other(p), OnTopicOf(Other(p)))
    BY OnTopicTruthful, OtherPeer DEF TopicTruthful
  <2>2. UNCHANGED <<inflight, store, requests, history>>
    BY <1>2 DEF QueryOwn, QueryPeer, history
  <2>3. \A q \in Peer : q # p => sess'[q] = sess[q]
    BY <1>2 DEF TypeOK, QueryOwn, QueryPeer
  <2>4. SessionTruthful(requests, received, submitted, p, sess'[p])
    <3>1. /\ sess'[p].outgoing = sess[p].outgoing /\ sess'[p].buffered = sess[p].buffered
          /\ sess'[p].known = sess[p].known /\ sess'[p].queue = sess[p].queue
          /\ \/ sess'[p].own = sess[p].own /\ sess'[p].peer \in {{}, OnTopicOf(Other(p))}
             \/ sess'[p].peer = sess[p].peer /\ sess'[p].own \in {{}, OnTopicOf(p)}
      <4>1. CASE QueryOwn(p)
        <5>1. sess'[p] \in {[sess[p] EXCEPT !.own = {}], [sess[p] EXCEPT !.own = OnTopicOf(p)]}
          BY <4>1 DEF QueryOwn, TypeOK
        <5>2. QED BY <1>0, <5>1 DEF SessionState
      <4>2. CASE QueryPeer(p)
        <5>1. sess'[p] \in {[sess[p] EXCEPT !.peer = {}],
                            [sess[p] EXCEPT !.peer = OnTopicOf(Other(p))]}
          BY <4>2 DEF QueryPeer, TypeOK
        <5>2. QED BY <1>0, <5>1 DEF SessionState
      <4>3. QED BY <1>2, <4>1, <4>2
    <3>2. /\ OutgoingTruthful(requests, p, sess'[p])
          /\ IncomingTruthful(requests, received, p, sess'[p])
      BY <1>0, <3>1 DEF SessionTruthful, OutgoingTruthful, IncomingTruthful
    <3>3. QED BY <1>0, <2>1, <3>1, <3>2 DEF SessionTruthful
  <2>5. QED BY <1>a, <2>2, <2>3, <2>4, StepPreserves DEF history, DeliveryInv, AckImpliesReceived
<1>4. ASSUME NEW p \in Peer, FinishInit(p) PROVE DeliveryInv'
  <2> DEFINE s == sess[p]
  <2>1. PICK e \in ObservedExpiries(s.own) :
          ProcessMessageQueue(p, [Recovered(p, Restored(p, s, e)) EXCEPT
             !.phase = "active", !.live = TRUE, !.own = None, !.peer = None, !.unseen = Unseen(p)])
    BY <1>4 DEF FinishInit
  <2> DEFINE restored == Restored(p, s, e)
             recovered == Recovered(p, restored)
             started == [recovered EXCEPT !.phase = "active", !.live = TRUE,
                                          !.own = None, !.peer = None, !.unseen = Unseen(p)]
  <2>2. s \in SessionState /\ s.own # None /\ s.peer # None
    BY <1>0, <1>4 DEF FinishInit
  <2>3. e \in Nat
    BY <2>2 DEF SessionState, ObservedExpiries, Statement, Expiry
  <2>4. restored \in SessionState
    BY <2>2, <2>3, RestoredType
  <2>5. restored.peer = s.peer /\ restored.subscribed = s.subscribed
    BY <2>2 DEF Restored, SessionState
  <2>6. recovered \in SessionState
    BY <2>2, <2>4, <2>5, RecoveredType
  <2>7. /\ received' = HandedOver(s, RecoveredData(p, s))
        /\ UNCHANGED <<store, submitted, resolved>>
    BY <1>4 DEF FinishInit
  <2>8. received \subseteq received' /\ (s.subscribed => RecoveredData(p, s) \subseteq received')
    BY <2>7 DEF HandedOver
  <2>9. SessionTruthful(requests, received', submitted', p, s)
    <3>1. Grown(requests, received, submitted, requests, received', submitted')
      BY <2>7, <2>8 DEF Grown
    <3>2. QED BY <1>0, <3>1, SessionPersists
  <2>10. SessionTruthful(requests, received', submitted', p, restored)
    BY <2>2, <2>3, <2>9, RestoredTruthful
  <2>11. RecoveredData(p, restored) = RecoveredData(p, s)
    BY <2>5 DEF RecoveredData
  <2>12. SessionTruthful(requests, received', submitted', p, recovered)
    BY <2>2, <2>4, <2>5, <2>8, <2>10, <2>11, RecoveredTruthful
  <2> HIDE DEF restored, recovered
  <2>13. started \in SessionState
    BY <2>6, UnseenType DEF SessionState
  <2>14. SessionTruthful(requests, received', submitted', p, started)
    <3>1. /\ started.outgoing = recovered.outgoing /\ started.buffered = recovered.buffered
          /\ started.known = recovered.known /\ started.queue = recovered.queue
          /\ started.own = None /\ started.peer = None
      BY <2>6 DEF SessionState
    <3> HIDE DEF started
    <3>2. /\ OutgoingTruthful(requests, p, started)
          /\ IncomingTruthful(requests, received', p, started)
      BY <2>12, <3>1 DEF SessionTruthful, OutgoingTruthful, IncomingTruthful
    <3>3. QED BY <2>12, <3>1, <3>2 DEF SessionTruthful, TopicTruthful
  <2>15. ProcessMessageQueue(p, started)
    BY <2>1 DEF restored, recovered
  <2> HIDE DEF started
  <2>16. /\ Grown(requests, received, submitted, requests', received', submitted')
         /\ \A q \in Peer : q # p => sess'[q] = sess[q]
         /\ SessionTruthful(requests', received', submitted', p, sess'[p])
         /\ \A t \in inflight' \ inflight : Truthful(requests', received', t)
         /\ \A q \in Peer : \A i \in DOMAIN requests'[q] : requests'[q][i] \subseteq submitted'
    BY <2>7, <2>8, <2>13, <2>14, <2>15, ProcessMessageQueueTruthful
  <2>17. received' \subseteq submitted'
    <3>1. RecoveredData(p, s) \subseteq submitted
      <4>1. \A t \in Decoded(p, s.peer, "request") : Encoded(requests, Other(p), t.id, t.data)
        BY <1>0, <2>2 DEF Decoded, SessionTruthful, TopicTruthful, Truthful
      <4>2. QED BY <4>1, OtherPeer DEF RecoveredData, Encoded, DeliveryInv
    <3>2. QED BY <2>7, <3>1 DEF HandedOver, DeliveryInv
  <2>18. QED BY <2>7, <2>8, <2>16, <2>17, StepPreserves DEF DeliveryInv, AckImpliesReceived
<1>5. ASSUME NEW p \in Peer, NEW m \in Payload, Submit(p, m) PROVE DeliveryInv'
  <2> DEFINE s == [sess[p] EXCEPT !.live = TRUE, !.pending = @ \cup {m}]
  <2>1. s \in SessionState
    BY <1>0, UpdatedSessionType
  <2>2. /\ submitted' = submitted \cup {m}
        /\ UNCHANGED <<store, received, resolved>>
    BY <1>5 DEF Submit
  <2>3. SessionTruthful(requests, received, submitted, p, s)
    <3>1. /\ s.outgoing = sess[p].outgoing /\ s.buffered = sess[p].buffered
          /\ s.known = sess[p].known /\ s.own = sess[p].own /\ s.peer = sess[p].peer
          /\ s.queue = sess[p].queue
      BY <1>0 DEF SessionState
    <3> HIDE DEF s
    <3>2. QED BY <1>0, <3>1, SameFieldsTruthful
  <2>4. CASE /\ sess' = [sess EXCEPT ![p] = Posted(p, s, <<m>>)]
             /\ inflight' = inflight \cup RequestStatements(p, s, <<m>>)
             /\ requests' = [requests EXCEPT ![p] = @ \o Batches(s, <<m>>)]
    <3> DEFINE posted == Posted(p, s, <<m>>)
    <3>1. /\ posted.buffered = s.buffered /\ posted.known = s.known
          /\ posted.own = s.own /\ posted.peer = s.peer /\ posted.queue = s.queue
      BY <2>1 DEF Posted, SessionState
    <3>2. sess'[p] = posted /\ \A q \in Peer : q # p => sess'[q] = sess[q]
      BY <2>4 DEF TypeOK
    <3>3. <<m>> \in Seq(Payload) /\ Range(<<m>>) = {m}
      BY DEF Range
    <3>4. OutgoingTruthful(requests, p, s)
      BY <2>3 DEF SessionTruthful
    <3> HIDE DEF s, posted
    <3>5. /\ \A q \in Peer : \A i \in DOMAIN requests[q] :
                i \in DOMAIN requests'[q] /\ requests'[q][i] = requests[q][i]
          /\ OutgoingTruthful(requests', p, Posted(p, s, <<m>>))
          /\ \A t \in RequestStatements(p, s, <<m>>) :
                t.kind = "request" /\ Encoded(requests', t.from, t.id, t.data)
          /\ \A i \in DOMAIN requests'[p] :
                i \in DOMAIN requests[p] \/ requests'[p][i] \subseteq Messages(s) \cup Range(<<m>>)
      BY <2>1, <2>4, <3>3, <3>4, PostedTruthful
    <3>6. Grown(requests, received, submitted, requests', received', submitted')
      BY <2>2, <3>5 DEF Grown
    <3>7. SessionTruthful(requests', received', submitted', p, s)
      BY <2>1, <2>3, <3>6, SessionPersists
    <3>8. SessionTruthful(requests', received', submitted', p, posted)
      <4>1. OutgoingTruthful(requests', p, posted)
        BY <3>5 DEF posted
      <4>2. IncomingTruthful(requests', received', p, posted)
        BY <3>1, <3>7 DEF SessionTruthful, IncomingTruthful
      <4>3. QED BY <3>1, <3>7, <4>1, <4>2 DEF SessionTruthful
    <3>9. \A t \in inflight' \ inflight : Truthful(requests', received', t)
      BY <2>4, <3>5 DEF Truthful
    <3>10. \A q \in Peer : \A i \in DOMAIN requests'[q] : requests'[q][i] \subseteq submitted'
      <4>1. Messages(s) \subseteq submitted
        BY <3>4 DEF OutgoingTruthful, Encoded, Messages, DeliveryInv
      <4>2. \A q \in Peer : q # p => requests'[q] = requests[q]
        BY <2>4 DEF TypeOK
      <4>3. \A i \in DOMAIN requests'[p] : requests'[p][i] \subseteq submitted'
        BY <2>2, <3>3, <3>5, <4>1 DEF DeliveryInv
      <4>4. QED BY <2>2, <4>2, <4>3 DEF DeliveryInv
    <3>11. QED BY <2>2, <3>2, <3>6, <3>8, <3>9, <3>10, StepPreserves
               DEF DeliveryInv, AckImpliesReceived
  <2>5. CASE /\ sess' = [sess EXCEPT ![p] = [s EXCEPT !.queue = Append(@, m)]]
             /\ UNCHANGED <<inflight, requests>>
    <3> DEFINE queued == [s EXCEPT !.queue = Append(@, m)]
    <3>1. /\ queued.buffered = s.buffered /\ queued.known = s.known
          /\ queued.own = s.own /\ queued.peer = s.peer /\ queued.outgoing = s.outgoing
          /\ queued.queue = Append(s.queue, m)
      BY <2>1 DEF SessionState
    <3>2. sess'[p] = queued /\ \A q \in Peer : q # p => sess'[q] = sess[q]
      BY <2>5 DEF TypeOK
    <3>3. s.queue \in Seq(Payload)
      BY <2>1 DEF SessionState
    <3> HIDE DEF s, queued
    <3>4. \A i \in DOMAIN queued.queue : queued.queue[i] \in submitted'
      BY <2>2, <2>3, <3>1, <3>3, AppendProperties DEF SessionTruthful
    <3>5. Grown(requests, received, submitted, requests', received', submitted')
      BY <2>2, <2>5 DEF Grown
    <3>6. SessionTruthful(requests', received', submitted', p, queued)
      <4>1. SessionTruthful(requests', received', submitted', p, s)
        BY <2>1, <2>3, <3>5, SessionPersists
      <4>2. /\ OutgoingTruthful(requests', p, queued)
            /\ IncomingTruthful(requests', received', p, queued)
        BY <3>1, <4>1 DEF SessionTruthful, OutgoingTruthful, IncomingTruthful
      <4>3. QED BY <3>1, <3>4, <4>1, <4>2 DEF SessionTruthful
    <3>7. QED BY <2>2, <2>5, <3>2, <3>5, <3>6, StepPreserves DEF DeliveryInv, AckImpliesReceived
  <2>6. QED BY <1>5, <2>4, <2>5 DEF Submit
<1>6. ASSUME NEW p \in Peer, Respond(p) PROVE DeliveryInv'
  <2> DEFINE t == [from |-> p, kind |-> "response", id |-> sess[p].incoming, data |-> {},
                   expiry |-> NextExpiry(sess[p].expiry)]
  <2>1. /\ inflight' = inflight \cup {t}
        /\ sess[p].incoming \in sess[p].known
        /\ UNCHANGED <<store, requests, history>>
    BY <1>6 DEF Respond, history
  <2>2. /\ sess'[p] = [sess[p] EXCEPT !.responded = TRUE, !.expiry = NextExpiry(@)]
        /\ \A q \in Peer : q # p => sess'[q] = sess[q]
    BY <1>6 DEF Respond, TypeOK
  <2>3. Truthful(requests, received, t)
    BY <1>0, <2>1 DEF Truthful, SessionTruthful, IncomingTruthful
  <2>4. /\ sess'[p].outgoing = sess[p].outgoing /\ sess'[p].buffered = sess[p].buffered
        /\ sess'[p].known = sess[p].known /\ sess'[p].own = sess[p].own
        /\ sess'[p].peer = sess[p].peer /\ sess'[p].queue = sess[p].queue
    BY <1>0, <2>2 DEF SessionState
  <2>5. SessionTruthful(requests, received, submitted, p, sess'[p])
    BY <1>0, <2>4, SameFieldsTruthful
  <2> HIDE DEF t
  <2>6. QED BY <1>a, <2>1, <2>2, <2>3, <2>5, StepPreserves
            DEF history, DeliveryInv, AckImpliesReceived
<1>7. ASSUME NEW p \in Peer, Subscribe(p) PROVE DeliveryInv'
  <2> DEFINE s == sess[p]
             replayed == {s.buffered[i].id : i \in DOMAIN s.buffered}
             data == UNION {s.buffered[i].data : i \in DOMAIN s.buffered}
  <2>1. /\ received' = received \cup data
        /\ UNCHANGED <<inflight, store, requests, submitted, resolved>>
    BY <1>7 DEF Subscribe
  <2>3. \A q \in Peer : q # p => sess'[q] = sess[q]
    BY <1>7 DEF Subscribe, TypeOK
  <2>4. /\ sess'[p].outgoing = s.outgoing /\ sess'[p].buffered = s.buffered
        /\ sess'[p].known = s.known \cup replayed /\ sess'[p].own = s.own
        /\ sess'[p].peer = s.peer /\ sess'[p].queue = s.queue
    <3>1. s \in SessionState
      BY <1>0
    <3>2. \E T : sess'[p] = [s EXCEPT !.subscribed = TRUE, !.live = TRUE,
                               !.known = @ \cup replayed, !.handed = replayed, !.twice = T]
      BY <1>7 DEF Subscribe, TypeOK
    <3> HIDE DEF s, replayed
    <3>3. QED BY <3>1, <3>2 DEF SessionState
  <2>5. \A i \in DOMAIN s.buffered :
           Encoded(requests, Other(p), s.buffered[i].id, s.buffered[i].data)
    BY <1>0 DEF SessionTruthful, IncomingTruthful
  <2>6. data \subseteq submitted
    BY <2>5, OtherPeer DEF Encoded, DeliveryInv
  <2>7. Grown(requests, received, submitted, requests', received', submitted')
    BY <2>1 DEF Grown
  <2>8. SessionTruthful(requests', received', submitted', p, s)
    BY <1>0, <2>7, SessionPersists
  <2>9. \A i \in replayed : Arrived(requests', received', Other(p), i)
    BY <2>1, <2>5 DEF Encoded, Arrived
  <2>10. SessionTruthful(requests', received', submitted', p, sess'[p])
    <3> HIDE DEF s, replayed, data
    <3>1. OutgoingTruthful(requests', p, sess'[p])
      BY <2>4, <2>8 DEF SessionTruthful, OutgoingTruthful
    <3>2. IncomingTruthful(requests', received', p, sess'[p])
      BY <2>4, <2>8, <2>9 DEF SessionTruthful, IncomingTruthful
    <3>3. QED BY <2>4, <2>8, <3>1, <3>2 DEF SessionTruthful
  <2> HIDE DEF s, replayed, data
  <2>11. QED BY <2>1, <2>3, <2>6, <2>7, <2>10, StepPreserves DEF DeliveryInv, AckImpliesReceived
<1>8. ASSUME NEW p \in Peer, Unsubscribe(p) PROVE DeliveryInv'
  <2>1. UNCHANGED <<inflight, store, requests, history>>
    BY <1>8 DEF Unsubscribe, history
  <2>2. /\ sess'[p] = [sess[p] EXCEPT !.subscribed = FALSE]
        /\ \A q \in Peer : q # p => sess'[q] = sess[q]
    BY <1>8 DEF Unsubscribe, TypeOK
  <2>3. /\ sess'[p].outgoing = sess[p].outgoing /\ sess'[p].buffered = sess[p].buffered
        /\ sess'[p].known = sess[p].known /\ sess'[p].own = sess[p].own
        /\ sess'[p].peer = sess[p].peer /\ sess'[p].queue = sess[p].queue
    BY <1>0, <2>2 DEF SessionState
  <2>4. SessionTruthful(requests, received, submitted, p, sess'[p])
    BY <1>0, <2>3, SameFieldsTruthful
  <2>5. QED BY <1>a, <2>1, <2>2, <2>4, StepPreserves DEF history, DeliveryInv, AckImpliesReceived
<1>9. ASSUME NEW p \in Peer, DeliverRequest(p) PROVE DeliveryInv'
  <2> DEFINE t == store[Other(p)]["request"]
             s == Marked(p, t)
             taken == [s EXCEPT !.incoming = t.id, !.responded = FALSE]
             r == [id |-> t.id, data |-> t.data]
  <2>1. IsNew(p, "request") /\ RouteRequest(p, s, t)
    BY <1>9 DEF DeliverRequest
  <2>2. UNCHANGED <<inflight, store, requests, submitted, resolved>>
    BY <1>9 DEF DeliverRequest
  <2>3. t \in Statement /\ s \in SessionState
    BY <2>1, IsNewType
  <2>4. /\ Encoded(requests, Other(p), t.id, t.data)
        /\ SessionTruthful(requests, received, submitted, p, s)
    BY <2>1, IsNewTruthful DEF Truthful
  <2>5. received' = received \/ received' = HandedOver(s, t.data)
    BY <2>1 DEF RouteRequest
  <2>6. received \subseteq received' /\ received' \subseteq submitted'
    BY <2>2, <2>4, <2>5, OtherPeer DEF HandedOver, Encoded, DeliveryInv
  <2>7. Grown(requests, received, submitted, requests', received', submitted')
    BY <2>2, <2>6 DEF Grown
  <2>8. SessionTruthful(requests', received', submitted', p, s)
    BY <2>3, <2>4, <2>7, SessionPersists
  <2>9. r \in Incoming /\ taken \in SessionState
    BY <2>3 DEF Statement, Incoming, SessionState
  <2>10. /\ taken.outgoing = s.outgoing /\ taken.buffered = s.buffered
         /\ taken.known = s.known /\ taken.own = s.own /\ taken.peer = s.peer
         /\ taken.queue = s.queue /\ taken.subscribed = s.subscribed
    BY <2>3 DEF SessionState
  <2>11. r.id = t.id /\ r.data = t.data
    OBVIOUS
  <2>12. \/ sess' = [sess EXCEPT ![p] = s]
         \/ /\ sess' = [sess EXCEPT ![p] = Surfaced(taken, r)]
            /\ received' = HandedOver(s, t.data)
    BY <2>1 DEF RouteRequest
  <2> HIDE DEF taken, s, t, r
  <2>13. SessionTruthful(requests', received', submitted', p, taken)
    BY <2>8, <2>10, SameFieldsTruthful
  <2>14. received' = HandedOver(s, t.data) =>
           SessionTruthful(requests', received', submitted', p, Surfaced(taken, r))
    <3>1. Encoded(requests', Other(p), r.id, r.data)
      BY <2>2, <2>4, <2>11
    <3>2. received' = HandedOver(s, t.data) => (taken.subscribed => r.data \subseteq received')
      BY <2>10, <2>11 DEF HandedOver
    <3>3. QED BY <2>9, <2>13, <3>1, <3>2, SurfacedTruthful
  <2>15. SessionTruthful(requests', received', submitted', p, sess'[p])
    BY <2>8, <2>12, <2>14 DEF TypeOK
  <2>16. \A q \in Peer : q # p => sess'[q] = sess[q]
    BY <2>12 DEF TypeOK
  <2>17. QED BY <2>2, <2>6, <2>7, <2>15, <2>16, StepPreserves DEF DeliveryInv, AckImpliesReceived
<1>10. ASSUME NEW p \in Peer, DeliverResponse(p) PROVE DeliveryInv'
  <2> DEFINE t == store[Other(p)]["response"]
             s == Marked(p, t)
             settled == [s EXCEPT !.pending = @ \ s.outgoing.tokens, !.outgoing = None]
  <2>1. IsNew(p, "response") /\ RouteResponse(p, s, t)
    BY <1>10 DEF DeliverResponse
  <2>2. UNCHANGED <<store, submitted, received>>
    BY <1>10 DEF DeliverResponse
  <2>3. t \in Statement /\ s \in SessionState
    BY <2>1, IsNewType
  <2>4. /\ Arrived(requests, received, p, t.id)
        /\ SessionTruthful(requests, received, submitted, p, s)
    BY <2>1, IsNewTruthful, OtherPeer DEF Truthful
  <2>5. CASE AckMatches(s, t)
    <3>1. s.outgoing.tokens \subseteq received
      BY <2>4, <2>5 DEF AckMatches, SessionTruthful, OutgoingTruthful, Encoded, Arrived
    <3>2. /\ resolved' = resolved \cup (s.outgoing.tokens \cap s.pending)
          /\ ProcessMessageQueue(p, settled)
      BY <2>1, <2>5 DEF RouteResponse
    <3>3. resolved' \subseteq received'
      BY <2>2, <3>1, <3>2 DEF DeliveryInv, AckImpliesReceived
    <3>4. settled \in SessionState
      BY <2>3 DEF SessionState
    <3>5. /\ settled.outgoing = None /\ settled.buffered = s.buffered
          /\ settled.known = s.known /\ settled.own = s.own /\ settled.peer = s.peer
          /\ settled.queue = s.queue
      BY <2>3 DEF SessionState
    <3> HIDE DEF settled, s, t
    <3>6. SessionTruthful(requests, received', submitted', p, settled)
      <4>1. OutgoingTruthful(requests, p, settled) /\ IncomingTruthful(requests, received, p, settled)
        BY <2>4, <3>5 DEF SessionTruthful, OutgoingTruthful, IncomingTruthful
      <4>2. QED BY <2>2, <2>4, <3>5, <4>1 DEF SessionTruthful
    <3>7. /\ Grown(requests, received, submitted, requests', received', submitted')
          /\ \A q \in Peer : q # p => sess'[q] = sess[q]
          /\ SessionTruthful(requests', received', submitted', p, sess'[p])
          /\ \A u \in inflight' \ inflight : Truthful(requests', received', u)
          /\ \A q \in Peer : \A i \in DOMAIN requests'[q] : requests'[q][i] \subseteq submitted'
      BY <2>2, <3>2, <3>4, <3>6, ProcessMessageQueueTruthful
    <3>8. QED BY <2>2, <3>3, <3>7, StepPreserves DEF DeliveryInv
  <2>6. CASE ~AckMatches(s, t)
    <3>1. /\ sess' = [sess EXCEPT ![p] = s]
          /\ UNCHANGED <<resolved, inflight, requests>>
      BY <2>1, <2>6 DEF RouteResponse
    <3> HIDE DEF s, t, settled
    <3>2. sess'[p] = s /\ \A q \in Peer : q # p => sess'[q] = sess[q]
      BY <3>1 DEF TypeOK
    <3>3. QED BY <1>a, <2>2, <2>4, <3>1, <3>2, StepPreserves DEF DeliveryInv, AckImpliesReceived
  <2>7. QED BY <2>5, <2>6
<1>11. ASSUME NEW t \in inflight, Accept(t) \/ Refuse(t) \/ SubmitFails(t) PROVE DeliveryInv'
  <2>1. inflight' \subseteq inflight /\ UNCHANGED <<sess, requests, history>>
    BY <1>11 DEF Accept, Refuse, SubmitFails
  <2>2. t \in Statement /\ Truthful(requests, received, t)
    BY DEF TypeOK, DeliveryInv
  <2>3. t.from \in Peer /\ t.kind \in {"request", "response"}
    BY <2>2 DEF Statement
  <2>4. \A p \in Peer : \A kind \in {"request", "response"} :
          KeptTruthful(requests, received, p, kind, store'[p][kind])
    <3>1. CASE store' = store
      BY <3>1 DEF DeliveryInv
    <3>2. CASE store' = [store EXCEPT ![t.from][t.kind] = t]
      <4>1. ASSUME NEW p \in Peer, NEW kind \in {"request", "response"}
            PROVE  KeptTruthful(requests, received, p, kind, store'[p][kind])
        <5>1. \/ store'[p][kind] = store[p][kind]
              \/ store'[p][kind] = t /\ p = t.from /\ kind = t.kind
          BY <2>3, <3>2 DEF TypeOK
        <5>2. QED BY <2>2, <5>1 DEF KeptTruthful, DeliveryInv
      <4>2. QED BY <4>1
    <3>3. QED BY <1>11, <3>1, <3>2 DEF Accept, Refuse, SubmitFails
  <2>5. QED BY <2>1, <2>4 DEF DeliveryInv, AckImpliesReceived, history
<1>12. ASSUME Tick \/ UNCHANGED vars PROVE DeliveryInv'
  <2>1. UNCHANGED <<sess, inflight, store, requests, history>>
    BY <1>12 DEF Tick, vars, history
  <2>2. QED BY <2>1 DEF DeliveryInv, AckImpliesReceived, history
<1>13. QED
  BY <1>1, <1>2, <1>4, <1>5, <1>6, <1>7, <1>8, <1>9, <1>10, <1>11, <1>12 DEF Next

(* What a statement, a session or a query result says of a request is what was
   encoded under its id, and only requests whose payloads were handed over are
   answered: in every reachable state of every instance, whatever is lost,
   refused, delayed or restarted. *)
THEOREM DeliveryInvariant == Spec => []DeliveryInv
<1>1. Init => DeliveryInv
  <2>1. ASSUME Init PROVE \A p \in Peer : SessionTruthful(requests, received, submitted, p, sess[p])
    BY <2>1, NoSessionTruthful DEF Init
  <2>2. ASSUME Init PROVE \A p \in Peer : \A kind \in {"request", "response"} :
                            KeptTruthful(requests, received, p, kind, store[p][kind])
    BY <2>2 DEF Init, KeptTruthful
  <2>3. ASSUME Init PROVE \A p \in Peer : \A i \in DOMAIN requests[p] : requests[p][i] \subseteq submitted
    BY <2>3 DEF Init
  <2>4. QED BY <2>1, <2>2, <2>3 DEF Init, DeliveryInv, AckImpliesReceived
<1>2. TypeOK /\ TypeOK' /\ DeliveryInv /\ [Next]_vars => DeliveryInv'
  BY DeliveryStep
<1>3. QED BY <1>1, <1>2, TypeCorrect, PTL DEF Spec

(* request() resolves only for a payload the receiving application was handed
   (routeStatementData settles a batch on the ACK of its current id only). *)
THEOREM AcksAreTrue == Spec => []AckImpliesReceived
<1>1. DeliveryInv => AckImpliesReceived
  BY DEF DeliveryInv
<1>2. QED BY <1>1, DeliveryInvariant, PTL

(* Every step of the session is a step of acknowledged delivery, or none. *)
LEMMA DeliveryRefined ==
  ASSUME TypeOK', DeliveryInv, DeliveryInv', [Next]_vars
  PROVE  [Delivery!Next]_(Delivery!vars)
<1>1. ASSUME NEW p \in Peer, NEW m \in Payload, Submit(p, m) PROVE Delivery!Next
  BY <1>1 DEF Submit, Delivery!Next, Delivery!Submit
<1>2. ASSUME received \subseteq received', UNCHANGED <<submitted, resolved>> PROVE Delivery!Next
  <2>1. Delivery!Receive(received')
    BY <1>2 DEF Delivery!Receive, DeliveryInv
  <2>2. QED BY <2>1 DEF Delivery!Next, TypeOK
<1>3. ASSUME resolved \subseteq resolved', UNCHANGED <<submitted, received>> PROVE Delivery!Next
  <2>1. Delivery!Resolve(resolved')
    BY <1>3 DEF Delivery!Resolve, DeliveryInv, AckImpliesReceived
  <2>2. QED BY <2>1 DEF Delivery!Next, TypeOK
<1>4. ASSUME NEW p \in Peer, FinishInit(p) \/ Subscribe(p) \/ DeliverRequest(p)
      PROVE  Delivery!Next
  <2>1. received \subseteq received' /\ UNCHANGED <<submitted, resolved>>
    <3>1. CASE FinishInit(p)
      BY <3>1 DEF FinishInit, HandedOver
    <3>2. CASE Subscribe(p)
      BY <3>2 DEF Subscribe
    <3>3. CASE DeliverRequest(p)
      BY <3>3 DEF DeliverRequest, RouteRequest, HandedOver
    <3>4. QED BY <1>4, <3>1, <3>2, <3>3
  <2>2. QED BY <1>2, <2>1
<1>5. ASSUME NEW p \in Peer, DeliverResponse(p) PROVE Delivery!Next
  <2>1. resolved \subseteq resolved' /\ UNCHANGED <<submitted, received>>
    BY <1>5 DEF DeliverResponse, RouteResponse
  <2>2. QED BY <1>3, <2>1
<1>6. ASSUME NEW p \in Peer, \/ Create(p) \/ QueryOwn(p) \/ QueryPeer(p) \/ Dispose(p)
                             \/ Crash(p) \/ Respond(p) \/ Unsubscribe(p)
      PROVE  UNCHANGED Delivery!vars
  BY <1>6 DEF Create, QueryOwn, QueryPeer, Dispose, Crash, Respond, Unsubscribe,
              history, Delivery!vars
<1>7. ASSUME NEW t \in inflight, Accept(t) \/ Refuse(t) \/ SubmitFails(t)
      PROVE  UNCHANGED Delivery!vars
  BY <1>7 DEF Accept, Refuse, SubmitFails, history, Delivery!vars
<1>8. Tick \/ UNCHANGED vars => UNCHANGED Delivery!vars
  BY DEF Tick, vars, history, Delivery!vars
<1>9. QED BY <1>1, <1>4, <1>5, <1>6, <1>7, <1>8 DEF Next

(* The session implements acknowledged delivery: nothing arrives that was not
   submitted, nothing is resolved that did not arrive, and neither is undone. *)
THEOREM DeliveryImplemented == Spec => ImplementsDelivery
<1>1. Init => Delivery!Init
  BY DEF Init, Delivery!Init
<1>2. TypeOK' /\ DeliveryInv /\ DeliveryInv' /\ [Next]_vars => [Delivery!Next]_(Delivery!vars)
  BY DeliveryRefined
<1>3. QED BY <1>1, <1>2, TypeCorrect, DeliveryInvariant, PTL
          DEF Spec, ImplementsDelivery, Delivery!Spec

-----------------------------------------------------------------------------
(* What the handlers change of a session, field by field. *)

SameBatch(s, t) == t.outgoing = s.outgoing /\ t.queue = s.queue /\ t.expiry = s.expiry

SameBesidesBatch(s, t) ==
  /\ t.phase = s.phase /\ t.incoming = s.incoming /\ t.responded = s.responded
  /\ t.pending = s.pending /\ t.seen = s.seen /\ t.live = s.live /\ t.buffered = s.buffered
  /\ t.own = s.own /\ t.peer = s.peer /\ t.subscribed = s.subscribed
  /\ t.known = s.known /\ t.handed = s.handed /\ t.twice = s.twice /\ t.unseen = s.unseen

LEMMA PostedFields ==
  ASSUME NEW p \in Peer, NEW s \in SessionState, NEW ms \in Seq(Payload)
  PROVE  LET posted == Posted(p, s, ms) IN
         /\ SameBesidesBatch(s, posted) /\ posted.queue = s.queue
         /\ ms = << >> => posted.outgoing = s.outgoing /\ posted.expiry = s.expiry
         /\ ms # << >> =>
              /\ posted.expiry = NextExpiry(s.expiry) + Len(ms) - 1
              /\ posted.outgoing = [id |-> Len(requests[p]) + Len(ms),
                                    messages |-> Messages(s) \cup Upto(ms, Len(ms)),
                                    tokens |-> Tokens(s) \cup Upto(ms, Len(ms))]
<1>1. CASE ms = << >>
  BY <1>1 DEF Posted, SameBesidesBatch
<1>2. CASE ms # << >>
  <2> DEFINE out == [id |-> Len(requests[p]) + Len(ms),
                     messages |-> Messages(s) \cup Upto(ms, Len(ms)),
                     tokens |-> Tokens(s) \cup Upto(ms, Len(ms))]
             exp == NextExpiry(s.expiry) + Len(ms) - 1
  <2>1. Posted(p, s, ms) = [s EXCEPT !.expiry = exp, !.outgoing = out]
    BY <1>2 DEF Posted
  <2> HIDE DEF out, exp
  <2>2. /\ SameBesidesBatch(s, Posted(p, s, ms)) /\ Posted(p, s, ms).queue = s.queue
        /\ Posted(p, s, ms).expiry = exp /\ Posted(p, s, ms).outgoing = out
    BY <2>1 DEF SameBesidesBatch, SessionState
  <2>3. QED BY <1>2, <2>2 DEF out, exp
<1>3. QED BY <1>1, <1>2

(* A run of processMessageQueue: the first k payloads are posted. *)
QueueSplit(p, s, k, taken, left) ==
  /\ k \in 0 .. Len(s.queue) /\ TakesFromQueue(s, k)
  /\ taken \in Seq(Payload) /\ Len(taken) = k /\ \A i \in 1 .. k : taken[i] = s.queue[i]
  /\ left \in Seq(Payload) /\ Len(left) = Len(s.queue) - k
  /\ \A i \in 1 .. Len(s.queue) - k : left[i] = s.queue[k + i]
  /\ sess'[p].queue = left
  /\ sess'[p].outgoing = Posted(p, s, taken).outgoing
  /\ sess'[p].expiry = Posted(p, s, taken).expiry
  /\ inflight' = inflight \cup RequestStatements(p, s, taken)
  /\ requests' = [requests EXCEPT ![p] = @ \o Batches(s, taken)]

LEMMA QueueRuns ==
  ASSUME TypeOK, NEW p \in Peer, NEW s \in SessionState, ProcessMessageQueue(p, s)
  PROVE  /\ \E k \in 0 .. Len(s.queue) : \E taken, left \in Seq(Payload) :
              QueueSplit(p, s, k, taken, left)
         /\ SameBesidesBatch(s, sess'[p])
         /\ \A q \in Peer : q # p => sess'[q] = sess[q]
<1>1. s.queue \in Seq(Payload) /\ Len(s.queue) \in Nat
  BY DEF SessionState
<1>2. PICK k \in 0 .. Len(s.queue) :
        LET taken == SubSeq(s.queue, 1, k) IN
        /\ TakesFromQueue(s, k)
        /\ sess' = [sess EXCEPT ![p] =
             [Posted(p, s, taken) EXCEPT !.queue = SubSeq(s.queue, k + 1, Len(s.queue))]]
        /\ inflight' = inflight \cup RequestStatements(p, s, taken)
        /\ requests' = [requests EXCEPT ![p] = @ \o Batches(s, taken)]
  BY DEF ProcessMessageQueue
<1> DEFINE taken == SubSeq(s.queue, 1, k)
           left == SubSeq(s.queue, k + 1, Len(s.queue))
<1>3. /\ taken \in Seq(Payload) /\ Len(taken) = k /\ \A i \in 1 .. k : taken[i] = s.queue[i]
      /\ left \in Seq(Payload) /\ Len(left) = Len(s.queue) - k
      /\ \A i \in 1 .. Len(s.queue) - k : left[i] = s.queue[k + i]
  <2>1. taken \in Seq(Payload) /\ left \in Seq(Payload)
    BY <1>1, SubSeqProperties
  <2>2. Len(taken) = k /\ \A i \in 1 .. k : taken[i] = s.queue[1 + i - 1]
    BY <1>1, SubSeqProperties
  <2>3. /\ Len(left) = Len(s.queue) - k
        /\ \A i \in 1 .. Len(s.queue) - k : left[i] = s.queue[k + 1 + i - 1]
    BY <1>1, SubSeqProperties
  <2> HIDE DEF taken, left
  <2>4. QED BY <1>1, <2>1, <2>2, <2>3
<1>4. Posted(p, s, taken) \in SessionState /\ SameBesidesBatch(s, Posted(p, s, taken))
  BY <1>3, PostedType, PostedFields
<1>5. sess'[p] = [Posted(p, s, taken) EXCEPT !.queue = left]
  BY <1>2 DEF TypeOK
<1>6. \A q \in Peer : q # p => sess'[q] = sess[q]
  BY <1>2 DEF TypeOK
<1>7. /\ inflight' = inflight \cup RequestStatements(p, s, taken)
      /\ requests' = [requests EXCEPT ![p] = @ \o Batches(s, taken)]
      /\ TakesFromQueue(s, k)
  BY <1>2
<1> HIDE DEF taken, left
<1>8. /\ sess'[p].queue = left /\ SameBesidesBatch(s, sess'[p])
      /\ sess'[p].outgoing = Posted(p, s, taken).outgoing
      /\ sess'[p].expiry = Posted(p, s, taken).expiry
  BY <1>4, <1>5 DEF SameBesidesBatch, SessionState
<1>9. QueueSplit(p, s, k, taken, left)
  BY <1>3, <1>7, <1>8 DEF QueueSplit
<1>10. QED BY <1>3, <1>6, <1>8, <1>9

LEMMA SurfacedFields ==
  ASSUME NEW s \in SessionState, NEW r
  PROVE  LET t == Surfaced(s, r) IN
         /\ SameBatch(s, t) /\ t.phase = s.phase /\ t.incoming = s.incoming
         /\ t.responded = s.responded /\ t.pending = s.pending /\ t.seen = s.seen
         /\ t.live = s.live /\ t.own = s.own /\ t.peer = s.peer /\ t.subscribed = s.subscribed
         /\ t.unseen = s.unseen /\ t.buffered = Append(s.buffered, r)
         /\ ~s.subscribed => t.known = s.known /\ t.handed = s.handed /\ t.twice = s.twice
         /\ s.subscribed => /\ t.known = s.known \cup {r.id} /\ t.handed = s.handed \cup {r.id}
                            /\ t.twice = s.twice \cup ({r.id} \cap s.handed)
<1>1. CASE ~s.subscribed
  <2>1. Surfaced(s, r) = [s EXCEPT !.buffered = Append(s.buffered, r)]
    BY <1>1 DEF Surfaced
  <2>2. QED BY <1>1, <2>1 DEF SameBatch, SessionState
<1>2. CASE s.subscribed
  <2> DEFINE buffering == [s EXCEPT !.buffered = Append(s.buffered, r)]
  <2>1. Surfaced(s, r) = [buffering EXCEPT !.known = @ \cup {r.id}, !.handed = @ \cup {r.id},
                                           !.twice = @ \cup ({r.id} \cap s.handed)]
    BY <1>2 DEF Surfaced
  <2>2. QED BY <1>2, <2>1 DEF SameBatch, SessionState
<1>3. QED BY <1>1, <1>2

(* The steps that leave the batch and the promises of a session alone. *)
LightStep(p) ==
  QueryOwn(p) \/ QueryPeer(p) \/ Respond(p) \/ Subscribe(p) \/ Unsubscribe(p) \/ DeliverRequest(p)

LEMMA LightFields ==
  ASSUME TypeOK, NEW p \in Peer, LightStep(p)
  PROVE  /\ \A q \in Peer : q # p => sess'[q] = sess[q]
         /\ sess'[p].outgoing = sess[p].outgoing /\ sess'[p].queue = sess[p].queue
         /\ sess'[p].pending = sess[p].pending /\ sess'[p].phase = sess[p].phase
         /\ sess'[p].unseen = sess[p].unseen
         /\ UNCHANGED <<store, requests, submitted>>
<1>0. sess[p] \in SessionState
  BY DEF TypeOK
<1>1. CASE QueryOwn(p)
  <2>1. PICK own : sess' = [sess EXCEPT ![p] = [sess[p] EXCEPT !.own = own]]
    BY <1>1 DEF QueryOwn, TypeOK
  <2>2. QED BY <1>0, <1>1, <2>1 DEF TypeOK, SessionState, QueryOwn, history
<1>2. CASE QueryPeer(p)
  <2>1. PICK peer : sess' = [sess EXCEPT ![p] = [sess[p] EXCEPT !.peer = peer]]
    BY <1>2 DEF QueryPeer, TypeOK
  <2>2. QED BY <1>0, <1>2, <2>1 DEF TypeOK, SessionState, QueryPeer, history
<1>3. CASE Respond(p)
  BY <1>0, <1>3 DEF TypeOK, SessionState, Respond, history
<1>4. CASE Subscribe(p)
  BY <1>0, <1>4 DEF TypeOK, SessionState, Subscribe
<1>5. CASE Unsubscribe(p)
  BY <1>0, <1>5 DEF TypeOK, SessionState, Unsubscribe, history
<1>6. CASE DeliverRequest(p)
  <2> DEFINE t == store[Other(p)].request
             s == Marked(p, t)
             taken == [s EXCEPT !.incoming = t.id, !.responded = FALSE]
  <2>1. s \in SessionState /\ t \in Statement
    BY <1>6, IsNewType DEF DeliverRequest
  <2>2. taken \in SessionState
    BY <2>1 DEF SessionState, Statement
  <2>3. /\ s.outgoing = sess[p].outgoing /\ s.queue = sess[p].queue
        /\ s.pending = sess[p].pending /\ s.phase = sess[p].phase /\ s.unseen = sess[p].unseen
    BY <1>0 DEF Marked, SessionState
  <2>4. /\ taken.outgoing = s.outgoing /\ taken.queue = s.queue
        /\ taken.pending = s.pending /\ taken.phase = s.phase /\ taken.unseen = s.unseen
    BY <2>1 DEF SessionState
  <2>5. /\ \A q \in Peer : q # p => sess'[q] = sess[q]
        /\ sess'[p] \in {s, Surfaced(taken, [id |-> t.id, data |-> t.data])}
    BY <1>6 DEF DeliverRequest, RouteRequest, TypeOK
  <2> HIDE DEF s, taken
  <2>6. LET u == Surfaced(taken, [id |-> t.id, data |-> t.data]) IN
        /\ u.outgoing = taken.outgoing /\ u.queue = taken.queue
        /\ u.pending = taken.pending /\ u.phase = taken.phase /\ u.unseen = taken.unseen
    BY <2>2, SurfacedFields DEF SameBatch
  <2>7. UNCHANGED <<store, requests, submitted>>
    BY <1>6 DEF DeliverRequest
  <2>8. QED BY <2>3, <2>4, <2>5, <2>6, <2>7
<1>7. QED BY <1>1, <1>2, <1>3, <1>4, <1>5, <1>6 DEF LightStep

(* A session starts over. *)
LEMMA StartsOver ==
  ASSUME TypeOK, NEW p \in Peer, Create(p) \/ Dispose(p) \/ Crash(p)
  PROVE  /\ \A q \in Peer : q # p => sess'[q] = sess[q]
         /\ \E phase \in {"initialization", "disposed", "down"} : sess'[p] = NoSession(phase)
         /\ inflight' \subseteq inflight
         /\ UNCHANGED <<store, requests, submitted>>
<1>1. \E phase \in {"initialization", "disposed", "down"} :
         sess' = [sess EXCEPT ![p] = NoSession(phase)]
  BY DEF Create, Dispose, Crash
<1>2. inflight' \subseteq inflight /\ UNCHANGED <<store, requests, submitted>>
  BY DEF Create, Dispose, Crash, history
<1>3. QED BY <1>1, <1>2 DEF TypeOK

(* The end of init: what it makes of the two topics, before the queue runs. *)
Restorable(p, own) ==
  {t \in Decoded(p, own, "request") : ~Acked(t, Decoded(p, own, "response"))}

StartedFrom(p, s, started) ==
  /\ started \in SessionState
  /\ started.phase = "active" /\ started.queue = s.queue /\ started.pending = s.pending
  /\ started.subscribed = s.subscribed /\ started.own = None /\ started.peer = None
  /\ started.seen = s.seen \cup {t \in s.own \cup s.peer : t.from # p}
  /\ started.unseen = Unseen(p)
  /\ \A t \in s.own : t.expiry <= started.expiry
  /\ Restorable(p, s.own) = {} => started.outgoing = s.outgoing
  /\ Restorable(p, s.own) # {} =>
       \E t \in Restorable(p, s.own) :
         started.outgoing = [id |-> t.id, messages |-> t.data, tokens |-> {}]
  /\ LET theirs == Decoded(p, s.peer, "request")
         t == CHOOSE u \in theirs : TRUE
         answered == Acked(t, Decoded(p, s.peer, "response"))
     IN \/ /\ theirs = {} \/ answered
           /\ started.buffered = s.buffered /\ started.handed = s.handed
           /\ started.twice = s.twice /\ started.known = s.known
        \/ /\ theirs # {} /\ ~answered
           /\ started.buffered = Append(s.buffered, [id |-> t.id, data |-> t.data])
           /\ ~s.subscribed => started.handed = s.handed /\ started.twice = s.twice

LEMMA InitFinishes ==
  ASSUME TypeOK, NEW p \in Peer, FinishInit(p)
  PROVE  \E started \in SessionState :
           StartedFrom(p, sess[p], started) /\ ProcessMessageQueue(p, started)
<1> DEFINE s == sess[p]
<1>1. s \in SessionState /\ s.own # None /\ s.peer # None
  BY DEF FinishInit, TypeOK
<1>2. PICK e \in ObservedExpiries(s.own) :
        /\ \A t \in s.own : t.expiry <= e
        /\ ProcessMessageQueue(p, [Recovered(p, Restored(p, s, e)) EXCEPT
             !.phase = "active", !.live = TRUE, !.own = None, !.peer = None, !.unseen = Unseen(p)])
  BY DEF FinishInit, Highest
<1>3. e \in Nat
  BY <1>1 DEF SessionState, ObservedExpiries, Statement, Expiry
<1> HIDE DEF s
<1> DEFINE seeded == [s EXCEPT !.expiry = e, !.seen = @ \cup {t \in s.own \cup s.peer : t.from # p}]
           restored == Restored(p, s, e)
           recovered == Recovered(p, restored)
           started == [recovered EXCEPT !.phase = "active", !.live = TRUE,
                                        !.own = None, !.peer = None, !.unseen = Unseen(p)]
<1>4. restored \in SessionState
  BY <1>1, <1>3, RestoredType
<1>5. /\ restored.queue = s.queue /\ restored.pending = s.pending
      /\ restored.subscribed = s.subscribed /\ restored.peer = s.peer
      /\ restored.buffered = s.buffered /\ restored.handed = s.handed
      /\ restored.twice = s.twice /\ restored.known = s.known
      /\ restored.seen = s.seen \cup {t \in s.own \cup s.peer : t.from # p}
      /\ restored.expiry = e
      /\ Restorable(p, s.own) = {} => restored.outgoing = s.outgoing
      /\ Restorable(p, s.own) # {} =>
           \E t \in Restorable(p, s.own) :
             restored.outgoing = [id |-> t.id, messages |-> t.data, tokens |-> {}]
  <2>1. CASE Restorable(p, s.own) = {}
    <3>1. restored = seeded
      BY <2>1 DEF Restored, Restorable
    <3>2. QED BY <1>1, <2>1, <3>1 DEF SessionState
  <2>2. CASE Restorable(p, s.own) # {}
    <3>1. PICK t \in Restorable(p, s.own) :
            restored = [seeded EXCEPT !.outgoing = [id |-> t.id, messages |-> t.data, tokens |-> {}]]
      BY <2>2 DEF Restored, Restorable
    <3>2. QED BY <1>1, <2>2, <3>1 DEF SessionState
  <2>3. QED BY <2>1, <2>2
<1> HIDE DEF restored
<1> DEFINE theirs == Decoded(p, s.peer, "request")
           t == CHOOSE u \in theirs : TRUE
           answered == Acked(t, Decoded(p, s.peer, "response"))
           taken == [restored EXCEPT !.incoming = t.id, !.responded = answered]
<1>6. recovered \in SessionState
  BY <1>1, <1>4, <1>5, RecoveredType
<1>7. /\ recovered.queue = s.queue /\ recovered.pending = s.pending
      /\ recovered.subscribed = s.subscribed /\ recovered.seen = restored.seen
      /\ recovered.outgoing = restored.outgoing /\ recovered.expiry = e
      /\ \/ /\ theirs = {} \/ answered
            /\ recovered.buffered = s.buffered /\ recovered.handed = s.handed
            /\ recovered.twice = s.twice /\ recovered.known = s.known
         \/ /\ theirs # {} /\ ~answered
            /\ recovered.buffered = Append(s.buffered, [id |-> t.id, data |-> t.data])
            /\ ~s.subscribed => recovered.handed = s.handed /\ recovered.twice = s.twice
  <2>1. CASE theirs = {}
    <3>1. recovered = restored
      BY <1>5, <2>1 DEF Recovered
    <3>2. QED BY <1>5, <2>1, <3>1
  <2>2. CASE theirs # {}
    <3>1. recovered = IF answered THEN taken
                      ELSE Surfaced(taken, [id |-> t.id, data |-> t.data])
      BY <1>5, <2>2 DEF Recovered
    <3>2. t \in Statement
      BY <1>1, <2>2 DEF Decoded, SessionState
    <3>3. answered \in BOOLEAN
      BY DEF Acked
    <3>4. taken \in SessionState
      BY <1>4, <3>2, <3>3 DEF SessionState, Statement
    <3>5. /\ taken.queue = restored.queue /\ taken.pending = restored.pending
          /\ taken.subscribed = restored.subscribed /\ taken.seen = restored.seen
          /\ taken.outgoing = restored.outgoing /\ taken.buffered = restored.buffered
          /\ taken.handed = restored.handed /\ taken.twice = restored.twice
          /\ taken.known = restored.known /\ taken.expiry = restored.expiry
      BY <1>4 DEF SessionState
    <3> HIDE DEF taken, answered, theirs, t, recovered
    <3>6. CASE answered
      <4>1. recovered = taken
        BY <3>1, <3>6
      <4>2. QED BY <1>5, <3>5, <3>6, <4>1
    <3>7. CASE ~answered
      <4>1. recovered = Surfaced(taken, [id |-> t.id, data |-> t.data])
        BY <3>1, <3>7
      <4> DEFINE r == [id |-> t.id, data |-> t.data]
      <4> HIDE DEF r
      <4>2. /\ SameBatch(taken, recovered) /\ recovered.pending = taken.pending
            /\ recovered.subscribed = taken.subscribed /\ recovered.seen = taken.seen
            /\ recovered.buffered = Append(taken.buffered, r)
            /\ ~taken.subscribed => recovered.handed = taken.handed /\ recovered.twice = taken.twice
        BY <3>4, <4>1, SurfacedFields DEF r
      <4>3. theirs # {}
        BY <2>2 DEF theirs
      <4>4. QED BY <1>5, <3>5, <3>7, <4>2, <4>3 DEF SameBatch, r
    <3>8. QED BY <3>6, <3>7
  <2>3. QED BY <2>1, <2>2
<1>8. ProcessMessageQueue(p, started)
  BY <1>2 DEF restored
<1> HIDE DEF recovered
<1>9. started \in SessionState
  BY <1>6, UnseenType DEF SessionState
<1>10. /\ started.phase = "active" /\ started.own = None /\ started.peer = None
       /\ started.queue = recovered.queue /\ started.pending = recovered.pending
       /\ started.subscribed = recovered.subscribed /\ started.seen = recovered.seen
       /\ started.outgoing = recovered.outgoing /\ started.buffered = recovered.buffered
       /\ started.handed = recovered.handed /\ started.twice = recovered.twice
       /\ started.known = recovered.known /\ started.expiry = recovered.expiry
       /\ started.unseen = Unseen(p)
  BY <1>6 DEF SessionState
<1> HIDE DEF started
<1>11. StartedFrom(p, s, started)
  BY <1>2, <1>5, <1>7, <1>9, <1>10 DEF StartedFrom
<1>12. QED BY <1>8, <1>9, <1>11 DEF s

-----------------------------------------------------------------------------
(* Delivery promises. *)

LEMMA PostedOutgoing ==
  ASSUME TypeOK, NEW p \in Peer, NEW s \in SessionState, NEW ms \in Seq(Payload), ms # << >>
  PROVE  Posted(p, s, ms).outgoing \in OutgoingRequest
<1>1. Posted(p, s, ms).outgoing = [id |-> Len(requests[p]) + Len(ms),
                                   messages |-> Messages(s) \cup Upto(ms, Len(ms)),
                                   tokens |-> Tokens(s) \cup Upto(ms, Len(ms))]
  BY PostedFields
<1>2. Len(ms) \in Nat /\ Len(requests[p]) \in Nat
  BY DEF TypeOK
<1>3. Messages(s) \cup Upto(ms, Len(ms)) \in SUBSET Payload
      /\ Tokens(s) \cup Upto(ms, Len(ms)) \in SUBSET Payload
  BY <1>2, OutgoingType, UptoType
<1>4. QED BY <1>1, <1>2, <1>3 DEF OutgoingRequest, RequestId

LEMMA AccountedFrom ==
  ASSUME NEW s, NEW t, NEW subm, Accounted(s, subm), t.outgoing = s.outgoing, t.queue = s.queue,
         t.pending = s.pending, t.phase = s.phase
  PROVE  Accounted(t, subm)
BY DEF Accounted, Tokens

LEMMA PromisesFrame ==
  ASSUME PromisesInv, NEW p \in Peer, submitted \subseteq submitted',
         \A q \in Peer : q # p => sess'[q] = sess[q], Accounted(sess'[p], submitted')
  PROVE  PromisesInv'
<1>1. ASSUME NEW q \in Peer, q # p PROVE Accounted(sess'[q], submitted')
  <2>1. Accounted(sess[q], submitted) /\ sess'[q] = sess[q]
    BY <1>1 DEF PromisesInv
  <2>2. QED BY <2>1 DEF Accounted
<1>2. QED BY <1>1 DEF PromisesInv

(* Posting moves payloads from the queue to the outgoing request. *)
LEMMA QueueAccounted ==
  ASSUME TypeOK, NEW p \in Peer, NEW s \in SessionState, Accounted(s, submitted),
         s.phase = "active", ProcessMessageQueue(p, s)
  PROVE  Accounted(sess'[p], submitted) /\ \A q \in Peer : q # p => sess'[q] = sess[q]
<1>1. PICK k \in 0 .. Len(s.queue), taken, left \in Seq(Payload) : QueueSplit(p, s, k, taken, left)
  BY QueueRuns
<1>2. SameBesidesBatch(s, sess'[p]) /\ \A q \in Peer : q # p => sess'[q] = sess[q]
  BY QueueRuns
<1> DEFINE n == Len(s.queue)
<1>3. /\ s.queue \in Seq(Payload) /\ n \in Nat /\ k \in 0 .. n
      /\ DOMAIN s.queue = 1 .. n /\ DOMAIN taken = 1 .. k /\ DOMAIN left = 1 .. n - k
      /\ \A i \in 1 .. k : taken[i] = s.queue[i]
      /\ \A i \in 1 .. n - k : left[i] = s.queue[k + i]
  BY <1>1 DEF QueueSplit, SessionState
<1>4. \A i, j \in 1 .. n : s.queue[i] = s.queue[j] => i = j
  BY <1>3 DEF Accounted, IsInjective
<1> HIDE DEF n
<1>5. Range(s.queue) = Upto(taken, k) \cup Range(left)
  <2>1. ASSUME NEW i \in 1 .. n PROVE s.queue[i] \in Upto(taken, k) \cup Range(left)
    <3>1. CASE i <= k
      BY <1>3, <3>1 DEF Upto
    <3>2. CASE i > k
      <4>1. i - k \in 1 .. n - k /\ left[i - k] = s.queue[k + (i - k)] /\ k + (i - k) = i
        BY <1>3, <3>2
      <4>2. QED BY <1>3, <4>1 DEF Range
    <3>3. QED BY <1>3, <3>1, <3>2
  <2>2. Upto(taken, k) \subseteq Range(s.queue)
    <3>1. \A i \in 1 .. k : i \in DOMAIN s.queue
      BY <1>3
    <3>2. QED BY <1>3, <3>1 DEF Upto, Range
  <2>3. ASSUME NEW i \in 1 .. n - k PROVE left[i] \in Range(s.queue)
    <3>1. k + i \in 1 .. n
      BY <1>3
    <3>2. QED BY <1>3, <3>1 DEF Range
  <2>4. QED BY <1>3, <2>1, <2>2, <2>3 DEF Range
<1>6. Upto(taken, k) \cap Range(left) = {}
  <2>1. ASSUME NEW i \in 1 .. k, NEW j \in 1 .. n - k PROVE taken[i] # left[j]
    <3>1. i \in 1 .. n /\ k + j \in 1 .. n /\ i # k + j
      BY <1>3
    <3>2. QED BY <1>3, <1>4, <3>1
  <2>2. QED BY <1>3, <2>1 DEF Upto, Range
<1>7. IsInjective(left)
  <2>1. ASSUME NEW i \in 1 .. n - k, NEW j \in 1 .. n - k, left[i] = left[j] PROVE i = j
    <3>1. k + i \in 1 .. n /\ k + j \in 1 .. n
      BY <1>3
    <3>2. k + i = k + j
      BY <1>3, <1>4, <2>1, <3>1
    <3>3. QED BY <1>3, <3>2
  <2>2. QED BY <1>3, <2>1 DEF IsInjective
<1>8. Tokens(sess'[p]) = Tokens(s) \cup Upto(taken, k)
  <2>1. Len(taken) = k /\ sess'[p].outgoing = Posted(p, s, taken).outgoing
    BY <1>1 DEF QueueSplit
  <2>2. CASE taken = << >>
    <3>1. k = 0
      BY <1>3, <2>1, <2>2
    <3>2. Upto(taken, k) = {}
      BY <3>1 DEF Upto
    <3>3. sess'[p].outgoing = s.outgoing
      BY <2>1, <2>2, PostedFields
    <3>4. QED BY <3>2, <3>3 DEF Tokens
  <2>3. CASE taken # << >>
    <3>1. sess'[p].outgoing = [id |-> Len(requests[p]) + Len(taken),
                               messages |-> Messages(s) \cup Upto(taken, Len(taken)),
                               tokens |-> Tokens(s) \cup Upto(taken, Len(taken))]
      BY <2>1, <2>3, PostedFields
    <3>2. sess'[p].outgoing # None
      BY <2>1, <2>3, PostedOutgoing, NoneIsApart
    <3>3. QED BY <2>1, <3>1, <3>2 DEF Tokens
  <2>4. QED BY <2>2, <2>3
<1>9. sess'[p].queue = left /\ sess'[p].pending = s.pending /\ sess'[p].phase = "active"
  BY <1>1, <1>2 DEF QueueSplit, SameBesidesBatch
<1>10. QED BY <1>2, <1>5, <1>6, <1>7, <1>8, <1>9 DEF Accounted

LEMMA PromisesStep ==
  ASSUME TypeOK, TypeOK', PromisesInv, [Next]_vars
  PROVE  PromisesInv'
<1>0. \A p \in Peer : sess[p] \in SessionState /\ Accounted(sess[p], submitted)
  BY DEF TypeOK, PromisesInv
<1>1. ASSUME NEW p \in Peer, Create(p) \/ Dispose(p) \/ Crash(p) PROVE PromisesInv'
  <2>1. /\ \A q \in Peer : q # p => sess'[q] = sess[q]
        /\ \E phase : sess'[p] = NoSession(phase)
        /\ submitted' = submitted
    BY <1>1, StartsOver
  <2>2. Accounted(sess'[p], submitted')
    BY <2>1 DEF NoSession, Accounted, Tokens, Range, IsInjective
  <2>3. QED BY <2>1, <2>2, PromisesFrame
<1>2. ASSUME NEW p \in Peer, LightStep(p) PROVE PromisesInv'
  <2>1. /\ \A q \in Peer : q # p => sess'[q] = sess[q]
        /\ sess'[p].outgoing = sess[p].outgoing /\ sess'[p].queue = sess[p].queue
        /\ sess'[p].pending = sess[p].pending /\ sess'[p].phase = sess[p].phase
        /\ submitted' = submitted
    BY <1>2, LightFields
  <2>2. Accounted(sess'[p], submitted)
    BY <1>0, <2>1, AccountedFrom
  <2>3. QED BY <2>1, <2>2, PromisesFrame
<1>3. ASSUME NEW p \in Peer, FinishInit(p) PROVE PromisesInv'
  <2>1. PICK started \in SessionState :
          StartedFrom(p, sess[p], started) /\ ProcessMessageQueue(p, started)
    BY <1>3, InitFinishes
  <2>2. submitted' = submitted /\ sess[p].phase = "initialization"
    BY <1>3 DEF FinishInit
  <2>3. sess[p].outgoing = None
    BY <1>0, <2>2 DEF Accounted
  <2>4. /\ started.phase = "active" /\ started.queue = sess[p].queue
        /\ started.pending = sess[p].pending
        /\ \/ started.outgoing = sess[p].outgoing
           \/ \E t : started.outgoing = [id |-> t.id, messages |-> t.data, tokens |-> {}]
    BY <2>1 DEF StartedFrom
  <2>5. Tokens(started) = {} /\ Tokens(sess[p]) = {}
    <3>1. Tokens(sess[p]) = {}
      BY <2>3 DEF Tokens
    <3>2. CASE started.outgoing = sess[p].outgoing
      BY <2>3, <3>1, <3>2 DEF Tokens
    <3>3. CASE \E t : started.outgoing = [id |-> t.id, messages |-> t.data, tokens |-> {}]
      <4>1. started.outgoing.tokens = {}
        BY <3>3
      <4>2. QED BY <3>1, <4>1 DEF Tokens
    <3>4. QED BY <2>4, <3>2, <3>3
  <2>6. Accounted(started, submitted)
    BY <1>0, <2>4, <2>5 DEF Accounted
  <2>7. QED BY <2>1, <2>2, <2>4, <2>6, QueueAccounted, PromisesFrame
<1>4. ASSUME NEW p \in Peer, NEW m \in Payload, Submit(p, m) PROVE PromisesInv'
  <2> DEFINE s == [sess[p] EXCEPT !.live = TRUE, !.pending = @ \cup {m}]
  <2>1. m \notin submitted /\ submitted' = submitted \cup {m}
    BY <1>4 DEF Submit
  <2>2. s \in SessionState
    BY <1>0, UpdatedSessionType
  <2>3. /\ s.outgoing = sess[p].outgoing /\ s.queue = sess[p].queue
        /\ s.pending = sess[p].pending \cup {m} /\ s.phase = sess[p].phase
    BY <1>0 DEF SessionState
  <2>4. \/ /\ s.phase = "active" /\ sess' = [sess EXCEPT ![p] = Posted(p, s, <<m>>)]
        \/ sess' = [sess EXCEPT ![p] = [s EXCEPT !.queue = Append(@, m)]]
    BY <1>4 DEF Submit
  <2> HIDE DEF s
  <2>5. \A q \in Peer : q # p => sess'[q] = sess[q]
    BY <2>4 DEF TypeOK
  <2>6. /\ sess[p].pending = Tokens(s) \cup Range(s.queue)
        /\ Tokens(s) \cap Range(s.queue) = {} /\ IsInjective(s.queue)
        /\ sess[p].pending \subseteq submitted
        /\ s.phase # "active" => s.outgoing = None
    BY <1>0, <2>3 DEF Accounted, Tokens
  <2>7. m \notin sess[p].pending
    BY <2>1, <2>6
  <2>8. CASE s.phase = "active" /\ sess' = [sess EXCEPT ![p] = Posted(p, s, <<m>>)]
    <3> DEFINE ms == <<m>>
    <3>1. sess'[p] = Posted(p, s, ms)
      BY <2>8 DEF TypeOK
    <3>2. ms \in Seq(Payload) /\ ms # << >> /\ Len(ms) = 1 /\ Upto(ms, 1) = {m}
      BY DEF Upto
    <3> HIDE DEF ms
    <3> DEFINE posted == Posted(p, s, ms)
    <3>3. posted.outgoing \in OutgoingRequest
      BY <2>2, <3>2, PostedOutgoing
    <3> DEFINE out == [id |-> Len(requests[p]) + Len(ms),
                       messages |-> Messages(s) \cup Upto(ms, Len(ms)),
                       tokens |-> Tokens(s) \cup Upto(ms, Len(ms))]
    <3>4. /\ posted.outgoing = out
          /\ SameBesidesBatch(s, posted) /\ posted.queue = s.queue
      BY <2>2, <3>2, PostedFields
    <3>5. /\ posted.outgoing.tokens = Tokens(s) \cup {m}
          /\ SameBesidesBatch(s, posted) /\ posted.queue = s.queue
      BY <3>2, <3>4
    <3> HIDE DEF posted
    <3>6. /\ sess'[p].outgoing \in OutgoingRequest
          /\ sess'[p].outgoing.tokens = Tokens(s) \cup {m}
      BY <3>1, <3>3, <3>5 DEF posted
    <3>7. Tokens(sess'[p]) = Tokens(s) \cup {m}
      BY <3>6, NoneIsApart DEF Tokens
    <3>8. /\ sess'[p].queue = s.queue /\ sess'[p].pending = s.pending
          /\ sess'[p].phase = s.phase
      BY <3>1, <3>5 DEF posted, SameBesidesBatch
    <3>9. Accounted(sess'[p], submitted')
      BY <2>1, <2>3, <2>6, <2>7, <2>8, <3>7, <3>8 DEF Accounted
    <3>10. QED BY <2>1, <2>5, <3>9, PromisesFrame
  <2>9. CASE sess' = [sess EXCEPT ![p] = [s EXCEPT !.queue = Append(@, m)]]
    <3>1. sess'[p] = [s EXCEPT !.queue = Append(@, m)]
      BY <2>9 DEF TypeOK
    <3>2. /\ sess'[p].outgoing = s.outgoing /\ sess'[p].queue = Append(s.queue, m)
          /\ sess'[p].pending = s.pending /\ sess'[p].phase = s.phase
      BY <2>2, <3>1 DEF SessionState
    <3>3. s.queue \in Seq(Payload)
      BY <2>2 DEF SessionState
    <3>4. Range(Append(s.queue, m)) = Range(s.queue) \cup {m}
      <4>1. /\ DOMAIN Append(s.queue, m) = DOMAIN s.queue \cup {Len(s.queue) + 1}
            /\ \A i \in DOMAIN s.queue : Append(s.queue, m)[i] = s.queue[i]
            /\ Append(s.queue, m)[Len(s.queue) + 1] = m
        BY <3>3
      <4>2. QED BY <4>1 DEF Range
    <3>5. IsInjective(Append(s.queue, m))
      <4>1. /\ DOMAIN Append(s.queue, m) = DOMAIN s.queue \cup {Len(s.queue) + 1}
            /\ \A i \in DOMAIN s.queue : Append(s.queue, m)[i] = s.queue[i]
            /\ Append(s.queue, m)[Len(s.queue) + 1] = m
        BY <3>3
      <4>2. \A i \in DOMAIN s.queue : s.queue[i] # m
        BY <2>6, <2>7 DEF Range
      <4>3. QED BY <2>6, <4>1, <4>2 DEF IsInjective
    <3>6. Tokens(sess'[p]) = Tokens(s)
      BY <3>2 DEF Tokens
    <3>7. Accounted(sess'[p], submitted')
      BY <2>1, <2>3, <2>6, <2>7, <3>2, <3>4, <3>5, <3>6 DEF Accounted
    <3>8. QED BY <2>1, <2>5, <3>7, PromisesFrame
  <2>10. QED BY <2>4, <2>8, <2>9
<1>5. ASSUME NEW p \in Peer, DeliverResponse(p) PROVE PromisesInv'
  <2> DEFINE t == store[Other(p)]["response"]
             s == Marked(p, t)
             settled == [s EXCEPT !.pending = @ \ s.outgoing.tokens, !.outgoing = None]
  <2>1. t \in Statement /\ s \in SessionState /\ RouteResponse(p, s, t) /\ submitted' = submitted
    BY <1>5, IsNewType DEF DeliverResponse
  <2>2. /\ s.outgoing = sess[p].outgoing /\ s.queue = sess[p].queue
        /\ s.pending = sess[p].pending /\ s.phase = sess[p].phase
    BY <1>0 DEF Marked, SessionState
  <2> HIDE DEF s, t
  <2>3. Accounted(s, submitted)
    BY <1>0, <2>2, AccountedFrom
  <2>4. CASE AckMatches(s, t)
    <3>1. settled \in SessionState
      BY <2>1 DEF SessionState
    <3>2. /\ settled.outgoing = None /\ settled.pending = s.pending \ s.outgoing.tokens
          /\ settled.queue = s.queue /\ settled.phase = s.phase
      BY <2>1 DEF SessionState
    <3>3. ProcessMessageQueue(p, settled)
      BY <2>1, <2>4 DEF RouteResponse
    <3> HIDE DEF settled
    <3>4. s.phase = "active" /\ Tokens(s) = s.outgoing.tokens
      BY <2>3, <2>4 DEF AckMatches, Accounted, Tokens
    <3>5. Accounted(settled, submitted)
      BY <2>3, <3>2, <3>4 DEF Accounted, Tokens
    <3>6. QED BY <2>1, <3>1, <3>2, <3>3, <3>4, <3>5, QueueAccounted, PromisesFrame
  <2>5. CASE ~AckMatches(s, t)
    <3>1. sess' = [sess EXCEPT ![p] = s]
      BY <2>1, <2>5 DEF RouteResponse
    <3>2. sess'[p] = s /\ \A q \in Peer : q # p => sess'[q] = sess[q]
      BY <3>1 DEF TypeOK
    <3>3. QED BY <2>1, <2>3, <3>2, PromisesFrame
  <2>6. QED BY <2>4, <2>5
<1>6. ASSUME UNCHANGED <<sess, submitted>> PROVE PromisesInv'
  BY <1>6 DEF PromisesInv
<1>7. ASSUME NEW t \in inflight, Accept(t) \/ Refuse(t) \/ SubmitFails(t)
      PROVE  UNCHANGED <<sess, submitted>>
  BY <1>7 DEF Accept, Refuse, SubmitFails, history
<1>8. Tick \/ UNCHANGED vars => UNCHANGED <<sess, submitted>>
  BY DEF Tick, vars, history
<1>9. QED
  BY <1>1, <1>2, <1>3, <1>4, <1>5, <1>6, <1>7, <1>8 DEF Next, LightStep

(* As many payloads are queued as the queue is long. *)
LEMMA InjectiveCounts ==
  ASSUME NEW q \in Seq(Payload), IsInjective(q)
  PROVE  Cardinality(Range(q)) = Len(q)
<1> DEFINE n == Len(q)
<1>1. n \in Nat /\ DOMAIN q = 1 .. n /\ q \in [1 .. n -> Range(q)]
  BY DEF Range
<1>2. q \in Bijection(1 .. n, Range(q))
  <2>1. q \in Injection(1 .. n, Range(q))
    BY <1>1 DEF IsInjective, Injection
  <2>2. q \in Surjection(1 .. n, Range(q))
    BY <1>1 DEF Surjection, Range
  <2>3. QED BY <2>1, <2>2 DEF Bijection
<1>3. ExistsBijection(1 .. n, Range(q))
  BY <1>2 DEF ExistsBijection
<1> HIDE DEF n
<1>4. Cardinality(Range(q)) = n
  BY <1>1, <1>3, FS_CountingElements
<1>5. QED BY <1>4 DEF n

LEMMA PromisesInvariant == Spec => []PromisesInv
<1>1. Init => PromisesInv
  BY DEF Init, PromisesInv, NoSession, Accounted, Tokens, Range, IsInjective
<1>2. TypeOK /\ TypeOK' /\ PromisesInv /\ [Next]_vars => PromisesInv'
  BY PromisesStep
<1>3. QED BY <1>1, <1>2, TypeCorrect, PTL DEF Spec

(* A live session never forgets a delivery promise and never holds one twice:
   its unsettled payloads are those of its outgoing request and of its queue
   (submitRequestMessage, processMessageQueue, the settling of an ACK). *)
THEOREM PromisesKept == Spec => []PromisesAccounted
<1>1. TypeOK /\ PromisesInv => PromisesAccounted
  <2>1. ASSUME TypeOK, PromisesInv, NEW p \in Peer
        PROVE  Cardinality(Range(sess[p].queue)) = Len(sess[p].queue)
    <3>1. sess[p].queue \in Seq(Payload) /\ IsInjective(sess[p].queue)
      BY <2>1 DEF TypeOK, SessionState, PromisesInv, Accounted
    <3>2. QED BY <3>1, InjectiveCounts
  <2>2. QED BY <2>1 DEF PromisesInv, Accounted, PromisesAccounted
<1>2. QED BY <1>1, TypeCorrect, PromisesInvariant, PTL

-----------------------------------------------------------------------------
(* The size of a batch.  Size folds the weights with a recursive function, so
   its properties rest on an induction over the subsets of a finite set. *)

(* Induction over the subsets of a finite set, from a minimal counterexample. *)
LEMMA SubsetInduction ==
  ASSUME NEW S, IsFiniteSet(S), NEW Good \in SUBSET (SUBSET S),
         \A T \in SUBSET S : (\A U \in SUBSET T : U # T => U \in Good) => T \in Good
  PROVE  \A T \in SUBSET S : T \in Good
<1> SUFFICES ASSUME (SUBSET S) \ Good # {}
             PROVE  FALSE
  OBVIOUS
<1> DEFINE R == StrictSubsetOrdering(S)
           Sets == SUBSET S
           Bad == Sets \ Good
<1>1. IsWellFoundedOn(R, Sets)
  <2>1. FiniteSubsetsOf(S) = Sets
    BY FS_FiniteSubsetsOfFinite
  <2>2. IsWellFoundedOn(R, FiniteSubsetsOf(S))
    BY FS_StrictSubsetOrderingWellFounded
  <2> HIDE DEF R, Sets
  <2>3. QED BY <2>1, <2>2
<1>2. Bad \subseteq Sets /\ Bad # {}
  OBVIOUS
<1>3. PICK T \in Bad : \A U \in Bad : ~ (<<U, T>> \in R)
  <2> HIDE DEF R, Sets, Bad
  <2>1. QED BY <1>1, <1>2, WFMin
<1>4. \A U \in SUBSET T : U # T => U \in Good
  BY <1>3 DEF StrictSubsetOrdering
<1>5. QED BY <1>3, <1>4

(* The sum that MapThenSumSet folds. *)
Some(s) == CHOOSE x \in s : TRUE
IsSum(g, S) ==
  g = [s \in SUBSET S |-> IF s = {} THEN 0 ELSE Weight[Some(s)] + g[s \ {Some(s)}]]

LEMMA SizeIsSum == ASSUME NEW S PROVE Size(S) = (CHOOSE g : IsSum(g, S))[S]
BY DEF Size, MapThenSumSet, MapThenFoldSet, IsSum, Some

LEMMA SomeIn == ASSUME NEW s, s # {} PROVE Some(s) \in s
BY DEF Some

LEMMA SumIsUnique ==
  ASSUME NEW S, IsFiniteSet(S), NEW g, NEW h, IsSum(g, S), IsSum(h, S)
  PROVE  g[S] = h[S]
<1> DEFINE Good == {T \in SUBSET S : g[T] = h[T]}
<1>1. ASSUME NEW T \in SUBSET S, \A U \in SUBSET T : U # T => U \in Good
      PROVE  T \in Good
  <2>1. CASE T = {}
    BY <2>1 DEF IsSum
  <2>2. CASE T # {}
    <3>1. Some(T) \in T
      BY <2>2, SomeIn
    <3>2. T \ {Some(T)} \in Good
      BY <1>1, <3>1
    <3>3. /\ g[T] = Weight[Some(T)] + g[T \ {Some(T)}]
          /\ h[T] = Weight[Some(T)] + h[T \ {Some(T)}]
      BY <2>2 DEF IsSum
    <3>4. QED BY <3>2, <3>3
  <2>3. QED BY <2>1, <2>2
<1>2. Good \in SUBSET (SUBSET S)
  OBVIOUS
<1> HIDE DEF Good
<1>3. S \in Good
  BY <1>1, <1>2, SubsetInduction, SMTT(30)
<1>4. QED BY <1>3 DEF Good

LEMMA SizeSteps ==
  ASSUME NEW S, IsFiniteSet(S)
  PROVE  Size(S) = IF S = {} THEN 0 ELSE Weight[Some(S)] + Size(S \ {Some(S)})
<1> DEFINE Sum(T) == IF T = {} THEN 0 ELSE Weight[Some(T)] + Size(T \ {Some(T)})
           Good == {T \in SUBSET S : Size(T) = Sum(T)}
<1>1. ASSUME NEW T \in SUBSET S, \A U \in SUBSET T : U # T => U \in Good
      PROVE  T \in Good
  <2> DEFINE h == [s \in SUBSET T |-> Sum(s)]
  <2>1. IsSum(h, T)
    <3>1. ASSUME NEW s \in SUBSET T, s # {}
          PROVE  Sum(s) = Weight[Some(s)] + h[s \ {Some(s)}]
      <4>1. Some(s) \in s
        BY <3>1, SomeIn
      <4>2. s \ {Some(s)} \in SUBSET T /\ s \ {Some(s)} # T
        BY <4>1
      <4>3. Size(s \ {Some(s)}) = Sum(s \ {Some(s)})
        BY <1>1, <4>2
      <4>4. h[s \ {Some(s)}] = Sum(s \ {Some(s)})
        BY <4>2
      <4>5. Sum(s) = Weight[Some(s)] + Size(s \ {Some(s)})
        BY <3>1
      <4> HIDE DEF h, Sum
      <4>6. QED BY <4>3, <4>4, <4>5
    <3>2. \A s \in SUBSET T : h[s] = IF s = {} THEN 0 ELSE Weight[Some(s)] + h[s \ {Some(s)}]
      <4>1. ASSUME NEW s \in SUBSET T
            PROVE  h[s] = IF s = {} THEN 0 ELSE Weight[Some(s)] + h[s \ {Some(s)}]
        <5>1. CASE s = {}
          BY <5>1
        <5>2. CASE s # {}
          <6>1. h[s] = Sum(s)
            OBVIOUS
          <6> HIDE DEF h, Sum
          <6>2. QED BY <3>1, <5>2, <6>1
        <5>3. QED BY <5>1, <5>2
      <4>2. QED BY <4>1
    <3>3. h = [s \in SUBSET T |-> h[s]]
      OBVIOUS
    <3> HIDE DEF h
    <3>4. QED BY <3>2, <3>3 DEF IsSum
  <2> HIDE DEF h
  <2>2. IsSum(CHOOSE g : IsSum(g, T), T)
    BY <2>1
  <2>3. IsFiniteSet(T)
    BY FS_Subset
  <2>4. Size(T) = h[T]
    BY <2>1, <2>2, <2>3, SumIsUnique, SizeIsSum
  <2>5. QED BY <2>4 DEF h
<1>2. Good \in SUBSET (SUBSET S)
  OBVIOUS
<1> HIDE DEF Good
<1>3. S \in Good
  BY <1>1, <1>2, SubsetInduction, SMTT(30)
<1>4. QED BY <1>3 DEF Good

LEMMA SizeEmpty == Size({}) = 0
BY SizeSteps, FS_EmptySet

LEMMA SizeType ==
  ASSUME NEW S \in SUBSET Payload, IsFiniteSet(S)
  PROVE  Size(S) \in Nat
<1> DEFINE Good == {T \in SUBSET S : Size(T) \in Nat}
<1>1. ASSUME NEW T \in SUBSET S, \A U \in SUBSET T : U # T => U \in Good
      PROVE  T \in Good
  <2>1. CASE T = {}
    BY <2>1, SizeEmpty
  <2>2. CASE T # {}
    <3>1. Some(T) \in T /\ Weight[Some(T)] \in Nat
      BY <2>2, SomeIn, BoundsAreNat
    <3>2. Size(T \ {Some(T)}) \in Nat
      BY <1>1, <3>1
    <3>3. Size(T) = Weight[Some(T)] + Size(T \ {Some(T)})
      BY <2>2, FS_Subset, SizeSteps
    <3>4. QED BY <3>1, <3>2, <3>3
  <2>3. QED BY <2>1, <2>2
<1>2. Good \in SUBSET (SUBSET S)
  OBVIOUS
<1> HIDE DEF Good
<1>3. S \in Good
  BY <1>1, <1>2, SubsetInduction, SMTT(30)
<1>4. QED BY <1>3 DEF Good

(* Whatever is taken out of a batch makes it lighter by its weight. *)
LEMMA SizeWithout ==
  ASSUME NEW S \in SUBSET Payload, IsFiniteSet(S), NEW x \in S
  PROVE  Size(S) = Weight[x] + Size(S \ {x})
<1> DEFINE Good == {T \in SUBSET S : \A y \in T : Size(T) = Weight[y] + Size(T \ {y})}
<1>1. ASSUME NEW T \in SUBSET S, \A U \in SUBSET T : U # T => U \in Good, NEW y \in T
      PROVE  Size(T) = Weight[y] + Size(T \ {y})
  <2> DEFINE z == Some(T)
  <2>1. z \in T /\ IsFiniteSet(T)
    BY SomeIn, FS_Subset
  <2>2. Size(T) = Weight[z] + Size(T \ {z})
    BY <2>1, SizeSteps
  <2> HIDE DEF z
  <2>3. CASE y = z
    BY <2>2, <2>3
  <2>4. CASE y # z
    <3>1. T \ {z} \in Good /\ y \in T \ {z} /\ T \ {y} \in Good /\ z \in T \ {y}
      BY <1>1, <2>1, <2>4
    <3>2. /\ Size(T \ {z}) = Weight[y] + Size((T \ {z}) \ {y})
          /\ Size(T \ {y}) = Weight[z] + Size((T \ {y}) \ {z})
      BY <3>1
    <3>3. (T \ {z}) \ {y} = (T \ {y}) \ {z}
      OBVIOUS
    <3>4. Weight[y] \in Nat /\ Weight[z] \in Nat /\ Size((T \ {y}) \ {z}) \in Nat
      <4>1. IsFiniteSet((T \ {y}) \ {z}) /\ (T \ {y}) \ {z} \in SUBSET Payload
        BY <2>1, FS_Subset
      <4>2. QED BY <2>1, <4>1, SizeType, BoundsAreNat
    <3>5. QED BY <2>2, <3>2, <3>3, <3>4
  <2>5. QED BY <2>3, <2>4
<1>2. Good \in SUBSET (SUBSET S)
  OBVIOUS
<1>3. \A T \in SUBSET S : (\A U \in SUBSET T : U # T => U \in Good) => T \in Good
  BY <1>1
<1> HIDE DEF Good
<1>4. S \in Good
  BY <1>2, <1>3, SubsetInduction, SMTT(30)
<1>5. QED BY <1>4 DEF Good

LEMMA SizeSingle ==
  ASSUME NEW m \in Payload
  PROVE  Size({m}) = Weight[m] /\ IsFiniteSet({m})
<1>1. IsFiniteSet({m})
  BY FS_Singleton
<1>2. Size({m}) = Weight[m] + Size({m} \ {m})
  BY <1>1, SizeWithout
<1>3. {m} \ {m} = {}
  OBVIOUS
<1>4. QED BY <1>1, <1>2, <1>3, SizeEmpty, BoundsAreNat

(* A part of a batch is not larger than the batch. *)
LEMMA SizeMonotone ==
  ASSUME NEW S \in SUBSET Payload, IsFiniteSet(S), NEW A \in SUBSET S
  PROVE  Size(A) <= Size(S)
<1> DEFINE Good == {T \in SUBSET S : \A B \in SUBSET T : Size(B) <= Size(T)}
<1>1. ASSUME NEW T \in SUBSET S, \A U \in SUBSET T : U # T => U \in Good, NEW B \in SUBSET T
      PROVE  Size(B) <= Size(T)
  <2>1. IsFiniteSet(T) /\ IsFiniteSet(B) /\ Size(T) \in Nat /\ Size(B) \in Nat
    BY FS_Subset, SizeType
  <2>2. CASE B = T
    BY <2>1, <2>2
  <2>3. CASE B # T
    <3>1. PICK x \in T : x \notin B
      BY <2>3
    <3>2. T \ {x} \in Good /\ B \in SUBSET (T \ {x})
      BY <1>1, <3>1
    <3>3. Size(B) <= Size(T \ {x})
      BY <3>2
    <3>4. Size(T) = Weight[x] + Size(T \ {x})
      BY <2>1, SizeWithout
    <3>5. Weight[x] \in Nat /\ Size(T \ {x}) \in Nat
      <4>1. IsFiniteSet(T \ {x}) /\ T \ {x} \in SUBSET Payload
        BY <2>1, FS_Subset
      <4>2. QED BY <4>1, SizeType, BoundsAreNat
    <3>6. QED BY <2>1, <3>3, <3>4, <3>5
  <2>4. QED BY <2>2, <2>3
<1>2. Good \in SUBSET (SUBSET S)
  OBVIOUS
<1>3. \A T \in SUBSET S : (\A U \in SUBSET T : U # T => U \in Good) => T \in Good
  BY <1>1
<1> HIDE DEF Good
<1>4. S \in Good
  BY <1>2, <1>3, SubsetInduction, SMTT(30)
<1>5. QED BY <1>4 DEF Good

-----------------------------------------------------------------------------
(* Sizes. *)

LEMMA FitsNone == Fits({})
BY SizeEmpty, FS_EmptySet, BoundsAreNat DEF Fits

LEMMA FitsPart ==
  ASSUME NEW S \in SUBSET Payload, NEW A \in SUBSET S, Fits(S)
  PROVE  Fits(A)
<1>1. IsFiniteSet(S) /\ Size(S) <= MaxRequestSize
  BY DEF Fits
<1>2. IsFiniteSet(A) /\ A \in SUBSET Payload
  BY <1>1, FS_Subset
<1>3. Size(A) <= Size(S) /\ Size(A) \in Nat /\ Size(S) \in Nat
  BY <1>1, <1>2, SizeMonotone, SizeType
<1>4. QED BY <1>1, <1>2, <1>3, BoundsAreNat DEF Fits

LEMMA UptoFinite ==
  ASSUME NEW ms \in Seq(Payload), NEW i \in 0 .. Len(ms)
  PROVE  IsFiniteSet(Upto(ms, i))
<1> DEFINE f == [j \in 1 .. i |-> ms[j]]
<1>1. i \in Nat
  OBVIOUS
<1>2. IsFiniteSet(1 .. i)
  BY <1>1, FS_Interval
<1>3. f \in Surjection(1 .. i, Upto(ms, i))
  BY DEF Surjection, Upto
<1>4. QED BY <1>2, <1>3, FS_Surjection

(* A batch that fits has fitted at every payload it grew by. *)
LEMMA PostedFits ==
  ASSUME TypeOK, NEW p \in Peer, NEW s \in SessionState, NEW ms \in Seq(Payload),
         Fits(Messages(s)), ms # << >> => Fits(Messages(s) \cup Upto(ms, Len(ms)))
  PROVE  /\ Fits(Messages(Posted(p, s, ms)))
         /\ \A t \in RequestStatements(p, s, ms) : Fits(t.data)
<1>1. CASE ms = << >>
  <2>1. Posted(p, s, ms).outgoing = s.outgoing /\ Len(ms) = 0
    BY <1>1, PostedFields
  <2>2. RequestStatements(p, s, ms) = {}
    BY <2>1 DEF RequestStatements
  <2>3. QED BY <2>1, <2>2 DEF Messages
<1>2. CASE ms # << >>
  <2> DEFINE all == Messages(s) \cup Upto(ms, Len(ms))
  <2>1. Fits(all) /\ all \in SUBSET Payload
    BY <1>2, OutgoingType, UptoType
  <2>2. /\ Posted(p, s, ms).outgoing \in OutgoingRequest
        /\ Posted(p, s, ms).outgoing = [id |-> Len(requests[p]) + Len(ms), messages |-> all,
                                        tokens |-> Tokens(s) \cup Upto(ms, Len(ms))]
    BY <1>2, PostedFields, PostedOutgoing
  <2> HIDE DEF all
  <2>3. Messages(Posted(p, s, ms)) = all
    <3>1. Posted(p, s, ms).outgoing.messages = all /\ Posted(p, s, ms).outgoing # None
      <4>1. Posted(p, s, ms).outgoing # None
        BY <2>2, NoneIsApart
      <4> DEFINE out == [id |-> Len(requests[p]) + Len(ms), messages |-> all,
                         tokens |-> Tokens(s) \cup Upto(ms, Len(ms))]
      <4>2. out.messages = all
        OBVIOUS
      <4>3. Posted(p, s, ms).outgoing = out
        BY <2>2
      <4> HIDE DEF out
      <4>4. QED BY <4>1, <4>2, <4>3
    <3>2. QED BY <3>1 DEF Messages
  <2>4. ASSUME NEW t \in RequestStatements(p, s, ms) PROVE Fits(t.data)
    <3>1. PICK i \in 1 .. Len(ms) : t.data = Messages(s) \cup Upto(ms, i)
      BY DEF RequestStatements, Batches
    <3>2. t.data \in SUBSET all
      BY <3>1 DEF all, Upto
    <3>3. QED BY <2>1, <3>2, FitsPart
  <2>5. QED BY <2>1, <2>3, <2>4
<1>3. QED BY <1>1, <1>2

LEMMA QueueFits ==
  ASSUME TypeOK, NEW p \in Peer, NEW s \in SessionState, Fits(Messages(s)),
         ProcessMessageQueue(p, s)
  PROVE  /\ Fits(Messages(sess'[p])) /\ sess'[p].own = s.own
         /\ \A q \in Peer : q # p => sess'[q] = sess[q]
         /\ \A t \in inflight' \ inflight : Fits(t.data)
<1>1. PICK k \in 0 .. Len(s.queue), taken, left \in Seq(Payload) : QueueSplit(p, s, k, taken, left)
  BY QueueRuns
<1>2. SameBesidesBatch(s, sess'[p]) /\ \A q \in Peer : q # p => sess'[q] = sess[q]
  BY QueueRuns
<1>3. /\ taken \in Seq(Payload) /\ Len(taken) = k /\ \A i \in 1 .. k : taken[i] = s.queue[i]
      /\ PrefixFits(s, k) /\ inflight' = inflight \cup RequestStatements(p, s, taken)
      /\ sess'[p].outgoing = Posted(p, s, taken).outgoing
  BY <1>1 DEF QueueSplit, TakesFromQueue
<1>4. Upto(taken, k) = Upto(s.queue, k)
  BY <1>3 DEF Upto
<1>5. ASSUME taken # << >> PROVE Fits(Messages(s) \cup Upto(taken, Len(taken)))
  <2>1. k > 0
    BY <1>3, <1>5
  <2>2. Size(Messages(s) \cup Upto(taken, k)) <= MaxRequestSize
    BY <1>3, <1>4, <2>1 DEF PrefixFits
  <2>3. IsFiniteSet(Upto(taken, k))
    BY <1>3, UptoFinite
  <2>4. IsFiniteSet(Messages(s) \cup Upto(taken, k))
    BY <2>3, FS_Union DEF Fits
  <2>5. QED BY <1>3, <2>2, <2>4 DEF Fits
<1>6. /\ Fits(Messages(Posted(p, s, taken)))
      /\ \A t \in RequestStatements(p, s, taken) : Fits(t.data)
  BY <1>3, <1>5, PostedFits
<1>7. Messages(sess'[p]) = Messages(Posted(p, s, taken))
  BY <1>3 DEF Messages
<1>8. QED BY <1>2, <1>3, <1>6, <1>7 DEF SameBesidesBatch

LEMMA SizesFrame ==
  ASSUME SizesInv, NEW p \in Peer, \A q \in Peer : q # p => sess'[q] = sess[q],
         Fits(Messages(sess'[p])), sess'[p].own # None => \A t \in sess'[p].own : Fits(t.data),
         \A t \in inflight' \ inflight : Fits(t.data), store' = store
  PROVE  SizesInv'
<1>1. \A t \in inflight' : Fits(t.data)
  BY DEF SizesInv
<1>2. ASSUME NEW q \in Peer
      PROVE  Fits(Messages(sess'[q])) /\ (sess'[q].own # None => \A t \in sess'[q].own : Fits(t.data))
  BY DEF SizesInv
<1>3. ASSUME NEW q \in Peer, NEW kind \in {"request", "response"}
      PROVE  store'[q][kind] # None => Fits(store'[q][kind].data)
  BY DEF SizesInv
<1>4. QED BY <1>1, <1>2, <1>3 DEF SizesInv, Messages

(* Only the two queries change what a session holds of the two topics. *)
LEMMA LightTopics ==
  ASSUME TypeOK, NEW p \in Peer
  PROVE  LET rest == Respond(p) \/ Subscribe(p) \/ Unsubscribe(p) \/ DeliverRequest(p) IN
         /\ QueryPeer(p) \/ rest => sess'[p].own = sess[p].own
         /\ QueryOwn(p) \/ rest => sess'[p].peer = sess[p].peer
<1>0. sess[p] \in SessionState
  BY DEF TypeOK
<1> DEFINE Same == sess'[p].own = sess[p].own /\ sess'[p].peer = sess[p].peer
<1>1. ASSUME QueryOwn(p) PROVE sess'[p].peer = sess[p].peer
  <2>1. PICK own : sess' = [sess EXCEPT ![p] = [sess[p] EXCEPT !.own = own]]
    BY <1>1 DEF QueryOwn, TypeOK
  <2>2. QED BY <1>0, <2>1 DEF TypeOK, SessionState
<1>2. ASSUME QueryPeer(p) PROVE sess'[p].own = sess[p].own
  <2>1. PICK peer : sess' = [sess EXCEPT ![p] = [sess[p] EXCEPT !.peer = peer]]
    BY <1>2 DEF QueryPeer, TypeOK
  <2>2. QED BY <1>0, <2>1 DEF TypeOK, SessionState
<1>3. ASSUME Respond(p) PROVE Same
  BY <1>0, <1>3 DEF TypeOK, SessionState, Respond
<1>4. ASSUME Subscribe(p) PROVE Same
  BY <1>0, <1>4 DEF TypeOK, SessionState, Subscribe
<1>5. ASSUME Unsubscribe(p) PROVE Same
  BY <1>0, <1>5 DEF TypeOK, SessionState, Unsubscribe
<1>6. ASSUME DeliverRequest(p) PROVE Same
  <2> DEFINE t == store[Other(p)].request
             s == Marked(p, t)
             taken == [s EXCEPT !.incoming = t.id, !.responded = FALSE]
             r == [id |-> t.id, data |-> t.data]
  <2>1. s \in SessionState /\ t \in Statement
    BY <1>6, IsNewType DEF DeliverRequest
  <2>2. taken \in SessionState
    BY <2>1 DEF SessionState, Statement
  <2>3. s.own = sess[p].own /\ s.peer = sess[p].peer
    BY <1>0 DEF Marked, SessionState
  <2>4. taken.own = s.own /\ taken.peer = s.peer
    BY <2>1 DEF SessionState
  <2>5. sess'[p] \in {s, Surfaced(taken, r)}
    BY <1>6 DEF DeliverRequest, RouteRequest, TypeOK
  <2> HIDE DEF s, taken, r
  <2>6. Surfaced(taken, r).own = taken.own /\ Surfaced(taken, r).peer = taken.peer
    BY <2>2, SurfacedFields
  <2>7. QED BY <2>3, <2>4, <2>5, <2>6
<1>7. QED BY <1>1, <1>2, <1>3, <1>4, <1>5, <1>6

LEMMA SizesStep ==
  ASSUME TypeOK, TypeOK', SizesInv, [Next]_vars
  PROVE  SizesInv'
<1>0. \A p \in Peer : sess[p] \in SessionState /\ Fits(Messages(sess[p]))
  BY DEF TypeOK, SizesInv
<1>1. ASSUME NEW p \in Peer, Create(p) \/ Dispose(p) \/ Crash(p) PROVE SizesInv'
  <2>1. /\ \A q \in Peer : q # p => sess'[q] = sess[q]
        /\ \E phase : sess'[p] = NoSession(phase)
        /\ inflight' \subseteq inflight /\ store' = store
    BY <1>1, StartsOver
  <2>2. Messages(sess'[p]) = {} /\ sess'[p].own = None
    BY <2>1 DEF NoSession, Messages
  <2>3. QED BY <2>1, <2>2, FitsNone, SizesFrame
<1>2. ASSUME NEW p \in Peer, QueryOwn(p) PROVE SizesInv'
  <2>1. LightStep(p) /\ inflight' = inflight
    BY <1>2 DEF LightStep, QueryOwn
  <2>2. /\ \A q \in Peer : q # p => sess'[q] = sess[q]
        /\ sess'[p].outgoing = sess[p].outgoing /\ store' = store
    BY <2>1, LightFields
  <2>3. sess'[p].own \in {OnTopicOf(p), {}}
    <3>1. PICK own \in {OnTopicOf(p), {}} : sess' = [sess EXCEPT ![p] = [sess[p] EXCEPT !.own = own]]
      BY <1>2 DEF QueryOwn, TypeOK
    <3>2. QED BY <1>0, <3>1 DEF TypeOK, SessionState
  <2>4. \A t \in OnTopicOf(p) : Fits(t.data)
    BY DEF OnTopicOf, SizesInv, Other, Peer
  <2>5. QED BY <1>0, <2>1, <2>2, <2>3, <2>4, SizesFrame DEF Messages
<1>3. ASSUME NEW p \in Peer,
             QueryPeer(p) \/ Respond(p) \/ Subscribe(p) \/ Unsubscribe(p) \/ DeliverRequest(p)
      PROVE  SizesInv'
  <2>1. /\ \A q \in Peer : q # p => sess'[q] = sess[q]
        /\ sess'[p].outgoing = sess[p].outgoing /\ store' = store
    BY <1>3, LightFields DEF LightStep
  <2>2. sess'[p].own = sess[p].own
    BY <1>3, LightTopics
  <2>3. \A t \in inflight' \ inflight : t.data = {}
    <3>1. CASE Respond(p)
      <4> DEFINE answer == [from |-> p, kind |-> "response", id |-> sess[p].incoming, data |-> {},
                            expiry |-> NextExpiry(sess[p].expiry)]
      <4>1. inflight' = inflight \cup {answer} /\ answer.data = {}
        BY <3>1 DEF Respond
      <4> HIDE DEF answer
      <4>2. QED BY <4>1
    <3>2. CASE ~Respond(p)
      BY <1>3, <3>2 DEF QueryPeer, Subscribe, Unsubscribe, DeliverRequest
    <3>3. QED BY <3>1, <3>2
  <2>4. sess[p].own # None => \A t \in sess[p].own : Fits(t.data)
    BY DEF SizesInv
  <2>5. Messages(sess'[p]) = Messages(sess[p])
    BY <2>1 DEF Messages
  <2>6. QED BY <1>0, <2>1, <2>2, <2>3, <2>4, <2>5, FitsNone, SizesFrame
<1>4. ASSUME NEW p \in Peer, FinishInit(p) PROVE SizesInv'
  <2>1. PICK started \in SessionState :
          StartedFrom(p, sess[p], started) /\ ProcessMessageQueue(p, started)
    BY <1>4, InitFinishes
  <2>2. store' = store /\ sess[p].own # None
    BY <1>4 DEF FinishInit
  <2>3. \A t \in Restorable(p, sess[p].own) : Fits(t.data)
    BY <2>2 DEF SizesInv, Restorable, Decoded
  <2>4. /\ started.own = None
        /\ \/ started.outgoing = sess[p].outgoing
           \/ \E t \in Restorable(p, sess[p].own) :
                started.outgoing = [id |-> t.id, messages |-> t.data, tokens |-> {}]
    BY <2>1 DEF StartedFrom
  <2>5. Fits(Messages(started))
    <3>1. CASE started.outgoing = sess[p].outgoing
      BY <1>0, <3>1 DEF Messages
    <3>2. CASE \E t \in Restorable(p, sess[p].own) :
                 started.outgoing = [id |-> t.id, messages |-> t.data, tokens |-> {}]
      <4>1. \E t \in Restorable(p, sess[p].own) : started.outgoing.messages = t.data
        BY <3>2
      <4>2. QED BY <2>3, <4>1, FitsNone DEF Messages
    <3>3. QED BY <2>4, <3>1, <3>2
  <2>6. QED BY <2>1, <2>2, <2>4, <2>5, QueueFits, SizesFrame
<1>5. ASSUME NEW p \in Peer, NEW m \in Payload, Submit(p, m) PROVE SizesInv'
  <2> DEFINE s == [sess[p] EXCEPT !.live = TRUE, !.pending = @ \cup {m}]
  <2>1. store' = store /\ Weight[m] <= MaxRequestSize
    BY <1>5 DEF Submit
  <2>2. s \in SessionState
    BY <1>0, UpdatedSessionType
  <2>3. s.outgoing = sess[p].outgoing /\ s.own = sess[p].own
    BY <1>0 DEF SessionState
  <2>4. \/ /\ JoinsRequest(s, m) /\ sess' = [sess EXCEPT ![p] = Posted(p, s, <<m>>)]
           /\ inflight' = inflight \cup RequestStatements(p, s, <<m>>)
        \/ sess' = [sess EXCEPT ![p] = [s EXCEPT !.queue = Append(@, m)]] /\ inflight' = inflight
    BY <1>5 DEF Submit
  <2> HIDE DEF s
  <2>5. \A q \in Peer : q # p => sess'[q] = sess[q]
    BY <2>4 DEF TypeOK
  <2>6. Fits(Messages(s)) /\ Messages(s) = Messages(sess[p])
    BY <1>0, <2>3 DEF Messages
  <2>7. s.own # None => \A t \in s.own : Fits(t.data)
    BY <2>3 DEF SizesInv
  <2>8. CASE /\ JoinsRequest(s, m) /\ sess' = [sess EXCEPT ![p] = Posted(p, s, <<m>>)]
             /\ inflight' = inflight \cup RequestStatements(p, s, <<m>>)
    <3> DEFINE ms == <<m>>
    <3>1. sess'[p] = Posted(p, s, ms) /\ inflight' = inflight \cup RequestStatements(p, s, ms)
      BY <2>8 DEF TypeOK
    <3>2. ms \in Seq(Payload) /\ Upto(ms, Len(ms)) = {m}
      BY DEF Upto
    <3> HIDE DEF ms
    <3>3. Fits(Messages(s) \cup {m})
      <4>1. IsFiniteSet(Messages(s) \cup {m})
        BY <2>6, FS_AddElement DEF Fits
      <4>2. Size(Messages(s) \cup {m}) <= MaxRequestSize
        <5>1. CASE s.outgoing = None
          <6>1. Messages(s) \cup {m} = {m}
            BY <5>1 DEF Messages
          <6>2. QED BY <2>1, <6>1, SizeSingle
        <5>2. CASE s.outgoing # None
          BY <2>8, <5>2 DEF JoinsRequest, Messages
        <5>3. QED BY <5>1, <5>2
      <4>3. QED BY <4>1, <4>2 DEF Fits
    <3>4. /\ Fits(Messages(Posted(p, s, ms)))
          /\ \A t \in RequestStatements(p, s, ms) : Fits(t.data)
      BY <2>2, <2>6, <3>2, <3>3, PostedFits
    <3>5. SameBesidesBatch(s, Posted(p, s, ms))
      BY <2>2, <3>2, PostedFields
    <3>6. sess'[p].own = s.own
      BY <3>1, <3>5 DEF SameBesidesBatch
    <3>7. QED BY <2>1, <2>5, <2>7, <3>1, <3>4, <3>6, SizesFrame
  <2>9. CASE sess' = [sess EXCEPT ![p] = [s EXCEPT !.queue = Append(@, m)]] /\ inflight' = inflight
    <3>1. sess'[p] = [s EXCEPT !.queue = Append(@, m)]
      BY <2>9 DEF TypeOK
    <3>2. sess'[p].outgoing = s.outgoing /\ sess'[p].own = s.own
      BY <2>2, <3>1 DEF SessionState
    <3>3. Messages(sess'[p]) = Messages(s)
      BY <3>2 DEF Messages
    <3>4. QED BY <2>1, <2>5, <2>6, <2>7, <2>9, <3>2, <3>3, SizesFrame
  <2>10. QED BY <2>4, <2>8, <2>9
<1>6. ASSUME NEW p \in Peer, DeliverResponse(p) PROVE SizesInv'
  <2> DEFINE t == store[Other(p)]["response"]
             s == Marked(p, t)
             settled == [s EXCEPT !.pending = @ \ s.outgoing.tokens, !.outgoing = None]
  <2>1. t \in Statement /\ s \in SessionState /\ RouteResponse(p, s, t) /\ store' = store
    BY <1>6, IsNewType DEF DeliverResponse
  <2>2. s.outgoing = sess[p].outgoing /\ s.own = sess[p].own
    BY <1>0 DEF Marked, SessionState
  <2> HIDE DEF s, t
  <2>3. Messages(s) = Messages(sess[p]) /\ Fits(Messages(sess[p]))
    BY <1>0, <2>2 DEF Messages
  <2>4. s.own # None => \A u \in s.own : Fits(u.data)
    BY <2>2 DEF SizesInv
  <2>5. CASE AckMatches(s, t)
    <3>1. settled \in SessionState
      BY <2>1 DEF SessionState
    <3>2. settled.outgoing = None /\ settled.own = s.own
      BY <2>1 DEF SessionState
    <3>3. ProcessMessageQueue(p, settled)
      BY <2>1, <2>5 DEF RouteResponse
    <3> HIDE DEF settled
    <3>4. Fits(Messages(settled))
      BY <3>2, FitsNone DEF Messages
    <3>5. QED BY <2>1, <2>4, <3>1, <3>2, <3>3, <3>4, QueueFits, SizesFrame
  <2>6. CASE ~AckMatches(s, t)
    <3>1. sess' = [sess EXCEPT ![p] = s] /\ inflight' = inflight
      BY <2>1, <2>6 DEF RouteResponse
    <3>2. sess'[p] = s /\ \A q \in Peer : q # p => sess'[q] = sess[q]
      BY <3>1 DEF TypeOK
    <3>3. QED BY <2>1, <2>3, <2>4, <3>1, <3>2, SizesFrame
  <2>7. QED BY <2>5, <2>6
<1>7. ASSUME NEW t \in inflight, Accept(t) \/ Refuse(t) \/ SubmitFails(t) PROVE SizesInv'
  <2>1. inflight' \subseteq inflight /\ sess' = sess /\ Fits(t.data)
    BY <1>7 DEF Accept, Refuse, SubmitFails, SizesInv
  <2>2. t.from \in Peer /\ t.kind \in {"request", "response"}
    BY DEF TypeOK, Statement
  <2>3. store' = store \/ store' = [store EXCEPT ![t.from][t.kind] = t]
    BY <1>7 DEF Accept, Refuse, SubmitFails
  <2>4. ASSUME NEW p \in Peer, NEW kind \in {"request", "response"}
        PROVE  store'[p][kind] = store[p][kind] \/ store'[p][kind] = t
    BY <2>2, <2>3 DEF TypeOK
  <2>5. QED BY <2>1, <2>4 DEF SizesInv, Messages
<1>8. ASSUME Tick \/ UNCHANGED vars PROVE SizesInv'
  <2>1. UNCHANGED <<sess, inflight, store>>
    BY <1>8 DEF Tick, vars, history
  <2>2. QED BY <2>1 DEF SizesInv, Messages
<1>9. QED
  BY <1>1, <1>2, <1>3, <1>4, <1>5, <1>6, <1>7, <1>8 DEF Next

(* No statement is longer than maxRequestSize, not even one that continues a
   batch restored from the store, nor one of those submitted while a batch
   grows (processMessageQueue, processNewMessage). *)
THEOREM BatchesAlwaysFit == Spec => []BatchesFit
<1>1. Init => SizesInv
  BY FitsNone DEF Init, SizesInv, NoSession, Messages
<1>2. TypeOK /\ TypeOK' /\ SizesInv /\ [Next]_vars => SizesInv'
  BY SizesStep
<1>3. SizesInv => BatchesFit
  BY DEF SizesInv, BatchesFit, Fits
<1>4. QED BY <1>1, <1>2, <1>3, TypeCorrect, PTL DEF Spec

-----------------------------------------------------------------------------
(* Requests, wherever they are kept. *)

LEMMA StatementsFrame ==
  ASSUME NEW p \in Peer, NEW New, \A q \in Peer : q # p => sess'[q] = sess[q],
         sess'[p].seen \cup Answers(sess'[p]) \subseteq Statements, store' = store,
         inflight' \subseteq inflight \cup New
  PROVE  Statements' \subseteq Statements \cup New
<1>1. ASSUME NEW q \in Peer PROVE (sess[q].seen \cup Answers(sess[q]))' \subseteq Statements
  <2>1. CASE q = p
    BY <2>1 DEF Answers
  <2>2. CASE q # p
    BY <2>2 DEF Statements, Answers
  <2>3. QED BY <2>1, <2>2
<1>2. inflight \cup {store[q].request : q \in Peer} \cup {store[q].response : q \in Peer}
      \subseteq Statements
  BY DEF Statements
<1>3. Statements' = inflight' \cup {store[q].request : q \in Peer} \cup {store[q].response : q \in Peer}
                    \cup UNION {(sess[q].seen \cup Answers(sess[q]))' : q \in Peer}
  BY DEF Statements
<1>4. QED BY <1>1, <1>2, <1>3

NewRequests(p, New) ==
  /\ \A t \in New : t.from = p /\ t.id \in Nat
  /\ \A t \in New : t.id \in DOMAIN requests'[p] /\ t.id \notin DOMAIN requests[p]
  /\ \A t, u \in New : t.id = u.id => t = u

IdsUnique ==
  /\ \A t \in Requests : t.id \in DOMAIN requests[t.from]
  /\ \A t, u \in Requests : t.from = u.from /\ t.id = u.id => t = u

LEMMA IdsStayUnique ==
  ASSUME IdsUnique, NEW p \in Peer, NEW New, Requests' \subseteq Requests \cup New, NewRequests(p, New),
         \A q : DOMAIN requests[q] \subseteq DOMAIN requests'[q]
  PROVE  IdsUnique'
<1>1. \A t \in Requests' : t.id \in DOMAIN requests'[t.from]
  BY DEF IdsUnique, NewRequests
<1>2. ASSUME NEW t \in Requests', NEW u \in Requests', t.from = u.from, t.id = u.id
      PROVE  t = u
  <2>1. CASE t \in Requests /\ u \in Requests
    BY <1>2, <2>1 DEF IdsUnique
  <2>2. CASE t \in New /\ u \in New
    BY <1>2, <2>2 DEF NewRequests
  <2>3. CASE t \in Requests /\ u \in New
    BY <1>2, <2>3 DEF NewRequests, IdsUnique
  <2>4. CASE t \in New /\ u \in Requests
    BY <1>2, <2>4 DEF NewRequests, IdsUnique
  <2>5. QED BY <2>1, <2>2, <2>3, <2>4
<1>3. QED BY <1>1, <1>2 DEF IdsUnique

(* The statements of one run have ids nobody had. *)
LEMMA PostedIds ==
  ASSUME TypeOK, NEW p \in Peer, NEW s \in SessionState, NEW ms \in Seq(Payload),
         requests' = [requests EXCEPT ![p] = @ \o Batches(s, ms)]
  PROVE  /\ NewRequests(p, RequestStatements(p, s, ms))
         /\ \A q : DOMAIN requests[q] \subseteq DOMAIN requests'[q]
<1>1. /\ requests[p] \in Seq(SUBSET Payload) /\ Batches(s, ms) \in Seq(SUBSET Payload)
      /\ Len(Batches(s, ms)) = Len(ms) /\ Len(ms) \in Nat /\ Len(requests[p]) \in Nat
  BY PostedType DEF TypeOK, Batches
<1>2. requests'[p] = requests[p] \o Batches(s, ms)
  BY DEF TypeOK
<1>3. DOMAIN requests[p] = 1 .. Len(requests[p]) /\ DOMAIN requests'[p] = 1 .. Len(requests[p]) + Len(ms)
  BY <1>1, <1>2, ConcatProperties
<1>4. \A q : q # p => requests'[q] = requests[q]
  BY DEF TypeOK
<1>5. \A q : DOMAIN requests[q] \subseteq DOMAIN requests'[q]
  <2>1. DOMAIN requests[p] \subseteq DOMAIN requests'[p]
    BY <1>1, <1>3
  <2>2. QED BY <1>4, <2>1
<1>6. ASSUME NEW t \in RequestStatements(p, s, ms)
      PROVE  /\ t.from = p /\ t.id \in Nat
             /\ t.id \in DOMAIN requests'[p] /\ t.id \notin DOMAIN requests[p]
  <2>1. PICK i \in 1 .. Len(ms) : t.from = p /\ t.id = Len(requests[p]) + i
    BY DEF RequestStatements
  <2>2. QED BY <1>1, <1>3, <2>1
<1>7. ASSUME NEW t \in RequestStatements(p, s, ms), NEW u \in RequestStatements(p, s, ms), t.id = u.id
      PROVE  t = u
  <2> DEFINE statement(i) == [from |-> p, kind |-> "request", id |-> Len(requests[p]) + i,
                              data |-> Batches(s, ms)[i], expiry |-> NextExpiry(s.expiry) + i - 1]
  <2>1. PICK i \in 1 .. Len(ms) : t = statement(i)
    BY DEF RequestStatements
  <2>2. PICK j \in 1 .. Len(ms) : u = statement(j)
    BY DEF RequestStatements
  <2>3. Len(requests[p]) + i = Len(requests[p]) + j
    BY <1>7, <2>1, <2>2
  <2>4. i = j
    BY <1>1, <2>3
  <2>5. QED BY <2>1, <2>2, <2>4
<1>8. QED BY <1>5, <1>6, <1>7 DEF NewRequests

-----------------------------------------------------------------------------
(* One session's surfacing. *)

LEMMA SeenOnceFrom ==
  ASSUME NEW p \in Peer, NEW s, NEW t, SeenOnce(p, s), t.twice = s.twice, t.handed = s.handed,
         t.buffered = s.buffered, s.seen \subseteq t.seen,
         \/ t.phase = "active"
         \/ t.phase = s.phase /\ t.live = s.live /\ t.subscribed = s.subscribed
  PROVE  SeenOnce(p, t)
BY DEF SeenOnce

(* A request with an id that nothing buffered has is surfaced once. *)
LEMMA SurfacedSeenOnce ==
  ASSUME NEW p \in Peer, NEW s \in SessionState, SeenOnce(p, s), s.phase = "active", NEW t,
         NEW r \in Incoming, \A i \in DOMAIN s.buffered : s.buffered[i].id # r.id,
         \E u \in t.seen : u.kind = "request" /\ u.from = Other(p) /\ u.id = r.id,
         t.phase = "active", s.seen \subseteq t.seen, t.buffered = Append(s.buffered, r),
         t.twice = s.twice \/ t.twice = s.twice \cup ({r.id} \cap s.handed),
         t.handed = s.handed \/ t.handed = s.handed \cup {r.id}
  PROVE  SeenOnce(p, t)
<1> DEFINE n == Len(s.buffered)
<1>1. /\ s.buffered \in Seq(Incoming) /\ n \in Nat /\ DOMAIN s.buffered = 1 .. n
      /\ DOMAIN t.buffered = 1 .. n + 1
      /\ \A i \in 1 .. n : t.buffered[i] = s.buffered[i]
      /\ t.buffered[n + 1] = r
  BY AppendProperties DEF SessionState
<1> HIDE DEF n
<1>2. r.id \notin s.handed /\ s.twice = {}
  BY DEF SeenOnce
<1>3. t.twice = {}
  BY <1>2
<1>4. t.handed \subseteq {t.buffered[i].id : i \in DOMAIN t.buffered}
  <2>1. \A i \in 1 .. n : i \in 1 .. n + 1
    BY <1>1
  <2>2. n + 1 \in 1 .. n + 1
    BY <1>1
  <2>3. s.handed \subseteq {t.buffered[i].id : i \in DOMAIN t.buffered}
    BY <1>1, <2>1 DEF SeenOnce
  <2>4. QED BY <1>1, <2>2, <2>3
<1>5. \A i, j \in DOMAIN t.buffered : t.buffered[i].id = t.buffered[j].id => i = j
  <2>1. \A i \in 1 .. n + 1 : i \in 1 .. n \/ i = n + 1
    BY <1>1
  <2>2. QED BY <1>1, <2>1 DEF SeenOnce
<1>6. \A i \in DOMAIN t.buffered :
        \E u \in t.seen : u.kind = "request" /\ u.from = Other(p) /\ u.id = t.buffered[i].id
  <2>1. \A i \in 1 .. n + 1 : i \in 1 .. n \/ i = n + 1
    BY <1>1
  <2>2. QED BY <1>1, <2>1 DEF SeenOnce
<1>7. QED BY <1>3, <1>4, <1>5, <1>6 DEF SeenOnce

LEMMA SurfacingFrame ==
  ASSUME SurfacingInv, NEW p \in Peer, IdsUnique', \A q \in Peer : q # p => sess'[q] = sess[q],
         SeenOnce(p, sess'[p])
  PROVE  SurfacingInv'
<1>1. \A q \in Peer : SeenOnce(q, sess'[q])
  BY DEF SurfacingInv
<1>2. QED BY <1>1 DEF SurfacingInv, IdsUnique, SeenOnce

LEMMA InStatements ==
  ASSUME NEW p \in Peer
  PROVE  /\ sess[p].seen \cup Answers(sess[p]) \subseteq Statements
         /\ store[p].request \in Statements /\ store[p].response \in Statements
         /\ inflight \subseteq Statements
BY DEF Statements

LEMMA QuietRequests ==
  ASSUME IdsUnique, NEW New, Statements' \subseteq Statements \cup New,
         \A t \in New : t.kind # "request", requests' = requests
  PROVE  IdsUnique'
<1>1. Requests' \subseteq Requests
  BY DEF Requests
<1>2. QED BY <1>1 DEF IdsUnique

LEMMA QuietStep ==
  ASSUME IdsUnique, Statements' \subseteq Statements \cup {}, requests' = requests
  PROVE  IdsUnique'
<1> DEFINE New == {}
<1>1. Statements' \subseteq Statements \cup New /\ \A t \in New : t.kind # "request"
  OBVIOUS
<1> HIDE DEF New
<1>2. QED BY <1>1, QuietRequests

LEMMA QueueSurfaces ==
  ASSUME TypeOK, IdsUnique, NEW p \in Peer, NEW s \in SessionState, ProcessMessageQueue(p, s),
         SeenOnce(p, s), s.phase = "active", s.seen \cup Answers(s) \subseteq Statements,
         store' = store
  PROVE  /\ IdsUnique' /\ SeenOnce(p, sess'[p])
         /\ \A q \in Peer : q # p => sess'[q] = sess[q]
<1>1. PICK k \in 0 .. Len(s.queue), taken, left \in Seq(Payload) : QueueSplit(p, s, k, taken, left)
  BY QueueRuns
<1>2. SameBesidesBatch(s, sess'[p]) /\ \A q \in Peer : q # p => sess'[q] = sess[q]
  BY QueueRuns
<1> DEFINE New == RequestStatements(p, s, taken)
<1>3. /\ taken \in Seq(Payload) /\ inflight' = inflight \cup New
      /\ requests' = [requests EXCEPT ![p] = @ \o Batches(s, taken)]
  BY <1>1 DEF QueueSplit
<1>4. NewRequests(p, New) /\ \A q : DOMAIN requests[q] \subseteq DOMAIN requests'[q]
  BY <1>3, PostedIds
<1>5. sess'[p].seen \cup Answers(sess'[p]) \subseteq Statements
  BY <1>2 DEF SameBesidesBatch, Answers
<1> HIDE DEF New
<1>6. Statements' \subseteq Statements \cup New
  BY <1>2, <1>3, <1>5, StatementsFrame
<1>7. Requests' \subseteq Requests \cup New
  BY <1>6 DEF Requests
<1>8. IdsUnique'
  BY <1>4, <1>7, IdsStayUnique
<1>9. SeenOnce(p, sess'[p])
  BY <1>2, SeenOnceFrom DEF SameBesidesBatch
<1>10. QED BY <1>2, <1>8, <1>9

LEMMA SurfacingStep ==
  ASSUME TypeOK, TypeOK', DeliveryInv, SurfacingInv, EarlyUse = FALSE, [Next]_vars
  PROVE  SurfacingInv'
<1>0. /\ \A p \in Peer : sess[p] \in SessionState /\ SeenOnce(p, sess[p])
      /\ IdsUnique
  BY DEF TypeOK, SurfacingInv, IdsUnique
<1>1. ASSUME NEW p \in Peer, Create(p) \/ Dispose(p) \/ Crash(p) PROVE SurfacingInv'
  <2>1. /\ \A q \in Peer : q # p => sess'[q] = sess[q]
        /\ \E phase : sess'[p] = NoSession(phase)
        /\ inflight' \subseteq inflight \cup {} /\ UNCHANGED <<store, requests>>
    BY <1>1, StartsOver
  <2>2. sess'[p].seen \cup Answers(sess'[p]) = {}
    BY <2>1 DEF NoSession, Answers
  <2>3. Statements' \subseteq Statements \cup {}
    BY <2>1, <2>2, StatementsFrame
  <2>4. IdsUnique'
    BY <1>0, <2>1, <2>3, QuietStep
  <2>5. SeenOnce(p, sess'[p])
    BY <2>1 DEF NoSession, SeenOnce
  <2>6. QED BY <2>1, <2>4, <2>5, SurfacingFrame
<1>2. ASSUME NEW p \in Peer, QueryOwn(p) \/ QueryPeer(p) PROVE SurfacingInv'
  <2>1. PICK answer \in SUBSET Statements :
          sess' = [sess EXCEPT ![p] = [sess[p] EXCEPT !.own = answer]] \/
          sess' = [sess EXCEPT ![p] = [sess[p] EXCEPT !.peer = answer]]
    <3>1. OnTopicOf(p) \subseteq Statements /\ OnTopicOf(Other(p)) \subseteq Statements
      BY OtherPeer, InStatements DEF OnTopicOf
    <3>2. QED BY <1>2, <3>1 DEF QueryOwn, QueryPeer, TypeOK
  <2>2. UNCHANGED <<inflight, store, requests>>
    BY <1>2 DEF QueryOwn, QueryPeer
  <2>3. /\ \A q \in Peer : q # p => sess'[q] = sess[q]
        /\ sess'[p].twice = sess[p].twice /\ sess'[p].handed = sess[p].handed
        /\ sess'[p].buffered = sess[p].buffered /\ sess'[p].seen = sess[p].seen
        /\ sess'[p].phase = sess[p].phase /\ sess'[p].live = sess[p].live
        /\ sess'[p].subscribed = sess[p].subscribed
        /\ Answers(sess'[p]) \subseteq Answers(sess[p]) \cup answer
    <3>1. CASE sess' = [sess EXCEPT ![p] = [sess[p] EXCEPT !.own = answer]]
      <4>1. sess'[p].own = answer /\ sess'[p].peer = sess[p].peer
        BY <1>0, <3>1 DEF TypeOK, SessionState
      <4>2. Answers(sess'[p]) \subseteq Answers(sess[p]) \cup answer
        BY <4>1 DEF Answers
      <4>3. /\ \A q \in Peer : q # p => sess'[q] = sess[q]
            /\ sess'[p].twice = sess[p].twice /\ sess'[p].handed = sess[p].handed
            /\ sess'[p].buffered = sess[p].buffered /\ sess'[p].seen = sess[p].seen
            /\ sess'[p].phase = sess[p].phase /\ sess'[p].live = sess[p].live
            /\ sess'[p].subscribed = sess[p].subscribed
        BY <1>0, <3>1 DEF TypeOK, SessionState
      <4>4. QED BY <4>2, <4>3
    <3>2. CASE sess' = [sess EXCEPT ![p] = [sess[p] EXCEPT !.peer = answer]]
      <4>1. sess'[p].peer = answer /\ sess'[p].own = sess[p].own
        BY <1>0, <3>2 DEF TypeOK, SessionState
      <4>2. Answers(sess'[p]) \subseteq Answers(sess[p]) \cup answer
        BY <4>1 DEF Answers
      <4>3. /\ \A q \in Peer : q # p => sess'[q] = sess[q]
            /\ sess'[p].twice = sess[p].twice /\ sess'[p].handed = sess[p].handed
            /\ sess'[p].buffered = sess[p].buffered /\ sess'[p].seen = sess[p].seen
            /\ sess'[p].phase = sess[p].phase /\ sess'[p].live = sess[p].live
            /\ sess'[p].subscribed = sess[p].subscribed
        BY <1>0, <3>2 DEF TypeOK, SessionState
      <4>4. QED BY <4>2, <4>3
    <3>3. QED BY <2>1, <3>1, <3>2
  <2>4. Statements' \subseteq Statements \cup {}
    BY <2>1, <2>2, <2>3, InStatements, StatementsFrame
  <2>5. IdsUnique'
    BY <1>0, <2>2, <2>4, QuietStep
  <2>6. SeenOnce(p, sess'[p])
    BY <1>0, <2>3, SeenOnceFrom
  <2>7. QED BY <2>3, <2>5, <2>6, SurfacingFrame
<1>3. ASSUME NEW p \in Peer, Respond(p) \/ Unsubscribe(p) PROVE SurfacingInv'
  <2> DEFINE New == inflight' \ inflight
  <2>1. inflight' \subseteq inflight \cup New /\ \A t \in New : t.kind # "request"
    <3>1. CASE Respond(p)
      BY <3>1 DEF Respond
    <3>2. CASE Unsubscribe(p)
      BY <3>2 DEF Unsubscribe
    <3>3. QED BY <1>3, <3>1, <3>2
  <2> HIDE DEF New
  <2>2. UNCHANGED <<store, requests>>
    BY <1>3 DEF Respond, Unsubscribe
  <2>3. /\ \A q \in Peer : q # p => sess'[q] = sess[q]
        /\ sess'[p].twice = sess[p].twice /\ sess'[p].handed = sess[p].handed
        /\ sess'[p].buffered = sess[p].buffered /\ sess'[p].seen = sess[p].seen
        /\ sess'[p].phase = sess[p].phase /\ sess'[p].live = sess[p].live
        /\ sess'[p].subscribed => sess[p].subscribed
        /\ sess'[p].own = sess[p].own /\ sess'[p].peer = sess[p].peer
    <3>1. CASE Respond(p)
      BY <1>0, <3>1 DEF TypeOK, SessionState, Respond
    <3>2. CASE Unsubscribe(p)
      BY <1>0, <3>2 DEF TypeOK, SessionState, Unsubscribe
    <3>3. QED BY <1>3, <3>1, <3>2
  <2>4. Answers(sess'[p]) = Answers(sess[p])
    BY <2>3 DEF Answers
  <2>5. Statements' \subseteq Statements \cup New
    BY <2>1, <2>2, <2>3, <2>4, InStatements, StatementsFrame
  <2>6. IdsUnique'
    BY <1>0, <2>1, <2>2, <2>5, QuietRequests
  <2>7. SeenOnce(p, sess'[p])
    BY <1>0, <2>3 DEF SeenOnce
  <2>8. QED BY <2>3, <2>6, <2>7, SurfacingFrame
<1>4. ASSUME NEW p \in Peer, Subscribe(p) PROVE SurfacingInv'
  <2> DEFINE s == sess[p]
             replayed == {s.buffered[i].id : i \in DOMAIN s.buffered}
             repeated == {s.buffered[i].id : i \in
                            {j \in DOMAIN s.buffered :
                               \E k \in 1 .. j - 1 : s.buffered[k].id = s.buffered[j].id}}
  <2>1. s.phase = "active"
    BY <1>4 DEF Subscribe, InUse
  <2>2. UNCHANGED <<inflight, store, requests>>
    BY <1>4 DEF Subscribe
  <2>3. /\ \A q \in Peer : q # p => sess'[q] = sess[q]
        /\ sess'[p] = [s EXCEPT !.subscribed = TRUE, !.live = TRUE, !.known = @ \cup replayed,
                                !.handed = replayed, !.twice = repeated]
    BY <1>4 DEF Subscribe, TypeOK
  <2>4. repeated = {}
    <3>1. \A i, j \in DOMAIN s.buffered : s.buffered[i].id = s.buffered[j].id => i = j
      BY <1>0 DEF SeenOnce
    <3>2. DOMAIN s.buffered = 1 .. Len(s.buffered) /\ Len(s.buffered) \in Nat
      BY <1>0 DEF SessionState
    <3> HIDE DEF s
    <3>3. ASSUME NEW j \in DOMAIN s.buffered, NEW k \in 1 .. j - 1,
                 s.buffered[k].id = s.buffered[j].id
          PROVE  FALSE
      <4>1. k \in DOMAIN s.buffered /\ k # j
        BY <3>2
      <4>2. QED BY <3>1, <3>3, <4>1
    <3>4. QED BY <3>3
  <2>5. /\ sess'[p].twice = repeated /\ sess'[p].handed = replayed
        /\ sess'[p].buffered = s.buffered /\ sess'[p].seen = s.seen
        /\ sess'[p].phase = s.phase /\ sess'[p].own = s.own /\ sess'[p].peer = s.peer
    <3>1. s \in SessionState
      BY <1>0
    <3> HIDE DEF s, replayed, repeated
    <3>2. QED BY <2>3, <3>1 DEF SessionState
  <2>6. Answers(sess'[p]) = Answers(s)
    BY <2>5 DEF Answers
  <2>7. Statements' \subseteq Statements \cup {}
    BY <2>2, <2>3, <2>5, <2>6, InStatements, StatementsFrame
  <2>8. IdsUnique'
    BY <1>0, <2>2, <2>7, QuietStep
  <2>9. SeenOnce(p, s)
    BY <1>0
  <2>10. SeenOnce(p, sess'[p])
    <3> HIDE DEF s, repeated
    <3>1. QED BY <2>1, <2>4, <2>5, <2>9 DEF SeenOnce
  <2>11. QED BY <2>3, <2>8, <2>10, SurfacingFrame
<1>5. ASSUME NEW p \in Peer, DeliverRequest(p) PROVE SurfacingInv'
  <2> DEFINE t == store[Other(p)]["request"]
             s == Marked(p, t)
             taken == [s EXCEPT !.incoming = t.id, !.responded = FALSE]
             r == [id |-> t.id, data |-> t.data]
  <2>1. t \in Statement /\ s \in SessionState /\ RouteRequest(p, s, t) /\ sess[p].live
    BY <1>5, IsNewType DEF DeliverRequest, IsNew
  <2>2. UNCHANGED <<inflight, store, requests>>
    BY <1>5 DEF DeliverRequest
  <2>3. t # None /\ t \notin sess[p].seen /\ t.from = Other(p) /\ t.kind = "request"
    BY <1>5, IsNewTruthful DEF DeliverRequest, IsNew
  <2>4. /\ s.twice = sess[p].twice /\ s.handed = sess[p].handed /\ s.phase = sess[p].phase
        /\ s.buffered = sess[p].buffered /\ s.seen = sess[p].seen \cup {t}
        /\ s.own = sess[p].own /\ s.peer = sess[p].peer
    BY <1>0 DEF Marked, SessionState
  <2>5. /\ taken.twice = s.twice /\ taken.handed = s.handed /\ taken.phase = s.phase
        /\ taken.buffered = s.buffered /\ taken.seen = s.seen
        /\ taken.own = s.own /\ taken.peer = s.peer
    BY <2>1 DEF SessionState
  <2>6. taken \in SessionState /\ r \in Incoming /\ r.id = t.id
    BY <2>1 DEF SessionState, Statement, Incoming
  <2>7. /\ \A q \in Peer : q # p => sess'[q] = sess[q]
        /\ sess'[p] = s \/ sess'[p] = Surfaced(taken, r)
    BY <2>1 DEF RouteRequest, TypeOK
  <2>8. t \in Statements
    BY OtherPeer, InStatements
  <2>9. sess[p].phase = "active"
    BY <1>0, <2>1 DEF SeenOnce
  <2> HIDE DEF s, taken, r, t
  <2>10. /\ Surfaced(taken, r).seen = taken.seen /\ Surfaced(taken, r).phase = taken.phase
         /\ Surfaced(taken, r).own = taken.own /\ Surfaced(taken, r).peer = taken.peer
         /\ Surfaced(taken, r).buffered = Append(taken.buffered, r)
         /\ Surfaced(taken, r).twice \in {taken.twice, taken.twice \cup ({r.id} \cap taken.handed)}
         /\ Surfaced(taken, r).handed \in {taken.handed, taken.handed \cup {r.id}}
    BY <2>6, SurfacedFields
  <2>11. sess'[p].seen \cup Answers(sess'[p]) \subseteq Statements
    BY <2>4, <2>5, <2>7, <2>8, <2>10, InStatements DEF Answers
  <2>12. Statements' \subseteq Statements \cup {}
    BY <2>2, <2>7, <2>11, StatementsFrame
  <2>13. IdsUnique'
    BY <1>0, <2>2, <2>12, QuietStep
  <2>14. SeenOnce(p, s)
    BY <1>0, <2>4, <2>9, SeenOnceFrom
  <2>15. \A i \in DOMAIN sess[p].buffered : sess[p].buffered[i].id # t.id
    <3>1. ASSUME NEW i \in DOMAIN sess[p].buffered, sess[p].buffered[i].id = t.id PROVE FALSE
      <4>1. PICK u \in sess[p].seen : u.kind = "request" /\ u.from = Other(p) /\ u.id = t.id
        BY <1>0, <3>1 DEF SeenOnce
      <4>2. u \in Statement
        BY <1>0 DEF SessionState
      <4>3. u \in Requests /\ t \in Requests
        BY <2>3, <2>8, <4>1, <4>2, InStatements, NoneIsApart DEF Requests
      <4>4. QED BY <1>0, <2>3, <4>1, <4>3 DEF IdsUnique
    <3>2. QED BY <3>1
  <2>16. CASE sess'[p] = s
    BY <2>7, <2>13, <2>14, <2>16, SurfacingFrame
  <2>17. CASE sess'[p] = Surfaced(taken, r)
    <3>1. \E u \in sess'[p].seen : u.kind = "request" /\ u.from = Other(p) /\ u.id = r.id
      BY <2>3, <2>4, <2>5, <2>6, <2>10, <2>17
    <3>2. \A i \in DOMAIN s.buffered : s.buffered[i].id # r.id
      BY <2>4, <2>6, <2>15
    <3>3. SeenOnce(p, sess'[p])
      BY <2>1, <2>4, <2>5, <2>6, <2>9, <2>10, <2>14, <2>17, <3>1, <3>2, SurfacedSeenOnce
    <3>4. QED BY <2>7, <2>13, <3>3, SurfacingFrame
  <2>18. QED BY <2>7, <2>16, <2>17
<1>6. ASSUME NEW p \in Peer, FinishInit(p) PROVE SurfacingInv'
  <2> DEFINE s == sess[p]
             theirs == Decoded(p, s.peer, "request")
             t == CHOOSE u \in theirs : TRUE
             r == [id |-> t.id, data |-> t.data]
  <2>1. PICK started \in SessionState :
          StartedFrom(p, s, started) /\ ProcessMessageQueue(p, started)
    BY <1>6, InitFinishes
  <2>2. store' = store /\ s.phase = "initialization" /\ s.own # None /\ s.peer # None
    BY <1>6 DEF FinishInit
  <2>3. s.buffered = << >> /\ s.twice = {} /\ s.handed = {} /\ ~s.subscribed
    <3>1. s.buffered = << >> /\ s.twice = {} /\ ~s.subscribed
      BY <1>0, <2>2 DEF SeenOnce
    <3>2. s.handed \subseteq {s.buffered[i].id : i \in DOMAIN s.buffered}
      BY <1>0 DEF SeenOnce
    <3>3. DOMAIN s.buffered = {}
      BY <3>1
    <3> HIDE DEF s
    <3>4. QED BY <3>1, <3>2, <3>3
  <2>4. /\ started.phase = "active" /\ started.own = None /\ started.peer = None
        /\ started.seen = s.seen \cup {u \in s.own \cup s.peer : u.from # p}
        /\ started.twice = {} /\ started.handed = {}
        /\ \/ started.buffered = << >>
           \/ theirs # {} /\ started.buffered = <<r>>
    <3> HIDE DEF s, theirs, t, r
    <3>1. /\ started.phase = "active" /\ started.own = None /\ started.peer = None
          /\ started.seen = s.seen \cup {u \in s.own \cup s.peer : u.from # p}
      BY <2>1 DEF StartedFrom
    <3>2. /\ started.twice = s.twice /\ started.handed = s.handed
          /\ \/ started.buffered = s.buffered
             \/ theirs # {} /\ started.buffered = Append(s.buffered, r)
      BY <2>1, <2>3 DEF StartedFrom, theirs, t, r
    <3>3. Append(<< >>, r) = <<r>>
      OBVIOUS
    <3>4. QED BY <2>3, <3>1, <3>2, <3>3
  <2>5. started.seen \cup Answers(started) \subseteq Statements
    <3>1. s.own \cup s.peer \subseteq Answers(s)
      BY <2>2 DEF Answers
    <3>2. QED BY <2>4, <3>1, InStatements DEF Answers
  <2>6. SeenOnce(p, started)
    <3>1. CASE started.buffered = << >>
      BY <2>4, <3>1 DEF SeenOnce
    <3>2. CASE theirs # {} /\ started.buffered = <<r>>
      <4>1. t \in s.peer /\ t.kind = "request"
        BY <3>2 DEF Decoded
      <4>2. t.from = Other(p) /\ Other(p) # p
        BY <2>2, <4>1, OtherPeer DEF DeliveryInv, SessionTruthful, TopicTruthful
      <4>3. t \in started.seen
        BY <2>4, <4>1, <4>2
      <4>4. DOMAIN started.buffered = {1} /\ started.buffered[1].id = t.id
        BY <3>2
      <4> HIDE DEF t, r, theirs, s
      <4>5. QED BY <2>4, <4>1, <4>2, <4>3, <4>4 DEF SeenOnce
    <3>3. QED BY <2>4, <3>1, <3>2
  <2>7. QED BY <1>0, <2>1, <2>2, <2>4, <2>5, <2>6, QueueSurfaces, SurfacingFrame
<1>7. ASSUME NEW p \in Peer, NEW m \in Payload, Submit(p, m) PROVE SurfacingInv'
  <2> DEFINE s == [sess[p] EXCEPT !.live = TRUE, !.pending = @ \cup {m}]
             ms == <<m>>
  <2>1. store' = store /\ sess[p].phase = "active"
    BY <1>7 DEF Submit, InUse
  <2>2. s \in SessionState
    BY <1>0, UpdatedSessionType
  <2>3. /\ s.twice = sess[p].twice /\ s.handed = sess[p].handed /\ s.phase = sess[p].phase
        /\ s.buffered = sess[p].buffered /\ s.seen = sess[p].seen
        /\ s.own = sess[p].own /\ s.peer = sess[p].peer
    BY <1>0 DEF SessionState
  <2>4. \/ /\ sess' = [sess EXCEPT ![p] = Posted(p, s, ms)]
           /\ inflight' = inflight \cup RequestStatements(p, s, ms)
           /\ requests' = [requests EXCEPT ![p] = @ \o Batches(s, ms)]
        \/ /\ sess' = [sess EXCEPT ![p] = [s EXCEPT !.queue = Append(@, m)]]
           /\ UNCHANGED <<inflight, requests>>
    BY <1>7 DEF Submit
  <2>5. ms \in Seq(Payload)
    OBVIOUS
  <2> HIDE DEF s, ms
  <2>6. SeenOnce(p, s) /\ s.seen \cup Answers(s) \subseteq Statements
    BY <1>0, <2>1, <2>3, SeenOnceFrom, InStatements DEF Answers
  <2>7. CASE /\ sess' = [sess EXCEPT ![p] = Posted(p, s, ms)]
             /\ inflight' = inflight \cup RequestStatements(p, s, ms)
             /\ requests' = [requests EXCEPT ![p] = @ \o Batches(s, ms)]
    <3> DEFINE New == RequestStatements(p, s, ms)
    <3>1. sess'[p] = Posted(p, s, ms) /\ \A q \in Peer : q # p => sess'[q] = sess[q]
      BY <2>7 DEF TypeOK
    <3>2. SameBesidesBatch(s, sess'[p])
      BY <2>2, <2>5, <3>1, PostedFields
    <3>3. NewRequests(p, New) /\ \A q : DOMAIN requests[q] \subseteq DOMAIN requests'[q]
      BY <2>2, <2>5, <2>7, PostedIds
    <3>4. sess'[p].seen \cup Answers(sess'[p]) \subseteq Statements
      BY <2>6, <3>2 DEF SameBesidesBatch, Answers
    <3>5. inflight' \subseteq inflight \cup New
      BY <2>7
    <3> HIDE DEF New
    <3>6. Statements' \subseteq Statements \cup New
      BY <2>1, <3>1, <3>4, <3>5, StatementsFrame
    <3>7. Requests' \subseteq Requests \cup New
      BY <3>6 DEF Requests
    <3>8. IdsUnique'
      BY <1>0, <3>3, <3>7, IdsStayUnique
    <3>9. SeenOnce(p, sess'[p])
      BY <2>1, <2>3, <2>6, <3>2, SeenOnceFrom DEF SameBesidesBatch
    <3>10. QED BY <3>1, <3>8, <3>9, SurfacingFrame
  <2>8. CASE /\ sess' = [sess EXCEPT ![p] = [s EXCEPT !.queue = Append(@, m)]]
             /\ UNCHANGED <<inflight, requests>>
    <3>1. /\ sess'[p] = [s EXCEPT !.queue = Append(@, m)]
          /\ \A q \in Peer : q # p => sess'[q] = sess[q]
      BY <2>8 DEF TypeOK
    <3>2. /\ sess'[p].twice = s.twice /\ sess'[p].handed = s.handed /\ sess'[p].phase = s.phase
          /\ sess'[p].buffered = s.buffered /\ sess'[p].seen = s.seen
          /\ sess'[p].own = s.own /\ sess'[p].peer = s.peer
      BY <2>2, <3>1 DEF SessionState
    <3>3. sess'[p].seen \cup Answers(sess'[p]) \subseteq Statements
      BY <2>6, <3>2 DEF Answers
    <3>4. Statements' \subseteq Statements \cup {}
      BY <2>1, <2>8, <3>1, <3>3, StatementsFrame
    <3>5. IdsUnique'
      BY <1>0, <2>8, <3>4, QuietStep
    <3>6. SeenOnce(p, sess'[p])
      BY <2>1, <2>3, <2>6, <3>2, SeenOnceFrom
    <3>7. QED BY <3>1, <3>5, <3>6, SurfacingFrame
  <2>9. QED BY <2>4, <2>7, <2>8
<1>8. ASSUME NEW p \in Peer, DeliverResponse(p) PROVE SurfacingInv'
  <2> DEFINE t == store[Other(p)]["response"]
             s == Marked(p, t)
             settled == [s EXCEPT !.pending = @ \ s.outgoing.tokens, !.outgoing = None]
  <2>1. /\ t \in Statement /\ s \in SessionState /\ RouteResponse(p, s, t) /\ store' = store
        /\ sess[p].live
    BY <1>8, IsNewType DEF DeliverResponse, IsNew
  <2>2. /\ s.twice = sess[p].twice /\ s.handed = sess[p].handed /\ s.phase = sess[p].phase
        /\ s.buffered = sess[p].buffered /\ s.seen = sess[p].seen \cup {t}
        /\ s.own = sess[p].own /\ s.peer = sess[p].peer
    BY <1>0 DEF Marked, SessionState
  <2>3. t \in Statements /\ sess[p].phase = "active"
    BY <1>0, <2>1, OtherPeer, InStatements DEF SeenOnce
  <2> HIDE DEF s, t
  <2>4. SeenOnce(p, s) /\ s.seen \cup Answers(s) \subseteq Statements
    BY <1>0, <2>2, <2>3, SeenOnceFrom, InStatements DEF Answers
  <2>5. CASE AckMatches(s, t)
    <3>1. settled \in SessionState
      BY <2>1 DEF SessionState
    <3>2. /\ settled.twice = s.twice /\ settled.handed = s.handed /\ settled.phase = s.phase
          /\ settled.buffered = s.buffered /\ settled.seen = s.seen
          /\ settled.own = s.own /\ settled.peer = s.peer
      BY <2>1 DEF SessionState
    <3>3. ProcessMessageQueue(p, settled)
      BY <2>1, <2>5 DEF RouteResponse
    <3> HIDE DEF settled
    <3>4. settled.phase = "active" /\ settled.seen \cup Answers(settled) \subseteq Statements
      BY <2>2, <2>3, <2>4, <3>2 DEF Answers
    <3>5. SeenOnce(p, settled)
      BY <2>4, <3>2, <3>4, SeenOnceFrom
    <3>6. QED BY <1>0, <2>1, <3>1, <3>3, <3>4, <3>5, QueueSurfaces, SurfacingFrame
  <2>6. CASE ~AckMatches(s, t)
    <3>1. sess' = [sess EXCEPT ![p] = s] /\ UNCHANGED <<inflight, requests>>
      BY <2>1, <2>6 DEF RouteResponse
    <3>2. sess'[p] = s /\ \A q \in Peer : q # p => sess'[q] = sess[q]
      BY <3>1 DEF TypeOK
    <3>3. Statements' \subseteq Statements \cup {}
      BY <2>1, <2>4, <3>1, <3>2, StatementsFrame
    <3>4. IdsUnique'
      BY <1>0, <3>1, <3>3, QuietStep
    <3>5. QED BY <2>4, <3>2, <3>4, SurfacingFrame
  <2>7. QED BY <2>5, <2>6
<1>9. ASSUME NEW t \in inflight, Accept(t) \/ Refuse(t) \/ SubmitFails(t) PROVE SurfacingInv'
  <2>1. inflight' \subseteq inflight /\ sess' = sess /\ requests' = requests
    BY <1>9 DEF Accept, Refuse, SubmitFails
  <2>2. t.from \in Peer /\ t.kind \in {"request", "response"} /\ t \in Statements
    BY InStatements DEF TypeOK, Statement
  <2>3. store' = store \/ store' = [store EXCEPT ![t.from][t.kind] = t]
    BY <1>9 DEF Accept, Refuse, SubmitFails
  <2>4. ASSUME NEW p \in Peer
        PROVE  store'[p].request \in Statements /\ store'[p].response \in Statements
    BY <2>2, <2>3, InStatements DEF TypeOK
  <2>5. Statements' \subseteq Statements \cup {}
    <3>1. Statements' = inflight' \cup {store'[q].request : q \in Peer} \cup {store'[q].response : q \in Peer}
                        \cup UNION {sess[q].seen \cup Answers(sess[q]) : q \in Peer}
      BY <2>1 DEF Statements, Answers
    <3>2. UNION {sess[q].seen \cup Answers(sess[q]) : q \in Peer} \subseteq Statements
      BY DEF Statements
    <3>3. inflight' \subseteq Statements
      BY <2>1 DEF Statements
    <3>4. QED BY <2>4, <3>1, <3>2, <3>3
  <2>6. IdsUnique'
    BY <1>0, <2>1, <2>5, QuietStep
  <2>7. QED BY <1>0, <2>1, <2>6 DEF SurfacingInv, IdsUnique, SeenOnce
<1>10. ASSUME Tick \/ UNCHANGED vars PROVE SurfacingInv'
  <2>1. UNCHANGED <<sess, inflight, store, requests>>
    BY <1>10 DEF Tick, vars, history
  <2>2. Statements' = Statements
    BY <2>1 DEF Statements, Answers
  <2>3. QED BY <2>1, <2>2 DEF SurfacingInv, Requests, SeenOnce
<1>11. QED
  BY <1>1, <1>2, <1>3, <1>4, <1>5, <1>6, <1>7, <1>8, <1>9, <1>10 DEF Next

(* A subscriber is handed each request once, when sessions are not used before
   they are initialized: neither init's recovery nor the replay of the buffer
   (subscribe, deliverStatementData) repeats what the live subscription
   delivered, whatever is restarted. *)
THEOREM RequestsSurfacedOnce ==
  ASSUME EarlyUse = FALSE
  PROVE  Spec => []SurfacedOnce
<1>1. Init => SurfacingInv
  <2> SUFFICES ASSUME Init PROVE SurfacingInv
    OBVIOUS
  <2>1. \A p \in Peer : SeenOnce(p, sess[p])
    BY DEF Init, NoSession, SeenOnce
  <2>2. Statements \subseteq {None}
    BY DEF Init, NoSession, Statements, Answers
  <2>3. QED BY <2>1, <2>2 DEF SurfacingInv, Requests
<1>2. TypeOK /\ TypeOK' /\ DeliveryInv /\ SurfacingInv /\ [Next]_vars => SurfacingInv'
  BY SurfacingStep
<1>3. SurfacingInv => SurfacedOnce
  BY DEF SurfacingInv, SeenOnce, SurfacedOnce
<1>4. QED BY <1>1, <1>2, <1>3, TypeCorrect, DeliveryInvariant, PTL DEF Spec

-----------------------------------------------------------------------------
(* What init makes of the two topics. *)

(* What the steps that submit, or settle, a batch leave alone. *)
LEMMA BatchStepFields ==
  ASSUME TypeOK, NEW q \in Peer, (\E m \in Payload : Submit(q, m)) \/ DeliverResponse(q)
  PROVE  \A p \in Peer : /\ sess'[p].phase = sess[p].phase
                         /\ sess'[p].own = sess[p].own /\ sess'[p].peer = sess[p].peer
                         /\ sess'[p].unseen = sess[p].unseen
<1> DEFINE Same(s, t) == t.phase = s.phase /\ t.own = s.own /\ t.peer = s.peer /\ t.unseen = s.unseen
<1>0. sess[q] \in SessionState
  BY DEF TypeOK
<1>1. ASSUME NEW m \in Payload, Submit(q, m)
      PROVE  /\ \A p \in Peer : p # q => sess'[p] = sess[p]
             /\ Same(sess[q], sess'[q])
  <2> DEFINE s == [sess[q] EXCEPT !.live = TRUE, !.pending = @ \cup {m}]
             ms == <<m>>
  <2>1. s \in SessionState /\ Same(sess[q], s)
    BY <1>0, UpdatedSessionType DEF SessionState
  <2>2. \/ sess' = [sess EXCEPT ![q] = Posted(q, s, ms)]
        \/ sess' = [sess EXCEPT ![q] = [s EXCEPT !.queue = Append(@, m)]]
    BY <1>1 DEF Submit
  <2>3. ms \in Seq(Payload)
    OBVIOUS
  <2> HIDE DEF s, ms
  <2>4. Same(s, Posted(q, s, ms))
    BY <2>1, <2>3, PostedFields DEF SameBesidesBatch
  <2>5. Same(s, [s EXCEPT !.queue = Append(@, m)])
    BY <2>1 DEF SessionState
  <2>6. QED BY <2>1, <2>2, <2>4, <2>5 DEF TypeOK
<1>2. ASSUME DeliverResponse(q)
      PROVE  /\ \A p \in Peer : p # q => sess'[p] = sess[p]
             /\ Same(sess[q], sess'[q])
  <2> DEFINE t == store[Other(q)]["response"]
             s == Marked(q, t)
             settled == [s EXCEPT !.pending = @ \ s.outgoing.tokens, !.outgoing = None]
  <2>1. s \in SessionState /\ RouteResponse(q, s, t)
    BY <1>2, IsNewType DEF DeliverResponse
  <2>2. Same(sess[q], s)
    BY <1>0 DEF Marked, SessionState
  <2>3. settled \in SessionState /\ Same(s, settled)
    BY <2>1 DEF SessionState
  <2>4. sess' = [sess EXCEPT ![q] = s] \/ ProcessMessageQueue(q, settled)
    BY <2>1 DEF RouteResponse
  <2> HIDE DEF s, t, settled
  <2>5. CASE sess' = [sess EXCEPT ![q] = s]
    BY <2>2, <2>5 DEF TypeOK
  <2>6. CASE ProcessMessageQueue(q, settled)
    BY <2>2, <2>3, <2>6, QueueRuns DEF SameBesidesBatch
  <2>7. QED BY <2>4, <2>5, <2>6
<1>3. QED BY <1>1, <1>2

(* Only the end of init activates a session. *)
LEMMA InitializedByFinishInit ==
  ASSUME TypeOK, [Next]_vars, NEW p \in Peer, Initialized(p)
  PROVE  FinishInit(p)
<1> SUFFICES ASSUME ~FinishInit(p) PROVE sess'[p].phase # "active" \/ sess'[p].phase = sess[p].phase
  BY DEF Initialized
<1>0. \A q \in Peer : sess[q] \in SessionState
  BY DEF TypeOK
<1>1. ASSUME NEW q \in Peer, Create(q) \/ Dispose(q) \/ Crash(q)
      PROVE  sess'[p].phase # "active" \/ sess'[p] = sess[p]
  BY <1>1, StartsOver DEF NoSession
<1>2. ASSUME NEW q \in Peer, LightStep(q) PROVE sess'[p].phase = sess[p].phase
  BY <1>2, LightFields
<1>3. ASSUME NEW q \in Peer, FinishInit(q) PROVE sess'[p] = sess[p]
  <2>1. q # p
    BY <1>3
  <2>2. PICK started \in SessionState : ProcessMessageQueue(q, started)
    BY <1>3, InitFinishes
  <2>3. QED BY <2>1, <2>2, QueueRuns
<1>4. ASSUME NEW q \in Peer, NEW m \in Payload, Submit(q, m) PROVE sess'[p].phase = sess[p].phase
  BY <1>4, BatchStepFields
<1>5. ASSUME NEW q \in Peer, DeliverResponse(q) PROVE sess'[p].phase = sess[p].phase
  BY <1>5, BatchStepFields
<1>6. ASSUME NEW t \in inflight, Accept(t) \/ Refuse(t) \/ SubmitFails(t) PROVE sess' = sess
  BY <1>6 DEF Accept, Refuse, SubmitFails
<1>7. Tick \/ UNCHANGED vars => sess' = sess
  BY DEF Tick, vars
<1>8. QED BY <1>1, <1>2, <1>3, <1>4, <1>5, <1>6, <1>7 DEF Next, LightStep

(* A query answers with one request at most, of the topic's owner, and with no
   response of the owner's. *)
Shaped(q, statements) ==
  /\ \A t, u \in statements : t.kind = "request" /\ u.kind = "request" => t = u
  /\ \A t \in statements : t.kind = "request" <=> t.from = q

TopicsInv ==
  \A p \in Peer : /\ sess[p].own # None => Shaped(p, sess[p].own)
                  /\ sess[p].peer # None => Shaped(Other(p), sess[p].peer)

LEMMA TopicIsShaped ==
  ASSUME TypeOK, DeliveryInv, NEW q \in Peer
  PROVE  Shaped(q, OnTopicOf(q))
<1>1. Other(q) \in Peer /\ Other(q) # q
  BY PeersDiffer DEF Other, Peer
<1>2. ASSUME NEW t \in OnTopicOf(q)
      PROVE  \/ t = store[q].request /\ t.kind = "request" /\ t.from = q
             \/ t.kind = "response" /\ t.from = Other(q)
  <2>1. /\ KeptTruthful(requests, received, q, "request", store[q]["request"])
        /\ KeptTruthful(requests, received, Other(q), "response", store[Other(q)]["response"])
    BY <1>1 DEF DeliveryInv
  <2>2. QED BY <2>1 DEF OnTopicOf, KeptTruthful
<1>3. QED BY <1>1, <1>2 DEF Shaped

LEMMA TopicsStep ==
  ASSUME TypeOK, TypeOK', DeliveryInv, TopicsInv, [Next]_vars
  PROVE  TopicsInv'
<1>0. \A q \in Peer : sess[q] \in SessionState /\ Other(q) \in Peer
  BY OtherPeer DEF TypeOK
<1> SUFFICES ASSUME NEW p \in Peer
             PROVE  /\ sess'[p].own # None => Shaped(p, sess'[p].own)
                    /\ sess'[p].peer # None => Shaped(Other(p), sess'[p].peer)
  BY DEF TopicsInv, Shaped
<1> DEFINE GoodOwn == sess'[p].own # None => Shaped(p, sess'[p].own)
           GoodPeer == sess'[p].peer # None => Shaped(Other(p), sess'[p].peer)
<1>1. \A q : Shaped(q, {})
  BY DEF Shaped
<1>2. /\ sess'[p].own = sess[p].own => GoodOwn
      /\ sess'[p].peer = sess[p].peer => GoodPeer
  BY DEF TopicsInv
<1>3. ASSUME NEW q \in Peer, Create(q) \/ Dispose(q) \/ Crash(q) PROVE GoodOwn /\ GoodPeer
  BY <1>2, <1>3, StartsOver DEF NoSession
<1>4. ASSUME NEW q \in Peer, Respond(q) \/ Subscribe(q) \/ Unsubscribe(q) \/ DeliverRequest(q)
      PROVE  sess'[p].own = sess[p].own /\ sess'[p].peer = sess[p].peer
  <2>1. sess'[q].peer = sess[q].peer /\ sess'[q].own = sess[q].own
    BY <1>4, LightTopics
  <2>2. p # q => sess'[p] = sess[p]
    BY <1>4, LightFields DEF LightStep
  <2>3. QED BY <2>1, <2>2
<1>5. ASSUME NEW q \in Peer, QueryPeer(q) PROVE GoodOwn /\ GoodPeer
  <2>1. PICK answer \in {OnTopicOf(Other(q)), {}} : sess' = [sess EXCEPT ![q] = [sess[q] EXCEPT !.peer = answer]]
    BY <1>5 DEF QueryPeer, TypeOK
  <2>2. Shaped(Other(q), answer)
    BY <1>0, <1>1, TopicIsShaped
  <2>3. /\ sess'[p].own = sess[p].own
        /\ sess'[p].peer = sess[p].peer \/ (p = q /\ sess'[p].peer = answer)
    BY <1>0, <2>1 DEF TypeOK, SessionState
  <2>4. QED BY <1>2, <2>2, <2>3
<1>6. ASSUME NEW q \in Peer, QueryOwn(q) PROVE GoodOwn /\ GoodPeer
  <2>1. PICK answer \in {OnTopicOf(q), {}} : sess' = [sess EXCEPT ![q] = [sess[q] EXCEPT !.own = answer]]
    BY <1>6 DEF QueryOwn, TypeOK
  <2>2. Shaped(q, answer)
    BY <1>1, TopicIsShaped
  <2>3. /\ sess'[p].peer = sess[p].peer
        /\ sess'[p].own = sess[p].own \/ (p = q /\ sess'[p].own = answer)
    BY <1>0, <2>1 DEF TypeOK, SessionState
  <2>4. QED BY <1>2, <2>2, <2>3
<1>7. ASSUME NEW q \in Peer, FinishInit(q) PROVE GoodOwn /\ GoodPeer
  <2>1. PICK started \in SessionState : StartedFrom(q, sess[q], started) /\ ProcessMessageQueue(q, started)
    BY <1>7, InitFinishes
  <2>2. started.peer = None /\ started.own = None
    BY <2>1 DEF StartedFrom
  <2>3. \/ sess'[p] = sess[p]
        \/ sess'[p].own = None /\ sess'[p].peer = None
    BY <2>1, <2>2, QueueRuns DEF SameBesidesBatch
  <2>4. QED BY <1>2, <2>3
<1>8. ASSUME NEW q \in Peer, NEW m \in Payload, Submit(q, m)
      PROVE  sess'[p].own = sess[p].own /\ sess'[p].peer = sess[p].peer
  BY <1>8, BatchStepFields
<1>9. ASSUME NEW q \in Peer, DeliverResponse(q)
      PROVE  sess'[p].own = sess[p].own /\ sess'[p].peer = sess[p].peer
  BY <1>9, BatchStepFields
<1>10. ASSUME NEW t \in inflight, Accept(t) \/ Refuse(t) \/ SubmitFails(t) PROVE sess' = sess
  BY <1>10 DEF Accept, Refuse, SubmitFails
<1>11. Tick \/ UNCHANGED vars => sess' = sess
  BY DEF Tick, vars
<1> HIDE DEF GoodOwn, GoodPeer
<1>12. GoodOwn /\ GoodPeer
  BY <1>2, <1>3, <1>4, <1>5, <1>6, <1>7, <1>8, <1>9, <1>10, <1>11 DEF Next
<1>13. QED BY <1>12 DEF GoodOwn, GoodPeer

LEMMA TopicsShaped == Spec => []TopicsInv
<1>1. Init => TopicsInv
  BY DEF Init, NoSession, TopicsInv
<1>2. TypeOK /\ TypeOK' /\ DeliveryInv /\ TopicsInv /\ [Next]_vars => TopicsInv'
  BY TopicsStep
<1>3. QED BY <1>1, <1>2, TypeCorrect, DeliveryInvariant, PTL DEF Spec

(* What the queue adds to the batch that init restored. *)
LEMMA BatchAfterInit ==
  ASSUME TypeOK, NEW p \in Peer, NEW s \in SessionState, ProcessMessageQueue(p, s)
  PROVE  /\ Messages(s) \subseteq Messages(sess'[p])
         /\ Messages(sess'[p]) \subseteq Messages(s) \cup Range(s.queue)
<1>1. PICK k \in 0 .. Len(s.queue), taken, left \in Seq(Payload) : QueueSplit(p, s, k, taken, left)
  BY QueueRuns
<1>2. /\ k \in 0 .. Len(s.queue) /\ Len(taken) = k /\ \A i \in 1 .. k : taken[i] = s.queue[i]
      /\ sess'[p].outgoing = Posted(p, s, taken).outgoing
  BY <1>1 DEF QueueSplit
<1>3. CASE taken = << >>
  BY <1>2, <1>3, PostedFields DEF Messages
<1>4. CASE taken # << >>
  <2>1. sess'[p].outgoing.messages = Messages(s) \cup Upto(taken, Len(taken))
    <3>1. Posted(p, s, taken).outgoing =
            [id |-> Len(requests[p]) + Len(taken),
             messages |-> Messages(s) \cup Upto(taken, Len(taken)),
             tokens |-> Tokens(s) \cup Upto(taken, Len(taken))]
      BY <1>4, PostedFields
    <3>2. QED BY <1>2, <3>1
  <2>2. sess'[p].outgoing # None
    BY <1>2, <1>4, PostedOutgoing, NoneIsApart
  <2>3. Upto(taken, Len(taken)) \subseteq Range(s.queue)
    <3>1. s.queue \in Seq(Payload)
      BY DEF SessionState
    <3>2. QED BY <1>2, <3>1 DEF Upto, Range
  <2>4. QED BY <2>1, <2>2, <2>3 DEF Messages
<1>5. QED BY <1>3, <1>4

LEMMA RestoredBatch ==
  ASSUME TypeOK, PromisesInv, TopicsInv, NEW p \in Peer, FinishInit(p)
  PROVE  /\ \A t \in Unacked(sess[p].own) : VerifyOwn => t.data \subseteq Messages(sess'[p])
         /\ Messages(sess'[p]) \subseteq
              Range(sess[p].queue) \cup UNION {t.data : t \in Unacked(sess[p].own)}
<1> DEFINE s == sess[p]
<1>1. PICK started \in SessionState : StartedFrom(p, s, started) /\ ProcessMessageQueue(p, started)
  BY InitFinishes
<1>2. s \in SessionState /\ s.own # None /\ s.own \subseteq Statement /\ Shaped(p, s.own)
  BY DEF TypeOK, FinishInit, TopicsInv, SessionState
<1>3. s.outgoing = None
  BY DEF PromisesInv, Accounted, FinishInit
<1>4. Restorable(p, s.own) \subseteq Unacked(s.own)
  BY <1>2 DEF Restorable, Unacked, Decoded, Acked, AckedOn, Shaped
<1>5. ASSUME NEW t \in Unacked(s.own), VerifyOwn
      PROVE  t \in Restorable(p, s.own) /\ \A u \in Restorable(p, s.own) : u = t
  <2>1. t \in Restorable(p, s.own)
    BY <1>5 DEF Restorable, Unacked, Decoded, Acked, AckedOn
  <2>2. QED BY <1>2, <2>1 DEF Restorable, Decoded, Shaped
<1>6. \/ Restorable(p, s.own) = {} /\ Messages(started) = {}
      \/ \E u \in Restorable(p, s.own) : Messages(started) = u.data
  <2>1. CASE Restorable(p, s.own) = {}
    BY <1>1, <1>3, <2>1 DEF StartedFrom, Messages
  <2>2. CASE Restorable(p, s.own) # {}
    <3>1. PICK u \in Restorable(p, s.own) :
            started.outgoing = [id |-> u.id, messages |-> u.data, tokens |-> {}]
      BY <1>1, <2>2 DEF StartedFrom
    <3>2. u \in Statement
      BY <1>2 DEF Restorable, Decoded
    <3>3. started.outgoing \in OutgoingRequest
      BY <3>1, <3>2 DEF OutgoingRequest, Statement
    <3>4. Messages(started) = u.data
      BY <3>1, <3>3, NoneIsApart DEF Messages
    <3>5. QED BY <3>4
  <2>3. QED BY <2>1, <2>2
<1>7. /\ Messages(started) \subseteq Messages(sess'[p])
      /\ Messages(sess'[p]) \subseteq Messages(started) \cup Range(s.queue)
  <2>1. started.queue = s.queue
    BY <1>1 DEF StartedFrom
  <2>2. QED BY <1>1, <2>1, BatchAfterInit
<1>8. QED BY <1>4, <1>5, <1>6, <1>7

(* Whatever the prover accepts, init goes on with what it was asked to send and
   with the own request that the topic shows no ACK for: with all of it if the
   prover accepts the local signer, and with nothing else (session.ts:394-414). *)
THEOREM OnlyUnackedRestored == Spec => BatchRestored
<1>1. ASSUME TypeOK, PromisesInv, TopicsInv, [Next]_vars
      PROVE  [\A p \in Peer : Initialized(p) =>
                /\ \A t \in Unacked(sess[p].own) :
                     VerifyOwn => t.data \subseteq Messages(sess'[p])
                /\ Messages(sess'[p]) \subseteq
                     Range(sess[p].queue) \cup UNION {t.data : t \in Unacked(sess[p].own)}]_vars
  BY <1>1, InitializedByFinishInit, RestoredBatch
<1>2. QED BY <1>1, TypeCorrect, PromisesInvariant, TopicsShaped, PTL DEF Spec, BatchRestored

LEMMA SurfacedByInit ==
  ASSUME TypeOK, TopicsInv, NEW p \in Peer, FinishInit(p), NEW t \in sess[p].peer, t.kind = "request"
  PROVE  LET surfaced == \E i \in DOMAIN sess'[p].buffered :
                           i > Len(sess[p].buffered) /\ sess'[p].buffered[i].id = t.id
         IN /\ ~AckedOn(sess[p].peer, t) => surfaced
            /\ AckedOn(sess[p].peer, t) /\ VerifyOwn => ~surfaced
<1> DEFINE s == sess[p]
           theirs == Decoded(p, s.peer, "request")
           u == CHOOSE v \in theirs : TRUE
           answered == Acked(u, Decoded(p, s.peer, "response"))
<1>1. PICK started \in SessionState : StartedFrom(p, s, started) /\ ProcessMessageQueue(p, started)
  BY InitFinishes
<1>2. s.peer # None /\ Shaped(Other(p), s.peer) /\ Other(p) # p
  BY PeersDiffer DEF FinishInit, TopicsInv, Other, Peer
<1>3. t \in theirs
  BY <1>2 DEF Decoded, Shaped
<1>4. u = t
  <2>1. u \in theirs
    BY <1>3
  <2>2. QED BY <1>2, <2>1 DEF Decoded, Shaped
<1>5. sess'[p].buffered = started.buffered
  BY <1>1, QueueRuns DEF SameBesidesBatch
<1>6. s.buffered \in Seq(Incoming) /\ Len(s.buffered) \in Nat
  BY DEF TypeOK, SessionState
<1>7. ASSUME ~AckedOn(s.peer, t)
      PROVE  \E i \in DOMAIN sess'[p].buffered :
               i > Len(s.buffered) /\ sess'[p].buffered[i].id = t.id
  <2> DEFINE r == [id |-> u.id, data |-> u.data]
  <2>1. ~answered /\ theirs # {}
    BY <1>3, <1>4, <1>7 DEF Acked, Decoded, AckedOn
  <2>2. started.buffered = Append(s.buffered, r)
    BY <1>1, <2>1 DEF StartedFrom
  <2>3. /\ Len(s.buffered) + 1 \in DOMAIN sess'[p].buffered
        /\ sess'[p].buffered[Len(s.buffered) + 1] = r
    BY <1>5, <1>6, <2>2
  <2>4. r.id = t.id
    BY <1>4
  <2>5. QED BY <1>6, <2>3, <2>4
<1>8. ASSUME AckedOn(s.peer, t), VerifyOwn
      PROVE  sess'[p].buffered = s.buffered
  <2>1. answered
    BY <1>4, <1>8 DEF Acked, Decoded, AckedOn
  <2>2. QED BY <1>1, <1>5, <2>1 DEF StartedFrom
<1>9. QED BY <1>6, <1>7, <1>8

(* Whatever the prover accepts, init surfaces every request of the peer that is
   not responded to; if the prover accepts the local signer's response, no
   other (session.ts:416-427). *)
THEOREM UnrespondedRequestSurfaced == Spec => UnrespondedSurfaced
<1>1. ASSUME TypeOK, TopicsInv, [Next]_vars
      PROVE  [\A p \in Peer : Initialized(p) =>
                \A t \in sess[p].peer : t.kind = "request" =>
                  LET surfaced == \E i \in DOMAIN sess'[p].buffered :
                                    i > Len(sess[p].buffered) /\ sess'[p].buffered[i].id = t.id
                  IN /\ ~AckedOn(sess[p].peer, t) => surfaced
                     /\ AckedOn(sess[p].peer, t) /\ VerifyOwn => ~surfaced]_vars
  BY <1>1, InitializedByFinishInit, SurfacedByInit
<1>2. QED BY <1>1, TypeCorrect, TopicsShaped, PTL DEF Spec, UnrespondedSurfaced

-----------------------------------------------------------------------------
(* Expiries. *)

LEMMA NextExpiryGrows ==
  ASSUME clock \in Nat, NEW last \in Nat
  PROVE  NextExpiry(last) \in Nat /\ NextExpiry(last) > last
BY BoundsAreNat DEF NextExpiry, Fresh

(* New statements of p are later than its expiry was, and not than it is. *)
Later(p, before, after) ==
  /\ after >= before
  /\ \A t \in inflight' \ inflight : t.from = p /\ before < t.expiry /\ t.expiry <= after

LEMMA PostedLater ==
  ASSUME TypeOK, NEW p \in Peer, NEW s \in SessionState, NEW ms \in Seq(Payload),
         inflight' \subseteq inflight \cup RequestStatements(p, s, ms)
  PROVE  Later(p, s.expiry, Posted(p, s, ms).expiry)
<1>1. /\ s.expiry \in Nat /\ Len(ms) \in Nat
      /\ NextExpiry(s.expiry) \in Nat /\ NextExpiry(s.expiry) > s.expiry
  BY NextExpiryGrows DEF SessionState, Expiry, TypeOK
<1>2. ASSUME NEW t \in RequestStatements(p, s, ms)
      PROVE  /\ t.from = p /\ ms # << >>
             /\ NextExpiry(s.expiry) <= t.expiry
             /\ t.expiry <= NextExpiry(s.expiry) + Len(ms) - 1
  <2>1. PICK i \in 1 .. Len(ms) : t.from = p /\ t.expiry = NextExpiry(s.expiry) + i - 1
    BY DEF RequestStatements
  <2>2. i >= 1 /\ i <= Len(ms) /\ i \in Nat
    BY <1>1
  <2>3. QED BY <1>1, <2>1, <2>2
<1>3. CASE ms = << >>
  <2>1. Posted(p, s, ms).expiry = s.expiry
    BY <1>3, PostedFields
  <2>2. QED BY <1>1, <1>2, <1>3, <2>1 DEF Later
<1>4. CASE ms # << >>
  <2>0. Posted(p, s, ms).expiry = NextExpiry(s.expiry) + Len(ms) - 1
    BY <1>4, PostedFields
  <2>1. Posted(p, s, ms).expiry = NextExpiry(s.expiry) + Len(ms) - 1 /\ Len(ms) >= 1
    BY <1>1, <1>4, <2>0, EmptySeq
  <2>2. \A t \in RequestStatements(p, s, ms) : t.expiry \in Nat
    BY PostedType DEF Statement, Expiry
  <2>3. QED BY <1>1, <1>2, <2>1, <2>2 DEF Later
<1>5. QED BY <1>3, <1>4

LEMMA QueueLater ==
  ASSUME TypeOK, NEW p \in Peer, NEW s \in SessionState, ProcessMessageQueue(p, s)
  PROVE  /\ Later(p, s.expiry, sess'[p].expiry)
         /\ sess'[p].phase = s.phase
         /\ \A q \in Peer : q # p => sess'[q] = sess[q]
         /\ s.queue = << >> => inflight' = inflight
<1>1. PICK k \in 0 .. Len(s.queue), taken, left \in Seq(Payload) : QueueSplit(p, s, k, taken, left)
  BY QueueRuns
<1>2. SameBesidesBatch(s, sess'[p]) /\ \A q \in Peer : q # p => sess'[q] = sess[q]
  BY QueueRuns
<1>3. /\ taken \in Seq(Payload) /\ Len(taken) = k
      /\ inflight' = inflight \cup RequestStatements(p, s, taken)
      /\ sess'[p].expiry = Posted(p, s, taken).expiry
  BY <1>1 DEF QueueSplit
<1>4. Later(p, s.expiry, sess'[p].expiry)
  BY <1>3, PostedLater
<1>5. ASSUME s.queue = << >> PROVE inflight' = inflight
  <2>1. k = 0
    BY <1>5
  <2>2. RequestStatements(p, s, taken) = {}
    BY <1>3, <2>1 DEF RequestStatements
  <2>3. QED BY <1>3, <2>2
<1>6. QED BY <1>2, <1>4, <1>5 DEF SameBesidesBatch

LEMMA LightExpiry ==
  ASSUME TypeOK, NEW p \in Peer, Subscribe(p) \/ Unsubscribe(p) \/ DeliverRequest(p)
  PROVE  sess'[p].expiry = sess[p].expiry
<1>0. sess[p] \in SessionState
  BY DEF TypeOK
<1>1. CASE Subscribe(p)
  BY <1>0, <1>1 DEF TypeOK, SessionState, Subscribe
<1>2. CASE Unsubscribe(p)
  BY <1>0, <1>2 DEF TypeOK, SessionState, Unsubscribe
<1>3. CASE DeliverRequest(p)
  <2> DEFINE t == store[Other(p)].request
             s == Marked(p, t)
             taken == [s EXCEPT !.incoming = t.id, !.responded = FALSE]
             r == [id |-> t.id, data |-> t.data]
  <2>1. s \in SessionState /\ t \in Statement
    BY <1>3, IsNewType DEF DeliverRequest
  <2>2. taken \in SessionState
    BY <2>1 DEF SessionState, Statement
  <2>3. s.expiry = sess[p].expiry /\ taken.expiry = s.expiry
    BY <1>0, <2>1 DEF Marked, SessionState
  <2>4. sess'[p] \in {s, Surfaced(taken, r)}
    BY <1>3 DEF DeliverRequest, RouteRequest, TypeOK
  <2> HIDE DEF s, taken, r
  <2>5. Surfaced(taken, r).expiry = taken.expiry
    BY <2>2, SurfacedFields DEF SameBatch
  <2>6. QED BY <2>3, <2>4, <2>5
<1>4. QED BY <1>1, <1>2, <1>3

(* An active session q that is not the one that moves. *)
LEMMA AheadOther ==
  ASSUME ExpiryInv, NEW p \in Peer, NEW q \in Peer, q # p, sess'[q] = sess[q],
         store' = store, \A t \in inflight' \ inflight : t.from = p
  PROVE  Ahead(q)'
<1>1. \A t \in inflight' : t.from = q => t \in inflight
  OBVIOUS
<1>2. QED BY <1>1 DEF ExpiryInv, Ahead

(* A session that is active, or becomes so, moves on from an expiry that was
   ahead of the statements of its peer. *)
LEMMA AheadFrame ==
  ASSUME TypeOK, TypeOK', ExpiryInv, NEW p \in Peer, \A q \in Peer : q # p => sess'[q] = sess[q],
         store' = store, NEW before \in Nat, Later(p, before, sess'[p].expiry),
         \A t \in inflight : t.from = p => t.expiry <= before \/ t \in sess'[p].unseen,
         \A kind \in {"request", "response"} : store[p][kind] # None =>
           store[p][kind].expiry <= before \/ store[p][kind] \in sess'[p].unseen
  PROVE  /\ ExpiryInv'
         /\ \A t \in inflight' \ inflight : Replaces(t) \/ store[t.from][t.kind] \in sess'[t.from].unseen
<1>1. ASSUME NEW q \in Peer, q # p PROVE Ahead(q)'
  BY <1>1, AheadOther DEF Later
<1>2. sess'[p].expiry \in Nat /\ before <= sess'[p].expiry
  BY DEF TypeOK, SessionState, Expiry, Later
<1>3. /\ \A t \in inflight \cup inflight' : t.expiry \in Nat
      /\ \A kind \in {"request", "response"} : store[p][kind] # None => store[p][kind].expiry \in Nat
  BY DEF TypeOK, Statement, Expiry
<1>4. Ahead(p)'
  <2>1. ASSUME NEW t \in inflight', t.from = p
        PROVE  t.expiry <= sess'[p].expiry \/ t \in sess'[p].unseen
    <3>1. CASE t \in inflight
      BY <1>2, <1>3, <2>1, <3>1
    <3>2. CASE t \notin inflight
      BY <2>1, <3>2 DEF Later
    <3>3. QED BY <3>1, <3>2
  <2>2. ASSUME NEW kind \in {"request", "response"}, store[p][kind] # None
        PROVE  store[p][kind].expiry <= sess'[p].expiry \/ store[p][kind] \in sess'[p].unseen
    BY <1>2, <1>3, <2>2
  <2>3. QED BY <2>1, <2>2 DEF Ahead
<1>5. ASSUME NEW t \in inflight' \ inflight
      PROVE  Replaces(t) \/ store[t.from][t.kind] \in sess'[t.from].unseen
  <2>1. t.from = p /\ before < t.expiry /\ t.kind \in {"request", "response"}
    BY DEF Later, TypeOK, Statement
  <2>2. QED BY <1>3, <2>1 DEF Replaces
<1>6. QED BY <1>1, <1>4, <1>5 DEF ExpiryInv

(* ... in particular when it was active before. *)
LEMMA AheadGoesOn ==
  ASSUME TypeOK, TypeOK', ExpiryInv, NEW p \in Peer, \A q \in Peer : q # p => sess'[q] = sess[q],
         store' = store, sess[p].phase = "active", sess'[p].unseen = sess[p].unseen,
         Later(p, sess[p].expiry, sess'[p].expiry)
  PROVE  /\ ExpiryInv'
         /\ \A t \in inflight' \ inflight : Replaces(t) \/ store[t.from][t.kind] \in sess'[t.from].unseen
<1>1. sess[p].expiry \in Nat
  BY DEF TypeOK, SessionState, Expiry
<1>2. Ahead(p)
  BY DEF ExpiryInv
<1>3. /\ \A t \in inflight : t.from = p => t.expiry <= sess[p].expiry \/ t \in sess'[p].unseen
      /\ \A kind \in {"request", "response"} : store[p][kind] # None =>
           store[p][kind].expiry <= sess[p].expiry \/ store[p][kind] \in sess'[p].unseen
  BY <1>2 DEF Ahead
<1>4. QED BY <1>1, <1>3, AheadFrame

(* ... and a session that is not active has nothing to keep ahead of. *)
LEMMA AheadIdle ==
  ASSUME TypeOK, TypeOK', ExpiryInv, NEW p \in Peer, \A q \in Peer : q # p => sess'[q] = sess[q],
         store' = store, \A t \in inflight' \ inflight : t.from = p, sess'[p].phase # "active"
  PROVE  /\ ExpiryInv'
         /\ \A t \in inflight' \ inflight :
              sess'[t.from].phase = "active" =>
                Replaces(t) \/ store[t.from][t.kind] \in sess'[t.from].unseen
<1>1. ASSUME NEW q \in Peer, q # p PROVE Ahead(q)'
  BY <1>1, AheadOther
<1>2. Ahead(p)'
  BY DEF Ahead
<1>3. QED BY <1>1, <1>2 DEF ExpiryInv

LEMMA StaysAhead ==
  ASSUME TypeOK, TypeOK', DeliveryInv, ExpiryInv, [Next]_vars
  PROVE  /\ ExpiryInv'
         /\ \A t \in inflight' \ inflight :
              sess'[t.from].phase = "active" =>
                Replaces(t) \/ store[t.from][t.kind] \in sess'[t.from].unseen
<1> DEFINE Superseding == \A t \in inflight' \ inflight :
              sess'[t.from].phase = "active" =>
                Replaces(t) \/ store[t.from][t.kind] \in sess'[t.from].unseen
<1>0. \A p \in Peer : sess[p] \in SessionState /\ sess[p].expiry \in Nat /\ Ahead(p)
  BY DEF TypeOK, ExpiryInv, SessionState, Expiry
<1>1. ASSUME NEW p \in Peer, Create(p) \/ Dispose(p) \/ Crash(p) PROVE ExpiryInv' /\ Superseding
  <2>1. /\ \A q \in Peer : q # p => sess'[q] = sess[q]
        /\ sess'[p].phase # "active" /\ inflight' \subseteq inflight /\ store' = store
    BY <1>1, StartsOver DEF NoSession
  <2>2. QED BY <2>1, AheadIdle
<1>2. ASSUME NEW p \in Peer, QueryOwn(p) \/ QueryPeer(p) PROVE ExpiryInv' /\ Superseding
  <2>1. /\ \A q \in Peer : q # p => sess'[q] = sess[q]
        /\ sess'[p].phase # "active" /\ inflight' = inflight /\ store' = store
    BY <1>2, LightFields DEF LightStep, QueryOwn, QueryPeer
  <2>2. QED BY <2>1, AheadIdle
<1>3. ASSUME NEW p \in Peer, FinishInit(p) PROVE ExpiryInv' /\ Superseding
  <2>1. PICK started \in SessionState :
          StartedFrom(p, sess[p], started) /\ ProcessMessageQueue(p, started)
    BY <1>3, InitFinishes
  <2>2. store' = store
    BY <1>3 DEF FinishInit
  <2>3. /\ started.unseen = Unseen(p) /\ started.expiry \in Nat
        /\ \A t \in sess[p].own : t.expiry <= started.expiry
    BY <2>1 DEF StartedFrom, SessionState, Expiry
  <2>4. /\ \A q \in Peer : q # p => sess'[q] = sess[q]
        /\ sess'[p].unseen = Unseen(p)
    BY <2>1, <2>3, QueueRuns DEF SameBesidesBatch
  <2>5. Later(p, started.expiry, sess'[p].expiry)
    BY <2>1, QueueLater
  <2>6. ASSUME NEW t \in inflight, t.from = p
        PROVE  t.expiry <= started.expiry \/ t \in sess'[p].unseen
    BY <2>3, <2>4, <2>6 DEF Unseen
  <2>7. ASSUME NEW kind \in {"request", "response"}, store[p][kind] # None
        PROVE  store[p][kind].expiry <= started.expiry \/ store[p][kind] \in sess'[p].unseen
    <3>1. store[p][kind].from = p
      BY <2>7 DEF DeliveryInv, KeptTruthful
    <3>2. store[p][kind] \in {store[p].request, store[p].response} \ {None}
      BY <2>7
    <3>3. QED BY <2>3, <2>4, <3>1, <3>2 DEF Unseen
  <2>8. QED BY <2>2, <2>3, <2>4, <2>5, <2>6, <2>7, AheadFrame
<1>4. ASSUME NEW p \in Peer, NEW m \in Payload, Submit(p, m) PROVE ExpiryInv' /\ Superseding
  <2> DEFINE s == [sess[p] EXCEPT !.live = TRUE, !.pending = @ \cup {m}]
             ms == <<m>>
  <2>1. store' = store
    BY <1>4 DEF Submit
  <2>2. s \in SessionState /\ s.expiry = sess[p].expiry
    <3>1. s \in SessionState
      BY <1>0, UpdatedSessionType
    <3>2. QED BY <1>0, <3>1 DEF SessionState
  <2>3. ms \in Seq(Payload)
    OBVIOUS
  <2>4. \/ /\ sess' = [sess EXCEPT ![p] = Posted(p, s, ms)]
           /\ inflight' = inflight \cup RequestStatements(p, s, ms)
        \/ /\ sess' = [sess EXCEPT ![p] = [s EXCEPT !.queue = Append(@, m)]]
           /\ inflight' = inflight
    BY <1>4 DEF Submit
  <2> HIDE DEF s, ms
  <2>5. \A q \in Peer : q # p => sess'[q] = sess[q]
    BY <2>4 DEF TypeOK
  <2>6. sess'[p].phase = sess[p].phase /\ sess'[p].unseen = sess[p].unseen
    BY <1>4, BatchStepFields
  <2>7. Later(p, sess[p].expiry, sess'[p].expiry)
    <3>1. CASE /\ sess' = [sess EXCEPT ![p] = Posted(p, s, ms)]
               /\ inflight' = inflight \cup RequestStatements(p, s, ms)
      <4>1. sess'[p] = Posted(p, s, ms)
        BY <3>1 DEF TypeOK
      <4>2. Later(p, s.expiry, Posted(p, s, ms).expiry)
        BY <2>2, <2>3, <3>1, PostedLater
      <4>3. QED BY <2>2, <4>1, <4>2
    <3>2. CASE /\ sess' = [sess EXCEPT ![p] = [s EXCEPT !.queue = Append(@, m)]]
               /\ inflight' = inflight
      <4>1. sess'[p].expiry = s.expiry
        BY <2>2, <3>2 DEF TypeOK, SessionState
      <4>2. QED BY <1>0, <2>2, <3>2, <4>1 DEF Later
    <3>3. QED BY <2>4, <3>1, <3>2
  <2>8. CASE sess[p].phase = "active"
    BY <2>1, <2>5, <2>6, <2>7, <2>8, AheadGoesOn
  <2>9. CASE sess[p].phase # "active"
    BY <2>1, <2>5, <2>6, <2>7, <2>9, AheadIdle DEF Later
  <2>10. QED BY <2>8, <2>9
<1>5. ASSUME NEW p \in Peer, Respond(p) PROVE ExpiryInv' /\ Superseding
  <2> DEFINE t == [from |-> p, kind |-> "response", id |-> sess[p].incoming, data |-> {},
                   expiry |-> NextExpiry(sess[p].expiry)]
  <2>1. /\ \A q \in Peer : q # p => sess'[q] = sess[q]
        /\ store' = store /\ sess'[p].phase = sess[p].phase /\ sess'[p].unseen = sess[p].unseen
    BY <1>5, LightFields DEF LightStep
  <2>2. sess'[p].expiry = NextExpiry(sess[p].expiry)
    BY <1>0, <1>5 DEF Respond, TypeOK, SessionState
  <2>3. inflight' = inflight \cup {t} /\ t.from = p /\ t.expiry = NextExpiry(sess[p].expiry)
    BY <1>5 DEF Respond
  <2>4. NextExpiry(sess[p].expiry) \in Nat /\ NextExpiry(sess[p].expiry) > sess[p].expiry
    BY <1>0, NextExpiryGrows DEF TypeOK
  <2> HIDE DEF t
  <2>5. Later(p, sess[p].expiry, sess'[p].expiry)
    BY <1>0, <2>2, <2>3, <2>4 DEF Later
  <2>6. CASE sess[p].phase = "active"
    BY <2>1, <2>5, <2>6, AheadGoesOn
  <2>7. CASE sess[p].phase # "active"
    BY <2>1, <2>5, <2>7, AheadIdle DEF Later
  <2>8. QED BY <2>6, <2>7
<1>6. ASSUME NEW p \in Peer, Subscribe(p) \/ Unsubscribe(p) \/ DeliverRequest(p)
      PROVE  ExpiryInv' /\ Superseding
  <2>1. /\ \A q \in Peer : q # p => sess'[q] = sess[q]
        /\ UNCHANGED <<store, inflight>>
        /\ sess'[p].phase = sess[p].phase /\ sess'[p].unseen = sess[p].unseen
    BY <1>6, LightFields DEF LightStep, Subscribe, Unsubscribe, DeliverRequest
  <2>2. sess'[p].expiry = sess[p].expiry
    BY <1>6, LightExpiry
  <2>3. Ahead(p)'
    BY <1>0, <2>1, <2>2 DEF Ahead
  <2>4. \A q \in Peer : q # p => Ahead(q)'
    BY <2>1, AheadOther
  <2>5. QED BY <2>1, <2>3, <2>4 DEF ExpiryInv
<1>7. ASSUME NEW p \in Peer, DeliverResponse(p) PROVE ExpiryInv' /\ Superseding
  <2> DEFINE t == store[Other(p)]["response"]
             s == Marked(p, t)
             settled == [s EXCEPT !.pending = @ \ s.outgoing.tokens, !.outgoing = None]
  <2>1. /\ s \in SessionState /\ RouteResponse(p, s, t) /\ store' = store
    BY <1>7, IsNewType DEF DeliverResponse
  <2>2. s.expiry = sess[p].expiry
    BY <1>0 DEF Marked, SessionState
  <2>3. settled \in SessionState /\ settled.expiry = s.expiry
    BY <2>1 DEF SessionState
  <2>4. \/ sess' = [sess EXCEPT ![p] = s] /\ inflight' = inflight
        \/ ProcessMessageQueue(p, settled)
    BY <2>1 DEF RouteResponse
  <2>5. sess'[p].phase = sess[p].phase /\ sess'[p].unseen = sess[p].unseen
    BY <1>7, BatchStepFields
  <2> HIDE DEF s, t, settled
  <2>6. /\ Later(p, sess[p].expiry, sess'[p].expiry)
        /\ \A q \in Peer : q # p => sess'[q] = sess[q]
    <3>1. CASE sess' = [sess EXCEPT ![p] = s] /\ inflight' = inflight
      <4>1. sess'[p] = s /\ \A q \in Peer : q # p => sess'[q] = sess[q]
        BY <3>1 DEF TypeOK
      <4>2. QED BY <1>0, <2>2, <3>1, <4>1 DEF Later
    <3>2. CASE ProcessMessageQueue(p, settled)
      BY <2>2, <2>3, <3>2, QueueLater
    <3>3. QED BY <2>4, <3>1, <3>2
  <2>7. CASE sess[p].phase = "active"
    BY <2>1, <2>5, <2>6, <2>7, AheadGoesOn
  <2>8. CASE sess[p].phase # "active"
    BY <2>1, <2>5, <2>6, <2>8, AheadIdle DEF Later
  <2>9. QED BY <2>7, <2>8
<1>8. ASSUME NEW t \in inflight, Accept(t) \/ Refuse(t) \/ SubmitFails(t)
      PROVE  ExpiryInv' /\ Superseding
  <2>1. inflight' \subseteq inflight /\ sess' = sess
    BY <1>8 DEF Accept, Refuse, SubmitFails
  <2>2. t.from \in Peer /\ t.kind \in {"request", "response"}
    BY DEF TypeOK, Statement
  <2>3. store' = store \/ store' = [store EXCEPT ![t.from][t.kind] = t]
    BY <1>8 DEF Accept, Refuse, SubmitFails
  <2>4. ASSUME NEW p \in Peer PROVE Ahead(p)'
    <3>1. ASSUME NEW kind \in {"request", "response"}
          PROVE  store'[p][kind] = store[p][kind] \/ (p = t.from /\ store'[p][kind] = t)
      BY <2>2, <2>3 DEF TypeOK
    <3>2. Ahead(p)
      BY <1>0
    <3>3. QED BY <2>1, <3>1, <3>2 DEF Ahead
  <2>5. QED BY <2>1, <2>4 DEF ExpiryInv
<1>9. ASSUME Tick \/ UNCHANGED vars PROVE ExpiryInv' /\ Superseding
  <2>1. UNCHANGED <<sess, inflight, store>>
    BY <1>9 DEF Tick, vars, history
  <2>2. QED BY <2>1 DEF ExpiryInv, Ahead
<1>10. QED
  BY <1>1, <1>2, <1>3, <1>4, <1>5, <1>6, <1>7, <1>8, <1>9 DEF Next

(* A new statement of an initialized session beats the one the store keeps on
   its channel, within one second, after a restart and after early use, unless
   init could not know of that one (nextExpiry, and init's seeding of it). *)
THEOREM NewStatementsSupersede == Spec => SubmissionsSupersede
<1>1. Init => ExpiryInv
  BY DEF Init, NoSession, ExpiryInv, Ahead
<1>2. TypeOK /\ TypeOK' /\ DeliveryInv /\ ExpiryInv /\ [Next]_vars => ExpiryInv'
  BY StaysAhead
<1>3. ASSUME TypeOK, TypeOK', DeliveryInv, ExpiryInv, [Next]_vars
      PROVE  [\A t \in inflight' \ inflight :
                LET s == sess'[t.from] IN
                s.phase = "active" => Replaces(t) \/ store[t.from][t.kind] \in s.unseen]_vars
  BY <1>3, StaysAhead
<1>4. QED BY <1>1, <1>2, <1>3, TypeCorrect, DeliveryInvariant, PTL DEF Spec, SubmissionsSupersede
=============================================================================
