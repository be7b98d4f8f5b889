-------------------------- MODULE StatementSession --------------------------
(***************************************************************************)
(* The reliable request/ACK session two paired peers run on top of the     *)
(* statement store: packages/host/src/statementStore/session/session.ts.   *)
(* Both peers run the same code; each owns two channels of the store (its  *)
(* requests and its ACKs), and a newer statement of a channel replaces the *)
(* older one.  The store keeps a statement only when its expiry beats the  *)
(* one it replaces.                                                        *)
(*                                                                         *)
(* Abstractions.  A payload is an element of Payload with a weight (its    *)
(* encoded length); the payloads of one request form a set; a delivery     *)
(* token is the payload it was handed out for; nanoid() is a counter per   *)
(* peer; response codes are not told apart (any of them settles the        *)
(* delivery).  A peer's own echoes change nothing but seenStatements       *)
(* (prover and responsesOnly drop them), so they are not delivered here.   *)
(***************************************************************************)
EXTENDS Integers, Sequences, FiniteSets, FiniteSetsExt, Functions

CONSTANTS
  Host, Wallet,     \* the two peers
  Payload,          \* the application payloads, each submitted at most once
  Owner,            \* the peer that submits a payload
  Weight,           \* encoded length of a payload
  MaxRequestSize,   \* soft limit on the size of a batch
  ExpiryStep,       \* distance of the expiries of two successive seconds (2^32 in the code)
  MaxClock,         \* bound: how many seconds pass
  MaxRestarts,      \* bound: crashes and disposals together
  MaxFailures,      \* bound: store calls that fail
  VerifyOwn,        \* the prover accepts the local signer: FALSE for createSr25519Prover
  EarlyUse,         \* the application uses a session before its init has finished
  None

Peer == {Host, Wallet}
Other(p) == IF p = Host THEN Wallet ELSE Host

ASSUME PeersDiffer == Host # Wallet
ASSUME PayloadsOwned == Owner \in [Payload -> Peer]
ASSUME BoundsAreNat ==
  /\ Weight \in [Payload -> Nat \ {0}]
  /\ {MaxRequestSize, ExpiryStep, MaxClock, MaxRestarts, MaxFailures} \subseteq Nat
ASSUME OptionsAreBoolean == {VerifyOwn, EarlyUse} \subseteq BOOLEAN

RequestId == Nat
Expiry == Nat

(* A StatementData inside a signed statement.  data is {} in a response. *)
Statement == [from : Peer, kind : {"request", "response"}, id : RequestId,
              data : SUBSET Payload, expiry : Expiry]

(* What routeStatementData hands on of a request. *)
Incoming == [id : RequestId, data : SUBSET Payload]

OutgoingRequest == [id : RequestId, messages : SUBSET Payload, tokens : SUBSET Payload]

SessionState ==
  [ phase      : {"down", "initialization", "active", "disposed"},
    expiry     : Expiry,
    outgoing   : OutgoingRequest \cup {None},   \* outgoingRequest
    incoming   : RequestId \cup {None},         \* incomingRequest
    responded  : BOOLEAN,                       \* respondedIncomingRequest
    queue      : Seq(Payload),                  \* messageQueue
    pending    : SUBSET Payload,                \* pendingDelivery
    seen       : SUBSET Statement,              \* seenStatements
    live       : BOOLEAN,                       \* incomingStoreUnsub is set
    buffered   : Seq(Incoming),                 \* bufferedMessages
    own        : (SUBSET Statement) \cup {None},\* result of query([outgoingSessionId])
    peer       : (SUBSET Statement) \cup {None},\* result of query([incomingSessionId])
    subscribed : BOOLEAN,                       \* subscribers is not empty
    known      : SUBSET RequestId,              \* ids the application was handed
    handed     : SUBSET RequestId,              \* ids the present subscriber was handed
    twice      : SUBSET RequestId,              \* ids it was handed more than once
    unseen     : SUBSET Statement ]             \* own statements that init was not shown

(* None stands for undefined, which is neither a request nor a statement. *)
ASSUME NoneIsApart == None \notin OutgoingRequest \cup Statement

NoSession(phase) ==
  [ phase |-> phase, expiry |-> 0, outgoing |-> None, incoming |-> None,
    responded |-> FALSE, queue |-> << >>, pending |-> {}, seen |-> {},
    live |-> FALSE, buffered |-> << >>, own |-> None, peer |-> None,
    subscribed |-> FALSE, known |-> {}, handed |-> {}, twice |-> {},
    unseen |-> {} ]

VARIABLES
  sess,        \* sess[p]: the session object of peer p, and what its application saw
  inflight,    \* statements handed to statementStore.submit and not settled yet
  store,       \* store[p][kind]: the statement the store keeps on that channel of p
  clock,       \* Date.now() in seconds
  requests,    \* requests[p]: the payloads of every request p has encoded; its
               \* index is the requestId (nanoid() never repeats one)
  restarts, failures,            \* used budget of MaxRestarts, MaxFailures
  submitted, received, resolved  \* payloads submitted; handed to the receiving
                                 \* application; whose delivery promise was resolved

vars == <<sess, inflight, store, clock, requests, restarts, failures,
          submitted, received, resolved>>
history == <<submitted, received, resolved>>

TypeOK ==
  /\ sess \in [Peer -> SessionState]
  /\ inflight \subseteq Statement
  /\ store \in [Peer -> [{"request", "response"} -> Statement \cup {None}]]
  /\ clock \in Nat /\ restarts \in Nat /\ failures \in Nat
  /\ requests \in [Peer -> Seq(SUBSET Payload)]
  /\ submitted \subseteq Payload /\ received \subseteq Payload /\ resolved \subseteq Payload

Init ==
  /\ sess = [p \in Peer |-> NoSession("down")]
  /\ inflight = {}
  /\ store = [p \in Peer |-> [kind \in {"request", "response"} |-> None]]
  /\ clock = 0 /\ restarts = 0 /\ failures = 0
  /\ requests = [p \in Peer |-> << >>]
  /\ submitted = {} /\ received = {} /\ resolved = {}

-----------------------------------------------------------------------------
(* Expiry and batching. *)

Fresh == (clock + 1) * ExpiryStep
(* Faulty variants of definitions are named *Fault; no action uses them, each
   stands for a slip that one of the properties must notice. *)
StuckExpiryFault(last) == Fresh
NextExpiry(last) == IF Fresh > last THEN Fresh ELSE last + 1

Size(messages) == MapThenSumSet(LAMBDA m : Weight[m], messages)
Messages(s) == IF s.outgoing = None THEN {} ELSE s.outgoing.messages
Tokens(s) == IF s.outgoing = None THEN {} ELSE s.outgoing.tokens

(* The payloads ms[1], ..., ms[i]. *)
Upto(ms, i) == {ms[j] : j \in 1 .. i}

(* The payloads of the requests that adding ms one by one encodes. *)
Batches(s, ms) == [i \in 1 .. Len(ms) |-> Messages(s) \cup Upto(ms, i)]

(* The batch grows, but forgets the tokens it already had. *)
TokensLostFault(p, s, ms) ==
  IF ms = << >> THEN s
  ELSE [s EXCEPT !.expiry = NextExpiry(s.expiry) + Len(ms) - 1,
                 !.outgoing = [id |-> Len(requests[p]) + Len(ms),
                               messages |-> Messages(s) \cup Upto(ms, Len(ms)),
                               tokens |-> Upto(ms, Len(ms))]]

(* A batch keeps its id while it grows: an ACK of the smaller one settles it. *)
IdKeptFault(p, s, ms) ==
  IF ms = << >> THEN s
  ELSE [s EXCEPT !.expiry = NextExpiry(s.expiry) + Len(ms) - 1,
                 !.outgoing = [id |-> IF s.outgoing = None THEN Len(requests[p]) + Len(ms)
                                                           ELSE s.outgoing.id,
                               messages |-> Messages(s) \cup Upto(ms, Len(ms)),
                               tokens |-> Tokens(s) \cup Upto(ms, Len(ms))]]

(* The session s after the payloads ms have joined its outgoing request one
   by one, and the statements that submits: each payload renews the id. *)
Posted(p, s, ms) ==
  IF ms = << >> THEN s
  ELSE [s EXCEPT !.expiry = NextExpiry(s.expiry) + Len(ms) - 1,
                 !.outgoing = [id |-> Len(requests[p]) + Len(ms),
                               messages |-> Messages(s) \cup Upto(ms, Len(ms)),
                               tokens |-> Tokens(s) \cup Upto(ms, Len(ms))]]

RequestStatements(p, s, ms) ==
  {[from |-> p, kind |-> "request", id |-> Len(requests[p]) + i,
    data |-> Batches(s, ms)[i],
    expiry |-> NextExpiry(s.expiry) + i - 1] : i \in 1 .. Len(ms)}

(* processMessageQueue takes the longest prefix of the queue that fits. *)
PrefixFits(s, k) == k > 0 => Size(Messages(s) \cup Upto(s.queue, k)) <= MaxRequestSize
TakesFromQueue(s, k) ==
  PrefixFits(s, k) /\ (k < Len(s.queue) => ~PrefixFits(s, k + 1))

(* Session p goes on as s, after processMessageQueue has run on it. *)
ProcessMessageQueue(p, s) ==
  \E k \in 0 .. Len(s.queue) :
    LET taken == SubSeq(s.queue, 1, k) IN
    /\ TakesFromQueue(s, k)
    /\ sess' = [sess EXCEPT ![p] =
                 [Posted(p, s, taken) EXCEPT !.queue = SubSeq(s.queue, k + 1, Len(s.queue))]]
    /\ inflight' = inflight \cup RequestStatements(p, s, taken)
    /\ requests' = [requests EXCEPT ![p] = @ \o Batches(s, taken)]

-----------------------------------------------------------------------------
(* A buffered request already counts as handed over. *)
BufferedKnownFault(s, r) ==
  [s EXCEPT !.buffered = Append(@, r), !.known = @ \cup {r.id}]

(* Handing a request to the subscribers: deliverStatementData buffers every
   request, and calls the subscribers there are. *)
Surfaced(s, r) ==
  LET buffering == [s EXCEPT !.buffered = Append(@, r)] IN
  IF ~s.subscribed THEN buffering
  ELSE [buffering EXCEPT !.known = @ \cup {r.id},
                         !.handed = @ \cup {r.id},
                         !.twice = @ \cup ({r.id} \cap s.handed)]

HandedOver(s, data) == IF s.subscribed THEN received \cup data ELSE received

(* A new request does not clear respondedIncomingRequest. *)
RespondedKeptFault(p, s, t) ==
  IF t.id = s.incoming
  THEN /\ sess' = [sess EXCEPT ![p] = s]
       /\ UNCHANGED received
  ELSE /\ sess' = [sess EXCEPT ![p] = Surfaced([s EXCEPT !.incoming = t.id],
                                               [id |-> t.id, data |-> t.data])]
       /\ received' = HandedOver(s, t.data)

(* routeStatementData on a request. *)
RouteRequest(p, s, t) ==
  IF t.id = s.incoming
  THEN /\ sess' = [sess EXCEPT ![p] = s]
       /\ UNCHANGED received
  ELSE /\ sess' = [sess EXCEPT ![p] =
             Surfaced([s EXCEPT !.incoming = t.id, !.responded = FALSE],
                      [id |-> t.id, data |-> t.data])]
       /\ received' = HandedOver(s, t.data)

(* routeStatementData on a response: settle the batch it answers, go on
   with the queue.  Any other response is ignored. *)
AckMatches(s, t) == s.outgoing # None /\ s.outgoing.id = t.id

RouteResponse(p, s, t) ==
  IF AckMatches(s, t)
  THEN /\ resolved' = resolved \cup (s.outgoing.tokens \cap s.pending)
       /\ ProcessMessageQueue(p, [s EXCEPT !.pending = @ \ s.outgoing.tokens,
                                           !.outgoing = None])
  ELSE /\ sess' = [sess EXCEPT ![p] = s]
       /\ UNCHANGED <<resolved, inflight, requests>>

-----------------------------------------------------------------------------
(* The session object. *)

InUse(p) == sess[p].phase = "active" \/ (EarlyUse /\ sess[p].phase = "initialization")

(* The store subscriptions are opened before init has run. *)
EarlySubscriptionFault(p) ==
  /\ sess[p].phase \in {"down", "disposed"}
  /\ sess' = [sess EXCEPT ![p] = [NoSession("initialization") EXCEPT !.live = TRUE]]
  /\ UNCHANGED <<inflight, store, clock, requests, restarts, failures, history>>

(* createSession: a page (re)load, or a new session after a disposal. *)
Create(p) ==
  /\ sess[p].phase \in {"down", "disposed"}
  /\ sess' = [sess EXCEPT ![p] = NoSession("initialization")]
  /\ UNCHANGED <<inflight, store, clock, requests, restarts, failures, history>>

(* The store's answer to one of init's two queries; an error counts as []. *)
OnTopicOf(q) == {store[q].request, store[Other(q)].response} \ {None}

QueryOwn(p) ==
  /\ sess[p].phase = "initialization" /\ sess[p].own = None
  /\ \/ /\ sess' = [sess EXCEPT ![p].own = OnTopicOf(p)]
        /\ UNCHANGED failures
     \/ /\ failures < MaxFailures
        /\ failures' = failures + 1
        /\ sess' = [sess EXCEPT ![p].own = {}]
  /\ UNCHANGED <<inflight, store, clock, requests, restarts, history>>

QueryPeer(p) ==
  /\ sess[p].phase = "initialization" /\ sess[p].peer = None
  /\ \/ /\ sess' = [sess EXCEPT ![p].peer = OnTopicOf(Other(p))]
        /\ UNCHANGED failures
     \/ /\ failures < MaxFailures
        /\ failures' = failures + 1
        /\ sess' = [sess EXCEPT ![p].peer = {}]
  /\ UNCHANGED <<inflight, store, clock, requests, restarts, history>>

OwnRejectedFault(p, statements, kind) ==
  {t \in statements : t.kind = kind /\ t.from # p}

(* What tryDecodeStatement makes of a query result. *)
Decoded(p, statements, kind) ==
  {t \in statements : t.kind = kind /\ (VerifyOwn \/ t.from # p)}

NeverAckedFault(t, responses) == FALSE
Acked(t, responses) == \E a \in responses : a.id = t.id

(* The session after init has restored the outgoing request from the
   statements of the own topic. *)
ObservedExpiries(statements) == {0} \cup {t.expiry : t \in statements}

(* The expiry last looked at is kept, not the highest. *)
LastSeenFault(statements, e) == TRUE
Highest(statements, e) == \A t \in statements : t.expiry <= e

Restored(p, s, maxExpiry) ==
  LET unacked == {t \in Decoded(p, s.own, "request") :
                    ~Acked(t, Decoded(p, s.own, "response"))}
      seeded == [s EXCEPT !.expiry = maxExpiry,
                          !.seen = @ \cup {t \in s.own \cup s.peer : t.from # p}]
  IN IF unacked = {} THEN seeded
     ELSE LET t == CHOOSE u \in unacked : TRUE IN
          [seeded EXCEPT !.outgoing = [id |-> t.id, messages |-> t.data, tokens |-> {}]]

(* ... and has taken the peer's request, surfacing it unless a response to it
   is decoded from the peer's topic. *)
Recovered(p, s) ==
  LET theirs == Decoded(p, s.peer, "request")
      t == CHOOSE u \in theirs : TRUE
      answered == Acked(t, Decoded(p, s.peer, "response"))
      taken == [s EXCEPT !.incoming = t.id, !.responded = answered]
  IN IF theirs = {} THEN s
     ELSE IF answered THEN taken
     ELSE Surfaced(taken, [id |-> t.id, data |-> t.data])

RecoveredData(p, s) ==
  UNION {t.data : t \in {u \in Decoded(p, s.peer, "request") :
                           ~Acked(u, Decoded(p, s.peer, "response"))}}

(* What init cannot know of: statements of p that its query of the own topic
   did not answer with, on their way or on the channel of its responses. *)
Unseen(p) ==
  {t \in inflight \cup ({store[p].request, store[p].response} \ {None}) : t.from = p} \ sess[p].own

(* Both queries have answered: the continuation of init. *)
FinishInit(p) ==
  LET s == sess[p] IN
  /\ s.phase = "initialization" /\ s.own # None /\ s.peer # None
  /\ \E maxExpiry \in ObservedExpiries(s.own) :
       /\ Highest(s.own, maxExpiry)
       /\ ProcessMessageQueue(p, [Recovered(p, Restored(p, s, maxExpiry)) EXCEPT
                                    !.phase = "active", !.live = TRUE,
                                    !.own = None, !.peer = None, !.unseen = Unseen(p)])
  /\ received' = HandedOver(s, RecoveredData(p, s))
  /\ UNCHANGED <<store, clock, restarts, failures, submitted, resolved>>

(* dispose(), or the page goes away: the statements already handed to the
   store may still arrive there. *)
Dispose(p) ==
  /\ sess[p].phase \in {"initialization", "active"}
  /\ restarts < MaxRestarts
  /\ restarts' = restarts + 1
  /\ sess' = [sess EXCEPT ![p] = NoSession("disposed")]
  /\ UNCHANGED <<inflight, store, clock, requests, failures, history>>

Crash(p) ==
  /\ sess[p].phase \in {"initialization", "active"}
  /\ restarts < MaxRestarts
  /\ restarts' = restarts + 1
  /\ sess' = [sess EXCEPT ![p] = NoSession("down")]
  /\ \E lost \in SUBSET {t \in inflight : t.from = p} : inflight' = inflight \ lost
  /\ UNCHANGED <<store, clock, requests, failures, history>>

-----------------------------------------------------------------------------
(* The application's calls. *)

(* submitRequestMessage, and processNewMessage in it. *)
AlwaysJoinsFault(s, m) == TRUE
JoinsRequest(s, m) ==
  s.outgoing # None => Size(s.outgoing.messages \cup {m}) <= MaxRequestSize

Submit(p, m) ==
  LET s == [sess[p] EXCEPT !.live = TRUE, !.pending = @ \cup {m}] IN
  /\ InUse(p)
  /\ Owner[m] = p /\ m \notin submitted
  /\ Weight[m] <= MaxRequestSize
  /\ submitted' = submitted \cup {m}
  /\ \/ /\ s.phase = "active"
        /\ JoinsRequest(s, m)
        /\ sess' = [sess EXCEPT ![p] = Posted(p, s, <<m>>)]
        /\ inflight' = inflight \cup RequestStatements(p, s, <<m>>)
        /\ requests' = [requests EXCEPT ![p] = @ \o Batches(s, <<m>>)]
     \/ /\ s.phase = "active" => ~JoinsRequest(s, m)
        /\ sess' = [sess EXCEPT ![p] = [s EXCEPT !.queue = Append(@, m)]]
        /\ UNCHANGED <<inflight, requests>>
  /\ UNCHANGED <<store, clock, restarts, failures, received, resolved>>

(* submitResponseMessage for a request the application was handed.  Calls for
   another id, or a second call, change nothing. *)
Respond(p) ==
  LET s == sess[p] IN
  /\ s.phase \in {"initialization", "active"}
  /\ s.incoming \in s.known
  /\ ~s.responded
  /\ sess' = [sess EXCEPT ![p].responded = TRUE, ![p].expiry = NextExpiry(@)]
  /\ inflight' = inflight \cup
       {[from |-> p, kind |-> "response", id |-> s.incoming, data |-> {},
         expiry |-> NextExpiry(s.expiry)]}
  /\ UNCHANGED <<store, clock, requests, restarts, failures, history>>

(* subscribe: everything buffered is replayed to the new subscriber. *)
Subscribe(p) ==
  LET s == sess[p]
      replayed == {s.buffered[i].id : i \in DOMAIN s.buffered}
      repeated == {s.buffered[i].id : i \in
                     {j \in DOMAIN s.buffered :
                        \E k \in 1 .. j - 1 : s.buffered[k].id = s.buffered[j].id}}
  IN
  /\ InUse(p) /\ ~s.subscribed
  /\ sess' = [sess EXCEPT ![p].subscribed = TRUE, ![p].live = TRUE,
                          ![p].known = @ \cup replayed,
                          ![p].handed = replayed, ![p].twice = repeated]
  /\ received' = received \cup UNION {s.buffered[i].data : i \in DOMAIN s.buffered}
  /\ UNCHANGED <<inflight, store, clock, requests, restarts, failures, submitted, resolved>>

Unsubscribe(p) ==
  /\ sess[p].subscribed
  /\ sess' = [sess EXCEPT ![p].subscribed = FALSE]
  /\ UNCHANGED <<inflight, store, clock, requests, restarts, failures, history>>

-----------------------------------------------------------------------------
(* The statement store, and the statements it pushes to live subscriptions. *)

Replaces(t) ==
  LET kept == store[t.from][t.kind] IN kept # None => kept.expiry < t.expiry

Accept(t) ==
  /\ t \in inflight /\ Replaces(t)
  /\ store' = [store EXCEPT ![t.from][t.kind] = t]
  /\ inflight' = inflight \ {t}
  /\ UNCHANGED <<sess, clock, requests, restarts, failures, history>>

(* The store refuses the statement (ExpiryTooLow); the session logs it. *)
Refuse(t) ==
  /\ t \in inflight /\ ~Replaces(t)
  /\ inflight' = inflight \ {t}
  /\ UNCHANGED <<sess, store, clock, requests, restarts, failures, history>>

(* Signing or the submit call fails; the session logs it and does no more. *)
SubmitFails(t) ==
  /\ t \in inflight
  /\ failures < MaxFailures
  /\ failures' = failures + 1
  /\ inflight' = inflight \ {t}
  /\ UNCHANGED <<sess, store, clock, requests, restarts, history>>

(* processIncomingStatement on a statement of the peer.  A statement that was
   replaced before it was pushed is never seen; one pushed late is the same as
   one pushed early and acted on late. *)
IsNew(p, kind) ==
  /\ sess[p].live
  /\ store[Other(p)][kind] # None
  /\ store[Other(p)][kind] \notin sess[p].seen

Marked(p, t) == [sess[p] EXCEPT !.seen = @ \cup {t}]

DeliverRequest(p) ==
  /\ IsNew(p, "request")
  /\ LET t == store[Other(p)].request IN RouteRequest(p, Marked(p, t), t)
  /\ UNCHANGED <<inflight, store, clock, requests, restarts, failures, submitted, resolved>>

DeliverResponse(p) ==
  /\ IsNew(p, "response")
  /\ LET t == store[Other(p)].response IN RouteResponse(p, Marked(p, t), t)
  /\ UNCHANGED <<store, clock, restarts, failures, submitted, received>>

Tick ==
  /\ clock < MaxClock
  /\ clock' = clock + 1
  /\ UNCHANGED <<sess, inflight, store, requests, restarts, failures, history>>

Next ==
  \/ \E p \in Peer :
       \/ Create(p) \/ QueryOwn(p) \/ QueryPeer(p) \/ FinishInit(p)
       \/ Dispose(p) \/ Crash(p)
       \/ \E m \in Payload : Submit(p, m)
       \/ Respond(p) \/ Subscribe(p) \/ Unsubscribe(p)
       \/ DeliverRequest(p) \/ DeliverResponse(p)
  \/ \E t \in inflight : Accept(t) \/ Refuse(t) \/ SubmitFails(t)
  \/ Tick

Spec == Init /\ [][Next]_vars

(* The environment does its part: queries answer, the store settles every
   submission, pushes arrive, and each application listens and responds.
   Nothing obliges a session to be created, used, disposed or to crash. *)
Fairness ==
  /\ \A p \in Peer :
       /\ WF_vars(QueryOwn(p)) /\ WF_vars(QueryPeer(p)) /\ WF_vars(FinishInit(p))
       /\ WF_vars(Create(p)) /\ WF_vars(Subscribe(p)) /\ WF_vars(Respond(p))
       /\ WF_vars(DeliverRequest(p)) /\ WF_vars(DeliverResponse(p))
  /\ WF_vars(\E t \in inflight : Accept(t) \/ Refuse(t))

FairSpec == Spec /\ Fairness

-----------------------------------------------------------------------------
(* Properties. *)

(* request() resolves only for a payload the receiving application has been
   handed, whatever batch it travelled in, however many times the batch was
   re-issued under a new id, and across restarts of either side. *)
AckImpliesReceived == resolved \subseteq received

(* No delivery promise is forgotten: a live session's unsettled payloads are
   exactly those of its outgoing request and of its queue, each once. *)
PromisesAccounted ==
  \A p \in Peer : LET s == sess[p] IN
    /\ s.pending = Tokens(s) \cup Range(s.queue)
    /\ Tokens(s) \cap Range(s.queue) = {}
    /\ Cardinality(Range(s.queue)) = Len(s.queue)

(* No statement exceeds maxRequestSize, even one restored and coalesced into. *)
BatchesFit ==
  \A t \in inflight : Size(t.data) <= MaxRequestSize

(* "Every subsequent submission is monotonically greater and the substrate store
   always accepts replacements": what an initialized session submits beats the
   statement that the store keeps on its channel, within one second and after a
   restart, unless that one is a statement that init was not shown. *)
SubmissionsSupersede ==
  [][\A t \in inflight' \ inflight :
       LET s == sess'[t.from] IN
       s.phase = "active" => Replaces(t) \/ store[t.from][t.kind] \in s.unseen]_vars

(* One subscriber is handed a request once: neither init's recovery nor the
   replay of the buffer repeats what the live subscription delivered. *)
SurfacedOnce == \A p \in Peer : sess[p].twice = {}

(* The topic shows an ACK of t. *)
AckedOn(topic, t) == \E a \in topic : a.kind = "response" /\ a.id = t.id

Unacked(topic) == {t \in topic : t.kind = "request" /\ ~AckedOn(topic, t)}

Initialized(p) == sess[p].phase = "initialization" /\ sess'[p].phase = "active"

(* "Any un-acked outgoing request is restored". *)
UnackedRequestRestored ==
  [][\A p \in Peer : Initialized(p) =>
       (Unacked(sess[p].own) # {} => sess'[p].outgoing # None)]_vars

(* Whatever the prover accepts, what init goes on with is what it was asked to
   send and the own request that the topic shows no ACK for: that one with all
   its payloads if the prover accepts it, no other, and nothing the peer has
   acknowledged is sent again. *)
BatchRestored ==
  [][\A p \in Peer : Initialized(p) =>
       /\ \A t \in Unacked(sess[p].own) :
            VerifyOwn => t.data \subseteq Messages(sess'[p])
       /\ Messages(sess'[p]) \subseteq
            Range(sess[p].queue) \cup UNION {t.data : t \in Unacked(sess[p].own)}]_vars

(* "If the peer had an unresponded request at init time, surface it": whatever
   the prover accepts, no unresponded request is missed; and one that was
   responded to is not surfaced again if the prover accepts the response. *)
UnrespondedSurfaced ==
  [][\A p \in Peer : Initialized(p) =>
       \A t \in sess[p].peer : t.kind = "request" =>
         LET surfaced == \E i \in DOMAIN sess'[p].buffered :
                           i > Len(sess[p].buffered) /\ sess'[p].buffered[i].id = t.id
         IN /\ ~AckedOn(sess[p].peer, t) => surfaced
            /\ AckedOn(sess[p].peer, t) /\ VerifyOwn => ~surfaced]_vars

(* Why an ACK can be trusted.  Whatever a statement, a session or a query
   result says of a request is what was encoded under its id (reqs), and
   whatever answers a request, or entitles the application to answer it, names
   one whose payloads were handed over (rcvd).  It is the inductive
   strengthening of AckImpliesReceived; the histories are parameters so that
   the proofs can move them from one state to the next. *)
Encoded(reqs, p, i, data) == i \in DOMAIN reqs[p] /\ reqs[p][i] = data

Arrived(reqs, rcvd, p, i) == i \in DOMAIN reqs[p] /\ reqs[p][i] \subseteq rcvd

Truthful(reqs, rcvd, t) ==
  IF t.kind = "request" THEN Encoded(reqs, t.from, t.id, t.data)
                        ELSE Arrived(reqs, rcvd, Other(t.from), t.id)

TopicTruthful(reqs, rcvd, q, statements) ==
  statements # None =>
    \A t \in statements : /\ Truthful(reqs, rcvd, t)
                          /\ t.kind = "request" => t.from = q

OutgoingTruthful(reqs, p, s) ==
  s.outgoing # None => /\ Encoded(reqs, p, s.outgoing.id, s.outgoing.messages)
                       /\ s.outgoing.tokens \subseteq s.outgoing.messages

IncomingTruthful(reqs, rcvd, p, s) ==
  /\ \A i \in DOMAIN s.buffered :
       Encoded(reqs, Other(p), s.buffered[i].id, s.buffered[i].data)
  /\ \A i \in s.known : Arrived(reqs, rcvd, Other(p), i)

SessionTruthful(reqs, rcvd, subm, p, s) ==
  /\ OutgoingTruthful(reqs, p, s)
  /\ IncomingTruthful(reqs, rcvd, p, s)
  /\ TopicTruthful(reqs, rcvd, p, s.own)
  /\ TopicTruthful(reqs, rcvd, Other(p), s.peer)
  /\ \A i \in DOMAIN s.queue : s.queue[i] \in subm

KeptTruthful(reqs, rcvd, p, kind, t) ==
  t # None => Truthful(reqs, rcvd, t) /\ t.from = p /\ t.kind = kind

DeliveryInv ==
  /\ \A t \in inflight : Truthful(requests, received, t)
  /\ \A p \in Peer : \A kind \in {"request", "response"} :
       KeptTruthful(requests, received, p, kind, store[p][kind])
  /\ \A p \in Peer : SessionTruthful(requests, received, submitted, p, sess[p])
  /\ \A p \in Peer : \A i \in DOMAIN requests[p] : requests[p][i] \subseteq submitted
  /\ received \subseteq submitted
  /\ AckImpliesReceived

(* Why promises are accounted for: a payload is submitted once, waits in one
   place at a time, and init, which starts from no outgoing request, restores
   one without tokens. *)
Accounted(s, subm) ==
  /\ s.pending = Tokens(s) \cup Range(s.queue)
  /\ Tokens(s) \cap Range(s.queue) = {}
  /\ IsInjective(s.queue)
  /\ s.pending \subseteq subm
  /\ s.phase # "active" => s.outgoing = None

PromisesInv == \A p \in Peer : Accounted(sess[p], submitted)

(* Why statements fit: what a batch is restored from, or grows from, fits. *)
Fits(messages) == IsFiniteSet(messages) /\ Size(messages) <= MaxRequestSize

SizesInv ==
  /\ \A t \in inflight : Fits(t.data)
  /\ \A p \in Peer : \A kind \in {"request", "response"} :
       store[p][kind] # None => Fits(store[p][kind].data)
  /\ \A p \in Peer : /\ Fits(Messages(sess[p]))
                     /\ sess[p].own # None => \A t \in sess[p].own : Fits(t.data)

(* Why a subscriber is handed a request once, when sessions are not used before
   they are initialized: an id names one statement wherever it is kept, and
   what is buffered has been seen.  Expiries play no part in it. *)
Answers(s) == (IF s.own = None THEN {} ELSE s.own) \cup (IF s.peer = None THEN {} ELSE s.peer)

Statements ==
  inflight \cup {store[p].request : p \in Peer} \cup {store[p].response : p \in Peer}
  \cup UNION {sess[p].seen \cup Answers(sess[p]) : p \in Peer}

Requests == {t \in Statements \ {None} : t.kind = "request"}

SeenOnce(p, s) ==
  /\ s.twice = {}
  /\ s.handed \subseteq {s.buffered[i].id : i \in DOMAIN s.buffered}
  /\ \A i, j \in DOMAIN s.buffered : s.buffered[i].id = s.buffered[j].id => i = j
  /\ \A i \in DOMAIN s.buffered :
       \E t \in s.seen : t.kind = "request" /\ t.from = Other(p) /\ t.id = s.buffered[i].id
  /\ s.phase # "active" => s.buffered = << >> /\ ~s.live /\ ~s.subscribed

SurfacingInv ==
  /\ \A t \in Requests : t.id \in DOMAIN requests[t.from]
  /\ \A t, u \in Requests : t.from = u.from /\ t.id = u.id => t = u
  /\ \A p \in Peer : SeenOnce(p, sess[p])

(* Why a submission supersedes what the store keeps: the expiry of an active
   session is ahead of every statement of its peer that init was shown, or that
   it has submitted itself; nextExpiry goes on from there. *)
Ahead(p) ==
  LET s == sess[p]
      Behind(t) == t.expiry <= s.expiry \/ t \in s.unseen
  IN s.phase = "active" =>
       /\ \A t \in inflight : t.from = p => Behind(t)
       /\ \A kind \in {"request", "response"} : store[p][kind] # None => Behind(store[p][kind])

ExpiryInv == \A p \in Peer : Ahead(p)

(* The session implements acknowledged delivery. *)
Delivery == INSTANCE AckedDelivery
ImplementsDelivery == Delivery!Spec

(* Every payload submitted is acknowledged in the end. *)
EventuallyResolved ==
  \A m \in Payload : m \in submitted ~> m \in resolved

=============================================================================
