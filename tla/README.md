# Verification of the host-product SDK

TLA+ models of the SDK in this repository: the protocol between a host page and
the products it embeds (`packages/api-protocol`), the host's runtime
(`packages/host`) and the product's helpers (`packages/product`). TLC checks the
models on small instances; TLAPS proves the theorems of the `*_proofs` modules
for every instance.

## The system

A host page embeds products in iframes. A *transport* carries requests and
subscriptions between the two over a message port. The host serves the
products' requests: storage, accounts, chain access, signing. Signing is done by
a phone wallet paired by QR code; host and wallet talk through the *statement
store* of the People chain, where each runs a *session* with the other.

| Component | State | Operations | What is hard |
| --- | --- | --- | --- |
| statement session (`host/statementStore/session`) | outgoing request, queue, delivery promises, incoming request, dedup cache, buffer, expiry | request/submit, respond, subscribe, init, dispose; pushes of the store | ACKs of superseded batches, recovery after a restart, the two queries of init racing with use, refused and failed submissions |
| statement store client (`host/statementStore/client.ts`) | one upstream per set of topics, its listeners | subscribe, submit, query | join and leave while upstream opens or delivers; dead upstreams |
| transport (`api-protocol/shared/transport`) | listeners, shared subscriptions, handler registrations, handshake promise, codec | request, subscribe, handle*, destroy | crossing stop / interrupt / unregister, aborts, timeouts, teardown with calls in flight |
| codec negotiation (`shared/codec/negotiation.ts`) | codec of each side | upgrade request and answer | the host switches before the product has heard |
| chain connections (`host-facade/connectionManager.ts`, `handleChainConnection`) | per chain: connection, reference count, pending requests, follows | follow/unfollow, chain requests, dispose | references against requests in flight, a stop overtaking the node's answer |
| product chain provider (`product/chain.ts`) | follows, broadcasts | JSON-RPC methods, disconnect | shared subscription ids, answers after disconnect |
| SSO manager and stores (`host/auth/sso`) | pairing state, persisted session and secrets | pair, cancel, unpair, restore | awaits between check and effect, crash between two saves |
| remote signing (`signing.ts`, `signRequestExecutor.ts`) | one listener and timer per request | sign, timeout, abort | timeout against a late answer, who ACKs it |
| SDK, auth manager (`sdk.ts`, `authManager.ts`) | remote session and signer, auth state | pair, unpair, restore, embed, dispose | two concurrent builds of the signer, unpair during a build |
| rate limiter (`chain/rateLimiter.ts`) | tokens, queue, timer | schedule, timer, destroy | interval boundaries, queue bound, order |
| identity resolver (`auth/identity/resolver.ts`) | cache, queries in flight | get, invalidate | one query shared by all who wait |
| host handlers, product wrappers, facades | none to speak of | version dispatch, forwarding | |
| codecs, cryptography, storage adapters | none | pure or plain I/O | not modelled |

How they hang together: a product's call enters its facade and transport
(`TransportRequest`, `TransportSubscription`), is dispatched by the host facade
to a handler, and ends in the chain connections (`ChainConnection`), in a
storage call, or, for signing, in the SDK (`HostSdk`), whose remote signer
(`RemoteSigning`) sends it to the wallet over a session (`StatementSession`) on
the statement store client (`StatementStoreClient`). `ChainProvider` is what a
product builds on its chain subscriptions.

`PROJECT.json` lists every component with its status and every hazard at its line.

## The modules

| Module | Of | Against | Proofs |
| --- | --- | --- | --- |
| `StatementSession` | `session.ts` with its mapper and prover | `AckedDelivery` | `StatementSession_proofs` |
| `StatementStoreClient` | `client.ts` | a node that dumps, then streams | `StatementStoreClient_proofs` |
| `TransportSubscription` | subscriptions of `transport.ts`, `wireSubscription` | `SubscriptionLifecycle` | `TransportSubscription_proofs` |
| `TransportRequest` | handshake, requests and handlers of `transport.ts`, `negotiation.ts`, the providers, both facades | | `TransportRequest_proofs` |
| `ChainConnection` | `connectionManager.ts`, `handleChainConnection` | a node | `ChainConnection_proofs` |
| `ChainProvider` | `product/chain.ts`, the event tags of `connectionManager.ts` | the host and the node, as they answer | `Chain_proofs` |
| `HostSdk` | SSO manager, stores, pairing executor, `sdk.ts`, `authManager.ts`, resolver | storage and the wallet | `HostSdk_proofs` |
| `RemoteSigning` | `handlers/signing.ts`, `signing.ts`, `signRequestExecutor.ts`, the approval gate | the session, as it promises; the wallet | `RemoteSigning_proofs` |
| `RateLimiter` | `rateLimiter.ts` | | `Chain_proofs` |

The modules meet at what each promises the next. `RemoteSigning` assumes of the
session what `AckImpliesReceived` and the refinement of `AckedDelivery` say, and
of the SDK that a rebuild disposes the session before it makes the next, which
is `NoLeakedSession` of `HostSdk`. `ChainProvider` assumes that a subscription
ends as in `TransportSubscription`, and of the host that a stop releases what a
start took, which is `NoForgottenFollow` of `ChainConnection`. The session
assumes of the store that a query sees what was stored when it was asked and
that no push is skipped: `AnswersAreTrue` and `ListenersHearAll`.

`Chain_proofs` holds the theorems of two small modules, `ChainProvider` and
`RateLimiter`. It extends both; they share no state, and the limiter's standard
names carry a prefix (`LimiterSpec`, `LimiterTypeOK`) so that they stay apart.

Modules are used by TLC directly; `MCStatementSession` exists because functions
over payloads cannot be written in a `.cfg`. No run checks deadlock: a host whose
products are gone, a disposed manager, a limiter without tasks or sessions with
nothing to do stop. Only `session_recovery`, which checks no liveness, uses
symmetry, of its two payloads. Operators named `*Fault` are slips that no action uses: each shows
that a property notices it.

## The statement session

`StatementSession` models `session.ts`. Both peers run the same code, so the
model has two session objects, `sess[Host]` and `sess[Wallet]`, and a store with
two channels per peer. The fields of `sess[p]` are those of `state`
(`session.ts:104-113`), the subscribers, the buffer, the subscription to the
store (`live`) and the results of init's two queries. What the applications saw
(`known`, `handed`, `twice`) and the histories `requests`, `submitted`,
`received`, `resolved` are there for the properties.

| Code | Model |
| --- | --- |
| `createSession`, `init` (362-438) | `Create`; `QueryOwn`, `QueryPeer` (either order); `FinishInit`, one step, as the continuation runs without an await |
| `submitRequestMessage`, `processNewMessage` | `Submit` |
| `processMessageQueue` | `ProcessMessageQueue`, part of `FinishInit` and `DeliverResponse` |
| `submitResponseMessage` | `Respond` |
| `subscribe` and the function it returns | `Subscribe`, `Unsubscribe` |
| `processIncomingStatement`, `routeStatementData` | `DeliverRequest`, `DeliverResponse` |
| `dispose`, a page that goes away | `Dispose`, `Crash` |
| `statementStore.submit`, asynchronous | `inflight`; `Accept`, `Refuse`, `SubmitFails` |

Coalescing several queued payloads encodes one statement after the other in one
step: `Posted` and `RequestStatements` describe them all. `inflight` is a set, so
statements reach the store in any order. Pushes always carry the store's present
statement of a channel; a replaced one that is pushed late is a push that
happened earlier and was acted on late, except for statements replaced while
their push was on the way, which the model skips.

Abstractions: payloads are model values with a weight, request ids are counters
per peer, response codes are not told apart, there is one subscriber at a time,
the dedup cache does not forget, statements do not age out.

`VerifyOwn` says whether the prover accepts the local signer (the SDK's does
not), `EarlyUse` whether the application uses a session before init is done.

### Runs

| Run | Instance | Shows |
| --- | --- | --- |
| `session_recovery` | 2 payloads one way, weight 1, limit 2, 1 restart, 1 failure, a clock that may tick, use before init is done, a prover that accepts its own signer | no promise lost or duplicated (`PromisesAccounted`); an ACK never settles a payload the peer was not handed (`AckImpliesReceived`); refinement of `AckedDelivery`; what an initialized session submits beats what the store keeps (`SubmissionsSupersede`); init restores and surfaces what the topics show to be open (`BatchRestored`, `UnrespondedSurfaced`) |
| `session_settles` | 3 payloads one way, 1 the other, weights up to the limit, fairness, no failures, no restart | batches within the limit (`BatchesFit`); nothing surfaced twice (`SurfacedOnce`); every promise resolved (`EventuallyResolved`) |
| `finding_request_not_restored` | 2 payloads, 1 restart, the prover of the SDK | `UnackedRequestRestored` is violated, see below |

`BatchRestored` and `UnrespondedSurfaced` speak of every prover: what init may
restore and must surface they say without a condition, and under `VerifyOwn` what
else a prover that accepts the local signer gives. The run has that prover,
because it meets both halves.

Two payloads suffice for a batch to be superseded while its ACK travels, the
third is what queues or joins after the ACK; with a limit of 2 every combination
of join, queue and overflow occurs. One restart is enough for a statement of the
old session to land after the new one's queries; `requests` keeps counting
across restarts as `nanoid()` never repeats.

Fairness (`session_settles`): queries answer, the store settles what it is
handed (`Accept` or `Refuse`), pushes arrive, applications create a session,
subscribe and respond to what they are handed. The first three are what a
connected node does. The last is an assumption about the application, and not one
that the SDK's own meets: `signRequestExecutor` responds only to answers that a
call still waits for (see *Remote signing*), and a batch of late answers is never
ACKed. `EventuallyResolved` is what the session promises an application that
responds. Nothing forces a submission, an unsubscription, a crash or a failure.

### What the runs found

- `finding_request_not_restored`: the SDK's prover rejects the local signer, so
  init never sees its own un-ACKed request. The comments
  (`session.ts:31-32`, `401-404`) and `ARCHITECTURE.md:785` say it is restored.
  For the same reason init never sees its own ACK and surfaces a request that was
  responded to again (`session.ts:416`); `session_recovery` shows that both work
  with a prover that accepts the local signer.

Met while modelling, and avoided by the instances or stated in the properties:

- a subscriber that joins while init's queries are out may get a request from the
  live subscription and again from init (`session.ts:425`). The SDK can: its
  executor subscribes for each signing request (`signRequestExecutor.ts:118`),
  whether init is done or not. `SurfacedOnce` is checked without such early use;
- init overwrites `state.expiry` from a snapshot (376) of the two topics. What it
  was not shown, a statement in flight or a response that went to the other
  topic, may carry a later expiry, and the store then refuses what the session
  submits. `SubmissionsSupersede` exempts just those (`unseen`);
- the buffer is never cleared (158): every later subscriber is handed the old
  requests again;
- an ACK among init's statements is marked as seen (378-382) and never routed: a
  request submitted before init is done may wait for ever, so
  `EventuallyResolved` too is checked without early use.

### What is proved (`StatementSession_proofs`)

For all sets of payloads, owners, weights, limits, bounds and both options:

- `TypeCorrect`: `Spec => []TypeOK`.
- `DeliveryInvariant`: `Spec => []DeliveryInv`. `AckImpliesReceived` is not
  inductive: that an ACK settles only what arrived depends on what every
  statement in flight, in the store or in a query result says. `DeliveryInv`
  says it: a request statement, a session's outgoing request and every buffered
  request are what was encoded under their id (`Encoded`), and the id of every
  response, and every id the application knows, is of a request whose payloads
  were handed over (`Arrived`). A batch that grows gets a new id, so an ACK of
  the smaller one names other payloads and matches nothing. The proof has a
  lemma per helper (`PostedTruthful`, `ProcessMessageQueueTruthful`,
  `RestoredTruthful`, `RecoveredTruthful`, `SurfacedTruthful`), the fact that
  truth persists as the histories grow (`TruthfulPersists`, `SessionPersists`)
  and one step per action (`DeliveryStep`).
- `AcksAreTrue`: `Spec => []AckImpliesReceived`.
- `DeliveryImplemented`: `Spec => ImplementsDelivery`, from the invariant and a
  case per action (`DeliveryRefined`).

- `PromisesKept`: `Spec => []PromisesAccounted`, from `PromisesInv`: the pending
  payloads are those of the outgoing request and those of the queue, no payload
  is in both or in the queue twice, and a session that is not yet active has no
  outgoing request. The last is what makes init safe: it restores a batch
  without tokens and finds none to overwrite.
- `BatchesAlwaysFit`: `Spec => []BatchesFit`. A batch that grows starts from one
  that was sent, or restored from the store, so `SizesInv` carries the limit
  through whatever is in flight, stored or in a query result. The size of a set
  of payloads is a recursive function over finite sets; that it is the weight of
  any member and the size of the others (`SizeWithout`) is proved by induction
  over the subsets of one finite set (`SubsetInduction`), from a minimal
  counterexample under the well-founded order of its subsets.
- `RequestsSurfacedOnce`: `Spec => []SurfacedOnce` if `EarlyUse = FALSE`, from
  `SurfacingInv`: an id names one request statement wherever that is kept, and
  what is buffered has been seen, so that neither init's recovery nor the replay
  of the buffer repeats a delivery, across restarts too.
- `OnlyUnackedRestored`, `UnrespondedRequestSurfaced`: `Spec => BatchRestored` and
  `Spec => UnrespondedSurfaced`, for either prover. They need that a query answers
  with the statements of its topic, and with one request at most (`TopicsInv`).
- `NewStatementsSupersede`: `Spec => SubmissionsSupersede`, restarts and early use
  included, from `ExpiryInv`: the session's expiry is at or ahead of its
  statements in flight and in the store, except those that init was not shown.

The one hypothesis, of `RequestsSurfacedOnce`, is where the code stops keeping the
property: the race of init with an early subscriber. `session_settles` is without
restarts because they may end delivery; that a batch which was restored after one
fits, and that nothing is surfaced twice after one, are theorems.

Assumptions: the two peers differ, every payload has an owner and a positive
weight, the bounds are naturals, the options Booleans, `None` is neither a
request nor a statement.

Only model-checked: liveness (`EventuallyResolved`).

## Transport subscriptions

`TransportSubscription` models `subscribe` and `handleSubscription` of
`transport.ts`, the product consuming and the host producing, with a FIFO channel
each way. `active` is `activeSubscriptions`, `handle[c]` the object a caller
holds, `producer` and `cleanups` what the host keeps per subscription id,
`registered` whether a handler is there.

| Code | Model |
| --- | --- |
| `subscribe` (374-468), first caller of a key / later ones | `Open` / `Join` |
| the function it returns (389-400), `unsubscribeAll` (446-457) | `Unsubscribe`, with `Remaining`, `LastToLeave`, `Kill`, `PostStop` |
| the receive listener (428-437) | `Receive`, `CallNext`, `ListenerThrows`, `EndDispatch` |
| the interrupt listener (439-450) | `Interrupted` |
| `wireSubscription` of the host facade | `InterruptAtOnce`, part of `HandleStart` |
| `handleSubscription` (472-540): start, stop, `interrupt()`, `send`, its return | `HandleStart`, `HandleStop` and `EndStop`, `Interrupt`, `Send`, `Unregister` |
| the catch-all (606-626) | `RefuseStart` |
| `destroy`, provider `dispose` | `DestroyProduct`, `DestroyHost` |

JavaScript runs a dispatch to its end, but what it calls may subscribe and
unsubscribe. So while `calling` holds a dispatch nothing arrives, and callers may
act between two `CallNext`; `stopping` does the same for a clean-up during which
`interrupt()` is called, and `Reentering` for one that an unregistration runs.
What throws inside a message listener is caught there (563-573): a listener of the
caller's ends the loop over the listeners (`threw`), a handler or clean-up leaves
its subscription to neither end (`failed`).

Abstractions: a listener is its caller, who holds one object at a time; the
listeners of an entry are called in any order; values are not told apart; the
handshake is over; one method. Not modelled: unsubscribing twice, a second
registration of the method, a clean-up that unregisters.

`SubscriptionLifecycle` is what a subscription promises: opened once, the
producer started at most once and only then, either end the first to finish,
neither ever back, and interrupted only when the producer is over.

### Runs

| Run | Instance | Shows |
| --- | --- | --- |
| `subscription_wire` | 2 callers, 1 key, 2 ids, 1 value, 1 throw, clean-ups that may call `interrupt()`, transports that may go | no orphaned producer (`NoOrphan`), no forgotten consumer (`ConsumerServed`), one clean-up each but for the cases below (`CleanedOnce`); sharing under listeners that subscribe, unsubscribe and throw, and interrupts (`EveryListenerReached`); refinement of `SubscriptionLifecycle` |

Two ids under one key are a subscription and its successor, which is where
messages of the first can be taken for the second; of two callers one leaves or
joins while the other is called. Keys share nothing, so one is enough; the
theorems hold for any number of callers and keys. The run checks safety only and
assumes no fairness.

Met while modelling:

- an interrupt leaves the entry in `activeSubscriptions`; until every caller has
  unsubscribed, a new `subscribe` with the same payload is given the id of a
  subscription that is over (`transport.ts:407-410`, 439-450);
- `onInterrupt` is only called for the caller that opened the shared
  subscription (381, 441);
- a clean-up that calls `interrupt()` while a stop or an unregistration runs it is
  run again, since the map still holds it (506-513, 529, 534), and one that threw
  stays in the map for the unregistration. The comment (127-129) says exactly once.
  `CleanedOnce` has both cases: it says that in the first the clean-up runs exactly
  twice, and once in every other;
- a listener that throws hides the value from those after it (432-434), and the
  error is swallowed (564-572): `EveryListenerReached` is about the loops that
  none ended so.

### What is proved (`TransportSubscription_proofs`)

For all sets of callers and keys and all bounds:

- `TypeCorrect`, and with it that no entry is without listeners, which the code
  relies on when the last one leaves.
- `SharingCorrect`: `WireIsShared` and `HandlesListed`, from `ConsumerInv`, which
  adds what a dispatch under way knows of its entry.
- `NoOrphanLeft`, `ConsumersServed`: `NoOrphan` and `ConsumerServed`. Neither is
  inductive: both follow from what may be on the wire, `WireInv`. A start is the
  first message of its subscription and finds a producer that is new; no stop is
  sent while the consumer listens; interrupts are posted only by a producer that
  is through. The lemmas on `InFlight` and `Ordered` say what appending and
  popping do to a channel; then one lemma per action.
- `CleanupCorrect`: `Spec => []CleanedOnce`, re-entrant clean-ups and those that
  throw included.
- `ListenersReached`: `Spec => EveryListenerReached`. Whoever is due is still to
  be called or was (`DispatchSound`), and is no longer due only by unsubscribing
  itself. That a value goes only to holders of its own subscription, although the
  listener looks the entry up by key, is `ShareInv` with `ListenersHold`.
- `LifecycleImplemented`: `Spec => ImplementsLifecycle`, a case per action.

## Chain connections

`ChainConnection` models `connectionManager.ts` with its only caller,
`handleChainConnection` of `protocolHandler.ts`. A *user* of a chain is a follow
from its start to its clean-up, or a request about the chain from
`getOrCreateChain` to its `finally`; requests about a follow borrow its
connection through `resolveFollow` and count for nothing.

| Code | Model |
| --- | --- |
| `chains`, `refCount`, `followSubscriptions` | `chains`, `refCount`, `registered` |
| `getOrCreateChain` / `releaseChain` / both in one task | `GetOrCreateChain` / `ReleaseChain` / `TouchChain` |
| the handler of `remote_chain_head_follow`, `startFollow` | `StartFollow` |
| its `resolve` and `reject` closures (192-205) | `FollowAccepted`, `FollowRejected` |
| the clean-up: `stopFollow`, `releaseChain` | `StopFollow` |
| seven requests about a follow (638-716) | `AskAboutFollow` |
| five requests about a chain (721-789) | `AskAboutChain`, `Continue` with `Finally` |
| the result or error of the node (80-95) | `Settle` |
| `dispose` of the handler and of the manager | `Dispose`, `DisposeThrows` |

`node[f]` is what the node knows of a follow: `NodeAnswers` is the node's
decision, `FollowAccepted` and `FollowRejected` the arrival of the answer, so a
stop falls before, between or after them. `Settle` and `Continue` are apart
because the handler goes on in a later microtask. `StopFollow` and `Dispose` are
single steps, since their code has no await.

`connection.send` may throw. Three of its four uses are guarded; the fourth, in
`sendUnfollow`, ends a stop or a dispose half-way. A stop then leaves the follow
"halted": out of `followSubscriptions`, running on the node (`unsent`), still
holding its reference. A dispose leaves `phase = "aborted"`: some clean-ups have
run and are still stored. After that the product may stop a cleaned follow, which
releases its chain once more; the properties of the counts are stated for the
time before.

Abstractions: a follow is its transport id, what it carries is left out; a
product names a follow with its own chain (with another it is refused, as when
the follow is not active); nodes answer in any order, and nothing once
disconnected; a factory, provider or disconnect that throws, and a send that
throws while the last release clears leftovers of an aborted dispose, are left
out.

### Runs

| Run | Instance | Shows |
| --- | --- | --- |
| `chain_references` | 2 chains, one unsupported, 2 follows, 2 requests, 3 connections, 1 failing send, fairness | the count of a connection is the number of its users (`RefCounted`); no follow is left running that nobody knows of (`NoForgottenFollow`); a request that holds a reference is answered (`ChainRequestAnswered`) |

Two users of each kind on one chain give every order of first and last on a shared
connection; three connections let it be closed and opened again, twice, so that a
late release could hit the successor. What chains do to each other is left to the
proofs, which hold for any number of them.

Fairness: a connected node answers, and settled promises are continued. Nothing
forces a product to start, stop or ask, or a host to dispose.

`AbandonedWithFollow` states the limit of borrowing: a request about a follow may
stay unanswered for ever, but only once its follow has been stopped.

### What is proved (`ChainConnection_proofs`)

For all finite sets of follows and requests, any chains and all bounds:
`InvariantCorrect`, `Spec => []ConnectionInv`, and from it `TypeCorrect`,
`HeldCorrect`, `CountCorrect`, `LiveCorrect`, `FollowsCorrect` and
`AbandonedCorrect`.

That a user keeps its connection (`ConnectionHeld`) and that the count is the
number of users (`RefCounted`) need each other: the last release is the last only
if the count is right, and the count counts users of *this* connection only if
none has been replaced. Both rest on `EntriesSound` (an open connection is the
entry of exactly one chain), on `Linked` (what a user was given is its chain's
entry as long as it is open, also after release) and, for `AbandonedWithFollow`,
on `Borrowing`. Cardinalities are handled once, in the lemmas on how `Holders`
changes when one user joins or leaves.

Assumptions: finite sets of users that do not overlap, natural bounds, a value
`None` outside the other sets. Liveness is only model-checked.

Met while modelling: requests that go through `resolveFollow` hold no reference
(`connectionManager.ts:264`), which is what `AbandonedWithFollow` is about.

## Requests, handshake and codecs

`TransportRequest` models the rest of the transport, from the product to the
host: what happens before a request can be sent, and what becomes of it.

| Code | Model |
| --- | --- |
| `createProductFacade`, `createHostFacade` | `Init`, `HostCreated` |
| `performHandshake` (656-690), its timeout and `destroy` | `Beat`; `HandshakeFails`, `DestroyProduct`, `DestroyHost` |
| the facade's methods, `request` (309-352) | `Ask`; `Proceed` once `whenReady` has ended; `Abort` for the signal |
| `requestCodecUpgrade` / `handleCodecUpgrade` | the call `Upgrade`, whose signal is a timer / `GrantUpgrade`, `RefuseUpgrade` |
| `listenMessages`, `decodeIncoming` | `ReceiveAtProduct`, `ReceiveAtHost`, `CodecAfter` |
| `handleRequest`, `wireRequest` | `Register`, `Unregister`, `HandleRequest`, `HandlerEnds` |
| the catch-all (606-626) | `Refusal`, when `handled` is false |
| the providers: a port that comes late, a window that nobody listens to yet | `Attach`; the guard of `ReceiveAtHost` |

A message carries the codec it was encoded with, because a receiver adopts it;
what SCALE cannot encode (`Encodable`) is not sent. `setting` is how the page was
set up: window or port, equal or different protocol versions, upgrade allowed or
not; the run covers all eight. One method stands for all, since methods do not
interact; handlers of it may overlap up to `MaxHandlers`. `unheard`, with the codec
the host spoke, and `rejected` are histories for the properties.

| Run | Instance | Shows |
| --- | --- | --- |
| `transport_request` | 1 request and the upgrade's, 1 handler, 2 beats, fairness | types; both ends converge on one codec (`CodecsConverge`); only the unhandled is refused (`RefusedIsUnheard`); whoever waits for the handshake is let go (`WaitingEnds`); what is posted is settled, the unhandled too where the host can refuse it (`PostedSettles`) |
| `finding_unhandled_hangs` | 1 request, a host that still speaks SCALE | `UnhandledIsAnswered` is violated, see below |

One request beside the upgrade gives every order of the two; two beats put a
handshake request behind the answer to the first, and more repeat that.

Fairness: messages arrive, the handshake's and the upgrade's timers fire, what
awaited a promise goes on, handlers end, with an answer or a rejection. Nothing
forces a caller to ask, abort, register or destroy.

`TransportRequest_proofs` proves, for any set of calls and all bounds,
`TypeCorrect`; `ConvergeCorrect`, `Spec => []CodecsConverge`; and, for handlers
of a method that do not overlap, `RefusedCorrect`, `Spec => []RefusedIsUnheard`.
Convergence rests on `CodecInv`: what is on the way to the host was encoded by a
product that has already switched, what is on the way back by a host that has,
and a grant of the upgrade always travels in the codec it grants, so that a
product whose timer fired first still adopts it. `Replies` states once, for the
four answers of the host, what the two invariants need of them. Liveness is only
model-checked.

Met while modelling:

- `finding_unhandled_hangs`: over SCALE the marker "unsupported" cannot be encoded,
  and the failure is swallowed (`transport.ts:619`, 624-626), so a request nothing
  handles is never answered, against 608-609 and `ARCHITECTURE.md:282-285`. Every
  host speaks SCALE until the upgrade is granted. `PostedSettles` excepts the
  requests that were unheard by such a host, and only those: over structured
  clones the refusal must come;
- `ARCHITECTURE.md:354-356` has requests await the upgrade; they await the
  handshake only;
- a refused handshake is taken for a connection (`transport.ts:666`): the status
  is "connected" with a host of another version;
- with two registrations of one method, ending one makes the catch-all refuse
  what the other handles (578): hence the assumption of `RefusedCorrect`;
- a request whose post throws leaves its listener behind.

## The product's chain provider

`ChainProvider` models `product/chain.ts` on a shared subscription. Each client
of the provider has its lists of follows and broadcasts; `entry` is the
transport's shared entry, `source` the follow behind each subscription, `told`
which clients were told that one has stopped. `EventTag` is the host's conversion
of an event (`connectionManager.ts:279-369`) and `JsonRpcEvent` the product's
(`chain.ts:81-139`), a switch whose default is a stop; what an event carries, and
what becomes of runtimes, storage types and results, is left out.

| Code | Model |
| --- | --- |
| `createPapiProvider`, `checkIfReady` | `Connect`, `Checked` |
| `chainHead_v1_follow`, `chainHead_v1_unfollow` | `CallFollow`, `CallUnfollow` with `Subscribe`, `UnsubscribeAll` |
| the host's side of a follow | `SourceStarts`, `SourceEvent` |
| the listener (`transport.ts:428-444`) | `ReceiveFromHost` |
| the other methods (265-450) | `Ask`, `Handled`, `Answered`, `StopBroadcast` |
| `disconnect` (460-486) | `Disconnect` |

`chain_provider` (2 clients, 3 follows, 1 request, 2 messages on the wire) checks
that every listener stays with a client that can end it and no follow of the
node outlives them (`ListenersAreListed`), that broadcasts are stopped with
their client (`BroadcastsStopped`), and that a stop of the node is told to the
client of every listener, and nothing else is told as a stop (`StopsAreTold`).
Three follows are two clients sharing and one that follows twice, or follows
again after a stop. Of the twelve events the run has a stop and two others. It
assumes no fairness.

`Chain_proofs` proves the four for any clients, follows and requests, any of the
twelve events and every bound of the wire: `ProviderTypeCorrect`,
`ListenersListed`, `BroadcastsEnd` and `StopsTold`. The types need that an entry
without listeners is gone (`EntryOpened`). `ListenersInv` adds that every listener
has an owner. `BroadcastsInv` relates the two ends: what runs at the node was
started for a request of a client that was connected when it asked (`Asked`,
`RunningIsStarted`). `HeardInv` says what may be on the wire, nothing of a
subscription that was not opened and no stop of one that runs, since ids are
not used again. `ToldInv` says why a stop arrives: an entry goes deaf only after a
refusal (`InterruptsRefuse`), so that the stop of an open one is on its way or has
come in (`StopComesIn`). That no event is mistaken for a stop is the lemma
`OnlyStopStops`, over the two tables. It is assumed that `None` is neither a
follow nor a client, and that the node's events are those of the table.

Met while modelling: a second follow with the same parameters is given the same
id and overwrites the first in `activeFollows` (`chain.ts:245`), whose listener
no unfollow can reach any more (`overwritten`); a stop of the node leaves the
transport's subscription open, and a client that follows again while any listener
is left joins it and hears nothing (`afterStop`); no `onInterrupt` is registered
(240), so a client is not told that the host refused its follow, against
`connectionManager.ts:168-172`; a broadcast answered after the disconnect runs on
(`late`). The properties exempt these three by name.

## Pairing and the SDK

`HostSdk` models the SSO manager with its stores, the pairing executor, the part
of `sdk.ts` that follows the manager, `authManager.ts` and the identity
resolver. An action is what one asynchronous function does from one await to the
next; its phase is what it awaits.

| Code | Model |
| --- | --- |
| `restoreSession` and the SDK's chain on it | `RestoreLoaded`, `RestoreVerified`, `RestoreCleared`; two builds in one task |
| `pair`, `executePairing`, `runAttestation` | `Pair`, `WalletAnswers`, `AttestationEnds`, `PairFails` |
| the manager's saves after the executor | `SaveMeta`, `SaveSecrets`, `Paired` |
| `cancelPairing`, `unpair` with `clearSession`, `dispose` | `CancelPairing`; `ClearSession`, `UnpairMeta`, `Unpaired`; `Dispose` |
| `setState` and the SDK's subscriber | `BecomePaired`, `BecomeIdle`, `Progress` |
| `buildRemoteSignerAndSetAuth` | `StartBuilds`, `BuildSession`, `FinishBuild` |
| `getIdentity`, `chainProvider.ts` | `IdentityResolved` |
| `embed`, its dispose | `Embed`, `Unembed` |
| a page that is closed or crashes | `Restart`, between any two of these |

Storage calls take effect when made and are answered later, as in both adapters;
writes and clears may fail. `disturbed` holds the sessions that something else
wrote over while they were saved or restored, `overtaken` the builds that were
in flight when what they build was taken back: the code does not order these,
and the properties are about all other cases. A page that was disposed restores
nothing, but the chain on its restore goes on, and builds if it is paired.

`sdk_pairing` (1 product, 2 pairings, 3 builds, 1 clear, 1 restart, 1 failure)
checks `TypeOK`, that there is never a session the SDK does not hold
(`NoLeakedSession`), that a pairing survives a reload (`PairedSurvives`), that
who is shown as signed in is whom the signer signs with (`SignedInCanSign`), and
that whoever is paired is signed in in the end (`PairedSignsIn`). Two pairings
are one that replaces another; three builds are the two of a restored session
and one more that overtakes them. Fairness: storage and the node answer and what
awaited them goes on (`PageStep`); nobody must pair, clear, embed or restart.

`HostSdk_proofs` proves, for any products and all bounds, `TypeCorrect`,
`NoLeakCorrect`, `SurvivesCorrect` and `SignedInCorrect`. `NoLeakedSession` is
inductive by itself. `PairedSurvives` rests on what is known of an attempt
before it is done (`SavedSoFar`: once it has saved the session the store holds
it, once it has saved the secrets, both) and of a restore (`FoundSoFar`), unless
disturbed; the lemma that whoever writes the store disturbs what it held carries
it through every action.

`SignedInCanSign` compares what two results of one build show, who is signed in
and which session signs, and other builds may finish between them. `SignInv` is
about the builds that nothing has overtaken: they are all of one session, that
of the pairing while it is paired (`OneSession`); who is signed in was shown by
a build that is over (`SignedInBy`); the remote session is of the last build to
have come by its secrets, and no standing build with secrets is of another
session (`RemoteIsLast`, `RemoteStands`). The proof sorts the actions by what they do
to the builds: leave them alone, take them back, start one, bring one forward.
Liveness is only model-checked.

Met while modelling: a product embedded before there is a signer never signs
(`sdk.ts:247`); `cancelPairing` leaves `authManager` in "pairing", because
becoming idle resets it only when it was "authenticated" (87);
`resolver.invalidate` during a query would not stop its answer from being kept
(`resolver.ts:41`).

## Remote signing

`RemoteSigning` models a product's call from the handler to the wallet and back.
The session is abstracted to what it promises: a request is handed over and
ACKed; the wallet, at the other end of the same protocol, puts answers into one
batch that grows until it is ACKed and queues what does not fit.

| Code | Model |
| --- | --- |
| `handlers/signing.ts`, the approval gate of `sdk.ts` | `Sign`, `Approved` |
| `signing.ts`, `executeSignRequest` | `DoSign`, `RequestAcked`, `TimesOut` |
| its subscriber | `Surface`: match, ACK the batch, settle |
| rebuilds, `clearSession`, unpairing | `Build`, `ClearSession`, `Unpaired`, with `DisposedCalls` |
| the wallet | `WalletReceives`, `WalletAnswers`, `AckArrives` |

`remote_signing` (2 calls, batches of 2, 2 builds) checks that a call ends with
what the wallet said of that very request (`OwnAnswer`), that the wallet's queue
is stuck only behind an answer that came too late or an ACK that failed
(`StuckByLateOnly`), and that every call ends (`EveryCallEnds`). Two calls share
a batch or one waits for the other's; two builds dispose a session under them.
Fairness: timers fire. Nothing else is needed: the timer outlives the session.

`RemoteSigning_proofs` proves `TypeCorrect`, `StuckCorrect` and
`OwnAnswerCorrect` for any set of calls and all bounds; the invariants
say that the answers in the batch and in the queue are one each of calls the
wallet has answered, and that what was surfaced left no listener it answers.

Met while modelling: a batch whose answers are all late is never ACKed, and
holds up the wallet's queue until something joins it (`StuckByLateOnly` states
the limit); the signer is looked up when the approval comes, not when the call
was made (`sdk.ts:254`).

## The statement store client

`StatementStoreClient` models `client.ts` for one set of topics: `mux` is its
entry in `multiplexes`, `loop` the listeners an event is still to reach (they may
subscribe and unsubscribe meanwhile), `upstream` what the node has still to send.

| Code | Model |
| --- | --- |
| `subscribe` and the function it returns | `Subscribe`, `Unsubscribe` with `Leave` |
| the upstream's `onStatements`, `onError` | `Event`, `CallNext`; `Fails` |
| `query` | `Ask`, `QueryEvent`, `Fails` |
| `submit`, `mapSubmitResponse` | `Submit`, `Answered` |
| `decodeStatements` | `Decoded` |

`store_client` (2 statements, one malformed, 2 subscriptions, 1 query, 2
upstreams, 1 error) checks `UpstreamHasListeners`, `ListenersHearAll` and
`AnswersAreTrue`; the second upstream is the one that is opened while an event
of the first is delivered. No fairness. `StatementStoreClient_proofs` proves all
three and the types, for any statements, subscriptions and bounds.

Met while modelling: the listener is added after the upstream is opened
(`client.ts:205`), so events sent within the subscribe call would be lost; the
node's client sends them in later tasks. A failed upstream stays in
`multiplexes` (192), and whoever joins it hears nothing: `ListenersHearAll` is
about what an upstream was sent.

## The rate limiter

`RateLimiter` models both strategies of `rateLimiter.ts`: `Schedule` with its
outcomes `ExecuteNow`, `Reject`, `Enqueue`; `TimerFires`, `ProcessNext` and
`ProcessEnds` for `processQueue`, step by step because tasks may call the limiter
again; `Destroy`. `executed[a]` is how many tasks were executed in the last
`a + 1` instants, up to one interval.

`rate_limiter` (5 tasks, 1 request per interval of 3, queue of 3) checks that no
interval sees more than two buckets (`RateBounded`), that a queue always has a
timer or a running loop (`QueueServed`), and that what is queued is settled
(`QueuedIsSettled`). Five tasks fill bucket and queue and leave one to be
rejected. Fairness: timers fire and loops go on; time passes between timers,
which are half an interval long (strong fairness of `Tick`, since a loop that
keeps running would disable it).

`Chain_proofs` proves, for every configuration and any number of tasks,
`LimiterTypeCorrect`, with it the bounds of tokens and queue; `ServedCorrect`,
`LimiterSpec => []QueueServed`; and `RateCorrect`, `LimiterSpec => []RateBounded`.
The bound is not inductive. `BucketsInv` is: what was executed since the last
refill came out of the bucket it filled, so it leaves `MaxRequests - tokens`,
and no window reaches back beyond the bucket before. Liveness is only
model-checked.

Met while modelling: a clock that steps back stalls the refills, and an `onDrop`
that throws ends `destroy` half-way; the model has neither.

## What is not proved

Every type invariant, safety invariant, action property and refinement of the
passing runs is proved. What remains with TLC is liveness under fairness, which
the prover cannot reach: `EventuallyResolved`, `ChainRequestAnswered`,
`PairedSignsIn`, `WaitingEnds`, `PostedSettles`, `EveryCallEnds` and
`QueuedIsSettled`.

Two theorems have a hypothesis on an option of their model: `RequestsSurfacedOnce`
(no use of a session before its init is done) and `RefusedCorrect` (one handler of
a method at a time). Each excludes a behaviour of the code that the section of the
module describes, and the run that checks the property makes the same choice.

## What the properties leave out

A property that exempts a case by name, or an instance that has none, does not
show that case to be harmless. Where the code does something that nobody would
want and no text of the repository forbids, the property is about everything else,
and the hazard's note in `PROJECT.json` says so:

| Case | Where | Exempt in |
| --- | --- | --- |
| a session subscribed to before its init is done is handed a request twice | `session.ts:425` | `SurfacedOnce` (`EarlyUse = FALSE`) |
| a statement loses against one that init was not shown | `session.ts:376` | `SubmissionsSupersede` (`unseen`) |
| a response whose application never sends one | `signRequestExecutor.ts:125` | `EventuallyResolved` (fairness of `Respond`), `StuckByLateOnly` |
| a second follow of one client replaces the first in its list | `chain.ts:245` | `ListenersAreListed` (`overwritten`) |
| a broadcast is answered after its client has gone | `chain.ts:432` | `BroadcastsStopped` (`late`) |
| a follow joins a subscription that has stopped | `chain.ts:240` | `StopsAreTold` (`afterStop`) |
| one of two overlapping registrations ends | `transport.ts:578` | `RefusedIsUnheard` (`MaxHandlers = 1`) |
| a save or a restore ends over what was stored, or cleared, meanwhile | `manager.ts:129`, 172 | `PairedSurvives` (`disturbed`) |
| a build ends after what it builds was taken back: nobody disposes its session on a cleared or disposed page | `sdk.ts:81` | `NoLeakedSession`, which counts it as held |
| ... and it shows as signed in | `sdk.ts:175` | `SignedInCanSign` (`overtaken`) |
| a handler or clean-up throws, or its handler is unregistered | `transport.ts:513`, 534 | `NoOrphan`, `ConsumerServed`, `CleanedOnce` (`failed`, `dropped`, `repeatable`) |
| a listener throws | `transport.ts:432` | `EveryListenerReached` (`threw`) |

## Not modelled

- Codecs, hashing, key derivation and ciphers: functions on data. The models
  take from them that ids differ, what SCALE cannot encode and what does not
  decode.
- The product's helpers and the host's other handlers: they forward a call and
  keep nothing. The facade methods that wire one handler each differ only in
  their names; one method stands for them.
- Storage adapters, the nested frames' detector and the webview port: plain input
  and output of the browser.
- The attestation's chain calls: one step that ends, since the pairing only
  waits for it and ignores its outcome.
- Within the modelled parts, what `PROJECT.json` notes per component: several
  subscribers of one session, response codes, eviction from `seenStatements`,
  several registrations of one subscription method, requests and subscriptions
  from the host to the product, fallback providers.
