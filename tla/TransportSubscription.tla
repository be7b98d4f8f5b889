----------------------- MODULE TransportSubscription -----------------------
(***************************************************************************)
(* Subscriptions over a transport, from both sides of the wire:            *)
(* packages/api-protocol/src/shared/transport/transport.ts, subscribe,     *)
(* handleSubscription and the not-supported catch-all.  The product        *)
(* consumes, the host produces; one subscription method with several       *)
(* payloads (Key).  The wire is a message port: a FIFO channel each way.   *)
(*                                                                         *)
(* Abstractions.  A listener is the Caller that passed it, and a caller    *)
(* holds one subscription object at a time; the listeners of an entry are  *)
(* called in any order; values are not told apart; the handshake is over.  *)
(* JavaScript runs a dispatch to its end, so while one is under way        *)
(* (calling) nothing else arrives, but what is called may subscribe and    *)
(* unsubscribe; the same for a clean-up (stopping).                        *)
(***************************************************************************)
EXTENDS Integers, Sequences, FiniteSets

CONSTANTS
  Caller,            \* the product's components: one callback each
  Key,               \* method and payload, as getSubscriptionKey tells them apart
  MaxId,             \* bound: subscriptions opened on the wire
  MaxSends,          \* bound: values sent
  MaxThrows,         \* bound: handlers and clean-ups that throw
  MayDestroy,        \* the transports may be destroyed
  ReentrantCleanup,  \* a clean-up may call interrupt()
  None

ASSUME BoundsAreNat == {MaxId, MaxSends, MaxThrows} \subseteq Nat
ASSUME OptionsAreBoolean == {MayDestroy, ReentrantCleanup} \subseteq BOOLEAN

Id == 1 .. MaxId

Tag == {"start", "stop", "receive", "interrupt"}
Message == [tag : Tag, id : Id]

(* An entry of activeSubscriptions; the key is that of the map. *)
Entry == [id : Id, listeners : SUBSET Caller]

(* The Subscription object a caller holds; told: its onInterrupt was called. *)
Handle == [key : Key, id : Id, told : BOOLEAN]

(* A value being handed out: rest is what is left of the loop over the array
   of listeners, attached says that array is still the entry's own, so that a
   listener pushed now is reached too, and threw that a listener ended the loop.
   due (held the subscription when the value came, and still does) and called
   are there for the properties. *)
Dispatch == [id : Id, key : Key, rest : SUBSET Caller, attached : BOOLEAN,
             threw : BOOLEAN, due : SUBSET Caller, called : SUBSET Caller]

(* The key of an id, and the caller that opened it. *)
Origin == [key : Key, creator : Caller]

ASSUME NoneIsNothing == None \notin Entry \cup Handle \cup Dispatch \cup Origin \cup Id

VARIABLES
  active,       \* active[k]: activeSubscriptions.get(k)
  wire,         \* wire[i]: the consumer's end; its listeners are on while "open"
  origin,       \* origin[i]: the key of i and the caller that opened it
  lastId,       \* nextId()
  handle,       \* handle[c]: the object caller c holds, until it unsubscribes
  calling,      \* the dispatch under way
  productUp,    \* not destroyed
  registered,   \* handleSubscription is in force
  producer,     \* producer[i]: "running" while subscriptions.has(i)
  interrupted,  \* ids whose handler has called interrupt()
  cleanups,     \* cleanups[i]: how often the clean-up of i was run
  stopping,     \* the id whose clean-up is running for a stop
  hostUp,       \* not destroyed
  sends,        \* used budget of MaxSends
  failed,       \* ids whose handler or clean-up threw
  dropped,      \* ids cleaned up because the handler was unregistered
  repeatable,   \* ids whose clean-up called interrupt() while the map held it, or
                \* that a clean-up which threw left there
  toHost, toProduct

consumerVars == <<active, wire, origin, lastId, handle, calling, productUp>>
producerVars == <<registered, producer, interrupted, cleanups, stopping, hostUp,
                  sends, failed, dropped, repeatable>>
vars == <<consumerVars, producerVars, toHost, toProduct>>

TypeOK ==
  /\ active \in [Key -> Entry \cup {None}]
  /\ \A k \in Key : active[k] # None => active[k].listeners # {}
  /\ wire \in [Id -> {"new", "open", "left", "interrupted"}]
  /\ origin \in [Id -> Origin \cup {None}]
  /\ lastId \in 0 .. MaxId
  /\ handle \in [Caller -> Handle \cup {None}]
  /\ calling \in Dispatch \cup {None}
  /\ productUp \in BOOLEAN /\ registered \in BOOLEAN /\ hostUp \in BOOLEAN
  /\ producer \in [Id -> {"new", "running", "over", "refused"}]
  /\ interrupted \subseteq Id /\ failed \subseteq Id /\ dropped \subseteq Id
  /\ repeatable \subseteq Id
  /\ cleanups \in [Id -> Nat]
  /\ stopping \in Id \cup {None}
  /\ sends \in Nat
  /\ toHost \in Seq(Message) /\ toProduct \in Seq(Message)

Init ==
  /\ active = [k \in Key |-> None]
  /\ wire = [i \in Id |-> "new"] /\ origin = [i \in Id |-> None] /\ lastId = 0
  /\ handle = [c \in Caller |-> None]
  /\ calling = None /\ stopping = None
  /\ productUp = TRUE /\ hostUp = TRUE /\ registered = FALSE
  /\ producer = [i \in Id |-> "new"] /\ cleanups = [i \in Id |-> 0]
  /\ interrupted = {} /\ failed = {} /\ dropped = {} /\ sends = 0
  /\ repeatable = {}
  /\ toHost = << >> /\ toProduct = << >>

-----------------------------------------------------------------------------
(* Posting throws on a destroyed transport; nobody reads a destroyed one. *)

PostToHost(tag, i) ==
  toHost' = IF productUp /\ hostUp THEN Append(toHost, [tag |-> tag, id |-> i])
                                   ELSE toHost
PostToProduct(tag, i) ==
  toProduct' = IF productUp /\ hostUp THEN Append(toProduct, [tag |-> tag, id |-> i])
                                      ELSE toProduct

Arrives(channel, tag) == channel # << >> /\ Head(channel).tag = tag

-----------------------------------------------------------------------------
(* The consumer: subscribe. *)

MaySubscribe(c) == productUp /\ (handle[c] # None => handle[c].told)

(* The first caller of a key opens it on the wire ... *)
Open(c, k) ==
  LET i == lastId + 1 IN
  /\ MaySubscribe(c) /\ active[k] = None /\ lastId < MaxId
  /\ lastId' = i
  /\ active' = [active EXCEPT ![k] = [id |-> i, listeners |-> {c}]]
  /\ wire' = [wire EXCEPT ![i] = "open"]
  /\ origin' = [origin EXCEPT ![i] = [key |-> k, creator |-> c]]
  /\ handle' = [handle EXCEPT ![c] = [key |-> k, id |-> i, told |-> FALSE]]
  /\ PostToHost("start", i)
  /\ UNCHANGED <<calling, productUp, producerVars, toProduct>>

(* ... any other shares it, dead or alive, without a look at the wire. *)
Join(c, k) ==
  /\ MaySubscribe(c) /\ active[k] # None
  /\ active' = [active EXCEPT ![k].listeners = @ \cup {c}]
  /\ handle' = [handle EXCEPT ![c] = [key |-> k, id |-> active[k].id, told |-> FALSE]]
  /\ calling' = IF calling # None /\ calling.key = k /\ calling.attached
                THEN [calling EXCEPT !.rest = @ \cup {c}] ELSE calling
  /\ UNCHANGED <<wire, origin, lastId, productUp, producerVars, toHost, toProduct>>

(* unsubscribe: the array of listeners is replaced, so a dispatch under way
   goes on with the old one.  The last to leave kills the subscription. *)
(* Faulty variants of definitions are named *Fault; no action uses them, each
   stands for a slip that one of the properties must notice. *)
Remaining(c, k) == active[k].listeners \ {c}

Kill(i) == [wire EXCEPT ![i] = IF @ = "open" THEN "left" ELSE @]

SplicedFault(c, k) ==
  IF calling = None \/ calling.key # k THEN calling
  ELSE [calling EXCEPT !.rest = @ \ {CHOOSE l \in Caller : l # c},
                       !.attached = FALSE, !.due = @ \ {c}]

(* What an unsubscription of c from k does to the dispatch under way. *)
Detached(c, k) ==
  IF calling = None \/ calling.key # k THEN calling
  ELSE [calling EXCEPT !.attached = FALSE, !.due = @ \ {c}]

LastToLeave(c, k) == Remaining(c, k) = {}

SilentKillFault(c, k) == toHost' = toHost
PostStop(c, k) ==
  IF LastToLeave(c, k) THEN PostToHost("stop", active[k].id) ELSE UNCHANGED toHost

Unsubscribe(c) ==
  LET k == handle[c].key IN
  /\ handle[c] # None
  /\ handle' = [handle EXCEPT ![c] = None]
  /\ active' = [active EXCEPT ![k] = IF LastToLeave(c, k) THEN None
                                     ELSE [@ EXCEPT !.listeners = Remaining(c, k)]]
  /\ wire' = IF LastToLeave(c, k) THEN Kill(active[k].id) ELSE wire
  /\ PostStop(c, k)
  /\ calling' = Detached(c, k)
  /\ UNCHANGED <<origin, lastId, productUp, producerVars, toProduct>>

-----------------------------------------------------------------------------
(* The consumer: what arrives. *)

(* The listener of a killed subscription stays on the wire. *)
Listening(i) == wire[i] = "open"

Sharing(i) == {c \in Caller : handle[c] # None /\ handle[c].id = i}

(* A value: the entry is looked up by its key, not by the id, and its first
   listener is called at once. *)
Receive ==
  LET i == Head(toProduct).id
      ls == active[origin[i].key].listeners
  IN
  /\ Arrives(toProduct, "receive") /\ calling = None
  /\ IF Listening(i)
     THEN \E c \in ls :
            calling' = [id |-> i, key |-> origin[i].key, rest |-> ls \ {c},
                        attached |-> TRUE, threw |-> FALSE,
                        due |-> Sharing(i), called |-> {c}]
     ELSE UNCHANGED calling
  /\ toProduct' = Tail(toProduct)
  /\ UNCHANGED <<active, wire, origin, lastId, handle, productUp, producerVars, toHost>>

CallNext ==
  /\ calling # None
  /\ \E c \in calling.rest :
       calling' = [calling EXCEPT !.rest = @ \ {c}, !.called = @ \cup {c}]
  /\ UNCHANGED <<active, wire, origin, lastId, handle, productUp, producerVars,
                 toHost, toProduct>>

(* A listener that throws ends the loop: nobody after it is called ... *)
ListenerThrows ==
  /\ calling # None /\ ~calling.threw
  /\ calling' = [calling EXCEPT !.rest = {}, !.attached = FALSE, !.threw = TRUE]
  /\ UNCHANGED <<active, wire, origin, lastId, handle, productUp, producerVars,
                 toHost, toProduct>>

(* ... and listenMessages swallows the error. *)
EndDispatch ==
  /\ calling # None /\ calling.rest = {}
  /\ calling' = None
  /\ UNCHANGED <<active, wire, origin, lastId, handle, productUp, producerVars,
                 toHost, toProduct>>

(* An interrupt: the caller that opened the subscription is told, the wire's
   listeners go, the entry of activeSubscriptions stays. *)
Interrupted ==
  LET i == Head(toProduct).id
      c == origin[i].creator
  IN
  /\ Arrives(toProduct, "interrupt") /\ calling = None
  /\ toProduct' = Tail(toProduct)
  /\ wire' = [wire EXCEPT ![i] = IF @ = "open" THEN "interrupted" ELSE @]
  /\ handle' = IF wire[i] = "open" /\ handle[c] # None /\ handle[c].id = i
               THEN [handle EXCEPT ![c].told = TRUE] ELSE handle
  /\ UNCHANGED <<active, origin, lastId, calling, productUp, producerVars, toHost>>

(* destroy() on the product's side. *)
DestroyProduct ==
  /\ MayDestroy /\ productUp
  /\ productUp' = FALSE
  /\ wire' = [i \in Id |-> IF wire[i] = "open" THEN "left" ELSE wire[i]]
  /\ toProduct' = << >>
  /\ UNCHANGED <<active, origin, lastId, handle, calling, producerVars, toHost>>

-----------------------------------------------------------------------------
(* The producer: handleSubscription. *)

Register ==
  /\ hostUp /\ ~registered
  /\ registered' = TRUE
  /\ UNCHANGED <<consumerVars, producer, interrupted, cleanups, stopping, hostUp,
                 sends, failed, dropped, repeatable, toHost, toProduct>>

Running == {i \in Id : producer[i] = "running"}

MayThrow(i) == i \notin failed /\ Cardinality(failed) < MaxThrows

(* The handler that the facade wires: a version or a payload it does not know is
   interrupted before it returns. *)
InterruptAtOnce(i) ==
  /\ producer[i] # "running"
  /\ producer' = [producer EXCEPT ![i] = "over"]
  /\ interrupted' = interrupted \cup {i}
  /\ cleanups' = [cleanups EXCEPT ![i] = @ + 1]
  /\ PostToProduct("interrupt", i)
  /\ UNCHANGED failed

(* start, with a handler: it may call interrupt() before it returns; then its
   clean-up is run as soon as it has.  If it throws, listenMessages swallows the
   error: nothing is stored and nothing posted. *)
HandleStart ==
  LET i == Head(toHost).id IN
  /\ Arrives(toHost, "start") /\ registered /\ stopping = None
  /\ toHost' = Tail(toHost)
  /\ \/ /\ producer' = [producer EXCEPT ![i] = "running"]
        /\ UNCHANGED <<interrupted, cleanups, failed, toProduct>>
     \/ InterruptAtOnce(i)
     \/ /\ producer[i] # "running" /\ MayThrow(i)
        /\ producer' = [producer EXCEPT ![i] = "over"]
        /\ failed' = failed \cup {i}
        /\ UNCHANGED <<interrupted, cleanups, toProduct>>
  /\ UNCHANGED <<consumerVars, registered, stopping, hostUp, sends, dropped, repeatable>>

SilentCatchAllFault(i) == UNCHANGED toProduct
CatchAll(i) == PostToProduct("interrupt", i)

(* start, without one: the catch-all answers. *)
RefuseStart ==
  LET i == Head(toHost).id IN
  /\ Arrives(toHost, "start") /\ ~registered /\ stopping = None
  /\ toHost' = Tail(toHost)
  /\ producer' = [producer EXCEPT ![i] = "refused"]
  /\ CatchAll(i)
  /\ UNCHANGED <<consumerVars, registered, interrupted, cleanups, stopping, hostUp,
                 sends, failed, dropped, repeatable>>

(* Nothing keeps a handler from sending after its end. *)
Send(i) ==
  /\ producer[i] \in {"running", "over"} /\ hostUp /\ productUp
  /\ sends < MaxSends
  /\ sends' = sends + 1
  /\ PostToProduct("receive", i)
  /\ UNCHANGED <<consumerVars, registered, producer, interrupted, cleanups, stopping,
                 hostUp, failed, dropped, repeatable, toHost>>

(* A clean-up is run of which the transport forgets nothing. *)
NotDeletedFault(i) == producer
(* The producer's map once i is deleted. *)
Deleted(i) == [producer EXCEPT ![i] = IF @ = "running" THEN "over" ELSE @]

(* interrupt(), called after the handler returned: nothing the second time.
   A clean-up that throws keeps the interrupt from being posted.  The clean-up
   of a stop finds itself in the map still: interrupt() runs it again. *)
Interrupt(i) ==
  /\ producer[i] \in {"running", "over"} /\ i \notin interrupted
  /\ stopping = None \/ (stopping = i /\ ReentrantCleanup)
  /\ interrupted' = interrupted \cup {i}
  /\ producer' = Deleted(i)
  /\ cleanups' = [cleanups EXCEPT ![i] = IF producer[i] = "running" THEN @ + 1 ELSE @]
  /\ repeatable' = IF stopping = i /\ producer[i] = "running" THEN repeatable \cup {i} ELSE repeatable
  /\ \/ PostToProduct("interrupt", i) /\ UNCHANGED failed
     \/ /\ producer[i] = "running" /\ MayThrow(i)
        /\ failed' = failed \cup {i}
        /\ UNCHANGED toProduct
  /\ UNCHANGED <<consumerVars, registered, stopping, hostUp, sends, dropped, toHost>>

(* stop: the clean-up is called first, then the entry deleted. *)
HandleStop ==
  LET i == Head(toHost).id IN
  /\ Arrives(toHost, "stop") /\ stopping = None
  /\ toHost' = Tail(toHost)
  /\ IF registered /\ producer[i] = "running"
     THEN stopping' = i /\ cleanups' = [cleanups EXCEPT ![i] = @ + 1]
     ELSE UNCHANGED <<stopping, cleanups>>
  /\ UNCHANGED <<consumerVars, registered, producer, interrupted, hostUp, sends,
                 failed, dropped, repeatable, toProduct>>

EndStop ==
  /\ stopping # None
  /\ stopping' = None
  /\ \/ producer' = Deleted(stopping) /\ UNCHANGED <<failed, repeatable>>
     \/ /\ MayThrow(stopping)
        /\ failed' = failed \cup {stopping} /\ repeatable' = repeatable \cup {stopping}
        /\ UNCHANGED producer
  /\ UNCHANGED <<consumerVars, registered, interrupted, cleanups, hostUp, sends,
                 dropped, toHost, toProduct>>

(* Which of the clean-ups that are run call interrupt(): at most one (bound). *)
Reentering(S) == {{}} \cup {{i} : i \in IF ReentrantCleanup THEN S \ interrupted ELSE {}}

CleanedUp(S, R) ==
  [i \in Id |-> cleanups[i] + (IF i \in R THEN 2 ELSE IF i \in S THEN 1 ELSE 0)]

Ended(S) == [i \in Id |-> IF i \in S THEN "over" ELSE producer[i]]

(* The function handleSubscription returns: the clean-ups S are run in a loop
   over the map, R of them twice.  A clean-up that throws ends the loop before
   the map is cleared and the listeners are removed. *)
Unregister ==
  /\ registered /\ stopping = None
  /\ \E S \in SUBSET Running : \E R \in Reentering(S) :
       /\ cleanups' = CleanedUp(S, R)
       /\ interrupted' = interrupted \cup R
       /\ IF R = {} THEN UNCHANGED toProduct ELSE \E i \in R : PostToProduct("interrupt", i)
       /\ \/ /\ S = Running /\ registered' = FALSE
             /\ producer' = Ended(S)
             /\ dropped' = dropped \cup (S \ R) /\ repeatable' = repeatable \cup R
             /\ UNCHANGED failed
          \/ \E i \in S \ R :
               /\ MayThrow(i)
               /\ failed' = failed \cup {i} /\ repeatable' = repeatable \cup S
               /\ producer' = Ended(R)
               /\ UNCHANGED <<registered, dropped>>
  /\ UNCHANGED <<consumerVars, stopping, hostUp, sends, toHost>>

(* destroy() on the host's side; the handlers stay registered. *)
DestroyHost ==
  /\ MayDestroy /\ hostUp
  /\ hostUp' = FALSE
  /\ toHost' = << >>
  /\ UNCHANGED <<consumerVars, registered, producer, interrupted, cleanups, stopping,
                 sends, failed, dropped, repeatable, toProduct>>

-----------------------------------------------------------------------------
Next ==
  \/ \E c \in Caller : Unsubscribe(c) \/ \E k \in Key : Open(c, k) \/ Join(c, k)
  \/ Receive \/ CallNext \/ ListenerThrows \/ EndDispatch \/ Interrupted
  \/ DestroyProduct \/ DestroyHost
  \/ Register \/ HandleStart \/ RefuseStart \/ HandleStop \/ EndStop \/ Unregister
  \/ \E i \in Id : Send(i) \/ Interrupt(i)

Spec == Init /\ [][Next]_vars

-----------------------------------------------------------------------------
(* Properties. *)

InFlight(channel, tag, i) ==
  \E n \in DOMAIN channel : channel[n].tag = tag /\ channel[n].id = i

(* No producer runs for a consumer that has left, unless the stop is still on
   its way: however stop, interrupt, start and unregister cross. *)
NoOrphan ==
  \A i \in Running :
    productUp /\ hostUp /\ i \notin failed =>
      Listening(i) \/ InFlight(toHost, "stop", i) \/ stopping = i

(* No consumer waits for a producer that will never come: it is about to be
   started, running, or the interrupt is on its way.  Unregistering the handler
   and a handler or clean-up that throws are the two ways to be forgotten. *)
ConsumerServed ==
  \A i \in Id :
    hostUp /\ Listening(i) =>
      \/ InFlight(toHost, "start", i) \/ producer[i] = "running"
      \/ InFlight(toProduct, "interrupt", i)
      \/ i \in dropped \cup failed

(* "The transport guarantees the cleanup runs exactly once" (transport.ts:127):
   so it does however stop, interrupt and unregistration cross, but not for a
   clean-up that calls interrupt() while the map still holds it, nor for one that
   a clean-up which threw left in the map.  The first of these runs twice. *)
CleanedOnce ==
  \A i \in Id :
    IF i \in repeatable
    THEN failed = {} => producer[i] = "over" /\ cleanups[i] = 2
    ELSE /\ cleanups[i] <= 1
         /\ producer[i] = "over" /\ i \notin failed => cleanups[i] = 1
         /\ producer[i] # "over" => (cleanups[i] = 1 <=> stopping = i)

(* What the wire may carry, whatever crosses what.  It is the inductive
   strengthening of NoOrphan, ConsumerServed and CleanedOnce: a start is the
   first message of its subscription and finds a producer that is new; a stop
   is sent, an interrupt posted and a clean-up run only once the end that sends
   it is through; an id not yet handed out is nowhere. *)
Ordered(channel) ==
  \A n, m \in DOMAIN channel :
    n < m /\ channel[m].tag = "start" => channel[n].id # channel[m].id

StartSound(i) ==
  InFlight(toHost, "start", i) =>
    /\ producer[i] = "new"
    /\ productUp => Listening(i) \/ InFlight(toHost, "stop", i)

Unborn(i) ==
  i > lastId => /\ wire[i] = "new" /\ producer[i] = "new"
                /\ \A tag \in Tag : ~InFlight(toHost, tag, i)

EntriesBorn == \A k \in Key : active[k] # None => active[k].id <= lastId

EndsSound(i) ==
  /\ i <= lastId => wire[i] # "new"
  /\ Listening(i) => productUp /\ ~InFlight(toHost, "stop", i) /\ stopping # i
  /\ InFlight(toProduct, "interrupt", i) \/ wire[i] = "interrupted" =>
       producer[i] \in {"over", "refused"}
  /\ stopping = i => producer[i] \in {"running", "over"}

WireInv ==
  /\ Ordered(toHost)
  /\ \A i \in Id : StartSound(i) /\ Unborn(i) /\ EndsSound(i)
  /\ ~registered => Running = {}
  /\ ~hostUp => toHost = << >>
  /\ EntriesBorn /\ NoOrphan /\ ConsumerServed

(* A subscription that is on the wire is the one its callers share: what a
   dispatch of its values reaches are the listeners of that id, not those of
   a later subscription with the same key. *)
WireIsShared ==
  /\ \A i \in Id : Listening(i) =>
       origin[i] # None /\ active[origin[i].key] # None /\ active[origin[i].key].id = i
  /\ calling # None /\ calling.attached =>
       active[calling.key] # None /\ active[calling.key].id = calling.id

(* A value goes to those who hold the subscription it was sent for, also when
   its key was subscribed anew; and a loop that no listener ends by throwing has
   called all of them that have not left, whatever they subscribe and
   unsubscribe within it. *)
EveryListenerReached ==
  [][/\ calling = None /\ calling' # None =>
          calling'.called \cup calling'.rest \subseteq Sharing(calling'.id)
     /\ calling # None /\ calling' = None =>
          calling.threw \/ calling.due \subseteq calling.called]_vars

(* The object a caller holds is that of the subscription it is listed under:
   its unsubscribe acts on no other. *)
HandlesListed ==
  \A c \in Caller : handle[c] # None =>
    LET e == active[handle[c].key] IN
    e # None /\ e.id = handle[c].id /\ c \in e.listeners

(* What EveryListenerReached rests on: an entry is listed under the key of its
   id, who is listed under an open subscription holds it, and a caller told of an
   interrupt holds one that is not open. *)
EntryKeys ==
  \A k \in Key : active[k] # None =>
    origin[active[k].id] # None /\ origin[active[k].id].key = k

ListenersHold ==
  \A k \in Key : active[k] # None /\ Listening(active[k].id) =>
    active[k].listeners \subseteq Sharing(active[k].id)

ToldAreOver == \A c \in Caller : handle[c] # None /\ handle[c].told => ~Listening(handle[c].id)

DispatchSound ==
  calling # None => calling.threw \/ calling.due \subseteq calling.called \cup calling.rest

(* The two ends of every subscription follow the abstract life cycle. *)
Lifecycle == INSTANCE SubscriptionLifecycle WITH consumer <- wire
ImplementsLifecycle == Lifecycle!Spec

=============================================================================
