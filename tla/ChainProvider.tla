---------------------------- MODULE ChainProvider ----------------------------
(***************************************************************************)
(* The JSON-RPC provider of one chain that a product's clients connect to: *)
(* chain.ts of the product package, on the subscriptions of its transport  *)
(* (TransportSubscription) and on a host (ChainConnection), whose own      *)
(* steps are abstracted to what they answer.  All clients share the        *)
(* transport, which shares one subscription among follows with the same    *)
(* parameters; one set of parameters is modelled.                          *)
(*                                                                         *)
(* A client is one connection of the provider.  A follow names the call    *)
(* that made it, with the listener it gave the transport; a request names  *)
(* its call too, and a broadcast the operation it starts.                  *)
(***************************************************************************)
EXTENDS Naturals, Sequences

CONSTANTS
  None,
  Client,
  Follow,        \* calls of chainHead_v1_follow
  Request,       \* calls of the other methods that await an answer
  Event,         \* what the node says of a follow
  MaxWire        \* bound: messages on their way to the product

ASSUME NoneIsApart == None \notin Follow \cup Client
ASSUME BoundIsNat == MaxWire \in Nat

VARIABLES
  provider,    \* provider[c]: what getSyncProvider has for the client
  listed,      \* listed[c]: activeFollows, from the subscription's id
  owner,       \* owner[f]: the client that called it
  overwritten, \* follows that a second one of their client replaced in its list
  entry,       \* the transport's entry in activeSubscriptions
  lastId,
  source,      \* source[i]: the node's follow behind subscription i
  toProduct,
  told,        \* told[c]: subscriptions whose stop the client was sent
  afterStop,   \* follows that joined a subscription when its stop had come in
  request,     \* request[q]
  broadcasts,  \* broadcasts[c]: activeBroadcasts
  node,        \* node[q]: the operation that broadcast q started
  late         \* broadcasts that were answered after their client had gone

followVars == <<listed, owner, overwritten, entry, lastId, source, afterStop>>
requestVars == <<request, broadcasts, node, late>>
vars == <<provider, followVars, toProduct, told, requestVars>>

Id == 1 .. 2
NoEntry == [id |-> 0, listeners |-> {}, dead |-> FALSE]

-----------------------------------------------------------------------------
(* The conversions of a follow's events: connectionManager.ts at the host ... *)

EventTag ==
  [initialized |-> "Initialized", newBlock |-> "NewBlock", bestBlockChanged |-> "BestBlockChanged",
   finalized |-> "Finalized", operationBodyDone |-> "OperationBodyDone",
   operationCallDone |-> "OperationCallDone", operationStorageItems |-> "OperationStorageItems",
   operationStorageDone |-> "OperationStorageDone", operationInaccessible |-> "OperationInaccessible",
   operationWaitingForContinue |-> "OperationWaitingForContinue",
   operationError |-> "OperationError", stop |-> "Stop"]

ASSUME EventsAreKnown == Event \subseteq DOMAIN EventTag
Tag == {EventTag[e] : e \in DOMAIN EventTag}

(* ... and chain.ts at the product, whose default is a stop. *)
MissingCaseFault(tag) == IF tag = "NewBlock" THEN "newBlock" ELSE "stop"
JsonRpcEvent(tag) ==
  CASE tag = "Initialized" -> "initialized"
    [] tag = "NewBlock" -> "newBlock"
    [] tag = "BestBlockChanged" -> "bestBlockChanged"
    [] tag = "Finalized" -> "finalized"
    [] tag = "OperationBodyDone" -> "operationBodyDone"
    [] tag = "OperationCallDone" -> "operationCallDone"
    [] tag = "OperationStorageItems" -> "operationStorageItems"
    [] tag = "OperationStorageDone" -> "operationStorageDone"
    [] tag = "OperationWaitingForContinue" -> "operationWaitingForContinue"
    [] tag = "OperationInaccessible" -> "operationInaccessible"
    [] tag = "OperationError" -> "operationError"
    [] OTHER -> "stop"

-----------------------------------------------------------------------------
TypeOK ==
  /\ provider \in [Client -> {"none", "checking", "typed", "fallback", "refused", "gone"}]
  /\ listed \in [Client -> [Id -> Follow \cup {None}]]
  /\ owner \in [Follow -> Client \cup {None}] /\ overwritten \subseteq Follow
  /\ entry \in [id : Id \cup {0}, listeners : SUBSET Follow, dead : BOOLEAN]
  /\ (entry.id = 0 <=> entry.listeners = {}) /\ lastId \in 0 .. 2
  /\ source \in [Id -> {"none", "starting", "running", "stopped", "refused", "over"}]
  /\ toProduct \in Seq([id : Id, what : Tag \cup {"interrupt"}])
  /\ Len(toProduct) <= MaxWire
  /\ told \in [Client -> SUBSET Id] /\ afterStop \subseteq Follow
  /\ request \in [Request -> [client : Client \cup {None}, kind : {"read", "broadcast"},
                              phase : {"none", "asked", "handled", "answered"},
                              answer : {"none", "result", "noOperation", "error"}]]
  /\ broadcasts \in [Client -> SUBSET Request]
  /\ node \in [Request -> {"none", "running", "stopped"}]
  /\ late \subseteq Request

Init ==
  /\ provider = [c \in Client |-> "none"]
  /\ listed = [c \in Client |-> [i \in Id |-> None]]
  /\ owner = [f \in Follow |-> None] /\ overwritten = {}
  /\ entry = NoEntry /\ lastId = 0 /\ source = [i \in Id |-> "none"]
  /\ toProduct = << >> /\ told = [c \in Client |-> {}] /\ afterStop = {}
  /\ request = [q \in Request |-> [client |-> None, kind |-> "read", phase |-> "none", answer |-> "none"]]
  /\ broadcasts = [c \in Client |-> {}] /\ node = [q \in Request |-> "none"] /\ late = {}

-----------------------------------------------------------------------------
(* createPapiProvider: a client connects; the host is asked whether it has the
   chain; without it, or without a host, there may be a fallback. *)

Connect(c) ==
  /\ provider[c] = "none"
  /\ provider' = [provider EXCEPT ![c] = "checking"]
  /\ UNCHANGED <<followVars, toProduct, told, requestVars>>

Checked(c) ==
  /\ provider[c] = "checking"
  /\ \E p \in {"typed", "fallback", "refused"} : provider' = [provider EXCEPT ![c] = p]
  /\ UNCHANGED <<followVars, toProduct, told, requestVars>>

-----------------------------------------------------------------------------
(* Follows. *)

Post(id, what) ==
  /\ Len(toProduct) < MaxWire
  /\ toProduct' = Append(toProduct, [id |-> id, what |-> what])

(* transport.subscribe: the first opens a subscription, others join it. *)
Subscribe(f) ==
  IF entry = NoEntry
  THEN /\ lastId < 2 /\ lastId' = lastId + 1
       /\ entry' = [id |-> lastId + 1, listeners |-> {f}, dead |-> FALSE]
       /\ source' = [source EXCEPT ![lastId + 1] = "starting"]
  ELSE /\ entry' = [entry EXCEPT !.listeners = @ \cup {f}]
       /\ UNCHANGED <<lastId, source>>

(* Its unsubscribe acts on whatever entry has the key by now; the last listener
   to go stops the subscription, of which the host releases what is left. *)
Remaining(gone) == entry.listeners \ gone

NeverStopsFault(gone) ==
  /\ entry' = [entry EXCEPT !.listeners = Remaining(gone)]
  /\ UNCHANGED source

UnsubscribeAll(gone) ==
  IF entry # NoEntry /\ Remaining(gone) = {}
  THEN /\ entry' = NoEntry
       /\ source' = [source EXCEPT ![entry.id] = "over"]
  ELSE /\ entry' = [entry EXCEPT !.listeners = Remaining(gone)]
       /\ UNCHANGED source

(* Nothing keeps a client from joining a subscription whose stop has come in: the
   client that was told of it, say, which follows again. *)
HasStopped(id) == \E c \in Client : id \in told[c]

CallFollow(c, f) ==
  /\ provider[c] = "typed" /\ owner[f] = None
  /\ owner' = [owner EXCEPT ![f] = c]
  /\ Subscribe(f)
  /\ listed' = [listed EXCEPT ![c][entry'.id] = f]
  /\ overwritten' = overwritten \cup ({listed[c][entry'.id]} \ {None})
  /\ afterStop' = IF HasStopped(entry'.id) THEN afterStop \cup {f} ELSE afterStop
  /\ UNCHANGED <<provider, toProduct, told, requestVars>>

CallUnfollow(c, id) ==
  /\ provider[c] = "typed"
  /\ listed[c][id] # None
  /\ UnsubscribeAll({listed[c][id]})
  /\ listed' = [listed EXCEPT ![c][id] = None]
  /\ UNCHANGED <<provider, owner, overwritten, lastId, afterStop, toProduct, told, requestVars>>

(* The host: it refuses a follow it has no chain for or that the node rejects. *)
SourceStarts(id) ==
  /\ source[id] = "starting"
  /\ \/ /\ source' = [source EXCEPT ![id] = "running"]
        /\ UNCHANGED toProduct
     \/ /\ source' = [source EXCEPT ![id] = "refused"]
        /\ Post(id, "interrupt")
  /\ UNCHANGED <<provider, listed, owner, overwritten, entry, lastId, afterStop, told, requestVars>>

(* A stop ends the node's follow, not the subscription it came over. *)
SourceEvent(id) ==
  /\ source[id] = "running"
  /\ \E e \in Event :
       /\ Post(id, EventTag[e])
       /\ source' = IF e = "stop" THEN [source EXCEPT ![id] = "stopped"] ELSE source
  /\ UNCHANGED <<provider, listed, owner, overwritten, entry, lastId, afterStop, told, requestVars>>

(* Each listener is called, and names the subscription to its client.  An
   interrupt ends the entry without a word to them. *)
ReceiveFromHost ==
  /\ toProduct # << >>
  /\ LET m == Head(toProduct)
         heard == entry.id = m.id /\ ~entry.dead
     IN /\ toProduct' = Tail(toProduct)
        /\ entry' = IF heard /\ m.what = "interrupt" THEN [entry EXCEPT !.dead = TRUE] ELSE entry
        /\ told' = IF heard /\ m.what # "interrupt" /\ JsonRpcEvent(m.what) = "stop"
                   THEN [c \in Client |-> told[c] \cup {m.id : f \in {g \in entry.listeners : owner[g] = c}}]
                   ELSE told
  /\ UNCHANGED <<provider, listed, owner, overwritten, lastId, source, afterStop, requestVars>>

-----------------------------------------------------------------------------
(* Requests. *)

Ask(c, q) ==
  /\ provider[c] = "typed" /\ request[q].phase = "none"
  /\ \E k \in {"read", "broadcast"} :
       request' = [request EXCEPT ![q] = [client |-> c, kind |-> k, phase |-> "asked", answer |-> "none"]]
  /\ UNCHANGED <<provider, followVars, toProduct, told, broadcasts, node, late>>

(* The host has the node's answer, its error, or an error of its own; a node
   at its limit starts no operation. *)
Handled(q) ==
  /\ request[q].phase = "asked"
  /\ \/ /\ request' = [request EXCEPT ![q].phase = "handled", ![q].answer = "result"]
        /\ node' = IF request[q].kind = "broadcast" THEN [node EXCEPT ![q] = "running"] ELSE node
     \/ /\ request[q].kind = "broadcast"
        /\ request' = [request EXCEPT ![q].phase = "handled", ![q].answer = "noOperation"]
        /\ UNCHANGED node
     \/ /\ request' = [request EXCEPT ![q].phase = "handled", ![q].answer = "error"]
        /\ UNCHANGED node
  /\ UNCHANGED <<provider, followVars, toProduct, told, broadcasts, late>>

Started(q) == request[q].kind = "broadcast" /\ request[q].answer = "result"

(* The answer is sent on, and the operation is the client's to stop, also when
   it has gone. *)
Answered(q) ==
  LET c == request[q].client IN
  /\ request[q].phase = "handled"
  /\ request' = [request EXCEPT ![q].phase = "answered"]
  /\ broadcasts' = IF Started(q) THEN [broadcasts EXCEPT ![c] = @ \cup {q}] ELSE broadcasts
  /\ late' = IF Started(q) /\ provider[c] = "gone" THEN late \cup {q} ELSE late
  /\ UNCHANGED <<provider, followVars, toProduct, told, node>>

StoppedAtNode(stopped) == [q \in Request |-> IF q \in stopped THEN "stopped" ELSE node[q]]

(* transaction_v1_stop: forgotten before it is asked for. *)
StopBroadcast(c, q) ==
  /\ provider[c] = "typed" /\ q \in broadcasts[c]
  /\ broadcasts' = [broadcasts EXCEPT ![c] = @ \ {q}]
  /\ node' = StoppedAtNode({q})
  /\ UNCHANGED <<provider, followVars, toProduct, told, request, late>>

-----------------------------------------------------------------------------
FirstFollowOnlyFault(c) == {listed[c][1]} \ {None}
FollowsOf(c) == {listed[c][i] : i \in Id} \ {None}
ForgottenBroadcastsFault(c) == {}
BroadcastsOf(c) == broadcasts[c]

(* disconnect: the follows are unsubscribed, the broadcasts stopped; while the
   host is being asked it only cancels. *)
Disconnect(c) ==
  /\ provider[c] \notin {"none", "gone"}
  /\ provider' = [provider EXCEPT ![c] = "gone"]
  /\ UnsubscribeAll(FollowsOf(c))
  /\ listed' = [listed EXCEPT ![c] = [i \in Id |-> None]]
  /\ node' = StoppedAtNode(BroadcastsOf(c))
  /\ broadcasts' = [broadcasts EXCEPT ![c] = {}]
  /\ UNCHANGED <<owner, overwritten, lastId, afterStop, toProduct, told, request, late>>

Next ==
  \/ \E c \in Client : \/ Connect(c) \/ Checked(c) \/ Disconnect(c)
                       \/ \E f \in Follow : CallFollow(c, f)
                       \/ \E i \in Id : CallUnfollow(c, i)
                       \/ \E q \in Request : Ask(c, q) \/ StopBroadcast(c, q)
  \/ \E i \in Id : SourceStarts(i) \/ SourceEvent(i)
  \/ ReceiveFromHost
  \/ \E q \in Request : Handled(q) \/ Answered(q)

Spec == Init /\ [][Next]_vars

-----------------------------------------------------------------------------
(* Properties. *)

(* Whatever the transport shares, every listener it has is a follow that a
   connected client lists, and so can unfollow, unless the client followed
   again with the same parameters, which is given the same id and takes its
   place in the list; and no follow of the node outlives its last listener. *)
ListenersAreListed ==
  /\ \A f \in entry.listeners \ overwritten :
       owner[f] # None /\ provider[owner[f]] = "typed" /\ listed[owner[f]][entry.id] = f
  /\ \A i \in Id : source[i] \in {"starting", "running"} => entry.id = i

(* What a client started it or its disconnect has stopped, except a broadcast
   that was answered after the disconnect. *)
BroadcastsStopped ==
  \A q \in Request :
    node[q] = "running" /\ request[q].phase = "answered" /\ q \notin late =>
      provider[request[q].client] = "typed" /\ q \in broadcasts[request[q].client]

(* A client is told of a stop only when the node's follow is over; and when the
   node has stopped, every listener's client has been told, or will be by what is
   on its way, unless it joined the shared subscription only after its stop had
   come in: that one hears nothing any more. *)
StopsAreTold ==
  /\ \A c \in Client : \A i \in told[c] : source[i] \notin {"starting", "running"}
  /\ \A f \in entry.listeners \ afterStop :
       source[entry.id] = "stopped" =>
         \/ entry.id \in told[owner[f]]
         \/ \E k \in DOMAIN toProduct : toProduct[k] = [id |-> entry.id, what |-> EventTag["stop"]]

=============================================================================
