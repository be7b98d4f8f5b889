----------------------------- MODULE Chain_proofs -----------------------------
(***************************************************************************)
(* Theorems about two components on a product's way to a chain: the        *)
(* provider that its clients connect to, and the rate limiter.  They share *)
(* no state: the specifications stand side by side, each with its own      *)
(* inductive invariant.                                                    *)
(*                                                                         *)
(* ChainProvider, for all sets of clients, follows and requests, and every *)
(* bound of the wire: the types, that every listener is one that a client  *)
(* can end, that broadcasts end with their client, and that a stop of the  *)
(* node is told to whoever listens, and no other one is.                   *)
(*                                                                         *)
(* RateLimiter, for every configuration and every number of tasks: the     *)
(* types, which bound the tokens and the queue, that no interval sees more *)
(* than two buckets spent, and that a queue is never left without a timer. *)
(***************************************************************************)
EXTENDS ChainProvider, RateLimiter, TLAPS

-----------------------------------------------------------------------------
(* The provider.  Its types need to know that an entry names a subscription
   that was opened, and has a listener; the listeners' own property, that each
   of them was called for by a client. *)
EntryOpened ==
  /\ entry.id <= lastId
  /\ entry.listeners = {} => entry = NoEntry
Types == TypeOK /\ EntryOpened

ListenersOwned == \A f \in entry.listeners : owner[f] \in Client
ListenersInv == ListenersOwned /\ ListenersAreListed

(* What an operation at the node is: a broadcast of a client that was connected,
   and that was told of it once the answer came. *)
Asked ==
  \A q \in Request : request[q].phase # "none" =>
    request[q].client \in Client /\ provider[request[q].client] \in {"typed", "gone"}
RunningIsStarted ==
  \A q \in Request : node[q] = "running" =>
    Started(q) /\ request[q].phase \in {"handled", "answered"}
BroadcastsInv == Asked /\ RunningIsStarted /\ BroadcastsStopped

(* What is said, and was said, of a subscription: nothing of one that was not
   opened yet, and no stop of one that runs. *)
Runs(i) == source[i] \in {"starting", "running"}
SaidOfOpened ==
  /\ \A k \in DOMAIN toProduct : toProduct[k].id <= lastId
  /\ \A c \in Client : \A i \in told[c] : i <= lastId
StopsAreTrue ==
  /\ \A k \in DOMAIN toProduct : toProduct[k].what = "Stop" => ~Runs(toProduct[k].id)
  /\ \A c \in Client : \A i \in told[c] : ~Runs(i)
HeardInv == SaidOfOpened /\ StopsAreTrue

(* Why a stop reaches the listeners: an entry is dead only after a refusal, so
   that one whose node has stopped hears what comes; and the stop of an open one
   is on its way or has come in. *)
InterruptsRefuse ==
  /\ \A k \in DOMAIN toProduct :
       toProduct[k].what = "interrupt" => source[toProduct[k].id] \in {"refused", "over"}
  /\ entry.id # 0 => source[entry.id] # "over"
  /\ entry.dead => entry.id # 0 /\ source[entry.id] = "refused"
Comes(i) == \E k \in DOMAIN toProduct : toProduct[k] = [id |-> i, what |-> EventTag["stop"]]
StopComesIn == entry.id # 0 /\ source[entry.id] = "stopped" => HasStopped(entry.id) \/ Comes(entry.id)
ListenersTold ==
  \A f \in entry.listeners \ afterStop :
    source[entry.id] = "stopped" => entry.id \in told[owner[f]] \/ Comes(entry.id)
ToldInv == InterruptsRefuse /\ StopComesIn /\ ListenersTold

EntryState == [id : Id \cup {0}, listeners : SUBSET Follow, dead : BOOLEAN]
SourceState == {"none", "starting", "running", "stopped", "refused", "over"}
Message == [id : Id, what : Tag \cup {"interrupt"}]
RequestState ==
  [client : Client \cup {None}, kind : {"read", "broadcast"},
   phase : {"none", "asked", "handled", "answered"},
   answer : {"none", "result", "noOperation", "error"}]

(* TypeOK in the groups in which the actions change variables. *)
FollowTypes ==
  /\ listed \in [Client -> [Id -> Follow \cup {None}]]
  /\ owner \in [Follow -> Client \cup {None}] /\ overwritten \subseteq Follow
  /\ afterStop \subseteq Follow
EntryTypes ==
  /\ entry \in EntryState /\ (entry.id = 0 <=> entry.listeners = {})
  /\ lastId \in 0 .. 2 /\ EntryOpened
  /\ source \in [Id -> SourceState]
WireTypes == toProduct \in Seq(Message) /\ Len(toProduct) <= MaxWire /\ told \in [Client -> SUBSET Id]
RequestTypes ==
  /\ request \in [Request -> RequestState]
  /\ broadcasts \in [Client -> SUBSET Request]
  /\ node \in [Request -> {"none", "running", "stopped"}] /\ late \subseteq Request
ProviderTypes == provider \in [Client -> {"none", "checking", "typed", "fallback", "refused", "gone"}]

LEMMA TypesAreGroups == Types <=> ProviderTypes /\ FollowTypes /\ EntryTypes /\ WireTypes /\ RequestTypes
BY DEF Types, TypeOK, ProviderTypes, FollowTypes, EntryTypes, WireTypes, RequestTypes, EntryState,
       SourceState, Message, RequestState

LEMMA GroupsNext == ProviderTypes' /\ FollowTypes' /\ EntryTypes' /\ WireTypes' /\ RequestTypes' => Types'
BY DEF Types, TypeOK, ProviderTypes, FollowTypes, EntryTypes, WireTypes, RequestTypes, EntryState,
       SourceState, Message, RequestState

LEMMA ProviderTypesInit == Init => Types
<1> SUFFICES ASSUME Init PROVE ProviderTypes /\ FollowTypes /\ EntryTypes /\ WireTypes /\ RequestTypes
  BY TypesAreGroups
<1>1. ProviderTypes /\ FollowTypes
  BY DEF Init, ProviderTypes, FollowTypes
<1>2. entry \in EntryState
  <2>1. NoEntry \in EntryState
    BY Zenon DEF NoEntry, EntryState
  <2>2. QED BY <2>1 DEF Init
<1>3. EntryTypes
  BY <1>2 DEF Init, NoEntry, EntryTypes, EntryOpened, SourceState
<1>4. WireTypes
  BY BoundIsNat DEF Init, WireTypes
<1>5. RequestTypes
  BY DEF Init, RequestTypes, RequestState
<1>6. QED BY <1>1, <1>3, <1>4, <1>5

-----------------------------------------------------------------------------
(* The conversions. *)

LEMMA EventTags ==
  /\ \A e \in Event : EventTag[e] \in Tag
  /\ \A e \in Event : EventTag[e] = "Stop" <=> e = "stop"
  /\ EventTag["stop"] = "Stop" /\ "interrupt" \notin Tag /\ "interrupt" # "Stop"
<1>1. DOMAIN EventTag = {"initialized", "newBlock", "bestBlockChanged", "finalized", "operationBodyDone",
                         "operationCallDone", "operationStorageItems", "operationStorageDone",
                         "operationInaccessible", "operationWaitingForContinue", "operationError", "stop"}
  BY DEF EventTag
<1>2. /\ EventTag["initialized"] = "Initialized" /\ EventTag["newBlock"] = "NewBlock"
      /\ EventTag["bestBlockChanged"] = "BestBlockChanged" /\ EventTag["finalized"] = "Finalized"
      /\ EventTag["operationBodyDone"] = "OperationBodyDone"
      /\ EventTag["operationCallDone"] = "OperationCallDone"
      /\ EventTag["operationStorageItems"] = "OperationStorageItems"
      /\ EventTag["operationStorageDone"] = "OperationStorageDone"
      /\ EventTag["operationInaccessible"] = "OperationInaccessible"
      /\ EventTag["operationWaitingForContinue"] = "OperationWaitingForContinue"
      /\ EventTag["operationError"] = "OperationError" /\ EventTag["stop"] = "Stop"
  BY DEF EventTag
<1>3. QED BY <1>1, <1>2, EventsAreKnown DEF Tag

(* The product takes a tag for a stop only if it is the stop's: no event of the
   node falls through to the default of the switch. *)
LEMMA OnlyStopStops ==
  ASSUME NEW tag \in Tag
  PROVE  JsonRpcEvent(tag) = "stop" <=> tag = "Stop"
<1>1. tag \in {"Initialized", "NewBlock", "BestBlockChanged", "Finalized", "OperationBodyDone",
              "OperationCallDone", "OperationStorageItems", "OperationStorageDone",
              "OperationInaccessible", "OperationWaitingForContinue", "OperationError", "Stop"}
  BY DEF Tag, EventTag
<1>2. QED BY <1>1 DEF JsonRpcEvent

-----------------------------------------------------------------------------
(* The transport's entry, which all clients share. *)

LEMMA SubscribeTypes ==
  ASSUME EntryTypes, NEW f \in Follow, Subscribe(f)
  PROVE  EntryTypes' /\ entry'.id \in Id /\ f \in entry'.listeners
<1>1. CASE entry = NoEntry
  <2>1. entry' = [id |-> lastId + 1, listeners |-> {f}, dead |-> FALSE] /\ lastId' = lastId + 1
        /\ lastId + 1 \in Id /\ source' = [source EXCEPT ![lastId + 1] = "starting"]
    BY <1>1 DEF Subscribe, EntryTypes, Id
  <2>2. entry'.id = lastId + 1 /\ entry'.listeners = {f} /\ entry' \in EntryState
    BY <2>1, Zenon DEF EntryState
  <2>3. QED BY <2>1, <2>2 DEF EntryTypes, EntryOpened, SourceState, Id
<1>2. CASE entry # NoEntry
  <2>1. entry' = [entry EXCEPT !.listeners = @ \cup {f}] /\ UNCHANGED <<lastId, source>>
    BY <1>2 DEF Subscribe
  <2>2. entry' \in EntryState /\ entry'.id = entry.id /\ entry'.listeners = entry.listeners \cup {f}
    BY <2>1 DEF EntryTypes, EntryState
  <2>3. entry.id # 0
    BY <1>2 DEF EntryTypes, EntryOpened
  <2>4. QED BY <2>1, <2>2, <2>3 DEF EntryTypes, EntryOpened, EntryState
<1>3. QED BY <1>1, <1>2

(* Whoever goes, goes from the listeners; the entry keeps its id while it has
   any. *)
LEMMA UnsubscribeTypes ==
  ASSUME EntryTypes, NEW gone, UnsubscribeAll(gone), UNCHANGED lastId
  PROVE  /\ EntryTypes' /\ entry'.listeners = Remaining(gone)
         /\ entry'.id = entry.id \/ entry' = NoEntry
<1>1. NoEntry.id = 0 /\ NoEntry.listeners = {} /\ NoEntry \in EntryState
  BY Zenon DEF NoEntry, EntryState
<1>2. CASE entry # NoEntry /\ Remaining(gone) = {}
  <2>1. entry' = NoEntry /\ source' = [source EXCEPT ![entry.id] = "over"]
    BY <1>2 DEF UnsubscribeAll
  <2>2. source' \in [Id -> SourceState]
    BY <2>1 DEF EntryTypes, SourceState
  <2>3. QED BY <1>1, <1>2, <2>1, <2>2 DEF EntryTypes, EntryOpened
<1>3. CASE ~(entry # NoEntry /\ Remaining(gone) = {})
  <2>1. entry' = [entry EXCEPT !.listeners = Remaining(gone)] /\ UNCHANGED source
    BY <1>3 DEF UnsubscribeAll
  <2>2. /\ entry' \in EntryState /\ entry'.id = entry.id /\ entry'.listeners = Remaining(gone)
        /\ entry'.dead = entry.dead
    BY <2>1 DEF EntryTypes, EntryState, Remaining
  <2>3. CASE entry = NoEntry
    BY <1>1, <2>1, <2>2, <2>3 DEF EntryTypes, EntryOpened, Remaining, NoEntry
  <2>4. CASE entry # NoEntry
    <3>1. Remaining(gone) # {} /\ entry.id # 0
      BY <1>3, <2>4 DEF EntryTypes, EntryOpened
    <3>2. QED BY <2>1, <2>2, <3>1 DEF EntryTypes, EntryOpened
  <2>5. QED BY <2>3, <2>4
<1>4. QED BY <1>2, <1>3

LEMMA PostTypes ==
  ASSUME WireTypes, NEW i \in Id, NEW what \in Tag \cup {"interrupt"},
         Post(i, what), UNCHANGED told
  PROVE  WireTypes'
<1>1. [id |-> i, what |-> what] \in Message
  BY DEF Message
<1>2. QED BY <1>1, BoundIsNat DEF WireTypes, Post

-----------------------------------------------------------------------------
(* Each action keeps the types. *)

LEMMA ConnectingTypes ==
  ASSUME Types, NEW c \in Client, Connect(c) \/ Checked(c)
  PROVE  Types'
<1>1. ProviderTypes'
  BY TypesAreGroups DEF Connect, Checked, ProviderTypes
<1>2. UNCHANGED <<followVars, toProduct, told, requestVars>>
  BY DEF Connect, Checked
<1>3. FollowTypes' /\ EntryTypes' /\ WireTypes' /\ RequestTypes'
  BY <1>2, TypesAreGroups DEF followVars, requestVars, FollowTypes, EntryTypes, EntryOpened, EntryState,
                              WireTypes, Message, RequestTypes, RequestState
<1>4. QED BY <1>1, <1>3, GroupsNext

LEMMA CallFollowTypes ==
  ASSUME Types, NEW c \in Client, NEW f \in Follow, CallFollow(c, f)
  PROVE  Types'
<1>1. EntryTypes' /\ entry'.id \in Id
  BY SubscribeTypes, TypesAreGroups DEF CallFollow
<1>2. FollowTypes'
  BY <1>1, TypesAreGroups DEF CallFollow, FollowTypes
<1>3. ProviderTypes' /\ WireTypes' /\ RequestTypes'
  BY TypesAreGroups DEF CallFollow, requestVars, ProviderTypes, WireTypes, RequestTypes
<1>4. QED BY <1>1, <1>2, <1>3, GroupsNext

LEMMA EndingTypes ==
  ASSUME Types, NEW c \in Client, Disconnect(c) \/ (\E i \in Id : CallUnfollow(c, i))
  PROVE  Types'
<1>1. \E gone : UnsubscribeAll(gone) /\ UNCHANGED <<owner, overwritten, lastId, afterStop, toProduct, told>>
  BY DEF Disconnect, CallUnfollow
<1>2. EntryTypes'
  BY <1>1, UnsubscribeTypes, TypesAreGroups
<1>3. listed' \in [Client -> [Id -> Follow \cup {None}]]
  <2>1. ASSUME NEW i \in Id, CallUnfollow(c, i) PROVE listed' \in [Client -> [Id -> Follow \cup {None}]]
    BY <2>1, TypesAreGroups DEF CallUnfollow, FollowTypes
  <2>2. CASE Disconnect(c)
    BY <2>2, TypesAreGroups DEF Disconnect, FollowTypes
  <2>3. QED BY <2>1, <2>2
<1>4. ProviderTypes' /\ WireTypes'
  BY <1>1, TypesAreGroups DEF Disconnect, CallUnfollow, ProviderTypes, WireTypes
<1>5. RequestTypes'
  BY TypesAreGroups DEF Disconnect, CallUnfollow, requestVars, StoppedAtNode, RequestTypes
<1>6. FollowTypes'
  BY <1>1, <1>3, TypesAreGroups DEF FollowTypes
<1>7. QED BY <1>2, <1>4, <1>5, <1>6, GroupsNext

LEMMA SourceTypes ==
  ASSUME Types, NEW i \in Id, SourceStarts(i) \/ SourceEvent(i)
  PROVE  Types'
<1>1. source' \in [Id -> SourceState] /\ UNCHANGED <<entry, lastId>>
  BY TypesAreGroups DEF SourceStarts, SourceEvent, EntryTypes, SourceState
<1>2. EntryTypes'
  BY <1>1, TypesAreGroups DEF EntryTypes, EntryOpened
<1>3. WireTypes'
  <2>1. CASE Post(i, "interrupt") \/ \E e \in Event : Post(i, EventTag[e])
    BY <2>1, PostTypes, EventTags, TypesAreGroups DEF SourceStarts, SourceEvent
  <2>2. CASE UNCHANGED toProduct
    BY <2>2, TypesAreGroups DEF SourceStarts, SourceEvent, WireTypes
  <2>3. QED BY <2>1, <2>2 DEF SourceStarts, SourceEvent
<1>4. ProviderTypes' /\ FollowTypes' /\ RequestTypes'
  BY TypesAreGroups DEF SourceStarts, SourceEvent, requestVars, ProviderTypes, FollowTypes, RequestTypes
<1>5. QED BY <1>2, <1>3, <1>4, GroupsNext

(* What the first message does. *)
Heard(m) == entry.id = m.id /\ ~entry.dead
Stops(m) == Heard(m) /\ m.what # "interrupt" /\ JsonRpcEvent(m.what) = "stop"

LEMMA Received ==
  ASSUME Types, ReceiveFromHost
  PROVE  /\ toProduct # << >> /\ Head(toProduct) \in Message /\ toProduct' = Tail(toProduct)
         /\ entry'.id = entry.id /\ entry'.listeners = entry.listeners /\ EntryTypes'
         /\ told' \in [Client -> SUBSET Id]
         /\ \A c \in Client : \A i \in told'[c] \ told[c] :
              i = Head(toProduct).id /\ Head(toProduct).what = "Stop"
         /\ UNCHANGED <<provider, listed, owner, overwritten, lastId, source, afterStop, requestVars>>
<1> DEFINE m == Head(toProduct)
<1>1. /\ toProduct # << >> /\ toProduct' = Tail(toProduct)
      /\ entry' = IF Heard(m) /\ m.what = "interrupt" THEN [entry EXCEPT !.dead = TRUE] ELSE entry
      /\ told' = IF Stops(m)
                 THEN [c \in Client |-> told[c] \cup {m.id : f \in {g \in entry.listeners : owner[g] = c}}]
                 ELSE told
      /\ UNCHANGED <<provider, listed, owner, overwritten, lastId, source, afterStop, requestVars>>
  BY DEF ReceiveFromHost, Heard, Stops
<1>2. m \in Message
  BY <1>1, TypesAreGroups DEF WireTypes
<1> HIDE DEF m
<1>3. entry \in EntryState
  BY TypesAreGroups DEF EntryTypes
<1>4. CASE Heard(m) /\ m.what = "interrupt"
  <2>1. entry' = [entry EXCEPT !.dead = TRUE]
    BY <1>1, <1>4
  <2>2. /\ entry' \in EntryState /\ entry'.id = entry.id /\ entry'.listeners = entry.listeners
    BY <1>3, <2>1 DEF EntryState
  <2>3. entry.id # 0 /\ entry.listeners # {}
    BY <1>2, <1>4, TypesAreGroups DEF Heard, Message, Id, EntryTypes
  <2>4. EntryTypes'
    BY <1>1, <2>2, <2>3, TypesAreGroups DEF EntryTypes, EntryOpened
  <2>5. told' = told
    BY <1>1, <1>4 DEF Stops
  <2>6. QED BY <1>1, <1>2, <2>2, <2>4, <2>5, TypesAreGroups DEF WireTypes, m
<1>5. CASE ~(Heard(m) /\ m.what = "interrupt")
  <2>1. entry' = entry
    BY <1>1, <1>5
  <2>2. EntryTypes'
    BY <1>1, <2>1, TypesAreGroups DEF EntryTypes, EntryOpened
  <2>3. CASE Stops(m)
    <3>1. m.what = "Stop"
      BY <1>2, <2>3, OnlyStopStops DEF Stops, Message
    <3>2. \A c \in Client : told'[c] \subseteq told[c] \cup {m.id}
      BY <1>1, <2>3
    <3>3. m.id \in Id
      BY <1>2 DEF Message
    <3>4. told' \in [Client -> SUBSET Id]
      BY <1>1, <2>3, <3>3, TypesAreGroups DEF WireTypes
    <3>5. QED BY <1>1, <1>2, <2>1, <2>2, <3>1, <3>2, <3>4 DEF m
  <2>4. CASE ~Stops(m)
    BY <1>1, <1>2, <2>1, <2>2, <2>4, TypesAreGroups DEF WireTypes, m
  <2>5. QED BY <2>3, <2>4
<1>6. QED BY <1>4, <1>5

LEMMA ReceivedTypes ==
  ASSUME Types, ReceiveFromHost
  PROVE  Types'
<1>1. WireTypes'
  <2>1. toProduct' \in Seq(Message) /\ Len(toProduct') <= MaxWire
    BY Received, BoundIsNat, TypesAreGroups DEF WireTypes
  <2>2. QED BY <2>1, Received DEF WireTypes
<1>2. ProviderTypes' /\ FollowTypes' /\ RequestTypes'
  BY Received, TypesAreGroups DEF requestVars, ProviderTypes, FollowTypes, RequestTypes
<1>3. QED BY <1>1, <1>2, Received, GroupsNext

(* What a request's steps make of it. *)
LEMMA AskedTypes ==
  ASSUME Types, NEW c \in Client, NEW q \in Request, Ask(c, q)
  PROVE  /\ request' \in [Request -> RequestState]
         /\ request'[q].client = c /\ request'[q].phase = "asked" /\ request'[q].answer = "none"
         /\ \A r \in Request : r # q => request'[r] = request[r]
<1>1. PICK k \in {"read", "broadcast"} :
        request' = [request EXCEPT ![q] = [client |-> c, kind |-> k, phase |-> "asked", answer |-> "none"]]
  BY DEF Ask
<1>2. [client |-> c, kind |-> k, phase |-> "asked", answer |-> "none"] \in RequestState
  BY DEF RequestState
<1>3. QED BY <1>1, <1>2, TypesAreGroups DEF RequestTypes

LEMMA HandledTypes ==
  ASSUME Types, NEW q \in Request, Handled(q)
  PROVE  /\ request' \in [Request -> RequestState] /\ node' \in [Request -> {"none", "running", "stopped"}]
         /\ request[q].phase = "asked" /\ request'[q].phase = "handled"
         /\ request'[q].client = request[q].client /\ request'[q].kind = request[q].kind
         /\ node'[q] = node[q] \/ (node'[q] = "running" /\ Started(q)')
         /\ \A r \in Request : r # q => request'[r] = request[r] /\ node'[r] = node[r]
<1>1. PICK a \in {"result", "noOperation", "error"} :
        /\ request' = [request EXCEPT ![q].phase = "handled", ![q].answer = a]
        /\ node' = node \/ (a = "result" /\ request[q].kind = "broadcast" /\ node' = [node EXCEPT ![q] = "running"])
  BY DEF Handled
<1>2. request[q].phase = "asked" /\ request \in [Request -> RequestState]
      /\ node \in [Request -> {"none", "running", "stopped"}]
  BY TypesAreGroups DEF Handled, RequestTypes
<1>3. /\ request'[q].phase = "handled" /\ request'[q].answer = a
      /\ request'[q].client = request[q].client /\ request'[q].kind = request[q].kind
      /\ request'[q] \in RequestState
  BY <1>1, <1>2 DEF RequestState
<1>4. /\ request' \in [Request -> RequestState]
      /\ \A r \in Request : r # q => request'[r] = request[r]
  BY <1>1, <1>2, <1>3
<1>5. QED BY <1>1, <1>2, <1>3, <1>4 DEF Started

LEMMA AnsweredTypes ==
  ASSUME Types, NEW q \in Request, Answered(q), Asked
  PROVE  /\ request' \in [Request -> RequestState] /\ request[q].phase = "handled"
         /\ request'[q].phase = "answered" /\ request'[q].client = request[q].client
         /\ request'[q].kind = request[q].kind /\ request'[q].answer = request[q].answer
         /\ \A r \in Request : r # q => request'[r] = request[r]
         /\ broadcasts' \in [Client -> SUBSET Request] /\ late' \subseteq Request
<1>1. /\ request' = [request EXCEPT ![q].phase = "answered"] /\ request[q].phase = "handled"
      /\ request \in [Request -> RequestState]
  BY TypesAreGroups DEF Answered, RequestTypes
<1>2. /\ request'[q].phase = "answered" /\ request'[q].client = request[q].client
      /\ request'[q].kind = request[q].kind /\ request'[q].answer = request[q].answer
      /\ request'[q] \in RequestState
  BY <1>1 DEF RequestState
<1>3. broadcasts' \in [Client -> SUBSET Request] /\ late' \subseteq Request
  BY TypesAreGroups DEF Answered, Asked, RequestTypes
<1>4. QED BY <1>1, <1>2, <1>3

LEMMA RequestStepTypes ==
  ASSUME Types, Asked,
         NEW q \in Request, (\E c \in Client : Ask(c, q) \/ StopBroadcast(c, q)) \/ Handled(q) \/ Answered(q)
  PROVE  Types'
<1>1. RequestTypes'
  <2>1. ASSUME NEW c \in Client, Ask(c, q) PROVE RequestTypes'
    BY <2>1, AskedTypes, TypesAreGroups DEF Ask, RequestTypes
  <2>2. ASSUME NEW c \in Client, StopBroadcast(c, q) PROVE RequestTypes'
    BY <2>2, TypesAreGroups DEF StopBroadcast, StoppedAtNode, RequestTypes
  <2>3. ASSUME Handled(q) PROVE RequestTypes'
    BY <2>3, HandledTypes, TypesAreGroups DEF Handled, RequestTypes
  <2>4. ASSUME Answered(q) PROVE RequestTypes'
    BY <2>4, AnsweredTypes, TypesAreGroups DEF Answered, RequestTypes
  <2>5. QED BY <2>1, <2>2, <2>3, <2>4
<1>2. UNCHANGED <<provider, followVars, toProduct, told>>
  BY DEF Ask, StopBroadcast, Handled, Answered
<1>3. ProviderTypes' /\ FollowTypes' /\ EntryTypes' /\ WireTypes'
  BY <1>2, TypesAreGroups DEF followVars, ProviderTypes, FollowTypes, EntryTypes, EntryOpened, WireTypes
<1>4. QED BY <1>1, <1>3, GroupsNext

LEMMA StutterTypes ==
  ASSUME Types, UNCHANGED vars
  PROVE  Types'
BY TypesAreGroups, GroupsNext DEF vars, followVars, requestVars, ProviderTypes, FollowTypes, EntryTypes, EntryOpened,
                      WireTypes, RequestTypes

LEMMA ProviderTypesStep ==
  ASSUME Types, Asked, [Next]_vars
  PROVE  Types'
<1>1. ASSUME NEW c \in Client,
             \/ Connect(c) \/ Checked(c) \/ Disconnect(c)
             \/ \E f \in Follow : CallFollow(c, f)
             \/ \E i \in Id : CallUnfollow(c, i)
             \/ \E q \in Request : Ask(c, q) \/ StopBroadcast(c, q)
      PROVE  Types'
  BY <1>1, ConnectingTypes, EndingTypes, CallFollowTypes, RequestStepTypes
<1>2. ASSUME NEW i \in Id, SourceStarts(i) \/ SourceEvent(i) PROVE Types'
  BY <1>2, SourceTypes
<1>3. ASSUME NEW q \in Request, Handled(q) \/ Answered(q) PROVE Types'
  BY <1>3, RequestStepTypes
<1>4. QED BY <1>1, <1>2, <1>3, ReceivedTypes, StutterTypes DEF Next

-----------------------------------------------------------------------------
(* Listeners. *)

(* Steps that leave the follows alone may connect clients, and end or refuse
   what the node sends. *)
LEMMA ListenersKept ==
  ASSUME Types, ListenersInv, UNCHANGED <<listed, owner, overwritten>>,
         entry'.id = entry.id, entry'.listeners = entry.listeners,
         \A i \in Id : Runs(i)' => Runs(i),
         \A c \in Client : provider[c] = "typed" => provider'[c] = "typed"
  PROVE  ListenersInv'
<1>1. ListenersOwned'
  BY DEF ListenersInv, ListenersOwned
<1>2. ASSUME NEW f \in entry'.listeners \ overwritten'
      PROVE  owner'[f] # None /\ provider'[owner'[f]] = "typed" /\ listed'[owner'[f]][entry'.id] = f
  BY <1>2 DEF ListenersInv, ListenersOwned, ListenersAreListed
<1>3. ASSUME NEW i \in Id, source'[i] \in {"starting", "running"} PROVE entry'.id = i
  BY <1>3 DEF ListenersInv, ListenersAreListed, Runs
<1>4. QED BY <1>1, <1>2, <1>3 DEF ListenersInv, ListenersAreListed

(* Whoever unsubscribes takes only its own listeners from the entry, and its
   list; the node's follow goes with the last. *)
LEMMA ListenersLeave ==
  ASSUME Types, ListenersInv, NEW gone, UnsubscribeAll(gone), UNCHANGED <<owner, overwritten, lastId>>,
         \A f \in Remaining(gone) \ overwritten :
           provider'[owner[f]] = "typed" /\ listed'[owner[f]][entry.id] = f
  PROVE  ListenersInv'
<1>1. /\ entry'.listeners = Remaining(gone) /\ (entry'.id = entry.id \/ entry' = NoEntry)
  BY UnsubscribeTypes, TypesAreGroups
<1>2. Remaining(gone) \subseteq entry.listeners
  BY DEF Remaining
<1>3. NoEntry.id = 0 /\ NoEntry.listeners = {}
  BY DEF NoEntry
<1>4. ListenersOwned'
  BY <1>1, <1>2 DEF ListenersInv, ListenersOwned
<1>5. ASSUME NEW f \in entry'.listeners \ overwritten'
      PROVE  owner'[f] # None /\ provider'[owner'[f]] = "typed" /\ listed'[owner'[f]][entry'.id] = f
  <2>1. entry'.id = entry.id
    BY <1>1, <1>3, <1>5
  <2>2. QED BY <1>1, <1>2, <1>5, <2>1 DEF ListenersInv, ListenersAreListed
<1>6. ASSUME NEW i \in Id, source'[i] \in {"starting", "running"} PROVE entry'.id = i
  <2>1. CASE entry # NoEntry /\ Remaining(gone) = {}
    <3>1. source' = [source EXCEPT ![entry.id] = "over"]
      BY <2>1 DEF UnsubscribeAll
    <3>2. i = entry.id \/ source'[i] = source[i]
      BY <3>1, TypesAreGroups DEF EntryTypes
    <3>3. i = entry.id
      BY <1>6, <3>2 DEF ListenersInv, ListenersAreListed
    <3>4. source'[i] = "over"
      BY <3>1, <3>3, TypesAreGroups DEF EntryTypes
    <3>5. QED BY <1>6, <3>4
  <2>2. CASE ~(entry # NoEntry /\ Remaining(gone) = {})
    <3>1. entry' = [entry EXCEPT !.listeners = Remaining(gone)] /\ source' = source
      BY <2>2 DEF UnsubscribeAll
    <3>2. entry'.id = entry.id
      BY <3>1, TypesAreGroups DEF EntryTypes, EntryState
    <3>3. QED BY <1>6, <3>1, <3>2 DEF ListenersInv, ListenersAreListed
  <2>3. QED BY <2>1, <2>2
<1>7. QED BY <1>4, <1>5, <1>6 DEF ListenersInv, ListenersAreListed

LEMMA CallUnfollowListens ==
  ASSUME Types, ListenersInv, NEW c \in Client, NEW i \in Id, CallUnfollow(c, i)
  PROVE  ListenersInv'
<1> DEFINE gone == {listed[c][i]}
<1>1. /\ UnsubscribeAll(gone) /\ UNCHANGED <<owner, overwritten, lastId, provider>>
      /\ listed' = [listed EXCEPT ![c][i] = None]
  BY DEF CallUnfollow
<1>2. ASSUME NEW f \in Remaining(gone) \ overwritten
      PROVE  provider'[owner[f]] = "typed" /\ listed'[owner[f]][entry.id] = f
  <2>1. /\ owner[f] \in Client /\ provider[owner[f]] = "typed" /\ listed[owner[f]][entry.id] = f
        /\ f # listed[c][i] /\ entry.id \in Id
    BY <1>2, TypesAreGroups
    DEF Remaining, ListenersInv, ListenersOwned, ListenersAreListed, EntryTypes, EntryState
  <2>2. ~(owner[f] = c /\ entry.id = i)
    BY <2>1
  <2>3. listed'[owner[f]][entry.id] = listed[owner[f]][entry.id]
    BY <1>1, <2>1, <2>2, TypesAreGroups DEF FollowTypes
  <2>4. QED BY <1>1, <2>1, <2>3
<1>3. QED BY <1>1, <1>2, ListenersLeave

LEMMA DisconnectListens ==
  ASSUME Types, ListenersInv, NEW c \in Client, Disconnect(c)
  PROVE  ListenersInv'
<1>1. /\ UnsubscribeAll(FollowsOf(c)) /\ UNCHANGED <<owner, overwritten, lastId>>
      /\ listed' = [listed EXCEPT ![c] = [i \in Id |-> None]]
      /\ provider' = [provider EXCEPT ![c] = "gone"]
  BY DEF Disconnect
<1>2. ASSUME NEW f \in Remaining(FollowsOf(c)) \ overwritten
      PROVE  provider'[owner[f]] = "typed" /\ listed'[owner[f]][entry.id] = f
  <2>1. /\ owner[f] \in Client /\ provider[owner[f]] = "typed" /\ listed[owner[f]][entry.id] = f
        /\ f \notin FollowsOf(c) /\ entry.id \in Id /\ f # None
    BY <1>2, NoneIsApart, TypesAreGroups
    DEF Remaining, ListenersInv, ListenersOwned, ListenersAreListed, EntryTypes, EntryState
  <2>2. owner[f] # c
    BY <2>1 DEF FollowsOf
  <2>3. QED BY <1>1, <2>1, <2>2, TypesAreGroups DEF ProviderTypes, FollowTypes
<1>3. QED BY <1>1, <1>2, ListenersLeave

(* A follow that joins, or opens, a subscription is listed under its id; the
   one it replaces in the list has been overwritten. *)
LEMMA CallFollowListens ==
  ASSUME Types, ListenersInv, NEW c \in Client, NEW f \in Follow, CallFollow(c, f)
  PROVE  ListenersInv'
<1>1. /\ provider[c] = "typed" /\ owner[f] = None /\ UNCHANGED provider
      /\ owner' = [owner EXCEPT ![f] = c] /\ Subscribe(f)
      /\ listed' = [listed EXCEPT ![c][entry'.id] = f]
      /\ overwritten' = overwritten \cup ({listed[c][entry'.id]} \ {None})
  BY DEF CallFollow
<1>2. /\ entry'.id \in Id /\ c # None
      /\ listed \in [Client -> [Id -> Follow \cup {None}]] /\ owner \in [Follow -> Client \cup {None}]
  BY <1>1, SubscribeTypes, NoneIsApart, TypesAreGroups DEF FollowTypes
<1>3. owner'[f] = c /\ listed'[c][entry'.id] = f
  BY <1>1, <1>2
<1>4. \A g \in Follow : g # f => owner'[g] = owner[g]
  BY <1>1, <1>2
<1>5. \A g \in entry.listeners : g \in Follow /\ owner[g] \in Client /\ g # f
  BY <1>1, NoneIsApart, TypesAreGroups DEF ListenersInv, ListenersOwned, EntryTypes, EntryState
<1>6. CASE entry = NoEntry
  <2>1. /\ entry' = [id |-> lastId + 1, listeners |-> {f}, dead |-> FALSE]
        /\ source' = [source EXCEPT ![lastId + 1] = "starting"]
    BY <1>1, <1>6 DEF Subscribe
  <2>2. entry'.id = lastId + 1 /\ entry'.listeners = {f}
    BY <2>1, Zenon
  <2>3. NoEntry.id = 0
    BY DEF NoEntry
  <2>4. \A i \in Id : ~Runs(i)
    BY <1>6, <2>3 DEF ListenersInv, ListenersAreListed, Runs, Id
  <2>5. ASSUME NEW i \in Id, source'[i] \in {"starting", "running"} PROVE entry'.id = i
    BY <2>1, <2>2, <2>4, <2>5, TypesAreGroups DEF Runs, EntryTypes
  <2>6. QED BY <1>1, <1>2, <1>3, <2>2, <2>5 DEF ListenersInv, ListenersOwned, ListenersAreListed
<1>7. CASE entry # NoEntry
  <2>1. entry' = [entry EXCEPT !.listeners = @ \cup {f}] /\ source' = source
    BY <1>1, <1>7 DEF Subscribe
  <2>2. entry'.id = entry.id /\ entry'.listeners = entry.listeners \cup {f}
    BY <2>1, TypesAreGroups DEF EntryTypes, EntryState
  <2>3. ListenersOwned'
    BY <1>3, <1>4, <1>5, <2>2 DEF ListenersOwned
  <2>4. ASSUME NEW g \in entry'.listeners \ overwritten'
        PROVE  owner'[g] # None /\ provider'[owner'[g]] = "typed" /\ listed'[owner'[g]][entry'.id] = g
    <3>1. CASE g = f
      BY <1>1, <1>2, <1>3, <3>1
    <3>2. CASE g # f
      <4>1. g \in entry.listeners \ overwritten /\ g \in Follow /\ g # None
        BY <1>1, <1>5, <2>2, <2>4, <3>2, NoneIsApart
      <4>2. /\ owner'[g] = owner[g] /\ owner[g] \in Client /\ provider[owner[g]] = "typed"
            /\ listed[owner[g]][entry.id] = g
        BY <1>4, <1>5, <3>2, <4>1 DEF ListenersInv, ListenersAreListed
      <4>3. owner[g] # c
        BY <1>1, <2>2, <2>4, <4>1, <4>2
      <4>4. listed'[owner[g]] = listed[owner[g]]
        BY <1>1, <1>2, <4>2, <4>3
      <4>5. QED BY <1>1, <2>2, <4>2, <4>4, NoneIsApart
    <3>3. QED BY <3>1, <3>2
  <2>5. ASSUME NEW i \in Id, source'[i] \in {"starting", "running"} PROVE entry'.id = i
    BY <2>1, <2>2, <2>5 DEF ListenersInv, ListenersAreListed
  <2>6. QED BY <2>3, <2>4, <2>5 DEF ListenersInv, ListenersAreListed
<1>8. QED BY <1>6, <1>7

LEMMA ListenersStep ==
  ASSUME Types, ListenersInv, [Next]_vars
  PROVE  ListenersInv'
<1>1. ASSUME UNCHANGED <<followVars, provider>> PROVE ListenersInv'
  BY <1>1, ListenersKept DEF followVars, Runs
<1>2. ASSUME NEW c \in Client, Connect(c) \/ Checked(c) PROVE ListenersInv'
  <2>1. \A d \in Client : provider[d] = "typed" => provider'[d] = "typed"
    BY <1>2, TypesAreGroups DEF Connect, Checked, ProviderTypes
  <2>2. UNCHANGED followVars
    BY <1>2 DEF Connect, Checked
  <2>3. QED BY <2>1, <2>2, ListenersKept DEF followVars, Runs
<1>3. ASSUME NEW c \in Client, NEW q \in Request, Ask(c, q) \/ StopBroadcast(c, q) PROVE ListenersInv'
  BY <1>1, <1>3 DEF Ask, StopBroadcast
<1>4. ASSUME NEW i \in Id, SourceStarts(i) \/ SourceEvent(i) PROVE ListenersInv'
  <2>1. \A j \in Id : Runs(j)' => Runs(j)
    BY <1>4, TypesAreGroups DEF SourceStarts, SourceEvent, Runs, EntryTypes
  <2>2. UNCHANGED <<provider, listed, owner, overwritten, entry, lastId>>
    BY <1>4 DEF SourceStarts, SourceEvent
  <2>3. QED BY <2>1, <2>2, ListenersKept
<1>5. CASE ReceiveFromHost
  BY <1>5, Received, ListenersKept DEF Runs
<1>6. ASSUME NEW q \in Request, Handled(q) \/ Answered(q) PROVE ListenersInv'
  BY <1>1, <1>6 DEF Handled, Answered
<1>7. CASE UNCHANGED vars
  BY <1>1, <1>7 DEF vars
<1>8. QED BY <1>2, <1>3, <1>4, <1>5, <1>6, <1>7, CallFollowListens, CallUnfollowListens,
             DisconnectListens DEF Next

-----------------------------------------------------------------------------
(* Broadcasts. *)

LEMMA BroadcastsKept ==
  ASSUME BroadcastsInv, UNCHANGED requestVars,
         \A c \in Client : provider[c] = "typed" => provider'[c] = "typed",
         \A c \in Client : provider[c] = "gone" => provider'[c] = "gone"
  PROVE  BroadcastsInv'
<1>1. UNCHANGED <<request, broadcasts, node, late>>
  BY DEF requestVars
<1>2. Asked'
  BY <1>1 DEF BroadcastsInv, Asked
<1>3. RunningIsStarted'
  BY <1>1 DEF BroadcastsInv, RunningIsStarted, Started
<1>4. BroadcastsStopped'
  BY <1>1 DEF BroadcastsInv, BroadcastsStopped, Asked
<1>5. QED BY <1>2, <1>3, <1>4 DEF BroadcastsInv

(* Stopping and forgetting go together, for one broadcast or for all. *)
LEMMA StoppingKeeps ==
  ASSUME Types, BroadcastsInv, NEW c \in Client, NEW stopped \in SUBSET broadcasts[c],
         node' = StoppedAtNode(stopped), broadcasts' = [broadcasts EXCEPT ![c] = @ \ stopped],
         UNCHANGED <<request, late>>,
         provider' = provider \/ (provider'[c] = "gone" /\ stopped = broadcasts[c]),
         \A d \in Client : d # c => provider'[d] = provider[d]
  PROVE  BroadcastsInv'
<1>1. Asked'
  BY DEF BroadcastsInv, Asked
<1>2. \A q \in Request : node'[q] = "running" => node[q] = "running" /\ q \notin stopped
  BY DEF StoppedAtNode
<1>3. RunningIsStarted'
  BY <1>2 DEF BroadcastsInv, RunningIsStarted, Started
<1>4. ASSUME NEW q \in Request, node'[q] = "running", request'[q].phase = "answered", q \notin late'
      PROVE  provider'[request'[q].client] = "typed" /\ q \in broadcasts'[request'[q].client]
  <2>1. /\ node[q] = "running" /\ q \notin stopped /\ request[q].client \in Client
        /\ provider[request[q].client] = "typed" /\ q \in broadcasts[request[q].client]
    BY <1>2, <1>4 DEF BroadcastsInv, BroadcastsStopped, Asked
  <2>2. q \in broadcasts'[request[q].client]
    BY <2>1, TypesAreGroups DEF RequestTypes
  <2>3. QED BY <2>1, <2>2
<1>5. QED BY <1>1, <1>3, <1>4 DEF BroadcastsInv, BroadcastsStopped

LEMMA AskKeeps ==
  ASSUME Types, BroadcastsInv, NEW c \in Client, NEW q \in Request, Ask(c, q)
  PROVE  BroadcastsInv'
<1>1. UNCHANGED <<provider, broadcasts, node, late>> /\ provider[c] = "typed" /\ request[q].phase = "none"
  BY DEF Ask
<1>2. /\ request'[q].client = c /\ request'[q].phase = "asked"
      /\ \A r \in Request : r # q => request'[r] = request[r]
  BY AskedTypes
<1>3. Asked'
  BY <1>1, <1>2 DEF BroadcastsInv, Asked
<1>4. node[q] # "running"
  BY <1>1 DEF BroadcastsInv, RunningIsStarted
<1>5. RunningIsStarted'
  BY <1>1, <1>2, <1>4 DEF BroadcastsInv, RunningIsStarted, Started
<1>6. BroadcastsStopped'
  BY <1>1, <1>2, <1>4 DEF BroadcastsInv, BroadcastsStopped
<1>7. QED BY <1>3, <1>5, <1>6 DEF BroadcastsInv

LEMMA HandledKeeps ==
  ASSUME Types, BroadcastsInv, NEW q \in Request, Handled(q)
  PROVE  BroadcastsInv'
<1>1. /\ request[q].phase = "asked" /\ request'[q].phase = "handled"
      /\ request'[q].client = request[q].client
      /\ node'[q] = node[q] \/ (node'[q] = "running" /\ Started(q)')
      /\ \A r \in Request : r # q => request'[r] = request[r] /\ node'[r] = node[r]
  BY HandledTypes
<1>2. UNCHANGED <<provider, broadcasts, late>>
  BY DEF Handled
<1>3. Asked'
  BY <1>1, <1>2 DEF BroadcastsInv, Asked
<1>4. node[q] # "running"
  BY <1>1 DEF BroadcastsInv, RunningIsStarted
<1>5. RunningIsStarted'
  BY <1>1, <1>4 DEF BroadcastsInv, RunningIsStarted, Started
<1>6. BroadcastsStopped'
  BY <1>1, <1>2 DEF BroadcastsInv, BroadcastsStopped
<1>7. QED BY <1>3, <1>5, <1>6 DEF BroadcastsInv

LEMMA AnsweredKeeps ==
  ASSUME Types, BroadcastsInv, NEW q \in Request, Answered(q)
  PROVE  BroadcastsInv'
<1> DEFINE c == request[q].client
<1>1. /\ request[q].phase = "handled" /\ request'[q].phase = "answered"
      /\ request'[q].client = c /\ request'[q].kind = request[q].kind
      /\ request'[q].answer = request[q].answer
      /\ \A r \in Request : r # q => request'[r] = request[r]
  BY AnsweredTypes DEF BroadcastsInv
<1>2. /\ broadcasts' = IF Started(q) THEN [broadcasts EXCEPT ![c] = @ \cup {q}] ELSE broadcasts
      /\ late' = IF Started(q) /\ provider[c] = "gone" THEN late \cup {q} ELSE late
      /\ UNCHANGED <<provider, node>>
  BY DEF Answered
<1>3. c \in Client /\ provider[c] \in {"typed", "gone"}
  BY <1>1 DEF BroadcastsInv, Asked
<1>4. Asked'
  BY <1>1, <1>2 DEF BroadcastsInv, Asked
<1>5. RunningIsStarted'
  BY <1>1, <1>2 DEF BroadcastsInv, RunningIsStarted, Started
<1>6. \A d \in Client : broadcasts[d] \subseteq broadcasts'[d]
  BY <1>2, TypesAreGroups DEF RequestTypes
<1>7. ASSUME NEW r \in Request, node'[r] = "running", request'[r].phase = "answered", r \notin late'
      PROVE  provider'[request'[r].client] = "typed" /\ r \in broadcasts'[request'[r].client]
  <2>1. CASE r = q
    <3>1. Started(q)
      BY <1>2, <1>7, <2>1 DEF BroadcastsInv, RunningIsStarted
    <3>2. provider[c] = "typed"
      BY <1>2, <1>3, <1>7, <2>1, <3>1
    <3>3. q \in broadcasts'[c]
      BY <1>2, <1>3, <3>1, TypesAreGroups DEF RequestTypes
    <3>4. QED BY <1>1, <1>2, <2>1, <3>2, <3>3
  <2>2. CASE r # q
    <3>1. /\ node[r] = "running" /\ request[r].phase = "answered" /\ r \notin late
          /\ request'[r].client = request[r].client
      BY <1>1, <1>2, <1>7, <2>2
    <3>2. provider[request[r].client] = "typed" /\ r \in broadcasts[request[r].client]
          /\ request[r].client \in Client
      BY <3>1 DEF BroadcastsInv, BroadcastsStopped, Asked
    <3>3. QED BY <1>2, <1>6, <3>1, <3>2
  <2>3. QED BY <2>1, <2>2
<1>8. QED BY <1>4, <1>5, <1>7 DEF BroadcastsInv, BroadcastsStopped

LEMMA BroadcastsStep ==
  ASSUME Types, BroadcastsInv, [Next]_vars
  PROVE  BroadcastsInv'
<1>1. ASSUME UNCHANGED <<provider, requestVars>> PROVE BroadcastsInv'
  BY <1>1, BroadcastsKept
<1>2. ASSUME NEW c \in Client, Connect(c) \/ Checked(c) PROVE BroadcastsInv'
  <2>1. /\ \A d \in Client : provider[d] = "typed" => provider'[d] = "typed"
        /\ \A d \in Client : provider[d] = "gone" => provider'[d] = "gone"
    BY <1>2, TypesAreGroups DEF Connect, Checked, ProviderTypes
  <2>2. UNCHANGED requestVars
    BY <1>2 DEF Connect, Checked
  <2>3. QED BY <2>1, <2>2, BroadcastsKept
<1>3. ASSUME NEW c \in Client, (\E f \in Follow : CallFollow(c, f)) \/ (\E i \in Id : CallUnfollow(c, i))
      PROVE  BroadcastsInv'
  BY <1>1, <1>3 DEF CallFollow, CallUnfollow
<1>4. ASSUME NEW c \in Client, Disconnect(c) PROVE BroadcastsInv'
  <2>1. /\ node' = StoppedAtNode(broadcasts[c]) /\ broadcasts' = [broadcasts EXCEPT ![c] = {}]
        /\ UNCHANGED <<request, late>> /\ provider' = [provider EXCEPT ![c] = "gone"]
    BY <1>4 DEF Disconnect, BroadcastsOf
  <2>2. broadcasts' = [broadcasts EXCEPT ![c] = @ \ broadcasts[c]]
    BY <2>1
  <2>3. provider'[c] = "gone" /\ \A d \in Client : d # c => provider'[d] = provider[d]
    BY <2>1, TypesAreGroups DEF ProviderTypes
  <2>4. QED BY <2>1, <2>2, <2>3, StoppingKeeps
<1>5. ASSUME NEW c \in Client, NEW q \in Request, StopBroadcast(c, q) PROVE BroadcastsInv'
  BY <1>5, StoppingKeeps DEF StopBroadcast
<1>6. ASSUME NEW i \in Id, SourceStarts(i) \/ SourceEvent(i) PROVE BroadcastsInv'
  BY <1>1, <1>6 DEF SourceStarts, SourceEvent
<1>7. CASE ReceiveFromHost
  BY <1>1, <1>7 DEF ReceiveFromHost
<1>8. CASE UNCHANGED vars
  BY <1>1, <1>8 DEF vars
<1>9. QED BY <1>2, <1>3, <1>4, <1>5, <1>6, <1>7, <1>8, AskKeeps, HandledKeeps, AnsweredKeeps DEF Next

-----------------------------------------------------------------------------
(* What is heard. *)

(* A subscription that ends, or goes on, makes no stop untrue. *)
LEMMA HeardKept ==
  ASSUME Types, HeardInv, UNCHANGED <<toProduct, told>>, lastId' \in Nat, lastId <= lastId',
         \A i \in Id : i <= lastId => (Runs(i)' => Runs(i))
  PROVE  HeardInv'
<1>1. lastId \in Nat /\ toProduct \in Seq(Message) /\ told \in [Client -> SUBSET Id]
  BY TypesAreGroups DEF WireTypes, EntryTypes
<1>2. \A m \in Message : m.id \in Id
  BY DEF Message
<1>3. \A k \in DOMAIN toProduct : toProduct[k].id \in Id
  BY <1>1, <1>2
<1>4. SaidOfOpened'
  BY <1>1, <1>3 DEF HeardInv, SaidOfOpened, Id
<1>5. StopsAreTrue'
  BY <1>1, <1>3 DEF HeardInv, SaidOfOpened, StopsAreTrue
<1>6. QED BY <1>4, <1>5 DEF HeardInv

LEMMA PostHeard ==
  ASSUME Types, HeardInv, NEW i \in Id, NEW what, Post(i, what), i <= lastId,
         UNCHANGED <<lastId, told>>, \A j \in Id : Runs(j)' => Runs(j), what = "Stop" => ~Runs(i)'
  PROVE  HeardInv'
<1> DEFINE n == [id |-> i, what |-> what]
<1>1. toProduct \in Seq(Message) /\ told \in [Client -> SUBSET Id] /\ toProduct' = Append(toProduct, n)
  BY TypesAreGroups DEF WireTypes, Post
<1>2. n.id = i /\ n.what = what
  OBVIOUS
<1> HIDE DEF n
<1>3. \A k \in DOMAIN toProduct' : (k \in DOMAIN toProduct /\ toProduct'[k] = toProduct[k]) \/ toProduct'[k] = n
  BY <1>1
<1>4. \A m \in Message : m.id \in Id
  BY DEF Message
<1>5. SaidOfOpened'
  BY <1>1, <1>2, <1>3 DEF HeardInv, SaidOfOpened
<1>6. StopsAreTrue'
  <2>1. ASSUME NEW k \in DOMAIN toProduct', toProduct'[k].what = "Stop"
        PROVE  source'[toProduct'[k].id] \notin {"starting", "running"}
    <3>1. CASE toProduct'[k] = n
      BY <1>2, <2>1, <3>1 DEF Runs
    <3>2. CASE k \in DOMAIN toProduct /\ toProduct'[k] = toProduct[k]
      <4>1. toProduct[k].id \in Id
        BY <1>1, <1>4, <3>2
      <4>2. ~Runs(toProduct[k].id)
        BY <2>1, <3>2 DEF HeardInv, StopsAreTrue
      <4>3. QED BY <3>2, <4>1, <4>2 DEF Runs
    <3>3. QED BY <1>3, <3>1, <3>2
  <2>2. ASSUME NEW c \in Client, NEW j \in told'[c] PROVE ~Runs(j)'
    BY <1>1, <2>2 DEF HeardInv, StopsAreTrue
  <2>3. QED BY <2>1, <2>2 DEF StopsAreTrue, Runs
<1>7. QED BY <1>5, <1>6 DEF HeardInv

LEMMA ReceivedHeard ==
  ASSUME Types, HeardInv, ReceiveFromHost
  PROVE  HeardInv'
<1>1. /\ toProduct \in Seq(Message) /\ toProduct # << >> /\ toProduct' = Tail(toProduct)
      /\ UNCHANGED <<lastId, source>>
      /\ \A c \in Client : \A i \in told'[c] \ told[c] : i = toProduct[1].id /\ toProduct[1].what = "Stop"
  BY Received, TypesAreGroups DEF WireTypes
<1>2. 1 \in DOMAIN toProduct /\ \A k \in DOMAIN toProduct' : k + 1 \in DOMAIN toProduct /\ toProduct'[k] = toProduct[k + 1]
  BY <1>1
<1>3. SaidOfOpened'
  BY <1>1, <1>2 DEF HeardInv, SaidOfOpened
<1>4. StopsAreTrue'
  BY <1>1, <1>2 DEF HeardInv, StopsAreTrue, Runs
<1>5. QED BY <1>3, <1>4 DEF HeardInv

LEMMA HeardStep ==
  ASSUME Types, ListenersInv, HeardInv, [Next]_vars
  PROVE  HeardInv'
<1>0. lastId \in Nat /\ entry.id <= lastId
  BY TypesAreGroups DEF EntryTypes, EntryOpened
<1>1. ASSUME UNCHANGED <<source, lastId, toProduct, told>> PROVE HeardInv'
  BY <1>0, <1>1, HeardKept DEF Runs
<1>2. ASSUME NEW c \in Client, NEW f \in Follow, CallFollow(c, f) PROVE HeardInv'
  <2>1. UNCHANGED <<toProduct, told>> /\ Subscribe(f)
    BY <1>2 DEF CallFollow
  <2>2. \/ UNCHANGED <<source, lastId>>
        \/ lastId' = lastId + 1 /\ source' = [source EXCEPT ![lastId + 1] = "starting"]
    BY <2>1 DEF Subscribe
  <2>3. lastId' \in Nat /\ lastId <= lastId' /\ \A i \in Id : i <= lastId => source'[i] = source[i]
    BY <1>0, <2>2, TypesAreGroups DEF EntryTypes, Id
  <2>4. QED BY <2>1, <2>3, HeardKept DEF Runs
<1>3. ASSUME NEW c \in Client, Disconnect(c) \/ (\E i \in Id : CallUnfollow(c, i)) PROVE HeardInv'
  <2>1. /\ \E gone : UnsubscribeAll(gone)
        /\ UNCHANGED <<lastId, toProduct, told>>
    BY <1>3 DEF Disconnect, CallUnfollow
  <2>2. \A i \in Id : Runs(i)' => Runs(i)
    BY <2>1, TypesAreGroups DEF UnsubscribeAll, Runs, EntryTypes
  <2>3. QED BY <1>0, <2>1, <2>2, HeardKept
<1>4. ASSUME NEW i \in Id, SourceStarts(i) PROVE HeardInv'
  <2>1. source[i] = "starting" /\ i <= lastId /\ UNCHANGED <<lastId, told>>
    BY <1>0, <1>4 DEF SourceStarts, ListenersInv, ListenersAreListed
  <2>2. \A j \in Id : Runs(j)' => Runs(j)
    BY <1>4, TypesAreGroups DEF SourceStarts, Runs, EntryTypes
  <2>3. CASE UNCHANGED toProduct
    BY <1>0, <2>1, <2>2, <2>3, HeardKept
  <2>4. CASE Post(i, "interrupt")
    BY <2>1, <2>2, <2>4, PostHeard
  <2>5. QED BY <1>4, <2>3, <2>4 DEF SourceStarts
<1>5. ASSUME NEW i \in Id, SourceEvent(i) PROVE HeardInv'
  <2>1. source[i] = "running" /\ i <= lastId /\ UNCHANGED <<lastId, told>>
    BY <1>0, <1>5 DEF SourceEvent, ListenersInv, ListenersAreListed
  <2>2. \A j \in Id : Runs(j)' => Runs(j)
    BY <1>5, TypesAreGroups DEF SourceEvent, Runs, EntryTypes
  <2>3. PICK e \in Event : /\ Post(i, EventTag[e])
                           /\ source' = IF e = "stop" THEN [source EXCEPT ![i] = "stopped"] ELSE source
    BY <1>5 DEF SourceEvent
  <2>4. EventTag[e] = "Stop" => ~Runs(i)'
    BY <2>3, EventTags, TypesAreGroups DEF Runs, EntryTypes
  <2>5. QED BY <2>1, <2>2, <2>3, <2>4, PostHeard
<1>6. ASSUME NEW c \in Client, Connect(c) \/ Checked(c) \/ (\E q \in Request : Ask(c, q) \/ StopBroadcast(c, q))
      PROVE  HeardInv'
  BY <1>1, <1>6 DEF Connect, Checked, Ask, StopBroadcast, followVars
<1>7. ASSUME NEW q \in Request, Handled(q) \/ Answered(q) PROVE HeardInv'
  BY <1>1, <1>7 DEF Handled, Answered, followVars
<1>8. CASE UNCHANGED vars
  BY <1>1, <1>8 DEF vars, followVars
<1>9. QED BY <1>2, <1>3, <1>4, <1>5, <1>6, <1>7, <1>8, ReceivedHeard DEF Next

-----------------------------------------------------------------------------
(* Whom a stop reaches. *)

LEMMA WireIds ==
  ASSUME Types, NEW k \in DOMAIN toProduct
  PROVE  toProduct[k].id \in Id
<1>1. toProduct \in Seq(Message)
  BY TypesAreGroups DEF WireTypes
<1>2. \A m \in Message : m.id \in Id
  BY DEF Message
<1>3. QED BY <1>1, <1>2

(* What is on its way stays so when more follows it. *)
LEMMA PostKeepsComing ==
  ASSUME Types, NEW i \in Id, NEW what \in Tag \cup {"interrupt"}, Post(i, what)
  PROVE  /\ \A j \in Id : Comes(j) => Comes(j)'
         /\ what = "Stop" => Comes(i)'
         /\ \A k \in DOMAIN toProduct' :
              \/ k \in DOMAIN toProduct /\ toProduct'[k] = toProduct[k]
              \/ toProduct'[k].id = i /\ toProduct'[k].what = what
<1> DEFINE n == [id |-> i, what |-> what]
<1>1. toProduct \in Seq(Message) /\ toProduct' = Append(toProduct, n)
  BY TypesAreGroups DEF WireTypes, Post
<1>2. n.id = i /\ n.what = what /\ (what = "Stop" => n = [id |-> i, what |-> EventTag["stop"]])
  BY EventTags
<1> HIDE DEF n
<1>3. \A k \in DOMAIN toProduct : k \in DOMAIN toProduct' /\ toProduct'[k] = toProduct[k]
  BY <1>1
<1>4. \A k \in DOMAIN toProduct' : (k \in DOMAIN toProduct /\ toProduct'[k] = toProduct[k]) \/ toProduct'[k] = n
  BY <1>1
<1>5. Len(toProduct) + 1 \in DOMAIN toProduct' /\ toProduct'[Len(toProduct) + 1] = n
  BY <1>1
<1>6. QED BY <1>2, <1>3, <1>4, <1>5 DEF Comes

(* Steps that leave the wire and the node alone, and the entry with no listener
   it did not have, unless its client joins it after the stop. *)
LEMMA ToldKept ==
  ASSUME Types, ToldInv, UNCHANGED <<toProduct, told, source>>, afterStop \subseteq afterStop',
         entry'.id = entry.id, entry'.dead = entry.dead,
         \A f \in entry'.listeners \ afterStop' :
           (f \in entry.listeners /\ owner'[f] = owner[f]) \/ (entry.id # 0 /\ ~HasStopped(entry.id))
  PROVE  ToldInv'
<1>1. InterruptsRefuse' /\ StopComesIn'
  BY DEF ToldInv, InterruptsRefuse, StopComesIn, HasStopped, Comes
<1>2. ASSUME NEW f \in entry'.listeners \ afterStop', source'[entry'.id] = "stopped"
      PROVE  entry'.id \in told'[owner'[f]] \/ Comes(entry.id)'
  <2>1. CASE f \in entry.listeners /\ owner'[f] = owner[f]
    <3>1. entry.id \in told[owner[f]] \/ Comes(entry.id)
      BY <1>2, <2>1 DEF ToldInv, ListenersTold
    <3>2. QED BY <2>1, <3>1 DEF Comes
  <2>2. CASE entry.id # 0 /\ ~HasStopped(entry.id)
    <3>1. Comes(entry.id)
      BY <1>2, <2>2 DEF ToldInv, StopComesIn
    <3>2. QED BY <3>1 DEF Comes
  <2>3. QED BY <1>2, <2>1, <2>2
<1>3. QED BY <1>1, <1>2 DEF ToldInv, ListenersTold

LEMMA CallFollowTells ==
  ASSUME Types, HeardInv, ToldInv, NEW c \in Client, NEW f \in Follow, ListenersInv, CallFollow(c, f)
  PROVE  ToldInv'
<1>1. /\ owner[f] = None /\ owner' = [owner EXCEPT ![f] = c] /\ Subscribe(f)
      /\ afterStop' = IF HasStopped(entry'.id) THEN afterStop \cup {f} ELSE afterStop
      /\ UNCHANGED <<toProduct, told>>
  BY DEF CallFollow
<1>2. CASE entry = NoEntry
  <2>1. /\ entry' = [id |-> lastId + 1, listeners |-> {f}, dead |-> FALSE]
        /\ source' = [source EXCEPT ![lastId + 1] = "starting"] /\ lastId + 1 \in Id /\ lastId \in Nat
    BY <1>1, <1>2, TypesAreGroups DEF Subscribe, EntryTypes, Id
  <2>2. entry'.id = lastId + 1 /\ ~entry'.dead
    BY <2>1
  <2>3. source'[entry'.id] = "starting"
    BY <2>1, <2>2, TypesAreGroups DEF EntryTypes
  <2>4. \A k \in DOMAIN toProduct : toProduct[k].id # lastId + 1
    <3>1. ASSUME NEW k \in DOMAIN toProduct PROVE toProduct[k].id \in Nat /\ toProduct[k].id <= lastId
      BY WireIds DEF HeardInv, SaidOfOpened, Id
    <3>2. QED BY <2>1, <3>1
  <2>5. \A k \in DOMAIN toProduct : source'[toProduct[k].id] = source[toProduct[k].id]
    <3>1. ASSUME NEW k \in DOMAIN toProduct PROVE toProduct[k].id \in Id
      BY WireIds
    <3>2. QED BY <2>1, <2>4, <3>1, TypesAreGroups DEF EntryTypes
  <2>6. QED BY <1>1, <2>2, <2>3, <2>5 DEF ToldInv, InterruptsRefuse, StopComesIn, ListenersTold
<1>3. CASE entry # NoEntry
  <2>1. entry' = [entry EXCEPT !.listeners = @ \cup {f}] /\ UNCHANGED source
    BY <1>1, <1>3 DEF Subscribe
  <2>2. entry'.id = entry.id /\ entry'.dead = entry.dead /\ entry'.listeners = entry.listeners \cup {f}
    BY <2>1, TypesAreGroups DEF EntryTypes, EntryState
  <2>3. ASSUME NEW g \in entry'.listeners \ afterStop'
        PROVE  (g \in entry.listeners /\ owner'[g] = owner[g]) \/ (entry.id # 0 /\ ~HasStopped(entry.id))
    <3>1. CASE g = f
      <4>1. entry.id # 0
        BY <1>3, TypesAreGroups DEF EntryTypes, EntryOpened
      <4>2. QED BY <1>1, <2>2, <2>3, <3>1, <4>1
    <3>2. CASE g # f
      BY <1>1, <2>2, <2>3, <3>2, TypesAreGroups DEF FollowTypes, EntryTypes, EntryState
    <3>3. QED BY <3>1, <3>2
  <2>4. afterStop \subseteq afterStop'
    BY <1>1
  <2>5. QED BY <1>1, <2>1, <2>2, <2>3, <2>4, ToldKept
<1>4. QED BY <1>2, <1>3

LEMMA EndingTells ==
  ASSUME Types, ToldInv, NEW gone, UnsubscribeAll(gone),
         UNCHANGED <<owner, lastId, afterStop, toProduct, told>>
  PROVE  ToldInv'
<1>1. CASE entry # NoEntry /\ Remaining(gone) = {}
  <2>1. entry' = NoEntry /\ source' = [source EXCEPT ![entry.id] = "over"]
    BY <1>1 DEF UnsubscribeAll
  <2>2. entry'.id = 0 /\ entry'.listeners = {} /\ ~entry'.dead
    BY <2>1 DEF NoEntry
  <2>3. ASSUME NEW k \in DOMAIN toProduct, toProduct[k].what = "interrupt"
        PROVE  source'[toProduct[k].id] \in {"refused", "over"}
    <3>1. toProduct[k].id \in Id /\ source[toProduct[k].id] \in {"refused", "over"}
      BY <2>3, WireIds DEF ToldInv, InterruptsRefuse
    <3>2. QED BY <2>1, <3>1, TypesAreGroups DEF EntryTypes
  <2>4. QED BY <2>2, <2>3 DEF ToldInv, InterruptsRefuse, StopComesIn, ListenersTold
<1>2. CASE ~(entry # NoEntry /\ Remaining(gone) = {})
  <2>1. entry' = [entry EXCEPT !.listeners = Remaining(gone)] /\ UNCHANGED source
    BY <1>2 DEF UnsubscribeAll
  <2>2. entry'.id = entry.id /\ entry'.dead = entry.dead /\ entry'.listeners \subseteq entry.listeners
    BY <2>1, TypesAreGroups DEF EntryTypes, EntryState, Remaining
  <2>3. QED BY <2>1, <2>2, ToldKept
<1>3. QED BY <1>1, <1>2

(* The host posts something of a follow that starts or runs; if that is a stop,
   the follow has stopped, and an interrupt means that it was refused. *)
LEMMA SourceTells ==
  ASSUME Types, ToldInv, NEW i \in Id, SourceStarts(i) \/ SourceEvent(i)
  PROVE  ToldInv'
<1>1. /\ UNCHANGED <<owner, entry, afterStop, told>> /\ Runs(i)
      /\ \A j \in Id : j # i => source'[j] = source[j]
      /\ source'[i] \in {"running", "refused", "stopped"}
  BY TypesAreGroups DEF SourceStarts, SourceEvent, EntryTypes, Runs
<1>2. CASE UNCHANGED toProduct /\ source'[i] = "running"
  <2>1. InterruptsRefuse'
    <3>1. ASSUME NEW k \in DOMAIN toProduct, toProduct[k].what = "interrupt"
          PROVE  source'[toProduct[k].id] \in {"refused", "over"}
      <4>1. toProduct[k].id \in Id /\ source[toProduct[k].id] \in {"refused", "over"}
        BY <3>1, WireIds DEF ToldInv, InterruptsRefuse
      <4>2. QED BY <1>1, <4>1 DEF Runs
    <3>2. QED BY <1>1, <1>2, <3>1, TypesAreGroups DEF ToldInv, InterruptsRefuse, EntryTypes, EntryState, Runs
  <2>2. StopComesIn' /\ ListenersTold'
    BY <1>1, <1>2, TypesAreGroups
    DEF ToldInv, StopComesIn, ListenersTold, HasStopped, Comes, EntryTypes, EntryState
  <2>3. QED BY <2>1, <2>2 DEF ToldInv
<1>3. ASSUME NEW what \in Tag \cup {"interrupt"}, Post(i, what),
             what = "interrupt" => source'[i] = "refused", source'[i] = "stopped" => what = "Stop"
      PROVE  ToldInv'
  <2>1. /\ \A j \in Id : Comes(j) => Comes(j)'
        /\ what = "Stop" => Comes(i)'
        /\ \A k \in DOMAIN toProduct' :
             \/ k \in DOMAIN toProduct /\ toProduct'[k] = toProduct[k]
             \/ toProduct'[k].id = i /\ toProduct'[k].what = what
    BY <1>3, PostKeepsComing
  <2>2. ASSUME NEW k \in DOMAIN toProduct', toProduct'[k].what = "interrupt"
        PROVE  source'[toProduct'[k].id] \in {"refused", "over"}
    <3>1. CASE k \in DOMAIN toProduct /\ toProduct'[k] = toProduct[k]
      <4>1. toProduct[k].id \in Id /\ source[toProduct[k].id] \in {"refused", "over"}
        BY <2>2, <3>1, WireIds DEF ToldInv, InterruptsRefuse
      <4>2. QED BY <1>1, <3>1, <4>1 DEF Runs
    <3>2. CASE toProduct'[k].id = i /\ toProduct'[k].what = what
      BY <1>3, <2>2, <3>2
    <3>3. QED BY <2>1, <3>1, <3>2
  <2>3. InterruptsRefuse'
    BY <1>1, <2>2, TypesAreGroups DEF ToldInv, InterruptsRefuse, EntryTypes, EntryState, Runs
  <2>4. entry.id \in Id \cup {0}
    BY TypesAreGroups DEF EntryTypes, EntryState
  <2>5. StopComesIn'
    <3> SUFFICES ASSUME entry'.id # 0, source'[entry'.id] = "stopped"
                 PROVE  HasStopped(entry.id)' \/ Comes(entry.id)'
      BY DEF StopComesIn
    <3>1. CASE entry.id = i
      BY <1>1, <1>3, <2>1, <3>1
    <3>2. CASE entry.id # i
      <4>1. HasStopped(entry.id) \/ Comes(entry.id)
        BY <1>1, <2>4, <3>2 DEF ToldInv, StopComesIn
      <4>2. QED BY <1>1, <2>1, <2>4, <4>1 DEF HasStopped
    <3>3. QED BY <3>1, <3>2
  <2>6. ListenersTold'
    <3> SUFFICES ASSUME NEW f \in entry'.listeners \ afterStop', source'[entry'.id] = "stopped"
                 PROVE  entry'.id \in told'[owner'[f]] \/ Comes(entry.id)'
      BY DEF ListenersTold
    <3>0. entry.id \in Id
      BY <1>1, <2>4, TypesAreGroups DEF EntryTypes
    <3>1. CASE entry.id = i
      BY <1>1, <1>3, <2>1, <3>1
    <3>2. CASE entry.id # i
      <4>1. entry.id \in told[owner[f]] \/ Comes(entry.id)
        BY <1>1, <3>0, <3>2 DEF ToldInv, ListenersTold
      <4>2. QED BY <1>1, <2>1, <3>0, <4>1
    <3>3. QED BY <3>1, <3>2
  <2>7. QED BY <2>3, <2>5, <2>6 DEF ToldInv
<1>4. CASE SourceStarts(i) /\ ~UNCHANGED toProduct
  BY <1>3, <1>4, TypesAreGroups DEF SourceStarts, EntryTypes
<1>5. CASE SourceStarts(i) /\ UNCHANGED toProduct
  <2>1. ~Post(i, "interrupt")
    <3>1. toProduct \in Seq(Message) /\ [id |-> i, what |-> "interrupt"] \in Message
      BY TypesAreGroups DEF WireTypes, Message
    <3>2. toProduct # Append(toProduct, [id |-> i, what |-> "interrupt"])
      BY <3>1
    <3>3. QED BY <1>5, <3>2 DEF Post
  <2>2. QED BY <1>2, <1>5, <2>1, TypesAreGroups DEF SourceStarts, EntryTypes
<1>6. CASE SourceEvent(i)
  <2>1. PICK e \in Event : /\ Post(i, EventTag[e])
                           /\ source' = IF e = "stop" THEN [source EXCEPT ![i] = "stopped"] ELSE source
    BY <1>6 DEF SourceEvent
  <2>2. EventTag[e] \in Tag /\ EventTag[e] # "interrupt" /\ (e = "stop" => EventTag[e] = "Stop")
    BY EventTags
  <2>3. source'[i] = "stopped" => EventTag[e] = "Stop"
    BY <1>1, <2>1, <2>2 DEF Runs
  <2>4. QED BY <1>3, <2>1, <2>2, <2>3
<1>7. QED BY <1>4, <1>5, <1>6

(* The stop of an open subscription, when it comes in, is told to the client of
   every listener. *)
LEMMA ReceivedTells ==
  ASSUME Types, ListenersInv, ToldInv, ReceiveFromHost
  PROVE  ToldInv'
<1> DEFINE m == Head(toProduct)
<1>1. /\ toProduct \in Seq(Message) /\ toProduct # << >> /\ toProduct' = Tail(toProduct) /\ m \in Message
      /\ m = toProduct[1]
      /\ entry'.id = entry.id /\ entry'.listeners = entry.listeners
      /\ UNCHANGED <<owner, source, afterStop>>
  BY Received, TypesAreGroups DEF WireTypes
<1>2. /\ entry' = IF Heard(m) /\ m.what = "interrupt" THEN [entry EXCEPT !.dead = TRUE] ELSE entry
      /\ told' = IF Stops(m)
                 THEN [c \in Client |-> told[c] \cup {m.id : f \in {g \in entry.listeners : owner[g] = c}}]
                 ELSE told
  BY DEF ReceiveFromHost, Heard, Stops
<1>3. \A k \in DOMAIN toProduct' : k + 1 \in DOMAIN toProduct /\ toProduct'[k] = toProduct[k + 1]
  BY <1>1
<1>4. \A k \in DOMAIN toProduct : k # 1 => k - 1 \in DOMAIN toProduct' /\ toProduct'[k - 1] = toProduct[k]
  BY <1>1
<1>5. 1 \in DOMAIN toProduct /\ m.id \in Id
  BY <1>1 DEF Message
<1> HIDE DEF m
<1>6. \A j : Comes(j) => Comes(j)' \/ (m.id = j /\ m.what = "Stop")
  <2>1. ASSUME NEW j, NEW k \in DOMAIN toProduct, toProduct[k] = [id |-> j, what |-> EventTag["stop"]]
        PROVE  Comes(j)' \/ (m.id = j /\ m.what = "Stop")
    <3>1. CASE k = 1
      BY <1>1, <2>1, <3>1, EventTags
    <3>2. CASE k # 1
      BY <1>4, <2>1, <3>2 DEF Comes
    <3>3. QED BY <3>1, <3>2
  <2>2. QED BY <2>1 DEF Comes
<1>7. \A c \in Client : told[c] \subseteq told'[c]
  BY <1>2
<1>8. InterruptsRefuse'
  <2>1. \A k \in DOMAIN toProduct' :
          toProduct'[k].what = "interrupt" => source'[toProduct'[k].id] \in {"refused", "over"}
    BY <1>1, <1>3 DEF ToldInv, InterruptsRefuse
  <2>2. entry'.id # 0 => source'[entry'.id] # "over"
    BY <1>1 DEF ToldInv, InterruptsRefuse
  <2>3. entry'.dead => entry'.id # 0 /\ source'[entry'.id] = "refused"
    <3>1. CASE Heard(m) /\ m.what = "interrupt"
      <4>1. source[m.id] \in {"refused", "over"} /\ entry.id = m.id /\ entry.id # 0
        BY <1>1, <1>5, <3>1 DEF ToldInv, InterruptsRefuse, Heard, Id
      <4>2. QED BY <1>1, <4>1 DEF ToldInv, InterruptsRefuse
    <3>2. CASE ~(Heard(m) /\ m.what = "interrupt")
      BY <1>1, <1>2, <3>2 DEF ToldInv, InterruptsRefuse
    <3>3. QED BY <3>1, <3>2
  <2>4. QED BY <2>1, <2>2, <2>3 DEF InterruptsRefuse
<1>9. ASSUME source[entry.id] = "stopped", m.id = entry.id, m.what = "Stop"
      PROVE  \A f \in entry.listeners : owner[f] \in Client /\ entry.id \in told'[owner[f]]
  <2>1. ~entry.dead
    BY <1>9 DEF ToldInv, InterruptsRefuse
  <2>2. Heard(m) /\ m.what # "interrupt" /\ m.what \in Tag
    BY <1>1, <1>9, <2>1, EventTags DEF Heard, Message
  <2>3. Stops(m)
    BY <1>9, <2>2, OnlyStopStops DEF Stops
  <2>4. QED BY <1>2, <1>9, <2>3 DEF ListenersInv, ListenersOwned
<1>10. StopComesIn'
  <2> SUFFICES ASSUME entry.id # 0, source[entry.id] = "stopped"
               PROVE  HasStopped(entry.id)' \/ Comes(entry.id)'
    BY <1>1 DEF StopComesIn
  <2>1. CASE HasStopped(entry.id)
    BY <1>1, <1>7, <2>1 DEF HasStopped
  <2>2. CASE Comes(entry.id)
    <3>1. CASE m.id = entry.id /\ m.what = "Stop"
      <4>1. PICK f \in entry.listeners : TRUE
        BY TypesAreGroups DEF EntryTypes
      <4>2. QED BY <1>1, <1>9, <3>1, <4>1 DEF HasStopped
    <3>2. QED BY <1>1, <1>6, <2>2, <3>1
  <2>3. QED BY <2>1, <2>2 DEF ToldInv, StopComesIn
<1>11. ListenersTold'
  <2> SUFFICES ASSUME NEW f \in entry.listeners \ afterStop, source[entry.id] = "stopped"
               PROVE  entry.id \in told'[owner[f]] \/ Comes(entry.id)'
    BY <1>1 DEF ListenersTold
  <2>1. owner[f] \in Client
    BY DEF ListenersInv, ListenersOwned
  <2>2. entry.id \in told[owner[f]] \/ Comes(entry.id)
    BY DEF ToldInv, ListenersTold
  <2>3. CASE m.id = entry.id /\ m.what = "Stop"
    BY <1>9, <2>3
  <2>4. CASE entry.id \in told[owner[f]]
    BY <1>7, <2>1, <2>4
  <2>5. CASE Comes(entry.id) /\ ~(m.id = entry.id /\ m.what = "Stop")
    <3>1. Comes(entry.id)'
      BY <1>1, <1>6, <2>5
    <3>2. QED BY <3>1
  <2>6. QED BY <2>2, <2>3, <2>4, <2>5
<1>12. QED BY <1>8, <1>10, <1>11 DEF ToldInv

LEMMA ToldStep ==
  ASSUME Types, ListenersInv, HeardInv, ToldInv, [Next]_vars
  PROVE  ToldInv'
<1>1. ASSUME UNCHANGED <<followVars, toProduct, told>> PROVE ToldInv'
  BY <1>1, ToldKept DEF followVars
<1>2. ASSUME NEW c \in Client, Disconnect(c) \/ (\E i \in Id : CallUnfollow(c, i)) PROVE ToldInv'
  <2>1. \E gone : UnsubscribeAll(gone) /\ UNCHANGED <<owner, lastId, afterStop, toProduct, told>>
    BY <1>2 DEF Disconnect, CallUnfollow
  <2>2. QED BY <2>1, EndingTells
<1>3. ASSUME NEW c \in Client, Connect(c) \/ Checked(c) \/ (\E q \in Request : Ask(c, q) \/ StopBroadcast(c, q))
      PROVE  ToldInv'
  BY <1>1, <1>3 DEF Connect, Checked, Ask, StopBroadcast
<1>4. ASSUME NEW q \in Request, Handled(q) \/ Answered(q) PROVE ToldInv'
  BY <1>1, <1>4 DEF Handled, Answered
<1>5. CASE UNCHANGED vars
  BY <1>1, <1>5 DEF vars
<1>6. QED BY <1>2, <1>3, <1>4, <1>5, CallFollowTells, SourceTells, ReceivedTells DEF Next

-----------------------------------------------------------------------------
ProviderInv == Types /\ ListenersInv /\ BroadcastsInv /\ HeardInv /\ ToldInv

LEMMA ProviderInvInit == Init => ProviderInv
<1> SUFFICES ASSUME Init PROVE ProviderInv
  OBVIOUS
<1>1. ListenersInv
  BY DEF Init, NoEntry, ListenersInv, ListenersOwned, ListenersAreListed
<1>2. BroadcastsInv
  BY DEF Init, BroadcastsInv, Asked, RunningIsStarted, BroadcastsStopped
<1>3. HeardInv
  BY DEF Init, HeardInv, SaidOfOpened, StopsAreTrue
<1>4. ToldInv
  BY DEF Init, NoEntry, ToldInv, InterruptsRefuse, StopComesIn, ListenersTold
<1>5. QED BY <1>1, <1>2, <1>3, <1>4, ProviderTypesInit DEF ProviderInv

LEMMA ProviderInvStep == ProviderInv /\ [Next]_vars => ProviderInv'
<1> SUFFICES ASSUME ProviderInv, [Next]_vars PROVE ProviderInv'
  OBVIOUS
<1>1. Types'
  BY ProviderTypesStep DEF ProviderInv, BroadcastsInv
<1>2. QED BY <1>1, ListenersStep, BroadcastsStep, HeardStep, ToldStep DEF ProviderInv

LEMMA ProviderInvAlways == Spec => []ProviderInv
BY ProviderInvInit, ProviderInvStep, PTL DEF Spec

(* Every state of every instance is well typed; in particular a listener is
   never left on an entry that was closed. *)
THEOREM ProviderTypeCorrect == Spec => []TypeOK
<1>1. ProviderInv => TypeOK
  BY DEF ProviderInv, Types
<1>2. QED BY <1>1, ProviderInvAlways, PTL

(* However clients share a subscription, call, end and go, each listener is on
   the list of a client that can end it, and no follow of the node is left
   without one. *)
THEOREM ListenersListed == Spec => []ListenersAreListed
<1>1. ProviderInv => ListenersAreListed
  BY DEF ProviderInv, ListenersInv
<1>2. QED BY <1>1, ProviderInvAlways, PTL

(* A broadcast that was answered to a client runs no longer than the client
   does, in whatever order answers, stops and disconnects come. *)
THEOREM BroadcastsEnd == Spec => []BroadcastsStopped
<1>1. ProviderInv => BroadcastsStopped
  BY DEF ProviderInv, BroadcastsInv
<1>2. QED BY <1>1, ProviderInvAlways, PTL

(* A stop of the node reaches the client of every listener, however they share
   the subscription, unless it joined when the stop had come in; and no client is
   told of one while the node's follow runs, so that no event is mistaken for a
   stop. *)
THEOREM StopsTold == Spec => []StopsAreTold
<1>1. ProviderInv => StopsAreTold
  <2> SUFFICES ASSUME ProviderInv PROVE StopsAreTold
    OBVIOUS
  <2>1. \A c \in Client : \A i \in told[c] : source[i] \notin {"starting", "running"}
    BY DEF ProviderInv, HeardInv, StopsAreTrue, Runs
  <2>2. ListenersTold
    BY DEF ProviderInv, ToldInv
  <2>3. QED BY <2>1, <2>2 DEF StopsAreTold, ListenersTold, Comes
<1>2. QED BY <1>1, ProviderInvAlways, PTL

-----------------------------------------------------------------------------
(* The rate limiter. *)

LEMMA RefilledTypes ==
  ASSUME LimiterTypeOK
  PROVE  TokensNow \in 0 .. MaxRequests /\ ElapsedNow \in 0 .. Interval
BY ConfigIsNat DEF LimiterTypeOK, TokensNow, ElapsedNow, IsDue

LEMMA ExecuteTypes ==
  ASSUME LimiterTypeOK, NEW t \in Task, Execute(t)
  PROVE  task' \in [Task -> {"new", "queued", "executed", "rejected"}] /\ executed' \in [Age -> Nat]
BY ConfigIsNat DEF LimiterTypeOK, Execute

LEMMA LimiterTypesInit == LimiterInit => LimiterTypeOK
BY ConfigIsNat DEF LimiterInit, LimiterTypeOK, Age

(* schedule: its three outcomes. *)
LEMMA ScheduleTypes ==
  ASSUME LimiterTypeOK, NEW t \in Task, Schedule(t)
  PROVE  LimiterTypeOK'
<1>1. strategy' \in {"queue", "drop"} /\ elapsed' \in 0 .. Interval
  BY RefilledTypes DEF Schedule, LimiterTypeOK
<1>2. CASE ExecuteNow(t)
  <2>1. tokens' \in 0 .. MaxRequests
    BY <1>2, RefilledTypes, ConfigIsNat DEF ExecuteNow
  <2>2. Execute(t) /\ UNCHANGED queueVars
    BY <1>2 DEF ExecuteNow
  <2>3. QED BY <1>1, <2>1, <2>2, ExecuteTypes DEF LimiterTypeOK, queueVars, Age
<1>3. CASE Reject(t)
  BY <1>1, <1>3, RefilledTypes DEF Reject, LimiterTypeOK, queueVars, Age
<1>4. CASE Enqueue(t)
  <2>1. queue' \in Seq(Task) /\ Len(queue') <= MaxQueued
    BY <1>4, ConfigIsNat DEF Enqueue, LimiterTypeOK
  <2>2. timers' \in Nat /\ timerIsSet' \in BOOLEAN
    BY <1>4 DEF Enqueue, TimersToSet, LimiterTypeOK
  <2>3. QED BY <1>1, <1>4, <2>1, <2>2, RefilledTypes DEF Enqueue, LimiterTypeOK, Age
<1>5. QED BY <1>2, <1>3, <1>4 DEF Schedule

LEMMA TimersTypes ==
  ASSUME LimiterTypeOK, QueueServed, TimerFires \/ ProcessNext \/ ProcessEnds \/ Destroy
  PROVE  LimiterTypeOK'
<1>1. CASE TimerFires
  <2>1. timers' \in Nat
    BY <1>1 DEF TimerFires, LimiterTypeOK
  <2>2. timerIsSet' \in BOOLEAN /\ processing' \in BOOLEAN
    BY <1>1 DEF TimerFires, AfterFiring
  <2>3. QED BY <1>1, <2>1, <2>2, RefilledTypes DEF TimerFires, LimiterTypeOK, Age
<1>2. CASE ProcessNext
  <2>1. /\ queue' = Tail(queue) /\ tokens' = tokens - 1 /\ Execute(Head(queue))
        /\ UNCHANGED <<strategy, elapsed, timerIsSet, timers, processing>>
    BY <1>2 DEF ProcessNext
  <2>2. Head(queue) \in Task /\ queue' \in Seq(Task) /\ Len(queue') <= MaxQueued
    BY <1>2, <2>1, ConfigIsNat DEF ProcessNext, LimiterTypeOK
  <2>3. tokens' \in 0 .. MaxRequests
    BY <1>2, ConfigIsNat DEF ProcessNext, LimiterTypeOK
  <2>4. QED BY <2>1, <2>2, <2>3, ExecuteTypes DEF LimiterTypeOK, Age
<1>3. CASE ProcessEnds
  <2>1. timers' \in Nat
    BY <1>3 DEF ProcessEnds, LimiterTypeOK
  <2>2. timerIsSet' \in BOOLEAN /\ processing' \in BOOLEAN
    BY <1>3, Zenon DEF ProcessEnds, LimiterTypeOK
  <2>3. QED BY <1>3, <2>1, <2>2 DEF ProcessEnds, LimiterTypeOK, Age
<1>4. CASE Destroy
  <2>1. timers' \in Nat
    BY <1>4 DEF Destroy, LimiterTypeOK, QueueServed
  <2>2. queue' \in Seq(Task) /\ Len(queue') <= MaxQueued
    BY <1>4, ConfigIsNat DEF Destroy
  <2>3. QED BY <1>4, <2>1, <2>2 DEF Destroy, LimiterTypeOK, Age
<1>5. QED BY <1>1, <1>2, <1>3, <1>4

LEMMA TickTypes ==
  ASSUME LimiterTypeOK, Tick
  PROVE  LimiterTypeOK'
<1>1. elapsed' \in 0 .. Interval
  BY ConfigIsNat DEF Tick, LimiterTypeOK
<1>2. executed' \in [Age -> Nat]
  BY ConfigIsNat DEF Tick, LimiterTypeOK, Age
<1>3. QED BY <1>1, <1>2 DEF Tick, LimiterTypeOK, queueVars, Age

(* Whatever sets timerId leaves a timer to fire, and whatever leaves the queue
   with something sets it. *)
LEMMA ServedStep ==
  ASSUME LimiterTypeOK, QueueServed, [LimiterNext]_limiterVars
  PROVE  QueueServed'
<1>1. CASE Tick
  BY <1>1 DEF Tick, QueueServed, queueVars
<1>2. CASE TimerFires
  BY <1>2 DEF TimerFires, AfterFiring, QueueServed
<1>3. CASE ProcessNext
  BY <1>3 DEF ProcessNext, QueueServed
<1>4. CASE ProcessEnds
  <2>1. CASE LeavesSome
    <3>1. timerIsSet' = TRUE
      BY <1>4, <2>1, Zenon DEF ProcessEnds
    <3>2. timers' > 0
      BY <1>4, <2>1 DEF ProcessEnds, LimiterTypeOK
    <3>3. QED BY <3>1, <3>2 DEF QueueServed
  <2>2. CASE ~LeavesSome
    <3>1. timerIsSet' = timerIsSet
      <4>1. CASE timerIsSet
        BY <1>4, <4>1, Zenon DEF ProcessEnds
      <4>2. CASE ~timerIsSet
        <5>1. timerIsSet' = FALSE /\ timerIsSet = FALSE
          BY <1>4, <2>2, <4>2, Zenon DEF ProcessEnds, LimiterTypeOK
        <5>2. QED BY <5>1
      <4>3. QED BY <4>1, <4>2
    <3>2. timers' = timers /\ queue' = queue /\ queue = << >>
      BY <1>4, <2>2 DEF ProcessEnds, LeavesSome
    <3>3. QED BY <3>1, <3>2 DEF QueueServed
  <2>3. QED BY <2>1, <2>2
<1>5. CASE Destroy
  BY <1>5 DEF Destroy, QueueServed
<1>6. ASSUME NEW t \in Task, Schedule(t) PROVE QueueServed'
  <2>1. CASE ExecuteNow(t)
    BY <2>1 DEF ExecuteNow, queueVars, QueueServed
  <2>2. CASE Reject(t)
    BY <2>2 DEF Reject, queueVars, QueueServed
  <2>3. CASE Enqueue(t)
    BY <2>3 DEF Enqueue, TimersToSet, QueueServed, LimiterTypeOK
  <2>4. QED BY <1>6, <2>1, <2>2, <2>3 DEF Schedule
<1>7. CASE UNCHANGED limiterVars
  BY <1>7 DEF limiterVars, queueVars, QueueServed
<1>8. QED BY <1>1, <1>2, <1>3, <1>4, <1>5, <1>6, <1>7 DEF LimiterNext

(* A refill loses nothing that is not due: once it is, all of the last interval
   is younger than the bucket it was paid from. *)
LEMMA RefillKeepsBuckets ==
  ASSUME LimiterTypeOK, BucketsInv, NEW a \in Age
  PROVE  /\ executed[a] <= 2 * MaxRequests - TokensNow
         /\ a < ElapsedNow => executed[a] <= MaxRequests - TokensNow
<1>1. a \in 0 .. Interval - 1 /\ executed[a] \in Nat /\ tokens \in 0 .. MaxRequests
  BY DEF LimiterTypeOK, Age
<1>2. /\ executed[a] <= 2 * MaxRequests - tokens
      /\ a < elapsed => executed[a] <= MaxRequests - tokens
  BY DEF BucketsInv
<1>3. CASE IsDue
  BY <1>1, <1>2, <1>3, ConfigIsNat DEF IsDue, TokensNow, ElapsedNow
<1>4. CASE ~IsDue
  BY <1>2, <1>4 DEF TokensNow, ElapsedNow
<1>5. QED BY <1>3, <1>4

(* A task that is executed takes a token with it. *)
LEMMA ExecuteKeepsBuckets ==
  ASSUME LimiterTypeOK, NEW t \in Task, NEW left \in 0 .. MaxRequests, NEW since \in 0 .. Interval, left > 0,
         \A a \in Age : /\ executed[a] <= 2 * MaxRequests - left
                        /\ a < since => executed[a] <= MaxRequests - left,
         Execute(t), tokens' = left - 1, elapsed' = since
  PROVE  BucketsInv'
<1> SUFFICES ASSUME NEW a \in Age
             PROVE  /\ executed'[a] <= 2 * MaxRequests - tokens'
                    /\ a < elapsed' => executed'[a] <= MaxRequests - tokens'
  BY DEF BucketsInv, Age
<1>1. executed'[a] = executed[a] + 1 /\ executed[a] \in Nat
  BY DEF Execute, LimiterTypeOK
<1>2. QED BY <1>1, ConfigIsNat

LEMMA TickKeepsBuckets ==
  ASSUME LimiterTypeOK, BucketsInv, Tick
  PROVE  BucketsInv'
<1> SUFFICES ASSUME NEW a \in Age
             PROVE  /\ executed'[a] <= 2 * MaxRequests - tokens'
                    /\ a < elapsed' => executed'[a] <= MaxRequests - tokens'
  BY DEF BucketsInv, Age
<1>1. tokens' = tokens /\ tokens \in 0 .. MaxRequests /\ a \in 0 .. Interval - 1
  BY DEF Tick, LimiterTypeOK, Age
<1>2. CASE a = 0
  <2>1. executed'[a] = 0
    BY <1>2 DEF Tick
  <2>2. QED BY <1>1, <2>1, ConfigIsNat
<1>3. CASE a # 0
  <2>1. a - 1 \in Age
    BY <1>1, <1>3, ConfigIsNat DEF Age
  <2>2. executed'[a] = executed[a - 1]
    BY <1>3 DEF Tick
  <2>3. /\ executed[a - 1] <= 2 * MaxRequests - tokens
        /\ a - 1 < elapsed => executed[a - 1] <= MaxRequests - tokens
    BY <2>1 DEF BucketsInv
  <2>4. a < elapsed' => a - 1 < elapsed
    BY <1>1, ConfigIsNat DEF Tick, LimiterTypeOK
  <2>5. QED BY <1>1, <2>2, <2>3, <2>4
<1>4. QED BY <1>2, <1>3

LEMMA BucketsStep ==
  ASSUME LimiterTypeOK, BucketsInv, [LimiterNext]_limiterVars
  PROVE  BucketsInv'
<1>1. CASE Tick
  BY <1>1, TickKeepsBuckets
<1>2. ASSUME tokens' = TokensNow, elapsed' = ElapsedNow, executed' = executed
      PROVE  BucketsInv'
  BY <1>2, RefillKeepsBuckets DEF BucketsInv, Age
<1>3. CASE TimerFires
  BY <1>2, <1>3 DEF TimerFires
<1>4. CASE ProcessNext
  <2>1. Head(queue) \in Task
    BY <1>4 DEF ProcessNext, LimiterTypeOK
  <2>2. \A a \in Age : /\ executed[a] <= 2 * MaxRequests - tokens
                       /\ a < elapsed => executed[a] <= MaxRequests - tokens
    BY DEF BucketsInv
  <2>3. /\ tokens \in 0 .. MaxRequests /\ elapsed \in 0 .. Interval /\ tokens > 0
        /\ Execute(Head(queue)) /\ tokens' = tokens - 1 /\ elapsed' = elapsed
    BY <1>4 DEF ProcessNext, LimiterTypeOK
  <2>4. QED BY <2>1, <2>2, <2>3, ExecuteKeepsBuckets
<1>5. CASE ProcessEnds \/ Destroy
  BY <1>5 DEF ProcessEnds, Destroy, BucketsInv, Age
<1>6. ASSUME NEW t \in Task, Schedule(t) PROVE BucketsInv'
  <2>1. CASE ExecuteNow(t)
    <3>1. Execute(t) /\ tokens' = TokensNow - 1 /\ elapsed' = ElapsedNow /\ TokensNow > 0
      BY <1>6, <2>1 DEF Schedule, ExecuteNow
    <3>2. QED BY <3>1, RefilledTypes, RefillKeepsBuckets, ExecuteKeepsBuckets
  <2>2. CASE Reject(t) \/ Enqueue(t)
    BY <1>2, <1>6, <2>2 DEF Schedule, Reject, Enqueue
  <2>3. QED BY <1>6, <2>1, <2>2 DEF Schedule
<1>7. CASE UNCHANGED limiterVars
  BY <1>7 DEF limiterVars, timeVars, BucketsInv, Age
<1>8. QED BY <1>1, <1>3, <1>4, <1>5, <1>6, <1>7 DEF LimiterNext

LEMMA LimiterInductive == LimiterSpec => [](LimiterTypeOK /\ QueueServed /\ BucketsInv)
<1>1. LimiterInit => LimiterTypeOK /\ QueueServed /\ BucketsInv
  <2>1. LimiterInit => BucketsInv
    BY ConfigIsNat DEF LimiterInit, BucketsInv, Age
  <2>2. QED BY <2>1, LimiterTypesInit DEF LimiterInit, QueueServed
<1>2. LimiterTypeOK /\ QueueServed /\ BucketsInv /\ [LimiterNext]_limiterVars => (LimiterTypeOK /\ QueueServed /\ BucketsInv)'
  <2> SUFFICES ASSUME LimiterTypeOK, QueueServed, BucketsInv, [LimiterNext]_limiterVars
               PROVE  LimiterTypeOK' /\ QueueServed' /\ BucketsInv'
    OBVIOUS
  <2>0. BucketsInv' BY BucketsStep
  <2>1. QueueServed' BY ServedStep
  <2>2. CASE UNCHANGED limiterVars
    BY <2>0, <2>1, <2>2 DEF limiterVars, timeVars, queueVars, LimiterTypeOK, Age
  <2>3. QED BY <2>0, <2>1, <2>2, TickTypes, TimersTypes, ScheduleTypes DEF LimiterNext
<1>3. QED BY <1>1, <1>2, PTL DEF LimiterSpec

(* Tokens never exceed the bucket nor go below nothing, the queue never exceeds
   its limit, and timers are never cleared that are not there. *)
THEOREM LimiterTypeCorrect == LimiterSpec => []LimiterTypeOK
BY LimiterInductive, PTL

(* While something is queued, a timer is to fire or the loop is running. *)
THEOREM ServedCorrect == LimiterSpec => []QueueServed
BY LimiterInductive, PTL

(* Whenever refills and calls fall, and whatever the clock does meanwhile, no
   interval sees more tasks executed than two buckets hold. *)
THEOREM RateCorrect == LimiterSpec => []RateBounded
<1>1. LimiterTypeOK /\ BucketsInv => RateBounded
  <2> SUFFICES ASSUME LimiterTypeOK, BucketsInv, NEW a \in Age PROVE executed[a] <= 2 * MaxRequests
    BY DEF RateBounded
  <2>1. executed[a] \in Nat /\ tokens \in 0 .. MaxRequests /\ executed[a] <= 2 * MaxRequests - tokens
    BY DEF LimiterTypeOK, BucketsInv
  <2>2. QED BY <2>1, ConfigIsNat
<1>2. QED BY <1>1, LimiterInductive, PTL

=============================================================================
