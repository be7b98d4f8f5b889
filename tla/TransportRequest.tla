--------------------------- MODULE TransportRequest ---------------------------
(***************************************************************************)
(* Requests from the product to the host over transport.ts: the handshake  *)
(* both sides go through first, the upgrade of the codec that follows it   *)
(* (negotiation.ts), requests with their abort signals, the handlers the   *)
(* host facade wires (protocolHandler.ts) and the answers to requests that *)
(* nothing handles, and both providers.                                    *)
(*                                                                         *)
(* A transport decodes a message by its shape and encodes with its own     *)
(* codec, so a message carries the codec it was encoded with.  SCALE can   *)
(* encode only what the protocol registry describes: not the marker that a *)
(* request is unsupported, and not a version the registry lacks.  Messages *)
(* of one direction keep their order.  One method is modelled: methods do  *)
(* not interact.  The upgrade is a request of the product like any other.  *)
(***************************************************************************)
EXTENDS Naturals, Sequences

CONSTANTS
  Request,      \* calls of the product's facade, or of transport.request
  MaxHandlers,  \* bound: registrations of the method that overlap
  MaxBeats      \* bound: handshake requests posted

ASSUME BoundsAreNat == MaxHandlers \in Nat /\ MaxBeats \in Nat

Upgrade == "upgrade"
ASSUME UpgradeIsApart == Upgrade \notin Request

VARIABLES
  product,     \* its transport: whether it lives, connectionStatus, codecAdapter
  host,        \* the same of the host's
  handshake,   \* handshakePromise of the product
  beats,
  attached,    \* the product's provider has its port or window
  toHost, toProduct,
  request,     \* request[r]: the promise the caller has, and the version it uses
  aborted,     \* requests whose signal was aborted
  registered,  \* handlers of the method
  handled,     \* whether the method is in handledActions
  running,     \* running[r]: calls of handlers for r that have not ended
  setting,     \* how the page was set up, see Init
  rejected,    \* requests a handler failed
  unheard      \* requests that no handler was registered for when they came, each
               \* with the codec the host had then

ends == <<product, host>>
wires == <<toHost, toProduct>>
handlers == <<registered, handled, running, rejected>>
vars == <<ends, handshake, beats, attached, wires, request, aborted, handlers, setting, unheard>>

Call == Request \cup {Upgrade}
Codec == {"scale", "structured"}
Outcome == {"pending", "ok", "err", "notSupported", "aborted", "failed"}
NoRequest == [phase |-> "none", version |-> "v1", outcome |-> "pending"]

Message(kind, r, what, codec) == [kind |-> kind, request |-> r, what |-> what, codec |-> codec]
Messages ==
  [kind : {"handshake"}, request : {Upgrade}, what : {"ask", "ok", "err"}, codec : Codec]
    \cup [kind : {"request"}, request : Call, what : {"v1", "unknown"}, codec : Codec]
    \cup [kind : {"response"}, request : Call, what : {"ok", "err", "notSupported"}, codec : Codec]

TypeOK ==
  /\ product \in [up : BOOLEAN, status : {"connecting", "connected", "disconnected"}, codec : Codec]
  /\ host \in [life : {"absent", "up", "down"}, connected : BOOLEAN, codec : Codec]
  /\ handshake \in {"pending", "done", "failed"} /\ beats \in 0 .. MaxBeats
  /\ attached \in BOOLEAN
  /\ toHost \in Seq(Messages) /\ toProduct \in Seq(Messages)
  /\ request \in [Call -> [phase : {"none", "waiting", "posted", "settled"},
                           version : {"v1", "unknown"}, outcome : Outcome]]
  /\ \A r \in Call : request[r].phase = "settled" <=> request[r].outcome # "pending"
  /\ aborted \subseteq Call /\ registered \in 0 .. MaxHandlers /\ handled \in BOOLEAN
  /\ running \in [Request -> Nat]
  /\ setting \in [window : BOOLEAN, sameVersion : BOOLEAN, allowUpgrade : BOOLEAN]
  /\ rejected \subseteq Request /\ unheard \subseteq Call \X Codec

(* Messaging is a window or a port; the product may have been built for another
   protocol version; the host may not allow the upgrade. *)
Init ==
  /\ product = [up |-> TRUE, status |-> "connecting", codec |-> "scale"]
  /\ host = [life |-> "absent", connected |-> FALSE, codec |-> "scale"]
  /\ handshake = "pending" /\ beats = 0 /\ attached = FALSE
  /\ toHost = << >> /\ toProduct = << >>
  /\ request = [r \in Call |-> NoRequest] /\ aborted = {}
  /\ registered = 0 /\ handled = FALSE /\ running = [r \in Request |-> 0]
  /\ setting \in [window : BOOLEAN, sameVersion : BOOLEAN, allowUpgrade : BOOLEAN]
  /\ rejected = {} /\ unheard = {}

-----------------------------------------------------------------------------
(* Providers and codecs. *)

HostUp == host.life = "up"

(* What SCALE can encode: responses carry the version the registry knows. *)
Encodable(codec, what) == codec = "structured" \/ what \notin {"unknown", "notSupported"}

(* Posts made before the port is there wait for it. *)
Attach ==
  /\ ~attached /\ product.up
  /\ attached' = TRUE
  /\ UNCHANGED <<ends, handshake, beats, wires, request, aborted, handlers, setting, unheard>>

(* decodeIncoming: a structured clone makes the receiver use them too. *)
CodecAfter(codec, m) == IF m.codec = "structured" THEN "structured" ELSE codec

(* createHostFacade: the catch-all, the handshake and, if allowed, the upgrade
   are there before any message can come in. *)
HostCreated ==
  /\ host.life = "absent"
  /\ host' = [host EXCEPT !.life = "up"]
  /\ UNCHANGED <<product, handshake, beats, attached, wires, request, aborted, handlers, setting, unheard>>

-----------------------------------------------------------------------------
(* The product's handshake. *)

SettledSilentlyFault(r, outcome) == [request EXCEPT ![r].phase = "settled"]
Settle(r, outcome) == [request EXCEPT ![r].phase = "settled", ![r].outcome = outcome]

(* Every 50 ms, until an answer comes. *)
Beat ==
  /\ handshake = "pending" /\ product.up /\ beats < MaxBeats
  /\ beats' = beats + 1
  /\ toHost' = Append(toHost, Message("handshake", Upgrade, "ask", product.codec))
  /\ UNCHANGED <<ends, handshake, attached, toProduct, request, aborted, handlers, setting, unheard>>

(* After 10 s; or the interval finds that the transport was destroyed. *)
NeverTimesOutFault == ~product.up
HandshakeIsOver == TRUE

HandshakeFails ==
  /\ handshake = "pending" /\ HandshakeIsOver
  /\ handshake' = "failed"
  /\ product' = [product EXCEPT !.status = "disconnected"]
  /\ UNCHANGED <<host, beats, attached, wires, request, aborted, handlers, setting, unheard>>

-----------------------------------------------------------------------------
(* request() of the product. *)

Ask(r) ==
  /\ r \in Request /\ request[r].phase = "none"
  /\ \E v \in {"v1", "unknown"} :
       request' = IF product.up
                  THEN [request EXCEPT ![r].phase = "waiting", ![r].version = v]
                  ELSE Settle(r, "failed")
  /\ UNCHANGED <<ends, handshake, beats, attached, wires, aborted, handlers, setting, unheard>>

AbortedByNow(r) == {r} \cap aborted

(* whenReady() has ended: it is posted, unless the signal was aborted, the
   transport destroyed, or it cannot be encoded. *)
Proceed(r) ==
  /\ request[r].phase = "waiting" /\ handshake # "pending"
  /\ LET mayPost == handshake = "done" /\ AbortedByNow(r) = {} /\ product.up
                       /\ Encodable(product.codec, request[r].version)
     IN /\ request' = IF mayPost THEN [request EXCEPT ![r].phase = "posted"] ELSE
                      IF handshake = "done" /\ AbortedByNow(r) # {} THEN Settle(r, "aborted")
                      ELSE Settle(r, "failed")
        /\ toHost' = IF mayPost THEN Append(toHost, Message("request", r, request[r].version, product.codec))
                     ELSE toHost
  /\ UNCHANGED <<ends, handshake, beats, attached, toProduct, aborted, handlers, setting, unheard>>

(* The caller's signal; of the upgrade it is a timer of one second. *)
Abort(r) ==
  /\ request[r].phase \in (IF r = Upgrade THEN {"posted"} ELSE {"waiting", "posted"})
  /\ r \notin aborted
  /\ aborted' = aborted \cup {r}
  /\ request' = IF request[r].phase = "posted" THEN Settle(r, "aborted") ELSE request
  /\ UNCHANGED <<ends, handshake, beats, attached, wires, handlers, setting, unheard>>

(* The first answer under its id settles a request.  createProductFacade chains
   the upgrade to the handshake, and an upgrade that is granted is adopted. *)
Answers(r, m) == m.request = r /\ request[r].phase = "posted"

ReceiveAtProduct ==
  /\ toProduct # << >> /\ attached
  /\ LET m == Head(toProduct)
         codec == CodecAfter(product.codec, m)
         accepted == m.kind = "handshake" /\ handshake = "pending"
         answered == {r \in Call : m.kind = "response" /\ Answers(r, m)}
     IN /\ toProduct' = Tail(toProduct)
        /\ IF ~product.up THEN UNCHANGED <<product, handshake, request>>
           ELSE /\ product' = [product EXCEPT
                     !.codec = IF Upgrade \in answered /\ m.what = "ok" THEN "structured" ELSE codec,
                     !.status = IF accepted THEN "connected" ELSE @]
                /\ handshake' = IF accepted THEN "done" ELSE handshake
                /\ request' = [r \in Call |->
                     IF r \in answered THEN Settle(r, m.what)[r] ELSE
                     IF r = Upgrade /\ accepted THEN [NoRequest EXCEPT !.phase = "waiting"]
                     ELSE request[r]]
  /\ UNCHANGED <<host, beats, attached, toHost, aborted, handlers, setting, unheard>>

DestroyProduct ==
  /\ product.up
  /\ product' = [product EXCEPT !.up = FALSE, !.status = "disconnected"]
  /\ toHost' = IF attached THEN toHost ELSE << >>
  /\ UNCHANGED <<host, handshake, beats, attached, toProduct, request, aborted, handlers, setting, unheard>>

-----------------------------------------------------------------------------
(* The host. *)

Post(messages) == toProduct' = toProduct \o messages

Repeat(m, times) == [i \in 1 .. times |-> m]

(* handleRequest for the handshake, which only refuses another version. *)
ShakeHands(codec) ==
  /\ host' = [host EXCEPT !.codec = codec, !.connected = @ \/ setting.sameVersion]
  /\ Post(<<Message("handshake", Upgrade, IF setting.sameVersion THEN "ok" ELSE "err", codec)>>)
  /\ UNCHANGED <<running, unheard>>

(* The catch-all: an answer that cannot be encoded is dropped. *)
AnswersHandledFault(r) == TRUE
IsUnhandled(r) == ~handled

SilentFault(r, codec) == << >>
Refusal(r, codec) ==
  IF Encodable(codec, "notSupported") THEN <<Message("response", r, "notSupported", codec)>> ELSE << >>

SwapsLateFault(codec) == codec
SwappedFirst(codec) == "structured"

(* handleCodecUpgrade: the answer is already encoded with what it grants. *)
GrantUpgrade(codec) ==
  /\ host' = [host EXCEPT !.codec = "structured"]
  /\ Post(<<Message("response", Upgrade, "ok", SwappedFirst(codec))>>)
  /\ UNCHANGED <<running, unheard>>

(* The catch-all comes first; a version no handler knows is refused at once, by
   every registration. *)
HandleRequest(r, version, codec) ==
  LET refusal == IF IsUnhandled(r) THEN Refusal(r, codec) ELSE << >>
      errors == IF version = "v1" THEN << >>
                ELSE Repeat(Message("response", r, "err", codec), registered)
  IN /\ host' = [host EXCEPT !.codec = codec]
     /\ Post(refusal \o errors)
     /\ running' = IF version = "v1" THEN [running EXCEPT ![r] = @ + registered] ELSE running
     /\ unheard' = IF registered = 0 THEN unheard \cup {<<r, codec>>} ELSE unheard

RefuseUpgrade(codec) ==
  /\ host' = [host EXCEPT !.codec = codec]
  /\ Post(Refusal(Upgrade, codec))
  /\ unheard' = unheard \cup {<<Upgrade, codec>>}
  /\ UNCHANGED running

(* A window drops what nobody listens for, a port keeps it. *)
ReceiveAtHost ==
  /\ toHost # << >> /\ attached
  /\ host.life = "absent" => setting.window
  /\ LET m == Head(toHost)
         codec == CodecAfter(host.codec, m)
     IN /\ toHost' = Tail(toHost)
        /\ IF ~HostUp THEN UNCHANGED <<host, toProduct, running, unheard>> ELSE
           IF m.kind = "handshake" THEN ShakeHands(codec) ELSE
           IF m.request # Upgrade THEN HandleRequest(m.request, m.what, codec) ELSE
           IF setting.allowUpgrade THEN GrantUpgrade(codec) ELSE RefuseUpgrade(codec)
  /\ UNCHANGED <<product, handshake, beats, attached, request, aborted, registered, handled,
                 rejected, setting>>

(* The handlers that the facade's methods wire. *)
Register ==
  /\ HostUp /\ registered < MaxHandlers
  /\ registered' = registered + 1 /\ handled' = TRUE
  /\ UNCHANGED <<ends, handshake, beats, attached, wires, request, aborted, running, rejected,
                 setting, unheard>>

Unregister ==
  /\ registered > 0
  /\ registered' = registered - 1 /\ handled' = FALSE
  /\ UNCHANGED <<ends, handshake, beats, attached, wires, request, aborted, running, rejected,
                 setting, unheard>>

Answer(r, what) == <<Message("response", r, what, host.codec)>>

(* wireRequest: a Result is wrapped and posted, unless the transport is gone by
   then; a handler that rejects posts nothing. *)
HandlerEnds(r) ==
  /\ running[r] > 0
  /\ running' = [running EXCEPT ![r] = @ - 1]
  /\ \/ /\ \E what \in {"ok", "err"} : Post(IF HostUp THEN Answer(r, what) ELSE << >>)
        /\ UNCHANGED rejected
     \/ /\ rejected' = rejected \cup {r}
        /\ UNCHANGED toProduct
  /\ UNCHANGED <<ends, handshake, beats, attached, toHost, request, aborted, registered, handled,
                 setting, unheard>>

DestroyHost ==
  /\ HostUp
  /\ host' = [host EXCEPT !.life = "down", !.connected = FALSE]
  /\ UNCHANGED <<product, handshake, beats, attached, wires, request, aborted, handlers, setting, unheard>>

-----------------------------------------------------------------------------
Delivery == Attach \/ ReceiveAtProduct \/ ReceiveAtHost

Next ==
  \/ Delivery \/ HostCreated
  \/ Beat \/ HandshakeFails \/ DestroyProduct
  \/ \E r \in Call : Ask(r) \/ Proceed(r) \/ Abort(r)
  \/ Register \/ Unregister \/ (\E r \in Request : HandlerEnds(r)) \/ DestroyHost

Spec == Init /\ [][Next]_vars

(* Messages arrive, timers fire, what awaited a promise goes on and handlers
   end, with an answer or a rejection. *)
Fairness ==
  /\ WF_vars(Delivery) /\ WF_vars(HandshakeFails) /\ WF_vars(Abort(Upgrade))
  /\ \A r \in Call : WF_vars(Proceed(r))
  /\ \A r \in Request : WF_vars(HandlerEnds(r))

FairSpec == Spec /\ Fairness

-----------------------------------------------------------------------------
(* Properties. *)

BothUp == product.up /\ HostUp

(* ARCHITECTURE.md: both sides converge on structured clones regardless of
   timing.  One uses them only if the other does, or will once what is on its
   way has come in: also when the upgrade's timer fired before its answer. *)
CodecsConverge ==
  BothUp /\ "structured" \in {product.codec, host.codec} =>
    /\ host.codec = "structured"
    /\ \/ product.codec = "structured"
       \/ \E i \in DOMAIN toProduct : toProduct[i].codec = "structured"

(* Only what nothing handled when it came is refused as unsupported, and only by
   a host that answers in structured clones: with handlers of one method that
   never overlap. *)
RefusedIsUnheard ==
  \A r \in Call : request[r].outcome = "notSupported" => <<r, "structured">> \in unheard

(* Whoever waits for the handshake is let go, whatever becomes of either side. *)
WaitingEnds == \A r \in Call : request[r].phase = "waiting" ~> request[r].phase # "waiting"

(* A request that is posted is settled, also one that nothing handles, unless an
   end is gone, a handler failed it, or it is one that nothing handled and the
   host could refuse only over SCALE, which cannot carry the refusal. *)
PostedSettles ==
  \A r \in Call : request[r].phase = "posted" ~>
    \/ request[r].phase = "settled"
    \/ ~BothUp \/ r \in rejected \/ <<r, "scale">> \in unheard

(* "Responds immediately to any _request or _start message that has no registered
   handler, so the sender doesn't wait forever" (transport.ts:608). *)
UnhandledIsAnswered ==
  \A r \in Call : (\E codec \in Codec : <<r, codec>> \in unheard) ~>
    request[r].phase = "settled" \/ ~BothUp

=============================================================================
