----------------------- MODULE TransportRequest_proofs -----------------------
(* Proofs about requests over a transport, for any calls and all bounds: the
   types, that both sides converge on one codec, and that only what nothing
   handles is refused as unsupported. *)
EXTENDS TransportRequest, TLAPS

(* The messages of a channel. *)
Of(s) == {s[i] : i \in DOMAIN s}

LEMMA OfAppended ==
  ASSUME NEW s \in Seq(Messages), NEW m \in Messages
  PROVE  Append(s, m) \in Seq(Messages) /\ Of(Append(s, m)) = Of(s) \cup {m}
<1>1. /\ Append(s, m) \in Seq(Messages) /\ DOMAIN s = 1 .. Len(s) /\ Len(s) \in Nat
      /\ DOMAIN Append(s, m) = 1 .. Len(s) + 1
      /\ \A i \in 1 .. Len(s) : Append(s, m)[i] = s[i]
      /\ Append(s, m)[Len(s) + 1] = m
  OBVIOUS
<1>2. Of(Append(s, m)) \subseteq Of(s) \cup {m}
  BY <1>1 DEF Of
<1>3. Of(s) \cup {m} \subseteq Of(Append(s, m))
  BY <1>1 DEF Of
<1>4. QED BY <1>1, <1>2, <1>3

LEMMA OfConcatenated ==
  ASSUME NEW s \in Seq(Messages), NEW t \in Seq(Messages)
  PROVE  s \o t \in Seq(Messages) /\ Of(s \o t) = Of(s) \cup Of(t)
<1>1. /\ s \o t \in Seq(Messages) /\ Len(s) \in Nat /\ Len(t) \in Nat
      /\ DOMAIN s = 1 .. Len(s) /\ DOMAIN t = 1 .. Len(t)
      /\ DOMAIN (s \o t) = 1 .. Len(s) + Len(t)
      /\ \A i \in 1 .. Len(s) : (s \o t)[i] = s[i]
      /\ \A i \in 1 .. Len(t) : (s \o t)[Len(s) + i] = t[i]
  OBVIOUS
<1>2. Of(s) \cup Of(t) \subseteq Of(s \o t)
  <2>1. \A i \in 1 .. Len(t) : Len(s) + i \in 1 .. Len(s) + Len(t)
    BY <1>1
  <2>2. Of(t) \subseteq Of(s \o t)
    BY <1>1, <2>1 DEF Of
  <2>3. Of(s) \subseteq Of(s \o t)
    BY <1>1 DEF Of
  <2>4. QED BY <2>2, <2>3
<1>3. ASSUME NEW i \in 1 .. Len(s) + Len(t)
      PROVE  (s \o t)[i] \in Of(s) \cup Of(t)
  <2>1. CASE i \in 1 .. Len(s)
    BY <1>1, <2>1 DEF Of
  <2>2. CASE i \notin 1 .. Len(s)
    <3>1. i - Len(s) \in 1 .. Len(t) /\ i = Len(s) + (i - Len(s))
      BY <1>1, <2>2
    <3>2. (s \o t)[i] = t[i - Len(s)]
      BY <1>1, <3>1
    <3>3. QED BY <1>1, <3>1, <3>2 DEF Of
  <2>3. QED BY <2>1, <2>2
<1>4. QED BY <1>1, <1>2, <1>3 DEF Of

LEMMA OfTaken ==
  ASSUME NEW s \in Seq(Messages), s # << >>
  PROVE  /\ Head(s) \in Messages /\ Tail(s) \in Seq(Messages)
         /\ Of(s) = {Head(s)} \cup Of(Tail(s))
<1>1. /\ Head(s) \in Messages /\ Tail(s) \in Seq(Messages) /\ Len(s) \in Nat /\ Len(s) >= 1
      /\ DOMAIN s = 1 .. Len(s) /\ DOMAIN Tail(s) = 1 .. Len(s) - 1
      /\ Head(s) = s[1] /\ \A i \in 1 .. Len(s) - 1 : Tail(s)[i] = s[i + 1]
  OBVIOUS
<1>2. {Head(s)} \cup Of(Tail(s)) \subseteq Of(s)
  BY <1>1 DEF Of
<1>3. ASSUME NEW i \in 1 .. Len(s)
      PROVE  s[i] \in {Head(s)} \cup Of(Tail(s))
  <2>1. CASE i = 1
    BY <1>1, <2>1
  <2>2. CASE i # 1
    <3>1. i - 1 \in 1 .. Len(s) - 1 /\ s[i] = Tail(s)[i - 1]
      BY <1>1, <2>2
    <3>2. QED BY <1>1, <3>1 DEF Of
  <2>3. QED BY <2>1, <2>2
<1>4. QED BY <1>1, <1>2, <1>3 DEF Of

LEMMA OfOne ==
  ASSUME NEW m \in Messages
  PROVE  <<m>> \in Seq(Messages) /\ Of(<<m>>) = {m}
BY DEF Of

LEMMA OfNone == << >> \in Seq(Messages) /\ Of(<< >>) = {}
BY DEF Of

LEMMA OfRepeated ==
  ASSUME NEW m \in Messages, NEW n \in Nat
  PROVE  Repeat(m, n) \in Seq(Messages) /\ Of(Repeat(m, n)) \subseteq {m}
<1>1. Repeat(m, n) \in [1 .. n -> Messages]
  BY DEF Repeat
<1>2. Repeat(m, n) \in Seq(Messages)
  BY <1>1
<1>3. QED BY <1>2 DEF Of, Repeat

-----------------------------------------------------------------------------
(* What the host posts when a message comes in. *)

Structured(s) == \E m \in Of(s) : m.codec = "structured"
Grants(m) == m.kind = "response" /\ m.request = Upgrade /\ m.what = "ok"
Refuses(m) == m.kind = "response" /\ m.what = "notSupported"

(* Messages that agree with the codec the host has then, and whose refusals are
   of requests that had no handler. *)
Honest(ms) ==
  /\ ms \in Seq(Messages)
  /\ \A m \in Of(ms) : m.codec = "structured" => host'.codec = "structured"
  /\ \A m \in Of(ms) : Grants(m) => m.codec = "structured"
  /\ (~handled => registered = 0) => \A m \in Of(ms) : Refuses(m) => <<m.request, "structured">> \in unheard'

(* The host's codec after a message m that it answers with ms. *)
Adopted(m, ms) ==
  /\ host'.codec \in Codec
  /\ "structured" \in {host.codec, m.codec} => host'.codec = "structured"
  /\ host'.codec = "structured" => "structured" \in {host.codec, m.codec} \/ Structured(ms)

Replies(m, ms) == Honest(ms) /\ Adopted(m, ms) /\ toProduct' = toProduct \o ms

LEMMA CodecAfterFacts ==
  ASSUME NEW codec \in Codec, NEW m \in Messages
  PROVE  /\ CodecAfter(codec, m) \in Codec
         /\ CodecAfter(codec, m) = "structured" <=> "structured" \in {codec, m.codec}
BY DEF CodecAfter, Codec, Messages

LEMMA RefusalFacts ==
  ASSUME NEW r \in Call, NEW codec \in Codec
  PROVE  /\ Refusal(r, codec) \in Seq(Messages)
         /\ \A m \in Of(Refusal(r, codec)) :
              m.codec = codec /\ codec = "structured" /\ ~Grants(m) /\ m.request = r
<1> DEFINE no == Message("response", r, "notSupported", codec)
<1>1. no \in Messages /\ no.codec = codec /\ no.request = r /\ ~Grants(no)
  BY DEF Message, Messages, Grants
<1>2. (Refusal(r, codec) = <<no>> /\ codec = "structured") \/ Refusal(r, codec) = << >>
  BY DEF Refusal, Encodable
<1> HIDE DEF no
<1>3. QED BY <1>1, <1>2, OfOne, OfNone

LEMMA ErrorsFacts ==
  ASSUME NEW r \in Request, NEW codec \in Codec, NEW n \in Nat
  PROVE  LET errors == Repeat(Message("response", r, "err", codec), n)
         IN /\ errors \in Seq(Messages)
            /\ \A m \in Of(errors) : m.codec = codec /\ ~Grants(m) /\ ~Refuses(m)
<1> DEFINE err == Message("response", r, "err", codec)
<1>1. err \in Messages /\ err.codec = codec /\ ~Grants(err) /\ ~Refuses(err)
  BY DEF Message, Messages, Grants, Refuses, Call
<1> HIDE DEF err
<1>2. Repeat(err, n) \in Seq(Messages) /\ Of(Repeat(err, n)) \subseteq {err}
  BY <1>1, OfRepeated
<1>3. QED BY <1>1, <1>2 DEF err

(* Each of the four answers. *)
LEMMA ShakeHandsReplies ==
  ASSUME TypeOK, NEW m \in Messages, ShakeHands(CodecAfter(host.codec, m))
  PROVE  \E ms : Replies(m, ms)
<1> DEFINE codec == CodecAfter(host.codec, m)
           what == IF setting.sameVersion THEN "ok" ELSE "err"
           answer == Message("handshake", Upgrade, what, codec)
<1>1. codec \in Codec /\ (codec = "structured" <=> "structured" \in {host.codec, m.codec})
  BY CodecAfterFacts DEF TypeOK
<1>2. what \in {"ok", "err"}
  OBVIOUS
<1>3. host'.codec = codec /\ toProduct' = toProduct \o <<answer>>
  BY DEF ShakeHands, Post, TypeOK
<1> HIDE DEF codec, what
<1>4. answer \in Messages /\ answer.codec = codec /\ ~Grants(answer) /\ ~Refuses(answer)
  BY <1>1, <1>2 DEF Message, Messages, Grants, Refuses
<1> HIDE DEF answer
<1>5. <<answer>> \in Seq(Messages) /\ Of(<<answer>>) = {answer}
  BY <1>4, OfOne
<1>6. Honest(<<answer>>) /\ Adopted(m, <<answer>>)
  BY <1>1, <1>3, <1>4, <1>5 DEF Honest, Adopted
<1>7. QED BY <1>3, <1>6 DEF Replies

LEMMA GrantReplies ==
  ASSUME TypeOK, NEW m \in Messages, GrantUpgrade(CodecAfter(host.codec, m))
  PROVE  \E ms : Replies(m, ms)
<1> DEFINE answer == Message("response", Upgrade, "ok", "structured")
<1>1. host'.codec = "structured" /\ toProduct' = toProduct \o <<answer>>
  BY DEF GrantUpgrade, Post, SwappedFirst, TypeOK
<1>2. answer \in Messages /\ answer.codec = "structured" /\ ~Refuses(answer)
  BY DEF Message, Messages, Refuses, Call, Codec
<1> HIDE DEF answer
<1>3. <<answer>> \in Seq(Messages) /\ Of(<<answer>>) = {answer}
  BY <1>2, OfOne
<1>4. Honest(<<answer>>) /\ Adopted(m, <<answer>>)
  BY <1>1, <1>2, <1>3 DEF Honest, Adopted, Structured, Codec
<1>5. QED BY <1>1, <1>4 DEF Replies

LEMMA RefuseUpgradeReplies ==
  ASSUME TypeOK, NEW m \in Messages, RefuseUpgrade(CodecAfter(host.codec, m))
  PROVE  \E ms : Replies(m, ms)
<1> DEFINE codec == CodecAfter(host.codec, m)
           refusal == Refusal(Upgrade, codec)
<1>1. codec \in Codec /\ (codec = "structured" <=> "structured" \in {host.codec, m.codec})
  BY CodecAfterFacts DEF TypeOK
<1>2. host'.codec = codec /\ toProduct' = toProduct \o refusal /\ <<Upgrade, codec>> \in unheard'
  BY DEF RefuseUpgrade, Post, TypeOK
<1> HIDE DEF codec
<1>3. refusal \in Seq(Messages)
      /\ \A x \in Of(refusal) : x.codec = codec /\ codec = "structured" /\ ~Grants(x) /\ x.request = Upgrade
  BY <1>1, RefusalFacts DEF Call
<1> HIDE DEF refusal
<1>4. Honest(refusal) /\ Adopted(m, refusal)
  BY <1>1, <1>2, <1>3 DEF Honest, Adopted
<1>5. QED BY <1>2, <1>4 DEF Replies

LEMMA HandleRequestReplies ==
  ASSUME TypeOK, NEW m \in Messages, NEW r \in Request, NEW version,
         HandleRequest(r, version, CodecAfter(host.codec, m))
  PROVE  \E ms : Replies(m, ms)
<1> DEFINE codec == CodecAfter(host.codec, m)
           refusal == IF IsUnhandled(r) THEN Refusal(r, codec) ELSE << >>
           errors == IF version = "v1" THEN << >>
                     ELSE Repeat(Message("response", r, "err", codec), registered)
<1>1. codec \in Codec /\ (codec = "structured" <=> "structured" \in {host.codec, m.codec})
  BY CodecAfterFacts DEF TypeOK
<1>2. host'.codec = codec /\ toProduct' = toProduct \o (refusal \o errors)
  BY DEF HandleRequest, Post, TypeOK
<1>3. registered = 0 => <<r, codec>> \in unheard'
  BY DEF HandleRequest
<1> HIDE DEF codec
<1>4. /\ refusal \in Seq(Messages)
      /\ \A x \in Of(refusal) : x.codec = codec /\ codec = "structured" /\ ~Grants(x) /\ x.request = r /\ ~handled
  BY <1>1, RefusalFacts, OfNone DEF Call, IsUnhandled
<1>5. errors \in Seq(Messages)
      /\ \A x \in Of(errors) : x.codec = codec /\ ~Grants(x) /\ ~Refuses(x)
  <2>1. registered \in Nat
    BY BoundsAreNat DEF TypeOK
  <2>2. QED BY <1>1, <2>1, ErrorsFacts, OfNone
<1> HIDE DEF refusal, errors
<1>6. refusal \o errors \in Seq(Messages)
      /\ Of(refusal \o errors) = Of(refusal) \cup Of(errors)
  BY <1>4, <1>5, OfConcatenated
<1>7. Honest(refusal \o errors) /\ Adopted(m, refusal \o errors)
  BY <1>1, <1>2, <1>3, <1>4, <1>5, <1>6 DEF Honest, Adopted
<1>8. QED BY <1>2, <1>7 DEF Replies

LEMMA HostReplies ==
  ASSUME TypeOK, ReceiveAtHost, HostUp
  PROVE  \E ms : Replies(Head(toHost), ms)
<1> DEFINE m == Head(toHost)
           codec == CodecAfter(host.codec, m)
<1>1. m \in Messages
  BY OfTaken DEF ReceiveAtHost, TypeOK
<1>2. \/ ShakeHands(codec) \/ GrantUpgrade(codec) \/ RefuseUpgrade(codec)
      \/ m.request # Upgrade /\ HandleRequest(m.request, m.what, codec)
  BY DEF ReceiveAtHost
<1>3. m.request # Upgrade => m.request \in Request
  BY <1>1 DEF Messages, Call
<1> HIDE DEF m
<1>4. QED
  BY <1>1, <1>2, <1>3, ShakeHandsReplies, GrantReplies, RefuseUpgradeReplies,
     HandleRequestReplies
  DEF m

-----------------------------------------------------------------------------
(* Types. *)

LEMMA SettleTypes ==
  ASSUME TypeOK, NEW r \in Call, NEW outcome \in Outcome, outcome # "pending"
  PROVE  LET settled == Settle(r, outcome)
         IN /\ settled \in [Call -> [phase : {"none", "waiting", "posted", "settled"},
                                     version : {"v1", "unknown"}, outcome : Outcome]]
            /\ \A x \in Call : settled[x].phase = "settled" <=> settled[x].outcome # "pending"
            /\ settled[r].outcome = outcome
            /\ \A x \in Call : x # r => settled[x] = request[x]
<1> DEFINE settled == Settle(r, outcome)
<1>1. /\ request \in [Call -> [phase : {"none", "waiting", "posted", "settled"},
                              version : {"v1", "unknown"}, outcome : Outcome]]
      /\ \A x \in Call : request[x].phase = "settled" <=> request[x].outcome # "pending"
  BY DEF TypeOK
<1>2. settled = [request EXCEPT ![r].phase = "settled", ![r].outcome = outcome]
  BY DEF Settle
<1> HIDE DEF settled
<1>3. /\ settled \in [Call -> [phase : {"none", "waiting", "posted", "settled"},
                               version : {"v1", "unknown"}, outcome : Outcome]]
      /\ settled[r].phase = "settled" /\ settled[r].outcome = outcome
      /\ \A x \in Call : x # r => settled[x] = request[x]
  BY <1>1, <1>2
<1>4. \A x \in Call : settled[x].phase = "settled" <=> settled[x].outcome # "pending"
  BY <1>1, <1>3
<1>5. QED
  BY <1>3, <1>4 DEF settled

(* The types of what requests are, apart from the rest. *)
RequestTypes ==
  /\ request \in [Call -> [phase : {"none", "waiting", "posted", "settled"},
                           version : {"v1", "unknown"}, outcome : Outcome]]
  /\ \A r \in Call : request[r].phase = "settled" <=> request[r].outcome # "pending"

LEMMA TypesInit == Init => TypeOK
<1> SUFFICES ASSUME Init
             PROVE  TypeOK
  OBVIOUS
<1>1. product \in [up : BOOLEAN, status : {"connecting", "connected", "disconnected"}, codec : Codec]
  BY DEF Init, Codec
<1>2. host \in [life : {"absent", "up", "down"}, connected : BOOLEAN, codec : Codec]
  BY DEF Init, Codec
<1>3. RequestTypes
  BY DEF Init, RequestTypes, NoRequest, Outcome
<1>4. toHost \in Seq(Messages) /\ toProduct \in Seq(Messages)
  BY DEF Init
<1>5. running \in [Request -> Nat] /\ registered \in 0 .. MaxHandlers /\ beats \in 0 .. MaxBeats
  BY BoundsAreNat DEF Init
<1>6. handled \in BOOLEAN /\ attached \in BOOLEAN
  BY DEF Init
<1>7. setting \in [window : BOOLEAN, sameVersion : BOOLEAN, allowUpgrade : BOOLEAN]
  BY Zenon DEF Init
<1>8. /\ handshake \in {"pending", "done", "failed"}
      /\ aborted \subseteq Call /\ rejected \subseteq Request /\ unheard \subseteq Call \X Codec
  BY DEF Init
<1>9. QED BY <1>1, <1>2, <1>3, <1>4, <1>5, <1>6, <1>7, <1>8 DEF TypeOK, RequestTypes

(* The handshake, the providers and destroy. *)
LEMMA ConnectionTypes ==
  ASSUME TypeOK, Attach \/ HostCreated \/ Beat \/ HandshakeFails \/ DestroyProduct \/ DestroyHost
  PROVE  TypeOK'
<1>1. CASE Attach
  BY <1>1 DEF Attach, TypeOK, ends, wires, handlers
<1>2. CASE HostCreated
  BY <1>2 DEF HostCreated, TypeOK, wires, handlers
<1>3. CASE Beat
  <2> DEFINE m == Message("handshake", Upgrade, "ask", product.codec)
  <2>1. m \in Messages
    BY DEF TypeOK, Message, Messages
  <2>2. toHost' \in Seq(Messages)
    BY <1>3, <2>1, OfAppended DEF Beat, TypeOK
  <2>3. beats' \in 0 .. MaxBeats
    BY <1>3, BoundsAreNat DEF Beat, TypeOK
  <2>4. QED BY <1>3, <2>2, <2>3 DEF Beat, TypeOK, ends, handlers
<1>4. CASE HandshakeFails
  BY <1>4 DEF HandshakeFails, TypeOK, wires, handlers
<1>5. CASE DestroyProduct
  <2>1. product' \in [up : BOOLEAN, status : {"connecting", "connected", "disconnected"}, codec : Codec]
    <3>1. FALSE \in BOOLEAN
      OBVIOUS
    <3>2. QED BY <1>5, <3>1, Zenon DEF DestroyProduct, TypeOK
  <2>2. toHost' \in Seq(Messages)
    BY <1>5 DEF DestroyProduct, TypeOK
  <2>3. QED BY <1>5, <2>1, <2>2 DEF DestroyProduct, TypeOK, handlers
<1>6. CASE DestroyHost
  BY <1>6 DEF DestroyHost, TypeOK, wires, handlers
<1>7. QED BY <1>1, <1>2, <1>3, <1>4, <1>5, <1>6

(* What a call does. *)
LEMMA CallTypes ==
  ASSUME TypeOK, NEW r \in Call, Ask(r) \/ Proceed(r) \/ Abort(r)
  PROVE  TypeOK'
<1>1. CASE Ask(r)
  <2>1. RequestTypes'
    <3>1. CASE product.up
      <4>1. PICK v \in {"v1", "unknown"} :
              request' = [request EXCEPT ![r].phase = "waiting", ![r].version = v]
        BY <1>1, <3>1 DEF Ask
      <4>2. r \in Call /\ request[r].phase = "none"
        BY <1>1 DEF Ask, Call
      <4>3. QED BY <4>1, <4>2 DEF TypeOK, RequestTypes
    <3>2. CASE ~product.up
      BY <1>1, <3>2, SettleTypes DEF Ask, RequestTypes, Outcome
    <3>3. QED BY <3>1, <3>2
  <2>2. QED BY <1>1, <2>1 DEF Ask, TypeOK, RequestTypes, ends, wires, handlers
<1>2. CASE Proceed(r)
  <2> DEFINE m == Message("request", r, request[r].version, product.codec)
  <2>1. m \in Messages
    BY DEF TypeOK, Message, Messages
  <2>2. toHost' \in Seq(Messages)
    BY <1>2, <2>1, OfAppended DEF Proceed, TypeOK
  <2>3. \/ request' = [request EXCEPT ![r].phase = "posted"]
        \/ request' = Settle(r, "aborted") \/ request' = Settle(r, "failed")
    BY <1>2 DEF Proceed
  <2>4. RequestTypes'
    <3>1. CASE request' = [request EXCEPT ![r].phase = "posted"]
      <4>1. request[r].phase = "waiting" /\ RequestTypes
        BY <1>2 DEF Proceed, TypeOK, RequestTypes
      <4>2. QED BY <3>1, <4>1 DEF RequestTypes
    <3>2. CASE request' = Settle(r, "aborted") \/ request' = Settle(r, "failed")
      BY <3>2, SettleTypes DEF RequestTypes, Outcome
    <3>3. QED BY <2>3, <3>1, <3>2
  <2>5. QED BY <1>2, <2>2, <2>4 DEF Proceed, TypeOK, RequestTypes, ends, handlers
<1>3. CASE Abort(r)
  <2>1. RequestTypes'
    BY <1>3, SettleTypes DEF Abort, TypeOK, RequestTypes, Outcome
  <2>2. aborted' \subseteq Call
    BY <1>3 DEF Abort, TypeOK
  <2>3. QED BY <1>3, <2>1, <2>2 DEF Abort, TypeOK, RequestTypes, ends, wires, handlers
<1>4. QED BY <1>1, <1>2, <1>3

(* What ReceiveAtProduct makes of a request. *)
LEMMA ReceivedRequests ==
  ASSUME TypeOK, ReceiveAtProduct, NEW r \in Call
  PROVE  LET m == Head(toProduct)
         IN \/ request'[r] = request[r]
            \/ m.kind = "response" /\ Answers(r, m) /\ request'[r] = Settle(r, m.what)[r]
            \/ r = Upgrade /\ request'[r] = [NoRequest EXCEPT !.phase = "waiting"]
BY DEF ReceiveAtProduct

LEMMA ReceiveAtProductTypes ==
  ASSUME TypeOK, ReceiveAtProduct
  PROVE  TypeOK'
<1> DEFINE m == Head(toProduct)
<1>1. m \in Messages /\ toProduct' \in Seq(Messages)
  BY OfTaken DEF ReceiveAtProduct, TypeOK
<1>2. product' \in [up : BOOLEAN, status : {"connecting", "connected", "disconnected"}, codec : Codec]
  <2>1. CodecAfter(product.codec, m) \in Codec /\ "structured" \in Codec
    BY <1>1, CodecAfterFacts DEF TypeOK, Codec
  <2>2. QED BY <2>1 DEF ReceiveAtProduct, TypeOK
<1>3. request' = [r \in Call |-> request'[r]]
  BY DEF ReceiveAtProduct, TypeOK
<1>4. ASSUME NEW r \in Call
      PROVE  /\ request'[r] \in [phase : {"none", "waiting", "posted", "settled"},
                                 version : {"v1", "unknown"}, outcome : Outcome]
             /\ request'[r].phase = "settled" <=> request'[r].outcome # "pending"
  <2>1. CASE request'[r] = request[r]
    BY <2>1 DEF TypeOK
  <2>2. CASE m.kind = "response" /\ request'[r] = Settle(r, m.what)[r]
    <3>1. m.what \in Outcome /\ m.what # "pending"
      BY <1>1, <2>2 DEF Messages, Outcome
    <3>2. QED BY <2>2, <3>1, SettleTypes
  <2>3. CASE request'[r] = [NoRequest EXCEPT !.phase = "waiting"]
    BY <2>3 DEF NoRequest, Outcome
  <2>4. QED BY <2>1, <2>2, <2>3, ReceivedRequests
<1>5. RequestTypes'
  BY <1>3, <1>4 DEF RequestTypes
<1>6. handshake' \in {"pending", "done", "failed"}
  BY DEF ReceiveAtProduct, TypeOK
<1>7. QED BY <1>1, <1>2, <1>5, <1>6 DEF ReceiveAtProduct, TypeOK, RequestTypes, handlers

LEMMA ReceiveAtHostTypes ==
  ASSUME TypeOK, ReceiveAtHost
  PROVE  TypeOK'
<1> DEFINE m == Head(toHost)
           codec == CodecAfter(host.codec, m)
<1>1. m \in Messages /\ toHost' \in Seq(Messages)
  BY OfTaken DEF ReceiveAtHost, TypeOK
<1>2. m.request # Upgrade => m.request \in Request
  BY <1>1 DEF Messages, Call
<1>3. CASE ~HostUp
  BY <1>1, <1>3 DEF ReceiveAtHost, TypeOK
<1>4. CASE HostUp
  <2>1. toProduct' \in Seq(Messages)
    <3>1. PICK ms : Replies(m, ms)
      BY <1>4, HostReplies
    <3>2. ms \in Seq(Messages) /\ toProduct' = toProduct \o ms /\ toProduct \in Seq(Messages)
      BY <3>1 DEF Replies, Honest, TypeOK
    <3>3. QED BY <3>2, OfConcatenated
  <2>2. codec \in Codec
    BY <1>1, CodecAfterFacts DEF TypeOK
  <2>3. host' \in [life : {"absent", "up", "down"}, connected : BOOLEAN, codec : Codec]
    <3> DEFINE greeted == host.connected \/ setting.sameVersion
    <3>1. greeted \in BOOLEAN
      OBVIOUS
    <3>2. \/ host' = [host EXCEPT !.codec = codec, !.connected = greeted]
          \/ host' = [host EXCEPT !.codec = "structured"] \/ host' = [host EXCEPT !.codec = codec]
      BY <1>4, Zenon DEF ReceiveAtHost, ShakeHands, GrantUpgrade, RefuseUpgrade, HandleRequest
    <3> HIDE DEF greeted, codec
    <3>3. "structured" \in Codec
      BY DEF Codec
    <3>4. QED BY <2>2, <3>1, <3>2, <3>3 DEF TypeOK
  <2>4. running' \in [Request -> Nat] /\ unheard' \subseteq Call \X Codec
    <3> HIDE DEF codec
    <3>1. CASE ShakeHands(codec) \/ GrantUpgrade(codec) \/ RefuseUpgrade(codec)
      <4>1. unheard' = unheard \/ unheard' = unheard \cup {<<Upgrade, codec>>}
        BY <3>1 DEF ShakeHands, GrantUpgrade, RefuseUpgrade
      <4>2. unheard' \subseteq Call \X Codec
        BY <2>2, <4>1 DEF TypeOK, Call
      <4>3. QED BY <3>1, <4>2 DEF ShakeHands, GrantUpgrade, RefuseUpgrade, TypeOK
    <3>2. CASE m.request # Upgrade /\ HandleRequest(m.request, m.what, codec)
      <4>1. m.request \in Request /\ registered \in Nat
        BY <1>2, <3>2, BoundsAreNat DEF TypeOK
      <4>2. running' \in [Request -> Nat]
        BY <3>2, <4>1 DEF HandleRequest, TypeOK
      <4>3. unheard' = unheard \/ unheard' = unheard \cup {<<m.request, codec>>}
        BY <3>2 DEF HandleRequest
      <4>4. QED BY <2>2, <4>1, <4>2, <4>3 DEF TypeOK, Call
    <3>3. QED BY <1>4, <3>1, <3>2 DEF ReceiveAtHost, codec
  <2>5. QED BY <1>1, <2>1, <2>3, <2>4 DEF ReceiveAtHost, TypeOK
<1>5. QED BY <1>3, <1>4

LEMMA HandlerTypes ==
  ASSUME TypeOK, Register \/ Unregister \/ \E r \in Request : HandlerEnds(r)
  PROVE  TypeOK'
<1>1. CASE Register \/ Unregister
  <2>1. registered' \in 0 .. MaxHandlers
    BY <1>1, BoundsAreNat DEF Register, Unregister, TypeOK
  <2>2. handled' \in BOOLEAN
    BY <1>1 DEF Register, Unregister
  <2>3. QED BY <1>1, <2>1, <2>2 DEF Register, Unregister, TypeOK, ends, wires
<1>2. ASSUME NEW r \in Request, HandlerEnds(r)
      PROVE  TypeOK'
  <2>1. \A what \in {"ok", "err"} : Message("response", r, what, host.codec) \in Messages
    BY DEF TypeOK, Message, Messages, Call
  <2>2. toProduct' \in Seq(Messages)
    <3>1. \A what \in {"ok", "err"} : Answer(r, what) \in Seq(Messages)
      BY <2>1, OfOne DEF Answer
    <3>2. \/ toProduct' = toProduct \o << >> \/ UNCHANGED toProduct
          \/ \E what \in {"ok", "err"} : toProduct' = toProduct \o Answer(r, what)
      BY <1>2 DEF HandlerEnds, Post
    <3>3. toProduct \in Seq(Messages)
      BY DEF TypeOK
    <3>4. ASSUME NEW what \in {"ok", "err"}, toProduct' = toProduct \o Answer(r, what)
          PROVE  toProduct' \in Seq(Messages)
      BY <3>1, <3>3, <3>4, OfConcatenated
    <3>5. QED BY <3>2, <3>3, <3>4, OfNone, OfConcatenated
  <2>3. running' \in [Request -> Nat] /\ rejected' \subseteq Request
    BY <1>2 DEF HandlerEnds, TypeOK
  <2>4. QED BY <1>2, <2>2, <2>3 DEF HandlerEnds, TypeOK, ends
<1>3. QED BY <1>1, <1>2

LEMMA TypesStep == TypeOK /\ [Next]_vars => TypeOK'
<1> SUFFICES ASSUME TypeOK, [Next]_vars
             PROVE  TypeOK'
  OBVIOUS
<1>1. CASE Attach \/ HostCreated \/ Beat \/ HandshakeFails \/ DestroyProduct \/ DestroyHost
  BY <1>1, ConnectionTypes
<1>2. CASE \E r \in Call : Ask(r) \/ Proceed(r) \/ Abort(r)
  BY <1>2, CallTypes
<1>3. CASE ReceiveAtProduct
  BY <1>3, ReceiveAtProductTypes
<1>4. CASE ReceiveAtHost
  BY <1>4, ReceiveAtHostTypes
<1>5. CASE Register \/ Unregister \/ \E r \in Request : HandlerEnds(r)
  BY <1>5, HandlerTypes
<1>6. CASE UNCHANGED vars
  BY <1>6 DEF TypeOK, vars, ends, wires, handlers
<1>7. QED BY <1>1, <1>2, <1>3, <1>4, <1>5, <1>6 DEF Next, Delivery

(* Types and the shape of what is on the wire, createTransport of transport.ts:
   whatever is posted, received, timed out or destroyed. *)
THEOREM TypeCorrect == Spec => []TypeOK
<1>1. QED BY TypesInit, TypesStep, PTL DEF Spec

-----------------------------------------------------------------------------
(* The codecs.  The host is the first to change, and says so with everything it
   posts from then on; what it posted before does not count against it. *)

CodecInv ==
  /\ Structured(toHost) => product.codec = "structured"
  /\ product.codec = "structured" \/ Structured(toProduct) => host.codec = "structured"
  /\ product.up /\ host.codec = "structured" =>
       product.codec = "structured" \/ Structured(toProduct)
  /\ \A m \in Of(toProduct) : Grants(m) => m.codec = "structured"

LEMMA CodecInvConverges == TypeOK /\ CodecInv => CodecsConverge
BY DEF TypeOK, CodecInv, CodecsConverge, BothUp, Structured, Of

(* What the product posts is encoded with its codec. *)
LEMMA PostedToHost ==
  ASSUME TypeOK, CodecInv, NEW m \in Messages, m.codec = product.codec,
         toHost' \in {toHost, Append(toHost, m)},
         UNCHANGED toProduct, host'.codec = host.codec, product'.codec = product.codec,
         product'.up => product.up
  PROVE  CodecInv'
<1>1. Of(toHost') \subseteq Of(toHost) \cup {m}
  BY OfAppended DEF TypeOK
<1>2. QED BY <1>1 DEF CodecInv, Structured

LEMMA ProductCodec ==
  ASSUME TypeOK, CodecInv, ReceiveAtProduct
  PROVE  CodecInv'
<1> DEFINE m == Head(toProduct)
<1>1. /\ m \in Messages /\ toProduct' = Tail(toProduct)
      /\ Of(toProduct) = {m} \cup Of(toProduct')
  BY OfTaken DEF ReceiveAtProduct, TypeOK
<1>2. CASE ~product.up
  BY <1>1, <1>2 DEF ReceiveAtProduct, CodecInv, Structured
<1>3. CASE product.up
  <2>1. /\ product'.codec = "structured" =>
             "structured" \in {product.codec, m.codec} \/ Grants(m)
        /\ "structured" \in {product.codec, m.codec} => product'.codec = "structured"
    <3> DEFINE codec == CodecAfter(product.codec, m)
    <3>1. codec = "structured" <=> "structured" \in {product.codec, m.codec}
      BY <1>1, CodecAfterFacts DEF TypeOK
    <3>2. \/ product'.codec = codec
          \/ product'.codec = "structured" /\ Grants(m)
      BY <1>3 DEF ReceiveAtProduct, TypeOK, Answers, Grants
    <3>3. QED BY <3>1, <3>2
  <2>2. UNCHANGED <<host, toHost>>
    BY DEF ReceiveAtProduct
  <2>3. QED BY <1>1, <1>3, <2>1, <2>2 DEF CodecInv, Structured
<1>4. QED BY <1>2, <1>3

LEMMA HostCodec ==
  ASSUME TypeOK, CodecInv, ReceiveAtHost
  PROVE  CodecInv'
<1> DEFINE m == Head(toHost)
<1>1. m \in Messages /\ Of(toHost) = {m} \cup Of(toHost') /\ UNCHANGED product
  BY OfTaken DEF ReceiveAtHost, TypeOK
<1>2. CASE ~HostUp
  BY <1>1, <1>2 DEF ReceiveAtHost, CodecInv, Structured
<1>3. CASE HostUp
  <2>1. PICK ms : Replies(m, ms)
    BY <1>3, HostReplies
  <2>2. Of(toProduct') = Of(toProduct) \cup Of(ms)
    BY <2>1, OfConcatenated DEF Replies, Honest, TypeOK
  <2>3. QED BY <1>1, <2>1, <2>2 DEF CodecInv, Structured, Replies, Honest, Adopted
<1>4. QED BY <1>2, <1>3

LEMMA HandlerCodec ==
  ASSUME TypeOK, CodecInv, NEW r \in Request, HandlerEnds(r)
  PROVE  CodecInv'
<1>1. CASE UNCHANGED toProduct
  BY <1>1 DEF HandlerEnds, CodecInv, ends
<1>2. CASE toProduct' # toProduct
  <2>1. PICK what \in {"ok", "err"} : toProduct' = toProduct \o Answer(r, what)
    <3>1. toProduct \o << >> = toProduct
      BY DEF TypeOK
    <3>2. QED BY <1>2, <3>1 DEF HandlerEnds, Post
  <2> DEFINE m == Message("response", r, what, host.codec)
  <2>2. m \in Messages /\ m.codec = host.codec /\ ~Grants(m)
    BY UpgradeIsApart DEF TypeOK, Message, Messages, Call, Grants
  <2>3. Answer(r, what) = <<m>>
    BY DEF Answer
  <2> HIDE DEF m
  <2>4. Of(toProduct') = Of(toProduct) \cup {m}
    <3>1. toProduct \in Seq(Messages)
      BY DEF TypeOK
    <3>2. <<m>> \in Seq(Messages) /\ Of(<<m>>) = {m}
      BY <2>2, OfOne
    <3>3. toProduct' = toProduct \o <<m>>
      BY <2>1, <2>3
    <3>4. QED BY <3>1, <3>2, <3>3, OfConcatenated
  <2>5. UNCHANGED <<product, host, toHost>>
    BY DEF HandlerEnds, ends
  <2>6. QED BY <2>2, <2>4, <2>5 DEF CodecInv, Structured
<1>3. QED BY <1>1, <1>2

LEMMA CodecStep == TypeOK /\ CodecInv /\ [Next]_vars => CodecInv'
<1> SUFFICES ASSUME TypeOK, CodecInv, [Next]_vars
             PROVE  CodecInv'
  OBVIOUS
<1>1. CASE UNCHANGED <<ends, wires>>
  BY <1>1 DEF CodecInv, ends, wires
<1>2. CASE HostCreated \/ DestroyHost \/ HandshakeFails
  BY <1>2 DEF HostCreated, DestroyHost, HandshakeFails, wires, CodecInv, TypeOK
<1>3. CASE Beat
  <2>1. Message("handshake", Upgrade, "ask", product.codec) \in Messages
        /\ Message("handshake", Upgrade, "ask", product.codec).codec = product.codec
    BY DEF TypeOK, Message, Messages
  <2>2. QED BY <1>3, <2>1, PostedToHost DEF Beat, ends
<1>4. ASSUME NEW r \in Call, Proceed(r)
      PROVE  CodecInv'
  <2> DEFINE m == Message("request", r, request[r].version, product.codec)
  <2>1. m \in Messages /\ m.codec = product.codec
    BY DEF TypeOK, Message, Messages
  <2>2. toHost' \in {toHost, Append(toHost, m)} /\ UNCHANGED <<ends, toProduct>>
    BY <1>4 DEF Proceed
  <2> HIDE DEF m
  <2>3. QED BY <2>1, <2>2, PostedToHost DEF ends
<1>5. CASE DestroyProduct
  <2>1. /\ product'.codec = product.codec /\ ~product'.up
        /\ UNCHANGED <<host, toProduct>> /\ toHost' \in {toHost, << >>}
    BY <1>5 DEF DestroyProduct, TypeOK
  <2>2. QED BY <2>1, OfNone DEF CodecInv, Structured
<1>6. CASE ReceiveAtProduct
  BY <1>6, ProductCodec
<1>7. CASE ReceiveAtHost
  BY <1>7, HostCodec
<1>8. CASE \E r \in Request : HandlerEnds(r)
  BY <1>8, HandlerCodec
<1>9. QED
  BY <1>1, <1>2, <1>3, <1>4, <1>5, <1>6, <1>7, <1>8
  DEF Next, vars, Delivery, Attach, Ask, Abort, Register, Unregister

(* Both sides converge on one codec, negotiation.ts: whatever is timed out or
   crosses on the wire. *)
THEOREM ConvergeCorrect == Spec => []CodecsConverge
<1>1. Init => CodecInv
  BY OfNone DEF Init, CodecInv, Structured
<1>2. QED BY <1>1, TypesInit, TypesStep, CodecStep, CodecInvConverges, PTL DEF Spec

-----------------------------------------------------------------------------
(* Refusals.  With two registrations that overlap, ending one makes the
   catch-all answer what the other handles; with one at a time it does not. *)

HeardInv ==
  /\ ~handled => registered = 0
  /\ \A m \in Of(toProduct) : Refuses(m) => <<m.request, "structured">> \in unheard
  /\ RefusedIsUnheard

(* An answer that is not a refusal settles nothing as unsupported. *)
LEMMA ProductHeard ==
  ASSUME TypeOK, HeardInv, ReceiveAtProduct
  PROVE  HeardInv'
<1> DEFINE m == Head(toProduct)
<1>1. /\ m \in Messages /\ Of(toProduct) = {m} \cup Of(toProduct')
      /\ UNCHANGED <<handled, registered, unheard>>
  BY OfTaken DEF ReceiveAtProduct, TypeOK, handlers
<1>2. ASSUME NEW r \in Call, request'[r].outcome = "notSupported"
      PROVE  <<r, "structured">> \in unheard
  <2>1. CASE request'[r] = request[r]
    BY <1>2, <2>1 DEF HeardInv, RefusedIsUnheard
  <2>2. CASE m.kind = "response" /\ Answers(r, m) /\ request'[r] = Settle(r, m.what)[r]
    <3>1. m.what \in Outcome /\ m.what # "pending"
      BY <1>1, <2>2 DEF Messages, Outcome
    <3>2. Refuses(m) /\ m.request = r
      BY <1>2, <2>2, <3>1, SettleTypes DEF Refuses, Answers
    <3>3. QED BY <1>1, <3>2 DEF HeardInv
  <2>3. CASE request'[r] = [NoRequest EXCEPT !.phase = "waiting"]
    BY <1>2, <2>3 DEF NoRequest
  <2>4. QED BY <2>1, <2>2, <2>3, ReceivedRequests
<1>3. QED BY <1>1, <1>2 DEF HeardInv, RefusedIsUnheard

LEMMA HostHeard ==
  ASSUME TypeOK, HeardInv, ReceiveAtHost
  PROVE  HeardInv'
<1>1. UNCHANGED <<request, handled, registered>> /\ unheard \subseteq unheard'
  BY DEF ReceiveAtHost, ShakeHands, GrantUpgrade, RefuseUpgrade, HandleRequest
<1>2. CASE ~HostUp
  BY <1>1, <1>2 DEF ReceiveAtHost, HeardInv, RefusedIsUnheard
<1>3. CASE HostUp
  <2>1. PICK ms : Replies(Head(toHost), ms)
    BY <1>3, HostReplies
  <2>2. Of(toProduct') = Of(toProduct) \cup Of(ms)
    BY <2>1, OfConcatenated DEF Replies, Honest, TypeOK
  <2>3. QED BY <1>1, <2>1, <2>2 DEF HeardInv, RefusedIsUnheard, Replies, Honest
<1>4. QED BY <1>2, <1>3

LEMMA HandlerHeard ==
  ASSUME TypeOK, HeardInv, NEW r \in Request, HandlerEnds(r)
  PROVE  HeardInv'
<1>1. UNCHANGED <<request, handled, registered, unheard>>
  BY DEF HandlerEnds
<1>2. CASE UNCHANGED toProduct
  BY <1>1, <1>2 DEF HeardInv, RefusedIsUnheard
<1>3. CASE toProduct' # toProduct
  <2>1. PICK what \in {"ok", "err"} : toProduct' = toProduct \o Answer(r, what)
    <3>1. toProduct \o << >> = toProduct
      BY DEF TypeOK
    <3>2. QED BY <1>3, <3>1 DEF HandlerEnds, Post
  <2> DEFINE m == Message("response", r, what, host.codec)
  <2>2. m \in Messages /\ ~Refuses(m)
    BY DEF TypeOK, Message, Messages, Call, Refuses
  <2>3. Answer(r, what) = <<m>>
    BY DEF Answer
  <2> HIDE DEF m
  <2>4. Of(toProduct') = Of(toProduct) \cup {m}
    <3>1. toProduct \in Seq(Messages)
      BY DEF TypeOK
    <3>2. <<m>> \in Seq(Messages) /\ Of(<<m>>) = {m}
      BY <2>2, OfOne
    <3>3. toProduct' = toProduct \o <<m>>
      BY <2>1, <2>3
    <3>4. QED BY <3>1, <3>2, <3>3, OfConcatenated
  <2>5. QED BY <1>1, <2>2, <2>4 DEF HeardInv, RefusedIsUnheard
<1>4. QED BY <1>2, <1>3

LEMMA CallHeard ==
  ASSUME TypeOK, HeardInv, NEW r \in Call, Ask(r) \/ Proceed(r) \/ Abort(r)
  PROVE  HeardInv'
<1>1. UNCHANGED <<toProduct, handled, registered, unheard>>
  BY DEF Ask, Proceed, Abort, handlers, wires
<1>2. ASSUME NEW x \in Call, request'[x].outcome = "notSupported"
      PROVE  request[x].outcome = "notSupported"
  <2>1. \/ request' = [request EXCEPT ![r].phase = "posted"]
        \/ request' = Settle(r, "aborted") \/ request' = Settle(r, "failed")
        \/ UNCHANGED request
        \/ \E v \in {"v1", "unknown"} :
             request' = [request EXCEPT ![r].phase = "waiting", ![r].version = v]
    BY DEF Ask, Proceed, Abort
  <2>2. CASE request' = Settle(r, "aborted") \/ request' = Settle(r, "failed")
    <3>1. PICK outcome \in {"aborted", "failed"} : request' = Settle(r, outcome)
      BY <2>2
    <3>2. outcome \in Outcome /\ outcome \notin {"pending", "notSupported"}
      BY DEF Outcome
    <3>3. request'[r].outcome = outcome /\ (x # r => request'[x] = request[x])
      BY <3>1, <3>2, SettleTypes
    <3>4. QED BY <1>2, <3>2, <3>3
  <2>3. request \in [Call -> [phase : {"none", "waiting", "posted", "settled"},
                              version : {"v1", "unknown"}, outcome : Outcome]]
    BY DEF TypeOK
  <2>4. QED BY <1>2, <2>1, <2>2, <2>3
<1>3. QED BY <1>1, <1>2 DEF HeardInv, RefusedIsUnheard

LEMMA HeardStep ==
  ASSUME MaxHandlers <= 1
  PROVE  TypeOK /\ HeardInv /\ [Next]_vars => HeardInv'
<1> SUFFICES ASSUME TypeOK, HeardInv, [Next]_vars
             PROVE  HeardInv'
  OBVIOUS
<1>1. CASE UNCHANGED <<request, toProduct, handled, registered, unheard>>
  BY <1>1 DEF HeardInv, RefusedIsUnheard
<1>2. CASE Register \/ Unregister
  <2>1. ~handled' => registered' = 0
    BY <1>2, BoundsAreNat DEF Register, Unregister, TypeOK
  <2>2. UNCHANGED <<request, toProduct, unheard>>
    BY <1>2 DEF Register, Unregister, wires
  <2>3. QED BY <2>1, <2>2 DEF HeardInv, RefusedIsUnheard
<1>3. CASE ReceiveAtProduct
  BY <1>3, ProductHeard
<1>4. CASE ReceiveAtHost
  BY <1>4, HostHeard
<1>5. CASE \E r \in Request : HandlerEnds(r)
  BY <1>5, HandlerHeard
<1>6. CASE \E r \in Call : Ask(r) \/ Proceed(r) \/ Abort(r)
  BY <1>6, CallHeard
<1>7. QED
  BY <1>1, <1>2, <1>3, <1>4, <1>5, <1>6
  DEF Next, vars, wires, handlers, Delivery, Attach, HostCreated, Beat, HandshakeFails,
      DestroyProduct, DestroyHost

(* The catch-all of transport.ts refuses only what no handler was registered
   for, and only in structured clones, as long as a method has one handler at a time. *)
THEOREM RefusedCorrect ==
  ASSUME MaxHandlers <= 1
  PROVE  Spec => []RefusedIsUnheard
<1>1. Init => HeardInv
  BY OfNone DEF Init, HeardInv, RefusedIsUnheard, NoRequest
<1>2. HeardInv => RefusedIsUnheard
  BY DEF HeardInv
<1>3. TypeOK /\ HeardInv /\ [Next]_vars => HeardInv'
  BY HeardStep
<1>4. QED BY <1>1, <1>2, <1>3, TypesInit, TypesStep, PTL DEF Spec

=============================================================================
