-------------------- MODULE TransportSubscription_proofs --------------------
(* Proofs about TransportSubscription, for every instance of its constants. *)
EXTENDS TransportSubscription, SequenceTheorems, TLAPS

-----------------------------------------------------------------------------
(* Channels. *)

LEMMA AppendedInFlight ==
  ASSUME NEW q \in Seq(Message), NEW m \in Message, NEW tag \in Tag, NEW i \in Id
  PROVE  InFlight(Append(q, m), tag, i)
           <=> InFlight(q, tag, i) \/ (m.tag = tag /\ m.id = i)
BY SMTT(30) DEF InFlight

LEMMA PoppedInFlight ==
  ASSUME NEW q \in Seq(Message), q # << >>, NEW tag \in Tag, NEW i \in Id
  PROVE  InFlight(q, tag, i)
           <=> InFlight(Tail(q), tag, i) \/ (Head(q).tag = tag /\ Head(q).id = i)
<1>1. /\ Len(q) \in Nat \ {0} /\ Len(Tail(q)) = Len(q) - 1
      /\ DOMAIN q = 1 .. Len(q) /\ DOMAIN Tail(q) = 1 .. Len(Tail(q))
      /\ Head(q) = q[1]
      /\ \A n \in 1 .. Len(Tail(q)) : Tail(q)[n] = q[n + 1]
  BY HeadTailProperties, EmptySeq
<1>2. ASSUME InFlight(q, tag, i)
      PROVE  InFlight(Tail(q), tag, i) \/ (Head(q).tag = tag /\ Head(q).id = i)
  <2>1. PICK n \in DOMAIN q : q[n].tag = tag /\ q[n].id = i
    BY <1>2 DEF InFlight
  <2>2. CASE n = 1
    BY <2>1, <2>2, <1>1
  <2>3. CASE n # 1
    <3>1. n - 1 \in DOMAIN Tail(q) /\ Tail(q)[n - 1] = q[n]
      BY <2>3, <1>1
    <3>2. QED BY <2>1, <3>1 DEF InFlight
  <2>4. QED BY <2>2, <2>3
<1>3. ASSUME InFlight(Tail(q), tag, i) PROVE InFlight(q, tag, i)
  <2>1. PICK n \in DOMAIN Tail(q) : Tail(q)[n].tag = tag /\ Tail(q)[n].id = i
    BY <1>3 DEF InFlight
  <2>2. n + 1 \in DOMAIN q /\ Tail(q)[n] = q[n + 1]
    BY <1>1
  <2>3. QED BY <2>1, <2>2 DEF InFlight
<1>4. ASSUME Head(q).tag = tag, Head(q).id = i PROVE InFlight(q, tag, i)
  <2>1. 1 \in DOMAIN q /\ Head(q) = q[1]
    BY <1>1
  <2>2. QED BY <1>4, <2>1 DEF InFlight
<1>5. QED BY <1>2, <1>3, <1>4

LEMMA PoppedOrdered ==
  ASSUME NEW q \in Seq(Message), q # << >>, Ordered(q)
  PROVE  Ordered(Tail(q)) /\ ~InFlight(Tail(q), "start", Head(q).id)
<1>1. /\ Len(q) \in Nat \ {0} /\ Len(Tail(q)) = Len(q) - 1
      /\ DOMAIN q = 1 .. Len(q) /\ DOMAIN Tail(q) = 1 .. Len(Tail(q))
      /\ Head(q) = q[1]
      /\ \A n \in 1 .. Len(Tail(q)) : Tail(q)[n] = q[n + 1]
  BY HeadTailProperties, EmptySeq
<1>2. Ordered(Tail(q))
  BY <1>1 DEF Ordered
<1>3. ~InFlight(Tail(q), "start", Head(q).id)
  BY <1>1 DEF Ordered, InFlight
<1>4. QED BY <1>2, <1>3

LEMMA AppendedOrdered ==
  ASSUME NEW q \in Seq(Message), NEW m \in Message, Ordered(q),
         m.tag = "start" => \A tag \in Tag : ~InFlight(q, tag, m.id)
  PROVE  Ordered(Append(q, m))
<1>1. \A n \in DOMAIN q : q[n] \in Message
  OBVIOUS
<1>2. \A n \in DOMAIN q : q[n].tag \in Tag
  BY <1>1 DEF Message
<1>3. m.tag = "start" => \A n \in DOMAIN q : q[n].id # m.id
  BY <1>2 DEF InFlight
<1>4. QED BY <1>3 DEF Ordered

-----------------------------------------------------------------------------
(* The consumer's bookkeeping. *)

ConsumerInv == TypeOK /\ WireIsShared /\ HandlesListed

LEMMA MessageType ==
  ASSUME NEW tag \in Tag, NEW i \in Id
  PROVE  [tag |-> tag, id |-> i] \in Message
BY DEF Message

LEMMA PostedToHostType ==
  ASSUME TypeOK, NEW tag \in Tag, NEW i \in Id, PostToHost(tag, i)
  PROVE  toHost' \in Seq(Message)
BY MessageType DEF PostToHost, TypeOK

LEMMA PostedToProductType ==
  ASSUME TypeOK, NEW tag \in Tag, NEW i \in Id, PostToProduct(tag, i)
  PROVE  toProduct' \in Seq(Message)
BY MessageType DEF PostToProduct, TypeOK

LEMMA ArrivalType ==
  ASSUME NEW q \in Seq(Message), NEW tag, Arrives(q, tag)
  PROVE  /\ q # << >> /\ Head(q).id \in Id /\ Head(q).tag = tag
         /\ Tail(q) \in Seq(Message)
<1>1. q # << >> /\ Head(q).tag = tag
  BY DEF Arrives
<1>2. Head(q) \in Message /\ Tail(q) \in Seq(Message)
  BY <1>1, HeadTailProperties
<1>3. QED BY <1>1, <1>2 DEF Message

LEMMA ConsumerInit == Init => ConsumerInv
<1> SUFFICES ASSUME Init PROVE ConsumerInv
  OBVIOUS
<1>1. << >> \in Seq(Message)
  OBVIOUS
<1>2. lastId \in 0 .. MaxId
  BY BoundsAreNat DEF Init
<1>3. TypeOK
  BY <1>1, <1>2 DEF Init, TypeOK
<1>4. WireIsShared /\ HandlesListed
  BY DEF Init, WireIsShared, HandlesListed, Listening
<1>5. QED BY <1>3, <1>4 DEF ConsumerInv

(* What an unregistration does: S are cleaned up, and R, none or one of them,
   interrupts its subscription. *)
LEMMA Unregistration ==
  ASSUME TypeOK, Unregister
  PROVE  \E S \in SUBSET Id, R \in SUBSET Id :
           /\ S \subseteq Running /\ R \subseteq S
           /\ cleanups' = CleanedUp(S, R) /\ interrupted' = interrupted \cup R
           /\ \/ R = {} /\ toProduct' = toProduct
              \/ \E i \in Id : R = {i} /\ PostToProduct("interrupt", i)
           /\ \/ /\ S = Running /\ registered' = FALSE /\ producer' = Ended(S)
                 /\ dropped' = dropped \cup (S \ R) /\ repeatable' = repeatable \cup R
                 /\ failed' = failed
              \/ \E i \in S \ R :
                   /\ failed' = failed \cup {i} /\ repeatable' = repeatable \cup S
                   /\ producer' = Ended(R) /\ registered' = registered /\ dropped' = dropped
<1>1. PICK S \in SUBSET Running : \E R \in Reentering(S) :
        /\ cleanups' = CleanedUp(S, R)
        /\ interrupted' = interrupted \cup R
        /\ IF R = {} THEN UNCHANGED toProduct ELSE \E i \in R : PostToProduct("interrupt", i)
        /\ \/ /\ S = Running /\ registered' = FALSE
              /\ producer' = Ended(S)
              /\ dropped' = dropped \cup (S \ R) /\ repeatable' = repeatable \cup R
              /\ UNCHANGED failed
           \/ \E i \in S \ R :
                /\ MayThrow(i)
                /\ failed' = failed \cup {i} /\ repeatable' = repeatable \cup S
                /\ producer' = Ended(R)
                /\ UNCHANGED <<registered, dropped>>
  BY DEF Unregister
<1>2. PICK R \in Reentering(S) :
        /\ cleanups' = CleanedUp(S, R)
        /\ interrupted' = interrupted \cup R
        /\ IF R = {} THEN UNCHANGED toProduct ELSE \E i \in R : PostToProduct("interrupt", i)
        /\ \/ /\ S = Running /\ registered' = FALSE
              /\ producer' = Ended(S)
              /\ dropped' = dropped \cup (S \ R) /\ repeatable' = repeatable \cup R
              /\ UNCHANGED failed
           \/ \E i \in S \ R :
                /\ MayThrow(i)
                /\ failed' = failed \cup {i} /\ repeatable' = repeatable \cup S
                /\ producer' = Ended(R)
                /\ UNCHANGED <<registered, dropped>>
  BY <1>1
<1>3. Running \subseteq Id
  BY DEF Running
<1>4. R = {} \/ \E i \in S : R = {i}
  BY <1>2 DEF Reentering
<1>5. S \in SUBSET Id /\ R \in SUBSET Id /\ R \subseteq S
  BY <1>1, <1>3, <1>4
<1>6. \/ R = {} /\ toProduct' = toProduct
      \/ \E i \in Id : R = {i} /\ PostToProduct("interrupt", i)
  BY <1>2, <1>4, <1>5
<1>7. \/ /\ S = Running /\ registered' = FALSE /\ producer' = Ended(S)
         /\ dropped' = dropped \cup (S \ R) /\ repeatable' = repeatable \cup R
         /\ failed' = failed
      \/ \E i \in S \ R :
           /\ failed' = failed \cup {i} /\ repeatable' = repeatable \cup S
           /\ producer' = Ended(R) /\ registered' = registered /\ dropped' = dropped
  BY <1>2
<1>8. QED BY <1>2, <1>5, <1>6, <1>7

(* The producer's steps leave the consumer's bookkeeping alone. *)
LEMMA ProducerType ==
  ASSUME TypeOK,
         \/ Register \/ HandleStart \/ RefuseStart \/ HandleStop \/ EndStop
         \/ Unregister \/ DestroyHost
         \/ \E i \in Id : Send(i) \/ Interrupt(i)
  PROVE  TypeOK'
<1>1. CASE Register
  BY <1>1 DEF Register, TypeOK, consumerVars
<1>2. CASE HandleStart
  <2> DEFINE i == Head(toHost).id
  <2>1. i \in Id /\ toHost' \in Seq(Message)
    BY <1>2, ArrivalType DEF HandleStart, InterruptAtOnce, TypeOK
  <2>2. toProduct' \in Seq(Message)
    BY <1>2, <2>1, PostedToProductType DEF HandleStart, InterruptAtOnce, TypeOK, Tag
  <2>3. CASE producer' = [producer EXCEPT ![i] = "running"]
             /\ UNCHANGED <<interrupted, cleanups, failed, toProduct>>
    BY <1>2, <2>1, <2>2, <2>3 DEF HandleStart, InterruptAtOnce, TypeOK, consumerVars
  <2>4. CASE /\ producer' = [producer EXCEPT ![i] = "over"]
             /\ interrupted' = interrupted \cup {i}
             /\ cleanups' = [cleanups EXCEPT ![i] = @ + 1]
             /\ UNCHANGED failed
    <3>1. producer' \in [Id -> {"new", "running", "over", "refused"}]
          /\ interrupted' \subseteq Id
      BY <2>1, <2>4 DEF TypeOK
    <3>2. cleanups' \in [Id -> Nat]
      BY <2>1, <2>4 DEF TypeOK
    <3>3. QED BY <1>2, <2>1, <2>2, <2>4, <3>1, <3>2
      DEF HandleStart, InterruptAtOnce, TypeOK, consumerVars
  <2>5. CASE /\ producer' = [producer EXCEPT ![i] = "over"]
             /\ failed' = failed \cup {i}
             /\ UNCHANGED <<interrupted, cleanups, toProduct>>
    <3>1. producer' \in [Id -> {"new", "running", "over", "refused"}]
          /\ failed' \subseteq Id
      BY <2>1, <2>5 DEF TypeOK
    <3>2. QED BY <1>2, <2>1, <2>2, <2>5, <3>1 DEF HandleStart, InterruptAtOnce, TypeOK, consumerVars
  <2>6. QED BY <1>2, <2>3, <2>4, <2>5 DEF HandleStart, InterruptAtOnce
<1>3. CASE RefuseStart
  <2>1. Head(toHost).id \in Id /\ toHost' \in Seq(Message)
    BY <1>3, ArrivalType DEF RefuseStart, TypeOK
  <2>2. toProduct' \in Seq(Message)
    BY <1>3, <2>1, PostedToProductType DEF RefuseStart, CatchAll, Tag
  <2>3. QED BY <1>3, <2>1, <2>2 DEF RefuseStart, TypeOK, consumerVars
<1>4. CASE HandleStop
  <2>1. Head(toHost).id \in Id /\ toHost' \in Seq(Message)
    BY <1>4, ArrivalType DEF HandleStop, TypeOK
  <2>2. stopping' \in Id \cup {None} /\ cleanups' \in [Id -> Nat]
    <3> DEFINE i == Head(toHost).id
    <3>1. \/ stopping' = i /\ cleanups' = [cleanups EXCEPT ![i] = @ + 1]
          \/ stopping' = stopping /\ cleanups' = cleanups
      BY <1>4 DEF HandleStop
    <3> HIDE DEF i
    <3>2. i \in Id
      BY <2>1 DEF i
    <3>3. QED BY <3>1, <3>2 DEF TypeOK
  <2>3. QED BY <1>4, <2>1, <2>2 DEF HandleStop, TypeOK, consumerVars
<1>5. CASE EndStop
  BY <1>5 DEF EndStop, TypeOK, Deleted, consumerVars
<1>6. CASE Unregister
  <2>1. PICK S \in SUBSET Id, R \in SUBSET Id :
           /\ S \subseteq Running /\ R \subseteq S
           /\ cleanups' = CleanedUp(S, R) /\ interrupted' = interrupted \cup R
           /\ \/ R = {} /\ toProduct' = toProduct
              \/ \E i \in Id : R = {i} /\ PostToProduct("interrupt", i)
           /\ \/ /\ S = Running /\ registered' = FALSE /\ producer' = Ended(S)
                 /\ dropped' = dropped \cup (S \ R) /\ repeatable' = repeatable \cup R
                 /\ failed' = failed
              \/ \E i \in S \ R :
                   /\ failed' = failed \cup {i} /\ repeatable' = repeatable \cup S
                   /\ producer' = Ended(R) /\ registered' = registered /\ dropped' = dropped
    BY <1>6, Unregistration
  <2>2. toProduct' \in Seq(Message)
    BY <2>1, PostedToProductType DEF TypeOK, Tag
  <2>3. cleanups' \in [Id -> Nat] /\ interrupted' \subseteq Id
    BY <2>1 DEF CleanedUp, TypeOK
  <2>4. \A T : Ended(T) \in [Id -> {"new", "running", "over", "refused"}]
    BY DEF Ended, TypeOK
  <2>5. /\ failed' \subseteq Id /\ dropped' \subseteq Id /\ repeatable' \subseteq Id
        /\ registered' \in BOOLEAN /\ producer' \in [Id -> {"new", "running", "over", "refused"}]
    <3>1. CASE /\ S = Running /\ registered' = FALSE /\ producer' = Ended(S)
               /\ dropped' = dropped \cup (S \ R) /\ repeatable' = repeatable \cup R
               /\ failed' = failed
      BY <2>4, <3>1 DEF TypeOK
    <3>2. ASSUME NEW i \in S \ R, failed' = failed \cup {i}, repeatable' = repeatable \cup S,
                 producer' = Ended(R), registered' = registered, dropped' = dropped
          PROVE  /\ failed' \subseteq Id /\ dropped' \subseteq Id /\ repeatable' \subseteq Id
                 /\ registered' \in BOOLEAN
                 /\ producer' \in [Id -> {"new", "running", "over", "refused"}]
      BY <2>4, <3>2 DEF TypeOK
    <3>3. QED BY <2>1, <3>1, <3>2
  <2>6. UNCHANGED <<consumerVars, stopping, hostUp, sends, toHost>>
    BY <1>6 DEF Unregister
  <2>7. QED BY <2>2, <2>3, <2>5, <2>6 DEF TypeOK, consumerVars
<1>7. CASE DestroyHost
  <2>1. << >> \in Seq(Message)
    OBVIOUS
  <2>2. QED BY <1>7, <2>1 DEF DestroyHost, TypeOK, consumerVars
<1>8. ASSUME NEW i \in Id, Send(i) PROVE TypeOK'
  <2>1. toProduct' \in Seq(Message)
    BY <1>8, PostedToProductType DEF Send, Tag
  <2>2. sends' \in Nat
    BY <1>8 DEF Send, TypeOK
  <2>3. QED BY <1>8, <2>1, <2>2 DEF Send, TypeOK, consumerVars
<1>9. ASSUME NEW i \in Id, Interrupt(i) PROVE TypeOK'
  <2>1. toProduct' \in Seq(Message)
    BY <1>9, PostedToProductType DEF Interrupt, Tag, TypeOK
  <2>2. producer' \in [Id -> {"new", "running", "over", "refused"}]
        /\ interrupted' \subseteq Id /\ cleanups' \in [Id -> Nat] /\ failed' \subseteq Id
        /\ repeatable' \subseteq Id
    BY <1>9 DEF Interrupt, TypeOK, Deleted
  <2>3. QED BY <1>9, <2>1, <2>2 DEF Interrupt, TypeOK, consumerVars
<1>10. QED BY <1>1, <1>2, <1>3, <1>4, <1>5, <1>6, <1>7, <1>8, <1>9

(* The consumer's steps. *)
LEMMA OpenConsumer ==
  ASSUME ConsumerInv, NEW c \in Caller, NEW k \in Key, Open(c, k)
  PROVE  ConsumerInv'
<1> DEFINE i == lastId + 1
           e == [id |-> i, listeners |-> {c}]
           o == [key |-> k, creator |-> c]
           h == [key |-> k, id |-> i, told |-> FALSE]
<1> USE DEF ConsumerInv
<1>1. i \in Id /\ lastId' \in 0 .. MaxId
  BY BoundsAreNat DEF Open, Id, TypeOK
<1>2. e \in Entry /\ o \in Origin /\ h \in Handle
  BY <1>1 DEF Entry, Origin, Handle
<1>3. e # None /\ o # None /\ h # None
  BY <1>2, NoneIsNothing
<1>4. /\ active[k] = None
      /\ active' = [active EXCEPT ![k] = e] /\ wire' = [wire EXCEPT ![i] = "open"]
      /\ origin' = [origin EXCEPT ![i] = o] /\ handle' = [handle EXCEPT ![c] = h]
      /\ calling' = calling
  BY DEF Open
<1>5. toHost' \in Seq(Message)
  BY <1>1, PostedToHostType DEF Open, Tag
<1>6. TypeOK'
  <2>1. /\ active' \in [Key -> Entry \cup {None}]
        /\ wire' \in [Id -> {"new", "open", "left", "interrupted"}]
        /\ origin' \in [Id -> Origin \cup {None}]
        /\ handle' \in [Caller -> Handle \cup {None}]
    BY <1>1, <1>2, <1>4 DEF TypeOK
  <2>2. \A l \in Key : active'[l] # None => active'[l].listeners # {}
    BY <1>4 DEF TypeOK
  <2>3. QED BY <1>1, <1>4, <1>5, <2>1, <2>2 DEF Open, TypeOK, producerVars
<1>7. WireIsShared'
  <2>1. ASSUME NEW j \in Id, Listening(j)'
        PROVE  origin'[j] # None /\ active'[origin'[j].key] # None
               /\ active'[origin'[j].key].id = j
    <3>1. CASE j = i
      BY <1>1, <1>2, <1>3, <1>4, <3>1 DEF TypeOK
    <3>2. CASE j # i
      <4>1. Listening(j) /\ origin'[j] = origin[j]
        BY <1>4, <2>1, <3>2 DEF Listening, TypeOK
      <4>2. origin[j] # None /\ active[origin[j].key] # None /\ active[origin[j].key].id = j
        BY <4>1 DEF WireIsShared
      <4>3. QED BY <1>4, <4>1, <4>2 DEF TypeOK, Origin
    <3>3. QED BY <3>1, <3>2
  <2>2. calling' # None /\ calling'.attached =>
          active'[calling'.key] # None /\ active'[calling'.key].id = calling'.id
    BY <1>4 DEF WireIsShared, TypeOK, Dispatch
  <2>3. QED BY <2>1, <2>2 DEF WireIsShared, Listening
<1>8. HandlesListed'
  BY <1>2, <1>3, <1>4 DEF HandlesListed, TypeOK, Handle
<1>9. QED BY <1>6, <1>7, <1>8

LEMMA JoinConsumer ==
  ASSUME ConsumerInv, NEW c \in Caller, NEW k \in Key, Join(c, k)
  PROVE  ConsumerInv'
<1> DEFINE e == [active[k] EXCEPT !.listeners = @ \cup {c}]
           h == [key |-> k, id |-> active[k].id, told |-> FALSE]
<1> USE DEF ConsumerInv
<1>1. active[k] \in Entry
  BY DEF Join, TypeOK
<1>2. /\ e \in Entry /\ h \in Handle
      /\ e.id = active[k].id /\ e.listeners = active[k].listeners \cup {c}
  BY <1>1 DEF Entry, Handle
<1>3. e # None /\ h # None
  BY <1>2, NoneIsNothing
<1>4. /\ active' = [active EXCEPT ![k] = e] /\ handle' = [handle EXCEPT ![c] = h]
      /\ wire' = wire /\ origin' = origin
  BY DEF Join
<1>5. calling' \in Dispatch \cup {None}
      /\ (calling # None <=> calling' # None)
      /\ (calling # None => /\ calling'.id = calling.id /\ calling'.key = calling.key
                            /\ calling'.attached = calling.attached)
  <2>1. CASE calling = None
    BY <2>1 DEF Join
  <2>2. CASE calling # None
    <3>1. calling \in Dispatch
      BY <2>2 DEF TypeOK
    <3>2. calling' \in Dispatch /\ calling'.id = calling.id /\ calling'.key = calling.key
          /\ calling'.attached = calling.attached
      BY <2>2, <3>1 DEF Join, Dispatch
    <3>3. QED BY <2>2, <3>2, NoneIsNothing
  <2>3. QED BY <2>1, <2>2
<1>6. TypeOK'
  <2>1. /\ active' \in [Key -> Entry \cup {None}]
        /\ handle' \in [Caller -> Handle \cup {None}]
        /\ \A l \in Key : active'[l] # None => active'[l].listeners # {}
    BY <1>2, <1>4 DEF TypeOK
  <2>2. QED BY <1>5, <2>1 DEF Join, TypeOK, producerVars
<1>7. WireIsShared'
  BY <1>2, <1>3, <1>4, <1>5 DEF WireIsShared, Listening, TypeOK, Origin, Dispatch
<1>8. HandlesListed'
  BY <1>2, <1>3, <1>4 DEF HandlesListed, TypeOK, Handle
<1>9. QED BY <1>6, <1>7, <1>8

LEMMA UnsubscribeConsumer ==
  ASSUME ConsumerInv, NEW c \in Caller, Unsubscribe(c)
  PROVE  ConsumerInv'
<1> DEFINE k == handle[c].key
           e == [active[k] EXCEPT !.listeners = Remaining(c, k)]
<1> USE DEF ConsumerInv
<1>1. /\ handle[c] \in Handle /\ k \in Key
      /\ active[k] \in Entry /\ active[k].id = handle[c].id /\ active[k].id \in Id
  BY DEF Unsubscribe, TypeOK, Handle, HandlesListed, Entry
<1>2. /\ e \in Entry /\ e.id = active[k].id /\ e.listeners = active[k].listeners \ {c}
  BY <1>1 DEF Entry, Remaining
<1>3. e # None
  BY <1>2, NoneIsNothing
<1>4. /\ active' = [active EXCEPT ![k] = IF LastToLeave(c, k) THEN None ELSE e]
      /\ handle' = [handle EXCEPT ![c] = None]
      /\ wire' = IF LastToLeave(c, k) THEN Kill(active[k].id) ELSE wire
      /\ origin' = origin
      /\ calling' = Detached(c, k)
  BY DEF Unsubscribe
<1>5. /\ calling' \in Dispatch \cup {None}
      /\ calling' # None => /\ calling # None
                            /\ calling'.id = calling.id /\ calling'.key = calling.key
                            /\ calling'.attached => calling.attached /\ calling.key # k
  BY <1>4 DEF Detached, TypeOK, Dispatch
<1>6. Kill(active[k].id) \in [Id -> {"new", "open", "left", "interrupted"}]
      /\ \A j \in Id : Kill(active[k].id)[j] = "open" => j # active[k].id /\ wire[j] = "open"
  BY <1>1 DEF Kill, TypeOK
<1>7. TypeOK'
  <2>1. toHost' \in Seq(Message)
    BY <1>1, PostedToHostType DEF Unsubscribe, PostStop, Tag, TypeOK
  <2>2. /\ active' \in [Key -> Entry \cup {None}]
        /\ handle' \in [Caller -> Handle \cup {None}]
        /\ \A l \in Key : active'[l] # None => active'[l].listeners # {}
    BY <1>1, <1>2, <1>4 DEF TypeOK, LastToLeave, Remaining
  <2>3. wire' \in [Id -> {"new", "open", "left", "interrupted"}]
    BY <1>4, <1>6 DEF TypeOK
  <2>4. QED BY <1>5, <2>1, <2>2, <2>3 DEF Unsubscribe, TypeOK, producerVars
<1>8. WireIsShared'
  <2>1. ASSUME NEW j \in Id, Listening(j)'
        PROVE  origin'[j] # None /\ active'[origin'[j].key] # None
               /\ active'[origin'[j].key].id = j
    <3>1. wire[j] = "open" /\ (LastToLeave(c, k) => j # active[k].id)
      BY <1>4, <1>6, <2>1 DEF Listening
    <3>2. origin[j] # None /\ active[origin[j].key] # None /\ active[origin[j].key].id = j
          /\ origin[j].key \in Key
      BY <3>1 DEF WireIsShared, Listening, TypeOK, Origin
    <3>3. CASE origin[j].key = k
      <4>1. ~LastToLeave(c, k)
        BY <3>1, <3>2, <3>3
      <4>2. active'[k] = e
        BY <1>1, <1>4, <4>1 DEF TypeOK
      <4>3. QED BY <1>2, <1>3, <1>4, <3>2, <3>3, <4>2
    <3>4. CASE origin[j].key # k
      BY <1>4, <3>2, <3>4 DEF TypeOK
    <3>5. QED BY <3>3, <3>4
  <2>2. calling' # None /\ calling'.attached =>
          active'[calling'.key] # None /\ active'[calling'.key].id = calling'.id
    BY <1>4, <1>5 DEF WireIsShared, TypeOK, Dispatch
  <2>3. QED BY <2>1, <2>2 DEF WireIsShared
<1>9. HandlesListed'
  <2>1. ASSUME NEW d \in Caller, handle'[d] # None
        PROVE  active'[handle'[d].key] # None /\ active'[handle'[d].key].id = handle'[d].id
               /\ d \in active'[handle'[d].key].listeners
    <3>1. d # c /\ handle'[d] = handle[d]
      BY <1>4, <2>1 DEF TypeOK
    <3>2. /\ handle[d].key \in Key /\ active[handle[d].key] # None
          /\ active[handle[d].key].id = handle[d].id
          /\ d \in active[handle[d].key].listeners
      BY <2>1, <3>1 DEF HandlesListed, TypeOK, Handle
    <3>3. CASE handle[d].key = k
      <4>1. ~LastToLeave(c, k)
        BY <3>1, <3>2, <3>3 DEF LastToLeave, Remaining
      <4>2. active'[k] = e
        BY <1>1, <1>4, <4>1 DEF TypeOK
      <4>3. QED BY <1>2, <1>3, <3>1, <3>2, <3>3, <4>2
    <3>4. CASE handle[d].key # k
      BY <1>4, <3>1, <3>2, <3>4 DEF TypeOK
    <3>5. QED BY <3>3, <3>4
  <2>2. QED BY <2>1 DEF HandlesListed
<1>10. QED BY <1>7, <1>8, <1>9

LEMMA ReceiveConsumer ==
  ASSUME ConsumerInv, Receive
  PROVE  ConsumerInv'
<1> DEFINE i == Head(toProduct).id
           ls == active[origin[i].key].listeners
<1> USE DEF ConsumerInv
<1>1. i \in Id /\ toProduct' \in Seq(Message)
  BY ArrivalType DEF Receive, TypeOK
<1>2. UNCHANGED <<active, wire, origin, lastId, handle, productUp, producerVars, toHost>>
  BY DEF Receive
<1>3. CASE ~Listening(i)
  <2>1. calling' = calling
    BY <1>3 DEF Receive
  <2>2. QED BY <1>1, <1>2, <2>1
          DEF TypeOK, WireIsShared, HandlesListed, Listening, producerVars
<1>4. CASE Listening(i)
  <2>1. /\ origin[i].key \in Key /\ active[origin[i].key] \in Entry
        /\ active[origin[i].key].id = i /\ active[origin[i].key] # None
    BY <1>1, <1>4 DEF WireIsShared, TypeOK, Origin
  <2>2. PICK c \in ls : calling' = [id |-> i, key |-> origin[i].key, rest |-> ls \ {c},
                                    attached |-> TRUE, threw |-> FALSE,
                                    due |-> Sharing(i), called |-> {c}]
    BY <1>4 DEF Receive
  <2>3. calling' \in Dispatch
    BY <1>1, <2>1, <2>2 DEF Dispatch, Entry, Sharing
  <2>4. TypeOK'
    BY <1>1, <1>2, <2>3 DEF TypeOK, producerVars
  <2>5. WireIsShared'
    BY <1>2, <2>1, <2>2 DEF WireIsShared, Listening
  <2>6. QED BY <1>2, <2>4, <2>5 DEF HandlesListed
<1>5. QED BY <1>3, <1>4

LEMMA ConsumerStep ==
  ASSUME ConsumerInv, [Next]_vars
  PROVE  ConsumerInv'
<1> USE DEF ConsumerInv
<1>1. ASSUME NEW c \in Caller, NEW k \in Key, Open(c, k) PROVE ConsumerInv'
  BY <1>1, OpenConsumer
<1>2. ASSUME NEW c \in Caller, NEW k \in Key, Join(c, k) PROVE ConsumerInv'
  BY <1>2, JoinConsumer
<1>3. ASSUME NEW c \in Caller, Unsubscribe(c) PROVE ConsumerInv'
  BY <1>3, UnsubscribeConsumer
<1>4. CASE Receive
  BY <1>4, ReceiveConsumer
<1>5. CASE CallNext
  <2>1. PICK c \in calling.rest :
          calling' = [calling EXCEPT !.rest = @ \ {c}, !.called = @ \cup {c}]
    BY <1>5 DEF CallNext
  <2>2. calling \in Dispatch
    BY <1>5 DEF CallNext, TypeOK
  <2>3. /\ calling' \in Dispatch /\ calling # None
        /\ calling'.id = calling.id /\ calling'.key = calling.key
        /\ calling'.attached = calling.attached
    BY <1>5, <2>1, <2>2 DEF CallNext, Dispatch
  <2>4. UNCHANGED <<active, wire, origin, lastId, handle, productUp, producerVars,
                    toHost, toProduct>>
    BY <1>5 DEF CallNext
  <2>5. TypeOK' /\ HandlesListed'
    BY <2>3, <2>4 DEF TypeOK, HandlesListed, producerVars
  <2>6. WireIsShared'
    BY <2>3, <2>4 DEF WireIsShared, Listening
  <2>7. QED BY <2>5, <2>6
<1>6. CASE ListenerThrows
  <2>1. calling \in Dispatch /\ calling # None
    BY <1>6 DEF ListenerThrows, TypeOK
  <2>2. calling' \in Dispatch /\ ~calling'.attached
    BY <1>6, <2>1 DEF ListenerThrows, Dispatch
  <2>3. UNCHANGED <<active, wire, origin, lastId, handle, productUp, producerVars,
                    toHost, toProduct>>
    BY <1>6 DEF ListenerThrows
  <2>4. TypeOK' /\ HandlesListed'
    BY <2>2, <2>3 DEF TypeOK, HandlesListed, producerVars
  <2>5. WireIsShared'
    BY <2>2, <2>3 DEF WireIsShared, Listening
  <2>6. QED BY <2>4, <2>5
<1>12. CASE EndDispatch
  BY <1>12 DEF EndDispatch, TypeOK, WireIsShared, HandlesListed, Listening, producerVars
<1>7. CASE Interrupted
  <2> DEFINE i == Head(toProduct).id
             c == origin[i].creator
  <2>1. i \in Id /\ toProduct' \in Seq(Message)
    BY <1>7, ArrivalType DEF Interrupted, TypeOK
  <2>2. /\ UNCHANGED <<active, origin, lastId, calling, productUp, producerVars, toHost>>
        /\ wire' = [wire EXCEPT ![i] = IF @ = "open" THEN "interrupted" ELSE @]
        /\ handle' = IF wire[i] = "open" /\ handle[c] # None /\ handle[c].id = i
                     THEN [handle EXCEPT ![c].told = TRUE] ELSE handle
    BY <1>7 DEF Interrupted
  <2>3. /\ handle' \in [Caller -> Handle \cup {None}]
        /\ \A d \in Caller : handle'[d] # None =>
             /\ handle[d] # None /\ handle'[d].key = handle[d].key
             /\ handle'[d].id = handle[d].id
    <3>1. CASE handle' = handle
      BY <3>1 DEF TypeOK
    <3>2. CASE handle[c] # None /\ handle' = [handle EXCEPT ![c].told = TRUE]
      <4>1. handle \in [Caller -> Handle \cup {None}]
        BY DEF TypeOK
      <4>2. c \in Caller => [handle[c] EXCEPT !.told = TRUE] \in Handle
        BY <3>2, <4>1 DEF Handle
      <4>3. QED BY <3>2, <4>1, <4>2 DEF Handle
    <3>3. QED BY <2>2, <3>1, <3>2
  <2>4. wire' \in [Id -> {"new", "open", "left", "interrupted"}]
        /\ \A j \in Id : wire'[j] = "open" => wire[j] = "open"
    BY <2>1, <2>2 DEF TypeOK
  <2>5. TypeOK'
    BY <2>1, <2>2, <2>3, <2>4 DEF TypeOK, producerVars
  <2>6. WireIsShared'
    BY <2>2, <2>4 DEF WireIsShared, Listening
  <2>7. HandlesListed'
    <3>1. active' = active
      BY <2>2
    <3>2. QED BY <3>1, <2>3 DEF HandlesListed
  <2>8. QED BY <2>5, <2>6, <2>7
<1>8. CASE DestroyProduct
  <2>1. << >> \in Seq(Message)
    OBVIOUS
  <2>2. wire' \in [Id -> {"new", "open", "left", "interrupted"}]
        /\ \A j \in Id : wire'[j] = "open" => wire[j] = "open"
    BY <1>8 DEF DestroyProduct, TypeOK
  <2>3. UNCHANGED <<active, origin, lastId, handle, calling, producerVars, toHost>>
    BY <1>8 DEF DestroyProduct
  <2>4. TypeOK'
    <3>1. toProduct' = << >> /\ productUp' = FALSE
      BY <1>8 DEF DestroyProduct
    <3>2. QED BY <2>1, <2>2, <2>3, <3>1 DEF TypeOK, producerVars
  <2>5. WireIsShared'
    BY <2>2, <2>3 DEF WireIsShared, Listening
  <2>6. HandlesListed'
    BY <2>3 DEF HandlesListed
  <2>7. QED BY <2>4, <2>5, <2>6
<1>9. ASSUME \/ Register \/ HandleStart \/ RefuseStart \/ HandleStop \/ EndStop
             \/ Unregister \/ DestroyHost
             \/ \E i \in Id : Send(i) \/ Interrupt(i)
      PROVE  ConsumerInv'
  <2>1. TypeOK'
    BY <1>9, ProducerType
  <2>2. UNCHANGED consumerVars
    BY <1>9 DEF Register, HandleStart, InterruptAtOnce, RefuseStart, HandleStop, EndStop, Unregister,
                DestroyHost, Send, Interrupt
  <2>3. QED BY <2>1, <2>2 DEF consumerVars, WireIsShared, HandlesListed, Listening
<1>10. CASE UNCHANGED vars
  BY <1>10 DEF vars, consumerVars, producerVars, TypeOK, WireIsShared, HandlesListed, Listening
<1>11. QED
  BY <1>1, <1>2, <1>3, <1>4, <1>5, <1>6, <1>7, <1>8, <1>9, <1>10, <1>12 DEF Next

(* Types are right in every reachable state. *)
THEOREM TypeCorrect == Spec => []TypeOK
<1>1. Init => ConsumerInv
  BY ConsumerInit
<1>2. ConsumerInv /\ [Next]_vars => ConsumerInv'
  BY ConsumerStep
<1>3. ConsumerInv => TypeOK
  BY DEF ConsumerInv
<1>4. QED BY <1>1, <1>2, <1>3, PTL DEF Spec

(* Callers share what is on the wire, and a dispatch stays with the listeners
   of its own subscription. *)
THEOREM SharingCorrect == Spec => [](WireIsShared /\ HandlesListed)
<1>1. Init => ConsumerInv
  BY ConsumerInit
<1>2. ConsumerInv /\ [Next]_vars => ConsumerInv'
  BY ConsumerStep
<1>3. ConsumerInv => WireIsShared /\ HandlesListed
  BY DEF ConsumerInv
<1>4. QED BY <1>1, <1>2, <1>3, PTL DEF Spec

-----------------------------------------------------------------------------
(* What a post and a delivery do to the channels. *)

LEMMA PostedToHost ==
  ASSUME TypeOK, NEW tag \in Tag, NEW i \in Id, PostToHost(tag, i)
  PROVE  /\ \A t \in Tag, j \in Id :
              InFlight(toHost', t, j)
                <=> InFlight(toHost, t, j) \/ (productUp /\ hostUp /\ t = tag /\ j = i)
         /\ (tag = "start" => \A t \in Tag : ~InFlight(toHost, t, i)) /\ Ordered(toHost)
              => Ordered(toHost')
         /\ ~hostUp => toHost' = toHost
<1> DEFINE m == [tag |-> tag, id |-> i]
<1>1. m \in Message /\ m.tag = tag /\ m.id = i /\ toHost \in Seq(Message)
  BY MessageType DEF TypeOK
<1>2. toHost' = IF productUp /\ hostUp THEN Append(toHost, m) ELSE toHost
  BY DEF PostToHost
<1>3. \A t \in Tag, j \in Id :
        InFlight(Append(toHost, m), t, j) <=> InFlight(toHost, t, j) \/ (tag = t /\ i = j)
  BY <1>1, AppendedInFlight
<1>4. (tag = "start" => \A t \in Tag : ~InFlight(toHost, t, i)) /\ Ordered(toHost)
        => Ordered(Append(toHost, m))
  BY <1>1, AppendedOrdered
<1>5. QED BY <1>2, <1>3, <1>4

LEMMA PostedToProduct ==
  ASSUME TypeOK, NEW tag \in Tag, NEW i \in Id, PostToProduct(tag, i)
  PROVE  \A t \in Tag, j \in Id :
           InFlight(toProduct', t, j)
             <=> InFlight(toProduct, t, j) \/ (productUp /\ hostUp /\ t = tag /\ j = i)
<1> DEFINE m == [tag |-> tag, id |-> i]
<1>1. m \in Message /\ m.tag = tag /\ m.id = i /\ toProduct \in Seq(Message)
  BY MessageType DEF TypeOK
<1>2. toProduct' = IF productUp /\ hostUp THEN Append(toProduct, m) ELSE toProduct
  BY DEF PostToProduct
<1>3. \A t \in Tag, j \in Id :
        InFlight(Append(toProduct, m), t, j)
          <=> InFlight(toProduct, t, j) \/ (tag = t /\ i = j)
  BY <1>1, AppendedInFlight
<1>4. QED BY <1>2, <1>3

LEMMA Delivered ==
  ASSUME NEW q \in Seq(Message), NEW tag \in Tag, Arrives(q, tag)
  PROVE  /\ Head(q).id \in Id
         /\ \A t \in Tag, j \in Id :
              InFlight(q, t, j) <=> InFlight(Tail(q), t, j) \/ (t = tag /\ j = Head(q).id)
         /\ Ordered(q) => Ordered(Tail(q)) /\ ~InFlight(Tail(q), "start", Head(q).id)
<1>1. q # << >> /\ Head(q).id \in Id /\ Head(q).tag = tag
  BY ArrivalType
<1>2. QED BY <1>1, PoppedInFlight, PoppedOrdered

LEMMA NothingInFlight == \A t, j : ~InFlight(<< >>, t, j)
BY DEF InFlight

-----------------------------------------------------------------------------
(* The wire. *)

LEMMA WireInit == Init => WireInv
<1> SUFFICES ASSUME Init PROVE WireInv
  OBVIOUS
<1>1. Ordered(<< >>)
  BY DEF Ordered
<1>2. ASSUME NEW i \in Id PROVE StartSound(i) /\ Unborn(i) /\ EndsSound(i)
  <2>1. ~(i <= 0)
    BY BoundsAreNat DEF Id
  <2>2. /\ wire[i] = "new" /\ producer[i] = "new" /\ lastId = 0 /\ stopping # i
        /\ toHost = << >> /\ toProduct = << >>
    BY NoneIsNothing DEF Init
  <2>3. QED BY <2>1, <2>2, NothingInFlight DEF StartSound, Unborn, EndsSound, Listening
<1>3. Running = {} /\ EntriesBorn /\ NoOrphan /\ ConsumerServed
  BY DEF Init, Running, EntriesBorn, NoOrphan, ConsumerServed, Listening
<1>4. QED BY <1>1, <1>2, <1>3 DEF Init, WireInv

LEMMA EntriesStep ==
  ASSUME ConsumerInv, EntriesBorn, [Next]_vars
  PROVE  EntriesBorn'
<1>1. ASSUME NEW c \in Caller, NEW k \in Key, Open(c, k) PROVE EntriesBorn'
  <2>1. /\ lastId \in Nat /\ lastId' = lastId + 1
        /\ active' = [active EXCEPT ![k] = [id |-> lastId + 1, listeners |-> {c}]]
    BY <1>1, BoundsAreNat DEF Open, ConsumerInv, TypeOK
  <2>2. QED BY <2>1 DEF EntriesBorn, ConsumerInv, TypeOK, Entry, Id
<1>2. ASSUME NEW c \in Caller, NEW k \in Key, Join(c, k) PROVE EntriesBorn'
  BY <1>2 DEF Join, EntriesBorn, ConsumerInv, TypeOK, Entry
<1>3. ASSUME NEW c \in Caller, Unsubscribe(c) PROVE EntriesBorn'
  <2> DEFINE k == handle[c].key
  <2>1. k \in Key /\ active[k] \in Entry /\ lastId' = lastId
    BY <1>3 DEF Unsubscribe, ConsumerInv, HandlesListed, TypeOK, Handle
  <2>2. active' = [active EXCEPT ![k] = IF LastToLeave(c, k) THEN None
                                       ELSE [@ EXCEPT !.listeners = Remaining(c, k)]]
    BY <1>3 DEF Unsubscribe
  <2>3. [active[k] EXCEPT !.listeners = Remaining(c, k)].id = active[k].id
        /\ active[k] # None
    BY <2>1, NoneIsNothing DEF Entry
  <2>4. \A l \in Key : active'[l] # None => active[l] # None /\ active'[l].id = active[l].id
    BY <2>1, <2>2, <2>3 DEF ConsumerInv, TypeOK
  <2>5. QED BY <2>1, <2>4 DEF EntriesBorn
<1>4. CASE UNCHANGED <<active, lastId>>
  BY <1>4 DEF EntriesBorn
<1>5. QED
  BY <1>1, <1>2, <1>3, <1>4
  DEF Next, vars, consumerVars, Receive, CallNext, ListenerThrows, EndDispatch, Interrupted, DestroyProduct,
      DestroyHost, Register, HandleStart, InterruptAtOnce, RefuseStart, HandleStop, EndStop,
      Unregister, Send,
      Interrupt

LEMMA OpenWire ==
  ASSUME ConsumerInv, WireInv, EntriesBorn', NEW c \in Caller, NEW k \in Key, Open(c, k)
  PROVE  WireInv'
<1> DEFINE i == lastId + 1
<1>1. /\ i \in Id /\ lastId \in Nat /\ lastId' = i /\ wire' = [wire EXCEPT ![i] = "open"]
      /\ productUp /\ PostToHost("start", i)
      /\ UNCHANGED <<productUp, registered, producer, stopping, hostUp, failed, dropped, toProduct>>
  BY BoundsAreNat DEF Open, MaySubscribe, ConsumerInv, TypeOK, Id, producerVars
<1>2. /\ wire[i] = "new" /\ producer[i] = "new"
      /\ \A t \in Tag : ~InFlight(toHost, t, i)
  BY <1>1 DEF WireInv, Unborn
<1>3. /\ \A t \in Tag, j \in Id :
            InFlight(toHost', t, j) <=> InFlight(toHost, t, j) \/ (hostUp /\ t = "start" /\ j = i)
      /\ Ordered(toHost') /\ (~hostUp => toHost' = toHost)
  BY <1>1, <1>2, PostedToHost DEF ConsumerInv, WireInv, Tag
<1>4. ASSUME NEW j \in Id
      PROVE  StartSound(j)' /\ Unborn(j)' /\ EndsSound(j)'
  BY <1>1, <1>2, <1>3
  DEF WireInv, StartSound, Unborn, EndsSound, Listening, ConsumerInv, TypeOK, Tag, Id
<1>5. NoOrphan' /\ ConsumerServed'
  BY <1>1, <1>2, <1>3
  DEF WireInv, NoOrphan, ConsumerServed, Running, Listening, ConsumerInv, TypeOK, Tag
<1>6. QED BY <1>1, <1>3, <1>4, <1>5 DEF WireInv, Running

(* Steps that change nothing on the wire but the values it carries. *)
LEMMA WireKept ==
  ASSUME WireInv, EntriesBorn',
         UNCHANGED <<wire, lastId, productUp, registered, producer, stopping, hostUp, failed,
                     dropped, toHost>>,
         \A j \in Id : InFlight(toProduct', "interrupt", j)
                         <=> InFlight(toProduct, "interrupt", j)
  PROVE  WireInv'
<1>1. ASSUME NEW j \in Id
      PROVE  StartSound(j)' /\ Unborn(j)' /\ EndsSound(j)'
  BY DEF WireInv, StartSound, Unborn, EndsSound, Listening
<1>2. NoOrphan' /\ ConsumerServed'
  BY DEF WireInv, NoOrphan, ConsumerServed, Running, Listening
<1>3. QED BY <1>1, <1>2 DEF WireInv, Running

LEMMA UnsubscribeWire ==
  ASSUME ConsumerInv, WireInv, EntriesBorn', NEW c \in Caller, Unsubscribe(c)
  PROVE  WireInv'
<1> DEFINE k == handle[c].key
           i == active[k].id
<1>1. UNCHANGED <<lastId, productUp, registered, producer, stopping, hostUp, failed, dropped,
                  toProduct>>
  BY DEF Unsubscribe, producerVars
<1>2. CASE ~LastToLeave(c, k)
  BY <1>1, <1>2, WireKept DEF Unsubscribe, PostStop
<1>3. CASE LastToLeave(c, k)
  <2>1. /\ i \in Id /\ wire' = Kill(i) /\ PostToHost("stop", i)
    BY <1>3 DEF Unsubscribe, PostStop, ConsumerInv, HandlesListed, TypeOK, Handle, Entry
  <2>2. wire[i] # "new" /\ i <= lastId
    BY <2>1, <1>3 DEF Unsubscribe, WireInv, EntriesBorn, EndsSound, ConsumerInv, HandlesListed,
                      TypeOK, Handle
  <2>3. /\ \A t \in Tag, j \in Id :
              InFlight(toHost', t, j)
                <=> InFlight(toHost, t, j) \/ (productUp /\ hostUp /\ t = "stop" /\ j = i)
        /\ Ordered(toHost') /\ (~hostUp => toHost' = toHost)
    BY <2>1, PostedToHost DEF ConsumerInv, WireInv, Tag
  <2>4. \A j \in Id : wire'[j] = IF j = i /\ wire[i] = "open" THEN "left" ELSE wire[j]
    BY <2>1 DEF Kill, ConsumerInv, TypeOK
  <2>5. ASSUME NEW j \in Id
        PROVE  StartSound(j)' /\ Unborn(j)' /\ EndsSound(j)'
    <3>1. StartSound(j)'
      <4>1. ~hostUp => ~InFlight(toHost', "start", j)
        BY <2>3, NothingInFlight DEF WireInv
      <4>2. QED BY <4>1, <1>1, <2>1, <2>3, <2>4 DEF WireInv, StartSound, Listening, Tag
    <3>2. Unborn(j)'
      BY <1>1, <2>1, <2>2, <2>3, <2>4
      DEF WireInv, Unborn, Tag, ConsumerInv, TypeOK, Id
    <3>3. EndsSound(j)'
      BY <1>1, <2>1, <2>2, <2>3, <2>4 DEF WireInv, EndsSound, Listening, Tag
    <3>4. QED BY <3>1, <3>2, <3>3
  <2>6. NoOrphan' /\ ConsumerServed'
    BY <1>1, <2>1, <2>3, <2>4 DEF WireInv, NoOrphan, ConsumerServed, Running, Listening, Tag
  <2>7. QED BY <1>1, <2>3, <2>5, <2>6 DEF WireInv, Running
<1>4. QED BY <1>2, <1>3

LEMMA InterruptedWire ==
  ASSUME ConsumerInv, WireInv, EntriesBorn', Interrupted
  PROVE  WireInv'
<1> DEFINE i == Head(toProduct).id
<1>1. /\ i \in Id /\ wire' = [wire EXCEPT ![i] = IF @ = "open" THEN "interrupted" ELSE @]
      /\ UNCHANGED <<lastId, productUp, registered, producer, stopping, hostUp, failed, dropped,
                     toHost>>
  BY ArrivalType DEF Interrupted, ConsumerInv, TypeOK, producerVars
<1>2. /\ InFlight(toProduct, "interrupt", i)
      /\ \A j \in Id : InFlight(toProduct, "interrupt", j)
                         <=> InFlight(toProduct', "interrupt", j) \/ j = i
  BY Delivered DEF Interrupted, ConsumerInv, TypeOK, Tag
<1>3. producer[i] \in {"over", "refused"}
  BY <1>1, <1>2 DEF WireInv, EndsSound
<1>4. \A j \in Id : wire'[j] = IF j = i /\ wire[i] = "open" THEN "interrupted" ELSE wire[j]
  BY <1>1 DEF ConsumerInv, TypeOK
<1>5. ASSUME NEW j \in Id PROVE StartSound(j)' /\ Unborn(j)' /\ EndsSound(j)'
  BY <1>1, <1>2, <1>3, <1>4 DEF WireInv, StartSound, Unborn, EndsSound, Listening
<1>6. NoOrphan' /\ ConsumerServed'
  BY <1>1, <1>2, <1>3, <1>4 DEF WireInv, NoOrphan, ConsumerServed, Running, Listening
<1>7. QED BY <1>1, <1>5, <1>6 DEF WireInv, Running

LEMMA DestroyProductWire ==
  ASSUME ConsumerInv, WireInv, EntriesBorn', DestroyProduct
  PROVE  WireInv'
<1>1. /\ \A j \in Id : wire'[j] = IF wire[j] = "open" THEN "left" ELSE wire[j]
      /\ ~productUp' /\ toProduct' = << >>
      /\ UNCHANGED <<lastId, registered, producer, stopping, hostUp, failed, dropped, toHost>>
  BY DEF DestroyProduct, producerVars
<1>2. ASSUME NEW j \in Id PROVE StartSound(j)' /\ Unborn(j)' /\ EndsSound(j)'
  BY <1>1, NothingInFlight DEF WireInv, StartSound, Unborn, EndsSound, Listening
<1>3. NoOrphan' /\ ConsumerServed'
  BY <1>1 DEF WireInv, NoOrphan, ConsumerServed, Listening
<1>4. QED BY <1>1, <1>2, <1>3 DEF WireInv, Running

LEMMA HandleStartWire ==
  ASSUME ConsumerInv, WireInv, EntriesBorn', HandleStart \/ RefuseStart
  PROVE  WireInv'
<1> DEFINE i == Head(toHost).id
<1>1. /\ i \in Id /\ Arrives(toHost, "start") /\ toHost' = Tail(toHost) /\ stopping = None
      /\ UNCHANGED <<wire, lastId, productUp, registered, stopping, hostUp, dropped>>
      /\ failed \subseteq failed'
  <2>1. i \in Id
    BY ArrivalType DEF HandleStart, InterruptAtOnce, RefuseStart, ConsumerInv, TypeOK
  <2>2. failed \subseteq failed'
    BY DEF HandleStart, InterruptAtOnce, RefuseStart
  <2>3. QED BY <2>1, <2>2 DEF HandleStart, InterruptAtOnce, RefuseStart, consumerVars
<1>2. /\ \A t \in Tag, j \in Id :
            InFlight(toHost, t, j) <=> InFlight(toHost', t, j) \/ (t = "start" /\ j = i)
      /\ Ordered(toHost') /\ ~InFlight(toHost', "start", i)
  BY <1>1, Delivered DEF ConsumerInv, TypeOK, WireInv, Tag
<1>3. InFlight(toHost, "start", i) /\ producer[i] = "new" /\ hostUp /\ i <= lastId
  <2>1. InFlight(toHost, "start", i)
    BY <1>1, <1>2 DEF Tag
  <2>2. lastId \in Nat /\ i \in Int
    BY <1>1, BoundsAreNat DEF ConsumerInv, TypeOK, Id
  <2>3. QED BY <1>1, <2>1, <2>2, NothingInFlight DEF WireInv, StartSound, Unborn, Tag
<1>4. CASE /\ producer' = [producer EXCEPT ![i] = "running"] /\ registered
           /\ UNCHANGED toProduct
  <2>1. \A j \in Id : producer'[j] = IF j = i THEN "running" ELSE producer[j]
    BY <1>4 DEF ConsumerInv, TypeOK
  <2>2. ~InFlight(toProduct, "interrupt", i) /\ wire[i] # "interrupted"
    BY <1>1, <1>3 DEF WireInv, EndsSound
  <2>3. ASSUME NEW j \in Id PROVE StartSound(j)' /\ Unborn(j)' /\ EndsSound(j)'
    BY <1>1, <1>2, <1>3, <1>4, <2>1, <2>2
    DEF WireInv, StartSound, Unborn, EndsSound, Listening, Tag
  <2>4. NoOrphan' /\ ConsumerServed'
    BY <1>1, <1>2, <1>3, <1>4, <2>1
    DEF WireInv, NoOrphan, ConsumerServed, StartSound, Running, Listening, Tag
  <2>5. QED BY <1>1, <1>2, <1>3, <1>4, <2>3, <2>4 DEF WireInv, Running
<1>5. CASE \E end \in {"over", "refused"} :
             producer' = [producer EXCEPT ![i] = end] /\ PostToProduct("interrupt", i)
  <2>1. PICK end \in {"over", "refused"} :
          producer' = [producer EXCEPT ![i] = end] /\ PostToProduct("interrupt", i)
    BY <1>5
  <2>2. \A j \in Id : producer'[j] = IF j = i THEN end ELSE producer[j]
    BY <2>1 DEF ConsumerInv, TypeOK
  <2>3. \A j \in Id : InFlight(toProduct', "interrupt", j)
                        <=> InFlight(toProduct, "interrupt", j) \/ (productUp /\ j = i)
    BY <1>1, <1>3, <2>1, PostedToProduct DEF ConsumerInv, Tag
  <2>4. ASSUME NEW j \in Id PROVE StartSound(j)' /\ Unborn(j)' /\ EndsSound(j)'
    BY <1>1, <1>2, <1>3, <2>2, <2>3
    DEF WireInv, StartSound, Unborn, EndsSound, Listening, Tag
  <2>5. NoOrphan' /\ ConsumerServed'
    <3>1. \A j \in Id : wire[j] = "open" => productUp
      BY DEF WireInv, EndsSound, Listening
    <3>2. QED
      BY <1>1, <1>2, <1>3, <2>2, <2>3, <3>1
      DEF WireInv, NoOrphan, ConsumerServed, Running, Listening, Tag
  <2>6. Running' \subseteq Running
    BY <2>2 DEF Running
  <2>7. QED BY <1>1, <1>2, <1>3, <2>4, <2>5, <2>6 DEF WireInv
<1>6. CASE /\ producer' = [producer EXCEPT ![i] = "over"] /\ i \in failed'
           /\ UNCHANGED toProduct
  <2>1. \A j \in Id : producer'[j] = IF j = i THEN "over" ELSE producer[j]
    BY <1>6 DEF ConsumerInv, TypeOK
  <2>2. ASSUME NEW j \in Id PROVE StartSound(j)' /\ Unborn(j)' /\ EndsSound(j)'
    BY <1>1, <1>2, <1>3, <1>6, <2>1
    DEF WireInv, StartSound, Unborn, EndsSound, Listening, Tag
  <2>3. NoOrphan' /\ ConsumerServed'
    BY <1>1, <1>2, <1>3, <1>6, <2>1
    DEF WireInv, NoOrphan, ConsumerServed, Running, Listening, Tag
  <2>4. Running' \subseteq Running
    BY <2>1 DEF Running
  <2>5. QED BY <1>1, <1>2, <1>3, <1>6, <2>2, <2>3, <2>4 DEF WireInv
<1>7. QED
  <2>1. CASE RefuseStart
    BY <1>5, <2>1 DEF RefuseStart, CatchAll
  <2>2. CASE HandleStart
    BY <1>4, <1>5, <1>6, <2>2 DEF HandleStart, InterruptAtOnce
  <2>3. QED BY <2>1, <2>2

LEMMA InterruptWire ==
  ASSUME ConsumerInv, WireInv, EntriesBorn', NEW i \in Id, Interrupt(i)
  PROVE  WireInv'
<1>1. /\ producer' = Deleted(i) /\ producer[i] \in {"running", "over"}
      /\ UNCHANGED <<wire, lastId, productUp, registered, stopping, hostUp, dropped, toHost>>
  BY DEF Interrupt, consumerVars
<1>2. \A j \in Id : producer'[j] = IF j = i THEN "over" ELSE producer[j]
  BY <1>1 DEF Deleted, ConsumerInv, TypeOK
<1>3. /\ failed \subseteq failed'
      /\ \A j \in Id : InFlight(toProduct', "interrupt", j) =>
                         InFlight(toProduct, "interrupt", j) \/ j = i
      /\ \A j \in Id : InFlight(toProduct, "interrupt", j) => InFlight(toProduct', "interrupt", j)
      /\ hostUp /\ productUp => InFlight(toProduct', "interrupt", i) \/ i \in failed'
  <2>1. CASE PostToProduct("interrupt", i) /\ UNCHANGED failed
    BY <2>1, PostedToProduct DEF ConsumerInv, Tag
  <2>2. CASE failed' = failed \cup {i} /\ UNCHANGED toProduct
    BY <2>2
  <2>3. QED BY <2>1, <2>2 DEF Interrupt
<1>4. ASSUME NEW j \in Id PROVE StartSound(j)' /\ Unborn(j)' /\ EndsSound(j)'
  BY <1>1, <1>2, <1>3 DEF WireInv, StartSound, Unborn, EndsSound, Listening
<1>5. NoOrphan' /\ ConsumerServed'
  <2>1. \A j \in Id : wire[j] = "open" => productUp
    BY DEF WireInv, EndsSound, Listening
  <2>2. QED
    BY <1>1, <1>2, <1>3, <2>1 DEF WireInv, NoOrphan, ConsumerServed, Running, Listening
<1>6. QED BY <1>1, <1>2, <1>4, <1>5 DEF WireInv, Running

LEMMA HandleStopWire ==
  ASSUME ConsumerInv, WireInv, EntriesBorn', HandleStop
  PROVE  WireInv'
<1> DEFINE i == Head(toHost).id
<1>1. /\ i \in Id /\ Arrives(toHost, "stop") /\ toHost' = Tail(toHost) /\ stopping = None
      /\ UNCHANGED <<wire, lastId, productUp, registered, producer, hostUp, failed, dropped,
                     toProduct>>
      /\ stopping' = IF registered /\ producer[i] = "running" THEN i ELSE None
  BY ArrivalType DEF HandleStop, ConsumerInv, TypeOK, consumerVars
<1>2. /\ \A t \in Tag, j \in Id :
            InFlight(toHost, t, j) <=> InFlight(toHost', t, j) \/ (t = "stop" /\ j = i)
      /\ Ordered(toHost') /\ ~InFlight(toHost', "start", i)
  BY <1>1, Delivered DEF ConsumerInv, TypeOK, WireInv, Tag
<1>3. wire[i] # "open" /\ hostUp
  BY <1>1, <1>2, NothingInFlight DEF WireInv, EndsSound, Listening, Tag, Arrives
<1>4. ASSUME NEW j \in Id PROVE StartSound(j)' /\ Unborn(j)' /\ EndsSound(j)'
  <2>1. j # None /\ i # None
    BY <1>1, NoneIsNothing
  <2>2. QED
    BY <1>1, <1>2, <1>3, <2>1 DEF WireInv, StartSound, Unborn, EndsSound, Listening, Tag
<1>5. NoOrphan'
  <2>1. ASSUME NEW j \in Id, producer[j] = "running", productUp, hostUp, j \notin failed
        PROVE  wire[j] = "open" \/ InFlight(toHost', "stop", j) \/ stopping' = j
    <3>1. registered /\ j # None
      BY <2>1, NoneIsNothing DEF WireInv, Running
    <3>2. wire[j] = "open" \/ InFlight(toHost, "stop", j)
      BY <1>1, <2>1, <3>1 DEF WireInv, NoOrphan, Running, Listening
    <3>3. QED BY <1>1, <1>2, <2>1, <3>1, <3>2 DEF Tag
  <2>2. QED BY <1>1, <2>1 DEF NoOrphan, Running, Listening
<1>6. ConsumerServed'
  BY <1>1, <1>2, <1>3 DEF WireInv, ConsumerServed, Listening, Tag
<1>7. QED BY <1>1, <1>2, <1>3, <1>4, <1>5, <1>6 DEF WireInv, Running

LEMMA EndStopWire ==
  ASSUME ConsumerInv, WireInv, EntriesBorn', EndStop
  PROVE  WireInv'
<1> DEFINE i == stopping
<1>1. /\ i \in Id /\ stopping' = None
      /\ UNCHANGED <<wire, lastId, productUp, registered, hostUp, dropped, toHost, toProduct>>
  BY DEF EndStop, ConsumerInv, TypeOK, consumerVars
<1>2. wire[i] # "open" /\ producer[i] \in {"running", "over"}
  BY <1>1 DEF WireInv, EndsSound, Listening
<1>3. /\ failed \subseteq failed'
      /\ \A j \in Id : j # i => producer'[j] = producer[j]
      /\ producer'[i] = "over" \/ (producer'[i] = producer[i] /\ i \in failed')
  BY <1>1, <1>2 DEF EndStop, Deleted, ConsumerInv, TypeOK
<1>4. ASSUME NEW j \in Id PROVE StartSound(j)' /\ Unborn(j)' /\ EndsSound(j)'
  BY <1>1, <1>2, <1>3, NoneIsNothing
  DEF WireInv, StartSound, Unborn, EndsSound, Listening
<1>5. NoOrphan' /\ ConsumerServed'
  BY <1>1, <1>2, <1>3 DEF WireInv, NoOrphan, ConsumerServed, Running, Listening
<1>6. Running' \subseteq Running
  BY <1>1, <1>3 DEF Running
<1>7. QED BY <1>1, <1>4, <1>5, <1>6 DEF WireInv

LEMMA UnregisterWire ==
  ASSUME ConsumerInv, WireInv, EntriesBorn', Unregister
  PROVE  WireInv'
<1>1. /\ UNCHANGED <<wire, lastId, productUp, stopping, hostUp, toHost>>
      /\ stopping = None
  BY DEF Unregister, consumerVars
<1>2. PICK S \in SUBSET Id, R \in SUBSET Id :
        /\ S \subseteq Running /\ R \subseteq S
        /\ \/ R = {} /\ toProduct' = toProduct
           \/ \E i \in Id : R = {i} /\ PostToProduct("interrupt", i)
        /\ \/ /\ S = Running /\ registered' = FALSE /\ producer' = Ended(S)
              /\ dropped' = dropped \cup (S \ R) /\ failed' = failed
           \/ \E i \in S \ R :
                /\ failed' = failed \cup {i}
                /\ producer' = Ended(R) /\ registered' = registered /\ dropped' = dropped
  <2>1. TypeOK
    BY DEF ConsumerInv
  <2>2. QED BY <2>1, Unregistration
<1>3. \A j \in Id : InFlight(toProduct', "interrupt", j)
                     <=> InFlight(toProduct, "interrupt", j) \/ (productUp /\ hostUp /\ j \in R)
  BY <1>2, PostedToProduct DEF ConsumerInv, Tag
<1>4. \A j \in Id : j \in Running <=> producer[j] = "running"
  BY DEF Running
<1>5. CASE /\ S = Running /\ registered' = FALSE /\ producer' = Ended(S)
           /\ dropped' = dropped \cup (S \ R) /\ failed' = failed
  <2>1. \A j \in Id : producer'[j] = IF producer[j] = "running" THEN "over" ELSE producer[j]
    BY <1>4, <1>5 DEF Ended
  <2>2. ASSUME NEW j \in Id PROVE StartSound(j)' /\ Unborn(j)' /\ EndsSound(j)'
    BY <1>1, <1>2, <1>3, <1>4, <2>1, NoneIsNothing
    DEF WireInv, StartSound, Unborn, EndsSound, Listening
  <2>3. Running' = {}
    BY <2>1 DEF Running
  <2>4. NoOrphan'
    BY <2>3 DEF NoOrphan
  <2>5. ConsumerServed'
    <3>1. \A j \in Id : wire[j] = "open" => productUp
      BY DEF WireInv, EndsSound, Listening
    <3>2. QED BY <1>1, <1>2, <1>3, <1>4, <1>5, <2>1, <3>1 DEF WireInv, ConsumerServed, Listening
  <2>6. QED BY <1>1, <2>2, <2>3, <2>4, <2>5 DEF WireInv
<1>6. CASE /\ failed \subseteq failed' /\ producer' = Ended(R)
           /\ registered' = registered /\ dropped' = dropped
  <2>1. \A j \in Id : producer'[j] = IF j \in R THEN "over" ELSE producer[j]
    BY <1>6 DEF Ended
  <2>2. Running' \subseteq Running
    BY <2>1 DEF Running
  <2>3. ASSUME NEW j \in Id PROVE StartSound(j)' /\ Unborn(j)' /\ EndsSound(j)'
    BY <1>1, <1>2, <1>3, <1>4, <2>1, NoneIsNothing
    DEF WireInv, StartSound, Unborn, EndsSound, Listening
  <2>4. NoOrphan'
    BY <1>1, <1>6, <2>2 DEF WireInv, NoOrphan, Listening
  <2>5. ConsumerServed'
    <3>1. \A j \in Id : wire[j] = "open" => productUp
      BY DEF WireInv, EndsSound, Listening
    <3>2. QED BY <1>1, <1>3, <1>6, <2>1, <3>1 DEF WireInv, ConsumerServed, Listening
  <2>6. QED BY <1>1, <1>6, <2>2, <2>3, <2>4, <2>5 DEF WireInv
<1>7. QED BY <1>2, <1>5, <1>6

LEMMA DestroyHostWire ==
  ASSUME ConsumerInv, WireInv, EntriesBorn', DestroyHost
  PROVE  WireInv'
<1>1. /\ ~hostUp' /\ toHost' = << >>
      /\ UNCHANGED <<wire, lastId, productUp, registered, producer, stopping, failed, dropped,
                     toProduct>>
  BY DEF DestroyHost, consumerVars
<1>2. Ordered(toHost')
  BY <1>1 DEF Ordered
<1>3. ASSUME NEW j \in Id PROVE StartSound(j)' /\ Unborn(j)' /\ EndsSound(j)'
  BY <1>1, NothingInFlight DEF WireInv, StartSound, Unborn, EndsSound, Listening
<1>4. QED BY <1>1, <1>2, <1>3 DEF WireInv, NoOrphan, ConsumerServed, Running

LEMMA WireStep ==
  ASSUME ConsumerInv, WireInv, [Next]_vars
  PROVE  WireInv'
<1>1. EntriesBorn'
  BY EntriesStep DEF WireInv
<1>2. ASSUME NEW c \in Caller, NEW k \in Key, Open(c, k) PROVE WireInv'
  BY <1>1, <1>2, OpenWire
<1>3. ASSUME NEW c \in Caller, Unsubscribe(c) PROVE WireInv'
  BY <1>1, <1>3, UnsubscribeWire
<1>4. CASE Receive
  <2>1. \A j \in Id : InFlight(toProduct', "interrupt", j)
                       <=> InFlight(toProduct, "interrupt", j)
    BY <1>4, Delivered DEF Receive, ConsumerInv, TypeOK, Tag
  <2>2. QED BY <1>1, <1>4, <2>1, WireKept DEF Receive, producerVars
<1>5. ASSUME NEW i \in Id, Send(i) PROVE WireInv'
  <2>1. \A j \in Id : InFlight(toProduct', "interrupt", j)
                       <=> InFlight(toProduct, "interrupt", j)
    BY <1>5, PostedToProduct DEF Send, ConsumerInv, Tag
  <2>2. QED BY <1>1, <1>5, <2>1, WireKept DEF Send, consumerVars
<1>6. CASE Interrupted
  BY <1>1, <1>6, InterruptedWire
<1>7. CASE DestroyProduct
  BY <1>1, <1>7, DestroyProductWire
<1>8. CASE HandleStart \/ RefuseStart
  BY <1>1, <1>8, HandleStartWire
<1>9. ASSUME NEW i \in Id, Interrupt(i) PROVE WireInv'
  BY <1>1, <1>9, InterruptWire
<1>10. CASE HandleStop
  BY <1>1, <1>10, HandleStopWire
<1>11. CASE EndStop
  BY <1>1, <1>11, EndStopWire
<1>12. CASE Unregister
  BY <1>1, <1>12, UnregisterWire
<1>13. CASE DestroyHost
  BY <1>1, <1>13, DestroyHostWire
<1>14. CASE Register
  <2>1. UNCHANGED <<wire, lastId, productUp, producer, stopping, hostUp, failed, dropped,
                    toHost, toProduct>> /\ registered'
    BY <1>14 DEF Register, consumerVars
  <2>2. ASSUME NEW j \in Id PROVE StartSound(j)' /\ Unborn(j)' /\ EndsSound(j)'
    BY <2>1 DEF WireInv, StartSound, Unborn, EndsSound, Listening
  <2>3. NoOrphan' /\ ConsumerServed'
    BY <2>1 DEF WireInv, NoOrphan, ConsumerServed, Running, Listening
  <2>4. QED BY <1>1, <2>1, <2>2, <2>3 DEF WireInv
<1>15. CASE \/ CallNext \/ ListenerThrows \/ EndDispatch \/ UNCHANGED vars
            \/ \E c \in Caller, k \in Key : Join(c, k)
  <2>1. UNCHANGED <<wire, lastId, productUp, registered, producer, stopping, hostUp, failed,
                    dropped, toHost, toProduct>>
    BY <1>15 DEF CallNext, ListenerThrows, EndDispatch, Join, vars, consumerVars, producerVars
  <2>2. QED BY <1>1, <2>1, WireKept
<1>16. QED
  BY <1>2, <1>3, <1>4, <1>5, <1>6, <1>7, <1>8, <1>9, <1>10, <1>11, <1>12, <1>13, <1>14, <1>15
  DEF Next

LEMMA Inductive == Spec => [](ConsumerInv /\ WireInv)
<1>1. Init => ConsumerInv /\ WireInv
  BY ConsumerInit, WireInit
<1>2. ConsumerInv /\ WireInv /\ [Next]_vars => (ConsumerInv /\ WireInv)'
  BY ConsumerStep, WireStep
<1>3. QED BY <1>1, <1>2, PTL DEF Spec

(* No producer is left running for a consumer that has gone, unless the stop is
   still on its way (handleSubscription, unsubscribe, destroy). *)
THEOREM NoOrphanLeft == Spec => []NoOrphan
<1>1. ConsumerInv /\ WireInv => NoOrphan
  BY DEF WireInv
<1>2. QED BY <1>1, Inductive, PTL

(* No consumer waits for a producer that is gone: its start, its producer or its
   interrupt is there, however start, stop and interrupt cross. *)
THEOREM ConsumersServed == Spec => []ConsumerServed
<1>1. ConsumerInv /\ WireInv => ConsumerServed
  BY DEF WireInv
<1>2. QED BY <1>1, Inductive, PTL

-----------------------------------------------------------------------------
(* Dispatch. *)

ShareInv == EntryKeys /\ ListenersHold /\ ToldAreOver

LEMMA EntryFacts ==
  ASSUME ConsumerInv, WireInv, NEW k \in Key, active[k] # None
  PROVE  active[k] \in Entry /\ active[k].id \in Id /\ active[k].id <= lastId
BY DEF ConsumerInv, WireInv, EntriesBorn, TypeOK, Entry

LEMMA HandleFacts ==
  ASSUME ConsumerInv, WireInv, NEW c \in Caller, handle[c] # None
  PROVE  /\ handle[c] \in Handle /\ handle[c].key \in Key /\ handle[c].id \in Id
         /\ active[handle[c].key] # None /\ active[handle[c].key].id = handle[c].id
         /\ c \in active[handle[c].key].listeners /\ handle[c].id <= lastId
<1>1. handle[c] \in Handle
  BY DEF ConsumerInv, TypeOK
<1>2. handle[c].key \in Key /\ handle[c].id \in Id
  BY <1>1 DEF Handle
<1>3. QED BY <1>1, <1>2, EntryFacts DEF ConsumerInv, HandlesListed

(* A caller that subscribes holds nothing, or what is no longer open: it is in
   the list of no open subscription. *)
LEMMA SubscriberIsFree ==
  ASSUME ShareInv, NEW c \in Caller, MaySubscribe(c), NEW k \in Key,
         active[k] # None, Listening(active[k].id)
  PROVE  c \notin active[k].listeners
BY DEF ShareInv, ListenersHold, ToldAreOver, Sharing, MaySubscribe

LEMMA OpenShare ==
  ASSUME ConsumerInv, WireInv, ShareInv, NEW c \in Caller, NEW k \in Key, Open(c, k)
  PROVE  ShareInv'
<1> DEFINE i == lastId + 1
           e == [id |-> i, listeners |-> {c}]
           h == [key |-> k, id |-> i, told |-> FALSE]
           o == [key |-> k, creator |-> c]
<1>1. /\ i \in Id /\ lastId \in Nat /\ active[k] = None /\ MaySubscribe(c)
      /\ active' = [active EXCEPT ![k] = e] /\ handle' = [handle EXCEPT ![c] = h]
      /\ origin' = [origin EXCEPT ![i] = o] /\ wire' = [wire EXCEPT ![i] = "open"]
  BY BoundsAreNat DEF Open, ConsumerInv, TypeOK, Id
<1>2. e # None /\ h # None /\ o # None
  <2>1. e \in Entry /\ h \in Handle /\ o \in Origin
    BY <1>1 DEF Entry, Handle, Origin
  <2>2. QED BY <2>1, NoneIsNothing
<1>3. /\ active'[k] = e /\ handle'[c] = h /\ origin'[i] = o
      /\ \A l \in Key : l # k => active'[l] = active[l]
      /\ \A d \in Caller : d # c => handle'[d] = handle[d]
      /\ \A j \in Id : j # i => origin'[j] = origin[j] /\ wire'[j] = wire[j]
  BY <1>1 DEF ConsumerInv, TypeOK
<1>4. \A j \in Id : j <= lastId => j # i
  BY <1>1 DEF Id
<1>5. EntryKeys'
  <2>1. ASSUME NEW l \in Key, active'[l] # None, l # k
        PROVE  origin'[active'[l].id] # None /\ origin'[active'[l].id].key = l
    <3>1. active[l].id \in Id /\ active[l].id # i
      BY <1>3, <1>4, <2>1, EntryFacts
    <3>2. QED BY <1>3, <2>1, <3>1 DEF ShareInv, EntryKeys
  <2>2. QED BY <1>2, <1>3, <2>1 DEF EntryKeys
<1>6. ListenersHold'
  <2>1. ASSUME NEW l \in Key, active'[l] # None, l # k, wire'[active'[l].id] = "open"
        PROVE  \A d \in active'[l].listeners :
               d \in Caller /\ handle'[d] # None /\ handle'[d].id = active'[l].id
    <3>1. active[l].id \in Id /\ active[l].id # i
      BY <1>3, <1>4, <2>1, EntryFacts
    <3>2. Listening(active[l].id)
      BY <1>3, <2>1, <3>1 DEF Listening
    <3>3. c \notin active[l].listeners
      BY <1>1, <1>3, <2>1, <3>2, SubscriberIsFree
    <3>4. active[l].listeners \subseteq Sharing(active[l].id)
      BY <1>3, <2>1, <3>2 DEF ShareInv, ListenersHold
    <3>5. QED BY <1>3, <2>1, <3>3, <3>4 DEF Sharing
  <2>2. \A d \in active'[k].listeners :
               d \in Caller /\ handle'[d] # None /\ handle'[d].id = active'[k].id
    BY <1>2, <1>3 DEF Sharing
  <2>3. QED BY <2>1, <2>2 DEF ListenersHold, Listening, Sharing
<1>7. ToldAreOver'
  <2>1. ASSUME NEW d \in Caller, handle'[d] # None, handle'[d].told
        PROVE  wire'[handle'[d].id] # "open"
    <3>1. d # c /\ handle'[d] = handle[d]
      BY <1>3, <2>1
    <3>2. handle[d].id \in Id /\ handle[d].id # i
      BY <1>4, <2>1, <3>1, HandleFacts
    <3>3. QED BY <1>3, <2>1, <3>1, <3>2 DEF ShareInv, ToldAreOver, Listening
  <2>2. QED BY <2>1 DEF ToldAreOver, Listening
<1>8. QED BY <1>5, <1>6, <1>7 DEF ShareInv

LEMMA JoinShare ==
  ASSUME ConsumerInv, WireInv, ShareInv, NEW c \in Caller, NEW k \in Key, Join(c, k)
  PROVE  ShareInv'
<1> DEFINE e == [active[k] EXCEPT !.listeners = @ \cup {c}]
           h == [key |-> k, id |-> active[k].id, told |-> FALSE]
<1>1. /\ active[k] # None /\ MaySubscribe(c) /\ wire' = wire /\ origin' = origin
      /\ active' = [active EXCEPT ![k] = e] /\ handle' = [handle EXCEPT ![c] = h]
  BY DEF Join
<1>2. active[k] \in Entry /\ active[k].id \in Id
  BY <1>1, EntryFacts
<1>3. e # None /\ h # None /\ e.id = active[k].id /\ e.listeners = active[k].listeners \cup {c}
  <2>1. e.id = active[k].id /\ e.listeners = active[k].listeners \cup {c} /\ e \in Entry
    BY <1>2 DEF Entry
  <2>2. h \in Handle
    BY <1>2 DEF Handle
  <2>3. QED BY <2>1, <2>2, NoneIsNothing
<1>4. /\ active'[k] = e /\ handle'[c] = h
      /\ \A l \in Key : l # k => active'[l] = active[l]
      /\ \A d \in Caller : d # c => handle'[d] = handle[d]
  BY <1>1 DEF ConsumerInv, TypeOK
<1> HIDE DEF e
<1>5. EntryKeys'
  BY <1>1, <1>3, <1>4 DEF ShareInv, EntryKeys
<1>6. ListenersHold'
  <2>1. ASSUME NEW l \in Key, active'[l] # None, wire[active'[l].id] = "open"
        PROVE  \A d \in active'[l].listeners :
               d \in Caller /\ handle'[d] # None /\ handle'[d].id = active'[l].id
    <3>1. active[l] # None /\ active'[l].id = active[l].id /\ Listening(active[l].id)
      BY <1>1, <1>3, <1>4, <2>1 DEF Listening
    <3>2. c \notin active[l].listeners /\ active[l].listeners \subseteq Sharing(active[l].id)
      BY <1>1, <3>1, SubscriberIsFree DEF ShareInv, ListenersHold
    <3>3. CASE l = k
      BY <1>3, <1>4, <3>2, <3>3 DEF Sharing
    <3>4. CASE l # k
      BY <1>4, <3>2, <3>4 DEF Sharing
    <3>5. QED BY <3>3, <3>4
  <2>2. QED BY <1>1, <2>1 DEF ListenersHold, Listening, Sharing
<1>7. ToldAreOver'
  BY <1>1, <1>4 DEF ShareInv, ToldAreOver, Listening
<1>8. QED BY <1>5, <1>6, <1>7 DEF ShareInv

LEMMA UnsubscribeShare ==
  ASSUME ConsumerInv, WireInv, ShareInv, NEW c \in Caller, Unsubscribe(c)
  PROVE  ShareInv'
<1> DEFINE k == handle[c].key
           e == [active[k] EXCEPT !.listeners = Remaining(c, k)]
<1>1. /\ handle[c] # None /\ handle' = [handle EXCEPT ![c] = None] /\ origin' = origin
      /\ active' = [active EXCEPT ![k] = IF LastToLeave(c, k) THEN None ELSE e]
      /\ wire' = IF LastToLeave(c, k) THEN Kill(active[k].id) ELSE wire
  BY DEF Unsubscribe
<1>2. k \in Key /\ active[k] \in Entry /\ active[k].id = handle[c].id /\ active[k].id \in Id
      /\ active[k] # None
  BY <1>1, HandleFacts, EntryFacts
<1>3. e.id = active[k].id /\ e.listeners = active[k].listeners \ {c}
  BY <1>2 DEF Entry, Remaining
<1>4. /\ active'[k] # None => active'[k] = e
      /\ handle'[c] = None
      /\ \A l \in Key : l # k => active'[l] = active[l]
      /\ \A d \in Caller : d # c => handle'[d] = handle[d]
      /\ \A j \in Id : wire'[j] = "open" => wire[j] = "open"
  BY <1>1, <1>2 DEF ConsumerInv, TypeOK, Kill
<1> HIDE DEF e, k
<1>5. EntryKeys'
  BY <1>1, <1>2, <1>3, <1>4 DEF ShareInv, EntryKeys
<1>6. ListenersHold'
  <2>1. ASSUME NEW l \in Key, active'[l] # None, wire'[active'[l].id] = "open"
        PROVE  \A d \in active'[l].listeners :
               d \in Caller /\ handle'[d] # None /\ handle'[d].id = active'[l].id
    <3>1. active[l] # None /\ active'[l].id = active[l].id
      BY <1>2, <1>3, <1>4, <2>1
    <3>2. active[l].id \in Id
      BY <3>1, EntryFacts
    <3>3. Listening(active[l].id) /\ active[l].listeners \subseteq Sharing(active[l].id)
      BY <1>4, <2>1, <3>1, <3>2 DEF Listening, ShareInv, ListenersHold
    <3>4. CASE l = k
      BY <1>3, <1>4, <2>1, <3>1, <3>3, <3>4 DEF Sharing
    <3>5. CASE l # k
      <4>1. c \notin active[l].listeners
        BY <1>2, <3>1, <3>3, <3>5 DEF Sharing, ShareInv, EntryKeys
      <4>2. QED BY <1>4, <3>3, <3>5, <4>1 DEF Sharing
    <3>6. QED BY <3>4, <3>5
  <2>2. QED BY <2>1 DEF ListenersHold, Listening, Sharing
<1>7. ToldAreOver'
  <2>1. ASSUME NEW d \in Caller, handle'[d] # None, handle'[d].told
        PROVE  wire'[handle'[d].id] # "open"
    <3>1. handle'[d] = handle[d] /\ handle[d].id \in Id
      BY <1>4, <2>1, HandleFacts
    <3>2. QED BY <1>4, <2>1, <3>1 DEF ShareInv, ToldAreOver, Listening
  <2>2. QED BY <2>1 DEF ToldAreOver, Listening
<1>8. QED BY <1>5, <1>6, <1>7 DEF ShareInv

LEMMA InterruptedShare ==
  ASSUME ConsumerInv, WireInv, ShareInv, Interrupted
  PROVE  ShareInv'
<1> DEFINE i == Head(toProduct).id
           c == origin[i].creator
<1>1. /\ i \in Id /\ active' = active /\ origin' = origin
      /\ wire' = [wire EXCEPT ![i] = IF @ = "open" THEN "interrupted" ELSE @]
      /\ handle' = IF wire[i] = "open" /\ handle[c] # None /\ handle[c].id = i
                   THEN [handle EXCEPT ![c].told = TRUE] ELSE handle
  BY ArrivalType DEF Interrupted, ConsumerInv, TypeOK
<1>2. \A j \in Id : wire'[j] = "open" => wire[j] = "open" /\ j # i
  BY <1>1 DEF ConsumerInv, TypeOK
<1>3. \A d \in Caller :
        /\ handle'[d] # None <=> handle[d] # None
        /\ handle[d] # None => /\ handle'[d].id = handle[d].id
                               /\ handle'[d].told => handle[d].told \/ handle[d].id = i
  <2> HIDE DEF i, c
  <2>1. CASE handle' = handle
    BY <2>1
  <2>2. CASE handle[c] # None /\ handle[c].id = i /\ handle' = [handle EXCEPT ![c].told = TRUE]
    <3>1. handle \in [Caller -> Handle \cup {None}]
      BY DEF ConsumerInv, TypeOK
    <3>2. c \in Caller => [handle[c] EXCEPT !.told = TRUE] \in Handle
      BY <2>2, <3>1 DEF Handle
    <3>3. QED BY <2>2, <3>1, <3>2, NoneIsNothing DEF Handle
  <2>3. QED BY <1>1, <2>1, <2>2
<1>4. EntryKeys'
  BY <1>1 DEF ShareInv, EntryKeys
<1>5. ListenersHold'
  <2>1. ASSUME NEW l \in Key, active[l] # None, wire'[active[l].id] = "open"
        PROVE  \A d \in active[l].listeners :
               d \in Caller /\ handle'[d] # None /\ handle'[d].id = active[l].id
    <3>1. active[l].id \in Id
      BY <2>1, EntryFacts
    <3>2. active[l].listeners \subseteq Sharing(active[l].id)
      BY <1>2, <2>1, <3>1 DEF ShareInv, ListenersHold, Listening
    <3>3. QED BY <1>3, <3>2 DEF Sharing
  <2>2. QED BY <1>1, <2>1 DEF ListenersHold, Listening, Sharing
<1>6. ToldAreOver'
  <2>1. ASSUME NEW d \in Caller, handle'[d] # None, handle'[d].told
        PROVE  wire'[handle'[d].id] # "open"
    <3>1. handle[d] # None /\ handle'[d].id = handle[d].id /\ handle[d].id \in Id
          /\ (handle[d].told \/ handle[d].id = i)
      BY <1>3, <2>1, HandleFacts
    <3>2. QED BY <1>2, <3>1 DEF ShareInv, ToldAreOver, Listening
  <2>2. QED BY <2>1 DEF ToldAreOver, Listening
<1>7. QED BY <1>4, <1>5, <1>6 DEF ShareInv

LEMMA ShareStep ==
  ASSUME ConsumerInv, WireInv, ShareInv, [Next]_vars
  PROVE  ShareInv'
<1>1. CASE DestroyProduct
  <2>1. /\ active' = active /\ origin' = origin /\ handle' = handle
        /\ \A j \in Id : wire'[j] # "open"
    BY <1>1 DEF DestroyProduct, ConsumerInv, TypeOK
  <2>2. \A l \in Key : active[l] # None => wire'[active[l].id] # "open"
    BY <2>1, EntryFacts
  <2>3. \A d \in Caller : handle[d] # None => wire'[handle[d].id] # "open"
    BY <2>1, HandleFacts
  <2>4. QED BY <2>1, <2>2, <2>3 DEF ShareInv, EntryKeys, ListenersHold, ToldAreOver, Listening
<1>2. CASE UNCHANGED <<active, origin, handle, wire>>
  BY <1>2 DEF ShareInv, EntryKeys, ListenersHold, ToldAreOver, Listening, Sharing
<1>3. ASSUME NEW c \in Caller, NEW k \in Key, Open(c, k) PROVE ShareInv'
  BY <1>3, OpenShare
<1>4. ASSUME NEW c \in Caller, NEW k \in Key, Join(c, k) PROVE ShareInv'
  BY <1>4, JoinShare
<1>5. ASSUME NEW c \in Caller, Unsubscribe(c) PROVE ShareInv'
  BY <1>5, UnsubscribeShare
<1>6. CASE Interrupted
  BY <1>6, InterruptedShare
<1>7. QED
  BY <1>1, <1>2, <1>3, <1>4, <1>5, <1>6
  DEF Next, vars, consumerVars, Receive, CallNext, ListenerThrows, EndDispatch, DestroyHost,
      Register, HandleStart, InterruptAtOnce, RefuseStart, HandleStop, EndStop, Unregister, Send,
      Interrupt

(* Those who hold an open subscription are those listed under it. *)
LEMMA HoldersAreListed ==
  ASSUME ConsumerInv, WireInv, ShareInv, NEW i \in Id, Listening(i)
  PROVE  active[origin[i].key].listeners = Sharing(i)
<1> DEFINE k == origin[i].key
<1>1. k \in Key /\ active[k] # None /\ active[k].id = i
  BY DEF ConsumerInv, WireIsShared, TypeOK, Origin
<1>2. active[k].listeners \subseteq Sharing(i)
  BY <1>1 DEF ShareInv, ListenersHold
<1>3. ASSUME NEW c \in Sharing(i) PROVE c \in active[k].listeners
  <2>1. c \in Caller /\ handle[c] # None /\ handle[c].id = i
    BY <1>3 DEF Sharing
  <2>2. /\ handle[c].key \in Key /\ active[handle[c].key] # None
        /\ active[handle[c].key].id = i /\ c \in active[handle[c].key].listeners
    BY <2>1, HandleFacts
  <2>3. handle[c].key = k
    BY <2>2 DEF ShareInv, EntryKeys
  <2>4. QED BY <2>2, <2>3
<1>4. QED BY <1>2, <1>3

LEMMA ReceivedByHolders ==
  ASSUME ConsumerInv, WireInv, ShareInv, Receive
  PROVE  \/ calling' = calling
         \/ /\ calling'.called \cup calling'.rest = Sharing(calling'.id)
            /\ calling'.due = Sharing(calling'.id)
<1> DEFINE i == Head(toProduct).id
           ls == active[origin[i].key].listeners
<1>1. CASE ~Listening(i)
  BY <1>1 DEF Receive
<1>2. CASE Listening(i)
  <2>1. i \in Id
    BY ArrivalType DEF Receive, ConsumerInv, TypeOK
  <2>2. ls = Sharing(i)
    BY <1>2, <2>1, HoldersAreListed
  <2>3. PICK c \in ls :
          calling' = [id |-> i, key |-> origin[i].key, rest |-> ls \ {c}, attached |-> TRUE,
                      threw |-> FALSE, due |-> Sharing(i), called |-> {c}]
    BY <1>2 DEF Receive
  <2> HIDE DEF ls, i
  <2>4. /\ calling'.called = {c} /\ calling'.rest = ls \ {c}
        /\ calling'.id = i /\ calling'.due = Sharing(i)
    BY <2>3
  <2>5. QED BY <2>2, <2>3, <2>4
<1>3. QED BY <1>1, <1>2

LEMMA DispatchStep ==
  ASSUME ConsumerInv, WireInv, ShareInv, DispatchSound, [Next]_vars
  PROVE  DispatchSound'
<1>0. calling # None => /\ calling \in Dispatch
                        /\ calling.threw \/ calling.due \subseteq calling.called \cup calling.rest
  BY DEF ConsumerInv, TypeOK, DispatchSound
<1> DEFINE Sound == calling' # None =>
             calling'.threw \/ calling'.due \subseteq calling'.called \cup calling'.rest
<1>1. ASSUME NEW c \in Caller, NEW k \in Key, Join(c, k) PROVE Sound
  <2>1. CASE calling' = calling
    BY <1>0, <2>1
  <2>2. CASE calling # None /\ calling' = [calling EXCEPT !.rest = @ \cup {c}]
    BY <1>0, <2>2 DEF Dispatch
  <2>3. QED BY <1>1, <2>1, <2>2 DEF Join
<1>2. ASSUME NEW c \in Caller, Unsubscribe(c) PROVE Sound
  <2>1. CASE calling' = calling
    BY <1>0, <2>1
  <2>2. CASE calling # None /\ calling' = [calling EXCEPT !.attached = FALSE, !.due = @ \ {c}]
    BY <1>0, <2>2 DEF Dispatch
  <2>3. QED BY <1>2, <2>1, <2>2 DEF Unsubscribe, Detached
<1>3. ASSUME Receive PROVE Sound
  BY <1>0, <1>3, ReceivedByHolders
<1>4. ASSUME CallNext PROVE Sound
  <2>1. PICK c \in calling.rest :
          calling' = [calling EXCEPT !.rest = @ \ {c}, !.called = @ \cup {c}]
    BY <1>4 DEF CallNext
  <2>2. calling # None
    BY <1>4 DEF CallNext
  <2>3. QED BY <1>0, <2>1, <2>2 DEF Dispatch
<1>5. ASSUME ListenerThrows PROVE Sound
  BY <1>0, <1>5 DEF ListenerThrows, Dispatch
<1>6. ASSUME EndDispatch PROVE Sound
  BY <1>6 DEF EndDispatch
<1>7. ASSUME calling' = calling PROVE Sound
  BY <1>0, <1>7
<1>8. \/ \E c \in Caller : Unsubscribe(c) \/ \E k \in Key : Join(c, k)
      \/ Receive \/ CallNext \/ ListenerThrows \/ EndDispatch \/ calling' = calling
  BY DEF Next, vars, consumerVars, Open, Interrupted, DestroyProduct, DestroyHost, Register,
         HandleStart, InterruptAtOnce, RefuseStart, HandleStop, EndStop, Unregister, Send, Interrupt
<1>9. Sound
  BY <1>1, <1>2, <1>3, <1>4, <1>5, <1>6, <1>7, <1>8
<1>10. QED BY <1>9 DEF DispatchSound

LEMMA DispatchInv == Spec => [](ConsumerInv /\ WireInv /\ ShareInv /\ DispatchSound)
<1>1. Init => ShareInv /\ DispatchSound
  BY DEF Init, ShareInv, EntryKeys, ListenersHold, ToldAreOver, DispatchSound
<1>2. ConsumerInv /\ WireInv /\ ShareInv /\ DispatchSound /\ [Next]_vars
        => (ShareInv /\ DispatchSound)'
  BY ShareStep, DispatchStep
<1>3. QED BY <1>1, <1>2, Inductive, PTL DEF Spec

(* A value is handed to those who hold the subscription it was sent for, and to
   none who subscribed its key anew (the listener looks the entry up by key); and
   a loop that no listener ends by throwing has called every one of them that has
   not left, although they subscribe and unsubscribe within it: unsubscribe
   replaces the array that is looped over. *)
THEOREM ListenersReached == Spec => EveryListenerReached
<1>1. ASSUME ConsumerInv, WireInv, ShareInv, DispatchSound, [Next]_vars
      PROVE  [/\ calling = None /\ calling' # None =>
                   calling'.called \cup calling'.rest \subseteq Sharing(calling'.id)
              /\ calling # None /\ calling' = None =>
                   calling.threw \/ calling.due \subseteq calling.called]_vars
  <2>1. ASSUME calling = None, calling' # None
        PROVE  calling'.called \cup calling'.rest \subseteq Sharing(calling'.id)
    <3>1. Receive
      BY <1>1, <2>1
      DEF Next, vars, consumerVars, Open, Join, Unsubscribe, Detached, CallNext, ListenerThrows,
          EndDispatch, Interrupted, DestroyProduct, DestroyHost, Register, HandleStart,
          InterruptAtOnce, RefuseStart, HandleStop, EndStop, Unregister, Send, Interrupt
    <3>2. QED BY <1>1, <2>1, <3>1, ReceivedByHolders
  <2>2. ASSUME calling # None, calling' = None
        PROVE  calling.threw \/ calling.due \subseteq calling.called
    <3>1. calling \in Dispatch
      BY <1>1, <2>2 DEF ConsumerInv, TypeOK
    <3>2. calling.rest = {}
      <4>1. \A d \in Dispatch : d # None
        BY NoneIsNothing
      <4>2. ASSUME NEW c \in Caller, Unsubscribe(c) PROVE FALSE
        BY <2>2, <3>1, <4>1, <4>2 DEF Unsubscribe, Detached, Dispatch
      <4>3. ASSUME NEW c \in Caller, NEW k \in Key, Join(c, k) PROVE FALSE
        BY <2>2, <3>1, <4>1, <4>3 DEF Join, Dispatch
      <4>4. CASE CallNext
        <5>1. PICK c \in calling.rest :
                calling' = [calling EXCEPT !.rest = @ \ {c}, !.called = @ \cup {c}]
          BY <4>4 DEF CallNext
        <5>2. calling' \in Dispatch
          BY <3>1, <5>1 DEF Dispatch
        <5>3. QED BY <2>2, <4>1, <5>2
      <4>5. CASE ListenerThrows
        <5>1. calling' \in Dispatch
          BY <3>1, <4>5 DEF ListenerThrows, Dispatch
        <5>2. QED BY <2>2, <4>1, <5>1
      <4>6. CASE EndDispatch
        BY <4>6 DEF EndDispatch
      <4>7. calling' # calling
        BY <2>2
      <4>8. QED
        BY <1>1, <2>2, <4>2, <4>3, <4>4, <4>5, <4>6, <4>7
        DEF Next, vars, consumerVars, Open, Receive, Interrupted, DestroyProduct, DestroyHost,
            Register, HandleStart, InterruptAtOnce, RefuseStart, HandleStop, EndStop, Unregister,
            Send, Interrupt
    <3>3. QED BY <1>1, <2>2, <3>2 DEF DispatchSound
  <2>3. QED BY <2>1, <2>2
<1>2. QED BY <1>1, DispatchInv, PTL DEF Spec, EveryListenerReached

-----------------------------------------------------------------------------
(* Clean-ups. *)

CleanedRight(i) ==
  IF i \in repeatable
  THEN failed = {} => producer[i] = "over" /\ cleanups[i] = 2
  ELSE /\ cleanups[i] <= 1
       /\ producer[i] = "over" /\ i \notin failed => cleanups[i] = 1
       /\ producer[i] # "over" => (cleanups[i] = 1 <=> stopping = i)

LEMMA HistoriesGrow ==
  ASSUME [Next]_vars
  PROVE  failed \subseteq failed' /\ repeatable \subseteq repeatable'
BY DEF Next, vars, consumerVars, producerVars, Open, Join, Unsubscribe, Receive, CallNext,
       ListenerThrows, EndDispatch, Interrupted, DestroyProduct, DestroyHost, Register, HandleStart,
       InterruptAtOnce, RefuseStart, HandleStop, EndStop, Unregister, Send, Interrupt

LEMMA StartCleaned ==
  ASSUME ConsumerInv, WireInv, HandleStart \/ RefuseStart, NEW j \in Id, CleanedRight(j)
  PROVE  CleanedRight(j)'
<1> DEFINE i == Head(toHost).id
<1>1. i \in Id /\ InFlight(toHost, "start", i)
  BY Delivered DEF HandleStart, InterruptAtOnce, RefuseStart, ConsumerInv, TypeOK, Tag
<1>2. producer[i] = "new"
  BY <1>1 DEF WireInv, StartSound
<1>3. /\ stopping = None /\ stopping' = None /\ repeatable' = repeatable /\ j # None
      /\ producer \in [Id -> {"new", "running", "over", "refused"}] /\ cleanups \in [Id -> Nat]
  BY NoneIsNothing DEF HandleStart, InterruptAtOnce, RefuseStart, ConsumerInv, TypeOK
<1>4. \/ producer' = [producer EXCEPT ![i] = "running"] /\ UNCHANGED <<cleanups, failed>>
      \/ producer' = [producer EXCEPT ![i] = "refused"] /\ UNCHANGED <<cleanups, failed>>
      \/ /\ producer' = [producer EXCEPT ![i] = "over"] /\ cleanups' = [cleanups EXCEPT ![i] = @ + 1]
         /\ UNCHANGED failed
      \/ /\ producer' = [producer EXCEPT ![i] = "over"] /\ failed' = failed \cup {i}
         /\ UNCHANGED cleanups
  BY DEF HandleStart, InterruptAtOnce, RefuseStart
<1> HIDE DEF i
<1>5. QED BY <1>1, <1>2, <1>3, <1>4 DEF CleanedRight

LEMMA UnregisterCleaned ==
  ASSUME ConsumerInv, Unregister, NEW j \in Id, CleanedRight(j)
  PROVE  CleanedRight(j)'
<1>1. PICK S \in SUBSET Id, R \in SUBSET Id :
        /\ S \subseteq Running /\ R \subseteq S
        /\ cleanups' = CleanedUp(S, R)
        /\ \/ /\ S = Running /\ producer' = Ended(S) /\ repeatable' = repeatable \cup R
              /\ failed' = failed
           \/ \E i \in S \ R :
                /\ failed' = failed \cup {i} /\ repeatable' = repeatable \cup S
                /\ producer' = Ended(R)
  <2>1. TypeOK
    BY DEF ConsumerInv
  <2>2. QED BY <2>1, Unregistration
<1>2. /\ stopping' = None /\ stopping = None /\ j # None
      /\ producer \in [Id -> {"new", "running", "over", "refused"}] /\ cleanups \in [Id -> Nat]
  BY NoneIsNothing DEF Unregister, ConsumerInv, TypeOK
<1>3. \A i \in Id : i \in Running <=> producer[i] = "running"
  BY DEF Running
<1>4. cleanups'[j] = cleanups[j] + (IF j \in R THEN 2 ELSE IF j \in S THEN 1 ELSE 0)
  BY <1>1 DEF CleanedUp
<1>5. CASE /\ S = Running /\ producer' = Ended(S) /\ repeatable' = repeatable \cup R
           /\ failed' = failed
  <2>1. producer'[j] = IF j \in S THEN "over" ELSE producer[j]
    BY <1>5 DEF Ended
  <2>2. QED BY <1>1, <1>2, <1>3, <1>4, <1>5, <2>1 DEF CleanedRight
<1>6. CASE \E i \in S \ R :
             failed' = failed \cup {i} /\ repeatable' = repeatable \cup S /\ producer' = Ended(R)
  <2>1. failed' # {} /\ failed \subseteq failed' /\ producer'[j] = IF j \in R THEN "over" ELSE producer[j]
    BY <1>6 DEF Ended
  <2>2. QED BY <1>1, <1>2, <1>3, <1>4, <1>6, <2>1 DEF CleanedRight
<1>7. QED BY <1>1, <1>5, <1>6

LEMMA CleanedStep ==
  ASSUME ConsumerInv, WireInv, CleanedOnce, [Next]_vars
  PROVE  CleanedOnce'
<1> SUFFICES ASSUME NEW j \in Id
             PROVE  CleanedRight(j)'
  BY DEF CleanedOnce, CleanedRight
<1>1. CleanedRight(j)
  BY DEF CleanedOnce, CleanedRight
<1>2. failed \subseteq failed' /\ repeatable \subseteq repeatable'
  BY HistoriesGrow
<1>3. j # None /\ stopping \in Id \cup {None} /\ cleanups \in [Id -> Nat]
      /\ producer \in [Id -> {"new", "running", "over", "refused"}]
  BY NoneIsNothing DEF ConsumerInv, TypeOK
<1>4. CASE HandleStart \/ RefuseStart
  BY <1>1, <1>4, StartCleaned
<1>5. ASSUME NEW i \in Id, Interrupt(i) PROVE CleanedRight(j)'
  <2>1. /\ producer' = Deleted(i) /\ stopping' = stopping
        /\ cleanups' = [cleanups EXCEPT ![i] = IF producer[i] = "running" THEN @ + 1 ELSE @]
        /\ repeatable' = IF stopping = i /\ producer[i] = "running" THEN repeatable \cup {i} ELSE repeatable
        /\ stopping = None \/ stopping = i
    BY <1>5 DEF Interrupt
  <2>2. CASE j = i
    <3>1. producer'[j] = "over"
      BY <1>3, <1>5, <2>1, <2>2 DEF Interrupt, Deleted
    <3>2. cleanups'[j] = IF producer[j] = "running" THEN cleanups[j] + 1 ELSE cleanups[j]
      BY <1>3, <2>1, <2>2
    <3>3. QED BY <1>1, <1>2, <1>3, <1>5, <2>1, <2>2, <3>1, <3>2 DEF CleanedRight, Interrupt
  <2>3. CASE j # i
    <3>1. producer'[j] = producer[j] /\ cleanups'[j] = cleanups[j]
      BY <1>3, <2>1, <2>3 DEF Deleted
    <3>2. QED BY <1>1, <1>2, <2>1, <2>3, <3>1 DEF CleanedRight
  <2>4. QED BY <2>2, <2>3
<1>6. CASE HandleStop
  <2>1. Head(toHost).id \in Id
    BY <1>6, ArrivalType DEF HandleStop, ConsumerInv, TypeOK
  <2>2. UNCHANGED <<producer, failed, repeatable>>
    BY <1>6 DEF HandleStop
  <2>3. QED BY <1>1, <1>3, <1>6, <2>1, <2>2 DEF HandleStop, CleanedRight
<1>7. CASE EndStop
  <2>1. /\ stopping \in Id /\ producer[stopping] \in {"running", "over"}
        /\ stopping' = None /\ cleanups' = cleanups
    BY <1>7, <1>3 DEF EndStop, WireInv, EndsSound
  <2>2. CASE producer' = Deleted(stopping) /\ UNCHANGED <<failed, repeatable>>
    BY <1>1, <1>3, <2>1, <2>2 DEF Deleted, CleanedRight
  <2>3. CASE /\ failed' = failed \cup {stopping} /\ repeatable' = repeatable \cup {stopping}
             /\ UNCHANGED producer
    BY <1>1, <1>3, <2>1, <2>3 DEF CleanedRight
  <2>4. QED BY <1>7, <2>2, <2>3 DEF EndStop
<1>8. CASE Unregister
  BY <1>1, <1>8, UnregisterCleaned
<1>9. CASE UNCHANGED <<producer, stopping, cleanups, failed, repeatable>>
  BY <1>1, <1>9 DEF CleanedRight
<1>10. QED
  BY <1>4, <1>5, <1>6, <1>7, <1>8, <1>9
  DEF Next, vars, consumerVars, producerVars, Open, Join, Unsubscribe, Receive, CallNext,
      ListenerThrows, EndDispatch, Interrupted, DestroyProduct, DestroyHost, Register, Send

(* "The transport guarantees the cleanup runs exactly once" (transport.ts:127):
   it does, whatever crosses what, unless the clean-up calls interrupt() while
   the map still holds it, when it runs twice, or one that threw left it in the
   map. *)
THEOREM CleanupCorrect == Spec => []CleanedOnce
<1>1. Init => CleanedOnce
  BY NoneIsNothing DEF Init, CleanedOnce
<1>2. ConsumerInv /\ WireInv /\ CleanedOnce /\ [Next]_vars => CleanedOnce'
  BY CleanedStep
<1>3. QED BY <1>1, <1>2, Inductive, PTL DEF Spec

-----------------------------------------------------------------------------
(* Refinement. *)

LEMMA LifecycleStep ==
  ASSUME ConsumerInv, WireInv, [Next]_vars
  PROVE  [Lifecycle!Next]_<<wire, producer>>
<1> USE DEF ConsumerInv
<1>1. ASSUME NEW c \in Caller, NEW k \in Key, Open(c, k) PROVE Lifecycle!Next
  <2> DEFINE i == lastId + 1
  <2>1. /\ i \in Id /\ i > lastId /\ wire' = [wire EXCEPT ![i] = "open"] /\ producer' = producer
    BY <1>1, BoundsAreNat DEF Open, TypeOK, Id, producerVars
  <2>2. wire[i] = "new"
    BY <2>1 DEF WireInv, Unborn
  <2>3. Lifecycle!Open(i)
    BY <2>1, <2>2 DEF Lifecycle!Open
  <2>4. QED BY <2>1, <2>3 DEF Lifecycle!Next
<1>2. ASSUME NEW c \in Caller, Unsubscribe(c), UNCHANGED wire => FALSE PROVE Lifecycle!Next
  <2> DEFINE i == active[handle[c].key].id
  <2>1. /\ i \in Id /\ wire' = Kill(i) /\ producer' = producer
    BY <1>2 DEF Unsubscribe, HandlesListed, TypeOK, Handle, Entry, producerVars
  <2>2. wire[i] = "open"
    BY <1>2, <2>1 DEF Kill, TypeOK
  <2>3. wire' = [j \in Id |-> IF j \in {i} THEN "left" ELSE wire[j]]
    BY <2>1, <2>2 DEF Kill, TypeOK
  <2>4. Lifecycle!Leave({i})
    BY <2>1, <2>2, <2>3 DEF Lifecycle!Leave
  <2>5. QED BY <2>1, <2>4 DEF Lifecycle!Next
<1>3. ASSUME Interrupted, UNCHANGED wire => FALSE PROVE Lifecycle!Next
  <2> DEFINE i == Head(toProduct).id
  <2>1. /\ i \in Id /\ producer' = producer
        /\ wire' = [wire EXCEPT ![i] = IF @ = "open" THEN "interrupted" ELSE @]
    BY <1>3, ArrivalType DEF Interrupted, TypeOK, producerVars
  <2>2. InFlight(toProduct, "interrupt", i)
    BY <1>3, <2>1, Delivered DEF Interrupted, TypeOK, Tag
  <2>3. producer[i] \in {"over", "refused"}
    BY <2>1, <2>2 DEF WireInv, EndsSound
  <2>4. wire[i] = "open"
    BY <1>3, <2>1 DEF TypeOK
  <2>5. Lifecycle!Interrupted(i)
    BY <2>1, <2>3, <2>4 DEF Lifecycle!Interrupted
  <2>6. QED BY <2>1, <2>5 DEF Lifecycle!Next
<1>4. CASE DestroyProduct
  <2> DEFINE S == {i \in Id : wire[i] = "open"}
  <2>1. Lifecycle!Leave(S)
    BY <1>4 DEF DestroyProduct, Lifecycle!Leave, producerVars
  <2>2. QED BY <2>1 DEF Lifecycle!Next
<1>5. CASE HandleStart \/ RefuseStart
  <2> DEFINE i == Head(toHost).id
  <2>1. /\ i \in Id /\ InFlight(toHost, "start", i) /\ wire' = wire
    BY <1>5, Delivered DEF HandleStart, InterruptAtOnce, RefuseStart, TypeOK, Tag, consumerVars
  <2>2. producer[i] = "new" /\ i <= lastId
    <3>1. lastId \in Nat /\ i \in Int
      BY <2>1, BoundsAreNat DEF TypeOK, Id
    <3>2. QED BY <2>1, <3>1 DEF WireInv, StartSound, Unborn, Tag
  <2>3. wire[i] # "new"
    BY <2>1, <2>2 DEF WireInv, EndsSound
  <2>4. \E answer \in {"running", "over", "refused"} :
          producer' = [producer EXCEPT ![i] = answer]
    BY <1>5 DEF HandleStart, InterruptAtOnce, RefuseStart
  <2>5. Lifecycle!Answer(i)
    BY <2>1, <2>2, <2>3, <2>4 DEF Lifecycle!Answer
  <2>6. QED BY <2>1, <2>5 DEF Lifecycle!Next
<1>6. ASSUME NEW i \in Id, producer' = Deleted(i), wire' = wire
      PROVE  Lifecycle!Next \/ UNCHANGED <<wire, producer>>
  <2>1. CASE producer[i] = "running"
    <3>1. producer' = [j \in Id |-> IF j \in {i} THEN "over" ELSE producer[j]]
      BY <1>6, <2>1 DEF Deleted, TypeOK
    <3>2. Lifecycle!Finish({i})
      BY <1>6, <2>1, <3>1 DEF Lifecycle!Finish
    <3>3. QED BY <3>2 DEF Lifecycle!Next
  <2>2. CASE producer[i] # "running"
    BY <1>6, <2>2 DEF Deleted, TypeOK
  <2>3. QED BY <2>1, <2>2
<1>7. CASE Unregister
  <2>1. wire' = wire
    BY <1>7 DEF Unregister, consumerVars
  <2>2. PICK S \in SUBSET Running : producer' = Ended(S)
    BY <1>7, Unregistration
  <2>3. Lifecycle!Finish(S)
    BY <2>1, <2>2 DEF Lifecycle!Finish, Running, Ended
  <2>4. QED BY <2>2, <2>3 DEF Lifecycle!Next, Running
<1>8. CASE UNCHANGED <<wire, producer>>
  BY <1>8
<1>9. QED
  <2>1. ASSUME NEW c \in Caller, Unsubscribe(c)
        PROVE  Lifecycle!Next \/ UNCHANGED <<wire, producer>>
    BY <2>1, <1>2 DEF Unsubscribe, producerVars
  <2>2. CASE Interrupted
    BY <2>2, <1>3 DEF Interrupted, producerVars
  <2>3. ASSUME NEW i \in Id, Interrupt(i)
        PROVE  Lifecycle!Next \/ UNCHANGED <<wire, producer>>
    BY <2>3, <1>6 DEF Interrupt, consumerVars
  <2>4. CASE EndStop
    <3>1. stopping \in Id /\ wire' = wire
      BY <2>4 DEF EndStop, TypeOK, consumerVars
    <3>2. QED BY <2>4, <3>1, <1>6 DEF EndStop
  <2>5. QED
    BY <1>1, <1>4, <1>5, <1>7, <1>8, <2>1, <2>2, <2>3, <2>4
    DEF Next, vars, consumerVars, producerVars, Join, Receive, CallNext, ListenerThrows, EndDispatch, DestroyHost,
        Register, HandleStop, Send

(* The two ends of a subscription implement its abstract life cycle. *)
THEOREM LifecycleImplemented == Spec => ImplementsLifecycle
<1>1. Init => Lifecycle!Init
  BY DEF Init, Lifecycle!Init
<1>2. ConsumerInv /\ WireInv /\ [Next]_vars => [Lifecycle!Next]_<<wire, producer>>
  BY LifecycleStep
<1>3. QED BY <1>1, <1>2, Inductive, PTL DEF Spec, ImplementsLifecycle, Lifecycle!Spec

=============================================================================
