--------------------- MODULE StatementStoreClient_proofs ---------------------
(* Proofs about the statement store client, for any statements, subscriptions,
   queries and upstreams: its types, that upstreams live as long as they have
   listeners, and that listeners and queries miss nothing. *)
EXTENDS StatementStoreClient, TLAPS

(* What a subscription is due, it has heard or is about to hear. *)
Reaching(x) == IF x \in loop.left THEN loop.statements ELSE {}
HearsAll == \A x \in Subscription : due[x] \subseteq heard[x] \cup Reaching(x)

(* What was stored when a query was asked, it has collected or is to be sent. *)
QuerySound(q) ==
  /\ query[q].state = "asked" => query[q].atStart \ Malformed \subseteq query[q].got \cup upstream[q].dump
  /\ query[q].state = "answered" => query[q].atStart \ Malformed \subseteq query[q].got

SubmissionsSound == \A s \in Statement : submission[s] = "ok" => s \in stored

QueryState == [state : {"none", "asked", "answered", "failed"},
               got : SUBSET Statement, atStart : SUBSET Statement]

Answers == HearsAll /\ (\A q \in Query : QuerySound(q)) /\ SubmissionsSound

Inv == TypeOK /\ UpstreamHasListeners /\ Answers

(* The upstreams of the node, one by one. *)
UpstreamState == [state : {"none", "open", "failed", "closed"},
                  unsent : SUBSET Statement, dump : SUBSET Statement]

LEMMA OpensOK ==
  ASSUME TypeOK, NEW u \in Upstream
  PROVE  /\ Opens(u) \in [Upstream -> UpstreamState]
         /\ Opens(u)[u].dump = stored
         /\ \A v \in Upstream : v # u => Opens(u)[v] = upstream[v]
BY DEF TypeOK, Opens, UpstreamState

LEMMA ClosesOK ==
  ASSUME TypeOK, NEW u \in Upstream
  PROVE  /\ Closes(u) \in [Upstream -> UpstreamState]
         /\ Closes(u)[u].state = "closed"
         /\ \A v \in Upstream : /\ Closes(u)[v].dump = upstream[v].dump
                                /\ v # u => Closes(u)[v] = upstream[v]
<1> DEFINE r == [upstream[u] EXCEPT !.state = "closed", !.unsent = {}]
<1>1. upstream \in [Upstream -> UpstreamState] /\ upstream[u] \in UpstreamState
  BY DEF TypeOK, UpstreamState
<1>2. r \in UpstreamState /\ r.state = "closed" /\ r.dump = upstream[u].dump
  BY <1>1 DEF UpstreamState
<1>3. Closes(u) = [upstream EXCEPT ![u] = r]
  BY <1>1 DEF Closes, UpstreamState
<1>4. QED BY <1>1, <1>2, <1>3

LEMMA InvInit == Init => Inv
<1> SUFFICES ASSUME Init PROVE Inv
  OBVIOUS
<1>1. TypeOK
  BY BoundsAreNat DEF Init, TypeOK, Unopened, NoMux, NoEvent
<1>2. UpstreamHasListeners
  BY DEF Init, UpstreamHasListeners, Unopened, NoMux, Upstream
<1>3. Answers
  BY DEF Init, Answers, HearsAll, QuerySound, SubmissionsSound, NoEvent
<1>4. QED BY <1>1, <1>2, <1>3 DEF Inv

(* Subscriptions come and go; a delivery under way still reaches whom it is to
   reach. *)
LEMMA SubscribeStep ==
  ASSUME Inv, NEW x \in Subscription, Subscribe(x)
  PROVE  Inv'
<1>1. UNCHANGED <<stored, submission, loop, due, heard, query, errors>> /\ x \notin mux.listeners
  BY DEF Subscribe, nodeVars, listenerVars
<1>2. mux \in [upstream : 0 .. MaxUpstreams, listeners : SUBSET Subscription]
  BY DEF Inv, TypeOK
<1>3. CASE mux = NoMux
  <2> DEFINE u == opened + 1
  <2>1. /\ u \in 1 .. MaxUpstreams /\ u \in Upstream /\ opened' = u
        /\ upstream' = Opens(u) /\ mux' = [upstream |-> u, listeners |-> {x}]
    BY <1>3, BoundsAreNat DEF Subscribe, Inv, TypeOK, Upstream
  <2>2. /\ upstream' \in [Upstream -> UpstreamState]
        /\ \A v \in Upstream : v # u => upstream'[v] = upstream[v]
    BY <2>1, OpensOK DEF Inv
  <2>3. TypeOK'
    BY <1>1, <2>1, <2>2 DEF Inv, TypeOK, UpstreamState
  <2>4. \A v \in 1 .. MaxUpstreams : v # u => upstream'[v].state # "open"
    BY <1>3, <2>2 DEF Inv, UpstreamHasListeners, NoMux, Upstream
  <2>5. UpstreamHasListeners'
    BY <2>1, <2>4 DEF UpstreamHasListeners
  <2>6. \A q \in Query : upstream'[q] = upstream[q]
    <3>1. u \in 0 .. MaxUpstreams /\ u \notin Query
      BY <2>1, UpstreamsAreApart
    <3>2. \A q \in Query : q \in Upstream /\ q # u
      BY <3>1 DEF Upstream
    <3>3. QED BY <2>2, <3>2
  <2>7. Answers'
    BY <1>1, <2>6 DEF Inv, Answers, HearsAll, Reaching, QuerySound, SubmissionsSound
  <2>8. QED BY <2>3, <2>5, <2>7 DEF Inv
<1>4. CASE mux # NoMux
  <2>1. mux' = [mux EXCEPT !.listeners = @ \cup {x}] /\ UNCHANGED <<opened, upstream>>
    BY <1>4 DEF Subscribe
  <2>2. mux.upstream # 0
    BY <1>2, <1>4 DEF Inv, UpstreamHasListeners, NoMux
  <2>3. TypeOK'
    BY <1>1, <1>2, <2>1 DEF Inv, TypeOK
  <2>4. mux'.upstream = mux.upstream /\ mux'.listeners = mux.listeners \cup {x}
    BY <1>2, <2>1
  <2>5. UpstreamHasListeners'
    BY <2>1, <2>2, <2>4 DEF Inv, UpstreamHasListeners
  <2>6. Answers'
    BY <1>1, <2>1 DEF Inv, Answers, HearsAll, Reaching, QuerySound, SubmissionsSound
  <2>7. QED BY <2>3, <2>5, <2>6 DEF Inv
<1>5. QED BY <1>3, <1>4

LEMMA UnsubscribeStep ==
  ASSUME Inv, NEW x \in Subscription, Unsubscribe(x)
  PROVE  Inv'
<1>1. /\ UNCHANGED <<stored, submission, opened, loop, due, heard, query, errors>>
      /\ x \in mux.listeners /\ Leave(x)
  BY DEF Unsubscribe, nodeVars, listenerVars
<1>2. mux \in [upstream : 0 .. MaxUpstreams, listeners : SUBSET Subscription]
  BY DEF Inv, TypeOK
<1>3. mux.upstream \in 1 .. MaxUpstreams /\ mux.upstream \in Upstream
  BY <1>1, <1>2, BoundsAreNat DEF Inv, UpstreamHasListeners, Upstream
<1>4. CASE mux.listeners = {x}
  <2>1. mux' = NoMux /\ upstream' = Closes(mux.upstream)
    BY <1>1, <1>4 DEF Leave
  <2>2. /\ upstream' \in [Upstream -> UpstreamState] /\ upstream'[mux.upstream].state = "closed"
        /\ \A v \in Upstream : upstream'[v].dump = upstream[v].dump
        /\ \A v \in Upstream : v # mux.upstream => upstream'[v] = upstream[v]
    BY <1>3, <2>1, ClosesOK DEF Inv
  <2>3. TypeOK'
    BY <1>1, <2>1, <2>2, BoundsAreNat DEF Inv, TypeOK, UpstreamState, NoMux
  <2>4. \A v \in 1 .. MaxUpstreams : upstream'[v].state # "open"
    BY <2>2 DEF Inv, UpstreamHasListeners, Upstream
  <2>5. UpstreamHasListeners'
    BY <2>1, <2>4 DEF UpstreamHasListeners, NoMux
  <2>6. \A q \in Query : upstream'[q].dump = upstream[q].dump
    BY <2>2 DEF Upstream
  <2>7. Answers'
    BY <1>1, <2>6 DEF Inv, Answers, HearsAll, Reaching, QuerySound, SubmissionsSound
  <2>8. QED BY <2>3, <2>5, <2>7 DEF Inv
<1>5. CASE mux.listeners # {x}
  <2>1. mux' = [mux EXCEPT !.listeners = @ \ {x}] /\ UNCHANGED upstream
    BY <1>1, <1>5 DEF Leave
  <2>2. TypeOK'
    BY <1>1, <1>2, <2>1 DEF Inv, TypeOK
  <2>3. mux'.upstream = mux.upstream /\ mux'.listeners # {}
    BY <1>1, <1>2, <1>5, <2>1
  <2>4. UpstreamHasListeners'
    BY <1>3, <2>1, <2>3 DEF Inv, UpstreamHasListeners
  <2>5. Answers'
    BY <1>1, <2>1 DEF Inv, Answers, HearsAll, Reaching, QuerySound, SubmissionsSound
  <2>6. QED BY <2>2, <2>4, <2>5 DEF Inv
<1>6. QED BY <1>4, <1>5

(* An event of the shared upstream, and the calls of a delivery. *)
LEMMA EventStep ==
  ASSUME Inv, NEW u \in Upstream, Event(u)
  PROVE  Inv'
<1>1. /\ UNCHANGED <<stored, submission, mux, opened, heard, query, errors>>
      /\ loop.left = {} /\ u \in 1 .. MaxUpstreams /\ upstream[u].state = "open"
  BY DEF Event, Idle, nodeVars, muxVars
<1>2. PICK page \in SUBSET upstream[u].unsent \ {{}} :
        /\ upstream' = [upstream EXCEPT ![u].unsent = @ \ page]
        /\ loop' = IF Decoded(page) = {} THEN NoEvent
                   ELSE [statements |-> Decoded(page), left |-> mux.listeners]
        /\ due' = [x \in Subscription |->
                     IF x \in mux.listeners THEN due[x] \cup (page \ Malformed) ELSE due[x]]
  BY DEF Event
<1>3. upstream \in [Upstream -> UpstreamState]
  BY DEF Inv, TypeOK, UpstreamState
<1>4. /\ upstream' \in [Upstream -> UpstreamState]
      /\ \A v \in Upstream : upstream'[v].state = upstream[v].state /\ upstream'[v].dump = upstream[v].dump
  <2> DEFINE r == [upstream[u] EXCEPT !.unsent = @ \ page]
  <2>1. upstream' = [upstream EXCEPT ![u] = r]
    BY <1>2
  <2>2. r \in UpstreamState /\ r.state = upstream[u].state /\ r.dump = upstream[u].dump
    BY <1>3 DEF UpstreamState
  <2>3. QED BY <1>3, <2>1, <2>2
<1>5. page \subseteq Statement /\ mux.listeners \subseteq Subscription
  BY <1>2, <1>3 DEF UpstreamState, Inv, TypeOK
<1>6. loop' \in [statements : SUBSET Statement, left : SUBSET Subscription]
  BY <1>2, <1>5 DEF Decoded, NoEvent
<1>7. due' \in [Subscription -> SUBSET Statement]
  BY <1>2, <1>5 DEF Inv, TypeOK
<1>8. TypeOK'
  BY <1>1, <1>4, <1>6, <1>7 DEF Inv, TypeOK, UpstreamState
<1>9. UpstreamHasListeners'
  BY <1>1, <1>4 DEF Inv, UpstreamHasListeners, Upstream
<1>10. HearsAll'
  <2> SUFFICES ASSUME NEW x \in Subscription PROVE due'[x] \subseteq heard'[x] \cup Reaching(x)'
    BY DEF HearsAll
  <2>1. due[x] \subseteq heard[x]
    BY <1>1 DEF Inv, Answers, HearsAll, Reaching
  <2>2. CASE x \in mux.listeners /\ Decoded(page) # {}
    BY <1>1, <1>2, <2>1, <2>2 DEF Reaching, Decoded
  <2>3. CASE ~(x \in mux.listeners /\ Decoded(page) # {})
    <3>1. due'[x] = due[x]
      BY <1>2, <2>3 DEF Decoded
    <3>2. QED BY <1>1, <2>1, <3>1
  <2>4. QED BY <2>2, <2>3
<1>11. Answers'
  BY <1>1, <1>4, <1>10 DEF Inv, Answers, QuerySound, SubmissionsSound, Upstream
<1>12. QED BY <1>8, <1>9, <1>11 DEF Inv

LEMMA CallNextStep ==
  ASSUME Inv, NEW x \in Subscription, CallNext(x)
  PROVE  Inv'
<1>1. /\ UNCHANGED <<stored, submission, upstream, mux, opened, due, query, errors>>
      /\ x \in loop.left /\ heard' = [heard EXCEPT ![x] = @ \cup loop.statements]
      /\ loop' = IF loop.left = {x} THEN NoEvent ELSE [loop EXCEPT !.left = @ \ {x}]
  BY DEF CallNext, nodeVars, muxVars
<1>2. loop \in [statements : SUBSET Statement, left : SUBSET Subscription]
  BY DEF Inv, TypeOK
<1>3. loop' \in [statements : SUBSET Statement, left : SUBSET Subscription]
  BY <1>1, <1>2 DEF NoEvent
<1>4. heard' \in [Subscription -> SUBSET Statement]
  BY <1>1, <1>2 DEF Inv, TypeOK
<1>5. TypeOK'
  BY <1>1, <1>3, <1>4 DEF Inv, TypeOK
<1>6. UpstreamHasListeners'
  BY <1>1 DEF Inv, UpstreamHasListeners
<1>7. HearsAll'
  <2> SUFFICES ASSUME NEW y \in Subscription PROVE due[y] \subseteq heard'[y] \cup Reaching(y)'
    BY <1>1 DEF HearsAll
  <2>1. due[y] \subseteq heard[y] \cup Reaching(y)
    BY DEF Inv, Answers, HearsAll
  <2>2. CASE y = x
    <3>1. heard'[y] = heard[y] \cup loop.statements
      BY <1>1, <2>2 DEF Inv, TypeOK
    <3>2. QED BY <2>1, <3>1 DEF Reaching
  <2>3. CASE y # x
    <3>1. heard'[y] = heard[y]
      BY <1>1, <2>3 DEF Inv, TypeOK
    <3>2. y \in loop.left => y \in loop'.left /\ loop'.statements = loop.statements
      BY <1>1, <1>2, <2>3
    <3>3. QED BY <2>1, <3>1, <3>2 DEF Reaching
  <2>4. QED BY <2>2, <2>3
<1>8. Answers'
  BY <1>1, <1>7 DEF Inv, Answers, QuerySound, SubmissionsSound
<1>9. QED BY <1>5, <1>6, <1>8 DEF Inv

(* An upstream fails, and with it its query. *)
LEMMA FailsStep ==
  ASSUME Inv, NEW u \in Upstream, Fails(u)
  PROVE  Inv'
<1>1. /\ UNCHANGED <<stored, submission, mux, opened, loop, due, heard>>
      /\ errors < MaxErrors /\ errors' = errors + 1
      /\ upstream' = [upstream EXCEPT ![u].state = "failed", ![u].unsent = {}]
      /\ query' = IF u \in Query THEN [query EXCEPT ![u].state = "failed"] ELSE query
  BY DEF Fails, nodeVars, muxVars, listenerVars
<1>2. upstream \in [Upstream -> UpstreamState]
  BY DEF Inv, TypeOK, UpstreamState
<1>3. /\ upstream' \in [Upstream -> UpstreamState] /\ upstream'[u].state = "failed"
      /\ \A v \in Upstream : v # u => upstream'[v] = upstream[v]
      /\ \A v \in Upstream : upstream'[v].dump = upstream[v].dump
  <2> DEFINE r == [upstream[u] EXCEPT !.state = "failed", !.unsent = {}]
  <2>1. upstream' = [upstream EXCEPT ![u] = r]
    BY <1>1, <1>2 DEF UpstreamState
  <2>2. r \in UpstreamState /\ r.state = "failed" /\ r.dump = upstream[u].dump
    BY <1>2 DEF UpstreamState
  <2>3. QED BY <1>2, <2>1, <2>2
<1>4. errors' \in 0 .. MaxErrors
  BY <1>1, BoundsAreNat DEF Inv, TypeOK
<1>5. query' \in [Query -> QueryState] /\ \A q \in Query : query'[q] = query[q] \/ query'[q].state = "failed"
  <2>1. query \in [Query -> QueryState]
    BY DEF Inv, TypeOK, QueryState
  <2>2. CASE u \in Query
    <3> DEFINE r == [query[u] EXCEPT !.state = "failed"]
    <3>1. r \in QueryState /\ r.state = "failed"
      BY <2>1, <2>2 DEF QueryState
    <3>2. query' = [query EXCEPT ![u] = r]
      BY <1>1, <2>2
    <3>3. QED BY <2>1, <3>1, <3>2
  <2>3. QED BY <1>1, <2>1, <2>2
<1>6. TypeOK'
  BY <1>1, <1>3, <1>4, <1>5 DEF Inv, TypeOK, UpstreamState, QueryState
<1>7. UpstreamHasListeners'
  BY <1>1, <1>3 DEF Inv, UpstreamHasListeners, Upstream
<1>8. \A q \in Query : QuerySound(q)'
  <2> SUFFICES ASSUME NEW q \in Query PROVE QuerySound(q)'
    OBVIOUS
  <2>1. QuerySound(q) /\ upstream'[q].dump = upstream[q].dump
    BY <1>3 DEF Inv, Answers, Upstream
  <2>2. QED BY <1>5, <2>1 DEF QuerySound
<1>9. Answers'
  BY <1>1, <1>8 DEF Inv, Answers, HearsAll, Reaching, SubmissionsSound
<1>10. QED BY <1>6, <1>7, <1>9 DEF Inv

LEMMA QueryApart == \A q \in Query : q \in Upstream /\ q \notin 1 .. MaxUpstreams
<1>1. \A q \in Query : q \notin 0 .. MaxUpstreams
  BY UpstreamsAreApart
<1>2. 1 .. MaxUpstreams \subseteq 0 .. MaxUpstreams
  BY BoundsAreNat
<1>3. QED BY <1>1, <1>2 DEF Upstream

(* The parts that a query's own upstream leaves alone. *)
LEMMA QueryFrame ==
  ASSUME Inv, NEW q \in Query, UNCHANGED <<nodeVars, muxVars, listenerVars, errors>>,
         upstream' \in [Upstream -> UpstreamState],
         \A v \in Upstream : v # q => upstream'[v] = upstream[v],
         query' \in [Query -> QueryState],
         \A p \in Query : p # q => query'[p] = query[p],
         QuerySound(q)'
  PROVE  Inv'
<1>1. UNCHANGED <<stored, submission, mux, opened, loop, due, heard, errors>>
  BY DEF nodeVars, muxVars, listenerVars
<1>2. TypeOK'
  BY <1>1 DEF Inv, TypeOK, UpstreamState, QueryState
<1>3. \A u \in 1 .. MaxUpstreams : upstream'[u] = upstream[u]
  BY QueryApart DEF Upstream
<1>4. UpstreamHasListeners'
  BY <1>1, <1>3 DEF Inv, UpstreamHasListeners
<1>5. \A p \in Query : QuerySound(p)'
  <2> SUFFICES ASSUME NEW p \in Query, p # q PROVE QuerySound(p)'
    OBVIOUS
  <2>1. query'[p] = query[p] /\ upstream'[p] = upstream[p] /\ QuerySound(p)
    BY QueryApart DEF Inv, Answers
  <2>2. QED BY <2>1 DEF QuerySound
<1>6. Answers'
  BY <1>1, <1>5 DEF Inv, Answers, HearsAll, Reaching, SubmissionsSound
<1>7. QED BY <1>2, <1>4, <1>6 DEF Inv

LEMMA AskStep ==
  ASSUME Inv, NEW q \in Query, Ask(q)
  PROVE  Inv'
<1> DEFINE r == [state |-> "asked", got |-> {}, atStart |-> stored]
<1>1. /\ query' = [query EXCEPT ![q] = r] /\ upstream' = Opens(q)
      /\ UNCHANGED <<nodeVars, muxVars, listenerVars, errors>>
  BY DEF Ask
<1>2. query \in [Query -> QueryState] /\ r \in QueryState /\ q \in Upstream
  BY QueryApart DEF Inv, TypeOK, QueryState
<1>3. /\ query' \in [Query -> QueryState] /\ query'[q] = r
      /\ \A p \in Query : p # q => query'[p] = query[p]
  BY <1>1, <1>2
<1>4. /\ upstream' \in [Upstream -> UpstreamState] /\ upstream'[q].dump = stored
      /\ \A v \in Upstream : v # q => upstream'[v] = upstream[v]
  BY <1>1, <1>2, OpensOK DEF Inv
<1>5. QuerySound(q)'
  BY <1>3, <1>4 DEF QuerySound
<1>6. QED BY <1>1, <1>3, <1>4, <1>5, QueryFrame

(* A page of the dump; with the last one the query has everything. *)
LEMMA QueryEventStep ==
  ASSUME Inv, NEW q \in Query, QueryEvent(q)
  PROVE  Inv'
<1>1. query[q].state = "asked" /\ UNCHANGED <<nodeVars, muxVars, listenerVars, errors>>
  BY DEF QueryEvent
<1>2. PICK page \in SUBSET upstream[q].dump :
        IF IsLast(q, page)
        THEN /\ query' = [query EXCEPT ![q].state = "answered", ![q].got = @ \cup Decoded(page)]
             /\ upstream' = Closes(q)
        ELSE /\ query' = [query EXCEPT ![q].got = @ \cup Decoded(page)]
             /\ upstream' = [upstream EXCEPT ![q].unsent = @ \ page, ![q].dump = @ \ page]
  BY DEF QueryEvent
<1>3. /\ query \in [Query -> QueryState] /\ upstream \in [Upstream -> UpstreamState]
      /\ q \in Upstream /\ upstream[q].dump \subseteq Statement
  BY QueryApart DEF Inv, TypeOK, QueryState, UpstreamState
<1>4. query[q].atStart \ Malformed \subseteq query[q].got \cup upstream[q].dump
  BY <1>1 DEF Inv, Answers, QuerySound
<1>5. CASE IsLast(q, page)
  <2> DEFINE r == [query[q] EXCEPT !.state = "answered", !.got = @ \cup Decoded(page)]
  <2>1. r \in QueryState /\ r.got = query[q].got \cup Decoded(page) /\ r.atStart = query[q].atStart
        /\ r.state = "answered"
    BY <1>2, <1>3 DEF QueryState, Decoded
  <2>2. query' = [query EXCEPT ![q] = r]
    BY <1>2, <1>3, <1>5 DEF QueryState
  <2>3. /\ query' \in [Query -> QueryState] /\ query'[q] = r
        /\ \A p \in Query : p # q => query'[p] = query[p]
    BY <1>3, <2>1, <2>2
  <2>4. /\ upstream' \in [Upstream -> UpstreamState]
        /\ \A v \in Upstream : v # q => upstream'[v] = upstream[v]
    BY <1>2, <1>3, <1>5, ClosesOK DEF Inv
  <2>5. page = upstream[q].dump
    BY <1>2, <1>5 DEF IsLast
  <2>6. QuerySound(q)'
    BY <1>4, <2>1, <2>3, <2>5 DEF QuerySound, Decoded
  <2>7. QED BY <1>1, <2>3, <2>4, <2>6, QueryFrame
<1>6. CASE ~IsLast(q, page)
  <2> DEFINE r == [query[q] EXCEPT !.got = @ \cup Decoded(page)]
             w == [upstream[q] EXCEPT !.unsent = @ \ page, !.dump = @ \ page]
  <2>1. r \in QueryState /\ r.got = query[q].got \cup Decoded(page) /\ r.atStart = query[q].atStart
        /\ r.state = "asked"
    BY <1>1, <1>2, <1>3 DEF QueryState, Decoded
  <2>2. w \in UpstreamState /\ w.dump = upstream[q].dump \ page
    BY <1>3 DEF UpstreamState
  <2>3. query' = [query EXCEPT ![q] = r]
    BY <1>2, <1>3, <1>6
  <2>4. upstream' = [upstream EXCEPT ![q] = w]
    BY <1>2, <1>3, <1>6 DEF UpstreamState
  <2>5. /\ query' \in [Query -> QueryState] /\ query'[q] = r
        /\ \A p \in Query : p # q => query'[p] = query[p]
    BY <1>3, <2>1, <2>3
  <2>6. /\ upstream' \in [Upstream -> UpstreamState] /\ upstream'[q] = w
        /\ \A v \in Upstream : v # q => upstream'[v] = upstream[v]
    BY <1>3, <2>2, <2>4
  <2>7. QuerySound(q)'
    BY <1>4, <2>1, <2>2, <2>5, <2>6 DEF QuerySound, Decoded
  <2>8. QED BY <1>1, <2>5, <2>6, <2>7, QueryFrame
<1>7. QED BY <1>5, <1>6

(* The node stores a statement and owes it to those who are subscribed. *)
LEMMA StoresOK ==
  ASSUME Inv, NEW s \in Statement, Stores(s)
  PROVE  /\ stored' \subseteq Statement /\ stored \subseteq stored' /\ s \in stored'
         /\ upstream' \in [Upstream -> UpstreamState]
         /\ \A u \in Upstream : upstream'[u].state = upstream[u].state /\ upstream'[u].dump = upstream[u].dump
<1>1. upstream \in [Upstream -> UpstreamState] /\ stored \subseteq Statement
  BY DEF Inv, TypeOK, UpstreamState
<1>2. \A u \in Upstream : upstream'[u] = IF upstream[u].state = "open" /\ s \notin stored
                                         THEN [upstream[u] EXCEPT !.unsent = @ \cup {s}] ELSE upstream[u]
  BY DEF Stores
<1>3. \A u \in Upstream : /\ upstream'[u] \in UpstreamState
                          /\ upstream'[u].state = upstream[u].state /\ upstream'[u].dump = upstream[u].dump
  <2> SUFFICES ASSUME NEW u \in Upstream
               PROVE  /\ upstream'[u] \in UpstreamState
                      /\ upstream'[u].state = upstream[u].state /\ upstream'[u].dump = upstream[u].dump
    OBVIOUS
  <2> DEFINE r == [upstream[u] EXCEPT !.unsent = @ \cup {s}]
  <2>1. r \in UpstreamState /\ r.state = upstream[u].state /\ r.dump = upstream[u].dump
    BY <1>1 DEF UpstreamState
  <2>2. upstream'[u] = r \/ upstream'[u] = upstream[u]
    BY <1>2
  <2>3. QED BY <1>1, <2>1, <2>2
<1>4. QED BY <1>1, <1>3 DEF Stores

LEMMA NodeStep ==
  ASSUME Inv, NEW s \in Statement, Submit(s) \/ Answered(s) \/ Published(s)
  PROVE  Inv'
<1>1. UNCHANGED <<mux, opened, loop, due, heard, query, errors>>
  BY DEF Submit, Answered, Published, muxVars, listenerVars
<1>2. /\ stored' \subseteq Statement /\ stored \subseteq stored'
      /\ upstream' \in [Upstream -> UpstreamState]
      /\ \A u \in Upstream : upstream'[u].state = upstream[u].state /\ upstream'[u].dump = upstream[u].dump
  <2>1. CASE Stores(s)
    BY <2>1, StoresOK
  <2>2. CASE UNCHANGED <<stored, upstream>>
    BY <2>2 DEF Inv, TypeOK, UpstreamState
  <2>3. QED BY <2>1, <2>2 DEF Submit, Answered, Published
<1>3. /\ submission' \in [Statement -> {"none", "sent", "ok", "Transport", "KnownExpired", "rejected",
                                        "invalid", "InternalStore"}]
      /\ \A t \in Statement : submission'[t] = "ok" => t \in stored'
  <2> DEFINE Result == {"none", "sent", "ok", "Transport", "KnownExpired", "rejected", "invalid", "InternalStore"}
  <2>1. submission \in [Statement -> Result] /\ \A t \in Statement : submission[t] = "ok" => t \in stored
    BY DEF Inv, TypeOK, Answers, SubmissionsSound
  <2>2. CASE Submit(s)
    BY <1>2, <2>1, <2>2 DEF Submit
  <2>3. CASE Published(s)
    BY <1>2, <2>1, <2>3 DEF Published
  <2>4. CASE Answered(s)
    <3>1. CASE \E r \in {SubmitResult(IF s \in stored THEN "known" ELSE "new"), "Transport"} :
                 submission' = [submission EXCEPT ![s] = r] /\ Stores(s)
      <4>1. SubmitResult(IF s \in stored THEN "known" ELSE "new") = "ok"
        BY DEF SubmitResult
      <4>2. submission' = [submission EXCEPT ![s] = "ok"] \/ submission' = [submission EXCEPT ![s] = "Transport"]
        BY <3>1, <4>1
      <4>3. s \in stored'
        BY <3>1, StoresOK
      <4>4. QED BY <1>2, <2>1, <4>2, <4>3
    <3>2. CASE \E r \in {SubmitResult(status) : status \in Status \ {"new", "known"}} \cup {"Transport"} :
                 submission' = [submission EXCEPT ![s] = r]
      <4>1. PICK r \in {SubmitResult(status) : status \in Status \ {"new", "known"}} \cup {"Transport"} :
              submission' = [submission EXCEPT ![s] = r]
        BY <3>2
      <4>2. r \in Result \ {"ok"}
        BY DEF SubmitResult, Status
      <4>3. QED BY <1>2, <2>1, <4>1, <4>2
    <3>3. QED BY <2>4, <3>1, <3>2 DEF Answered
  <2>5. QED BY <2>2, <2>3, <2>4
<1>4. TypeOK'
  BY <1>1, <1>2, <1>3 DEF Inv, TypeOK, UpstreamState
<1>5. UpstreamHasListeners'
  BY <1>1, <1>2 DEF Inv, UpstreamHasListeners, Upstream
<1>6. \A q \in Query : QuerySound(q)'
  BY <1>1, <1>2, QueryApart DEF Inv, Answers, QuerySound
<1>7. Answers'
  BY <1>1, <1>3, <1>6 DEF Inv, Answers, HearsAll, Reaching, SubmissionsSound
<1>8. QED BY <1>4, <1>5, <1>7 DEF Inv

LEMMA InvStep ==
  ASSUME Inv, [Next]_vars
  PROVE  Inv'
<1>1. CASE UNCHANGED vars
  <2>1. UNCHANGED <<stored, submission, upstream, mux, opened, loop, due, heard, query, errors>>
    BY <1>1 DEF vars, nodeVars, muxVars, listenerVars
  <2>2. TypeOK' /\ UpstreamHasListeners'
    BY <2>1 DEF Inv, TypeOK, UpstreamHasListeners
  <2>3. Answers'
    BY <2>1 DEF Inv, Answers, HearsAll, Reaching, QuerySound, SubmissionsSound
  <2>4. QED BY <2>2, <2>3 DEF Inv
<1>2. CASE \E x \in Subscription : Subscribe(x) \/ Unsubscribe(x) \/ CallNext(x)
  BY <1>2, SubscribeStep, UnsubscribeStep, CallNextStep
<1>3. CASE \E u \in Upstream : Event(u) \/ Fails(u)
  BY <1>3, EventStep, FailsStep
<1>4. CASE \E q \in Query : Ask(q) \/ QueryEvent(q)
  BY <1>4, AskStep, QueryEventStep
<1>5. CASE \E s \in Statement : Submit(s) \/ Answered(s) \/ Published(s)
  BY <1>5, NodeStep
<1>6. QED BY <1>1, <1>2, <1>3, <1>4, <1>5 DEF Next

LEMMA Inductive == Spec => []Inv
<1>1. Inv /\ [Next]_vars => Inv'
  BY InvStep
<1>2. QED BY <1>1, InvInit, PTL DEF Spec

(* Every reachable state is well typed. *)
THEOREM TypeCorrect == Spec => []TypeOK
<1>1. Inv => TypeOK
  BY DEF Inv
<1>2. QED BY <1>1, Inductive, PTL

(* An upstream of the node is open only while somebody listens to it, and no
   two are. *)
THEOREM UpstreamsCorrect == Spec => []UpstreamHasListeners
<1>1. Inv => UpstreamHasListeners
  BY DEF Inv
<1>2. QED BY <1>1, Inductive, PTL

(* No listener is passed over, whoever comes and goes while it is served. *)
THEOREM HearAllCorrect == Spec => []ListenersHearAll
<1>1. Inv => ListenersHearAll
  BY DEF Inv, TypeOK, Answers, HearsAll, Reaching, ListenersHearAll
<1>2. QED BY <1>1, Inductive, PTL

(* A query answers with all that was stored when it was asked, and what is
   submitted with success is stored. *)
THEOREM AnswersCorrect == Spec => []AnswersAreTrue
<1>1. Inv => AnswersAreTrue
  BY DEF Inv, Answers, QuerySound, SubmissionsSound, AnswersAreTrue
<1>2. QED BY <1>1, Inductive, PTL
=============================================================================
