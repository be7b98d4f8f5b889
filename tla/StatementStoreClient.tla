------------------------ MODULE StatementStoreClient -------------------------
(***************************************************************************)
(* The statement store client (client.ts): subscriptions that share an     *)
(* upstream of the node, queries that read one upstream to the end of its  *)
(* dump, and submissions.  Topics are independent of each other; the       *)
(* module has one set of topics.  Every subscription brings a callback of  *)
(* its own, as those of session.ts and pairingExecutor.ts do, and may come *)
(* back once it has left.                                                  *)
(*                                                                         *)
(* The node is external: a new upstream is first sent what is stored, in   *)
(* events that say whether more remains, then what is stored later.  Its   *)
(* events come in tasks of their own, never within the subscribe call.     *)
(***************************************************************************)
EXTENDS Naturals, FiniteSets

CONSTANTS
  Statement,
  Malformed,     \* statements that cannot be decoded
  Subscription,
  Query,
  MaxUpstreams,  \* bound: upstreams the subscriptions open
  MaxErrors      \* bound: upstreams that fail

ASSUME MalformedAreStatements == Malformed \subseteq Statement
ASSUME BoundsAreNat == MaxUpstreams \in Nat /\ MaxErrors \in Nat
ASSUME UpstreamsAreApart == Query \cap (0 .. MaxUpstreams) = {}

VARIABLES
  stored,     \* the node's statements
  submission, \* submission[s]: the caller's result
  upstream,   \* upstream[u]: its state, what it is still to be sent, its dump
  opened,
  mux,        \* the entry of multiplexes
  loop,       \* the listeners that the event being delivered is still to reach
  due,        \* due[x]: well-formed statements sent while x was listening
  heard,      \* heard[x]: statements its callback was handed
  query,      \* query[q]: what it has collected, what was stored when it was asked
  errors

nodeVars == <<stored, submission>>
muxVars == <<mux, opened>>
listenerVars == <<loop, due, heard>>
vars == <<nodeVars, upstream, muxVars, listenerVars, query, errors>>

Upstream == 1 .. MaxUpstreams \cup Query
Status == {"new", "known", "knownExpired", "rejected", "invalid", "internalError"}
NoMux == [upstream |-> 0, listeners |-> {}]
NoEvent == [statements |-> {}, left |-> {}]
Unopened == [state |-> "none", unsent |-> {}, dump |-> {}]

TypeOK ==
  /\ stored \subseteq Statement
  /\ submission \in [Statement -> {"none", "sent", "ok", "Transport", "KnownExpired", "rejected",
                                   "invalid", "InternalStore"}]
  /\ upstream \in [Upstream -> [state : {"none", "open", "failed", "closed"},
                                unsent : SUBSET Statement, dump : SUBSET Statement]]
  /\ opened \in 0 .. MaxUpstreams /\ errors \in 0 .. MaxErrors
  /\ mux \in [upstream : 0 .. MaxUpstreams, listeners : SUBSET Subscription]
  /\ loop \in [statements : SUBSET Statement, left : SUBSET Subscription]
  /\ due \in [Subscription -> SUBSET Statement] /\ heard \in [Subscription -> SUBSET Statement]
  /\ query \in [Query -> [state : {"none", "asked", "answered", "failed"},
                          got : SUBSET Statement, atStart : SUBSET Statement]]

Init ==
  /\ stored = {} /\ submission = [s \in Statement |-> "none"]
  /\ upstream = [u \in Upstream |-> Unopened] /\ opened = 0 /\ mux = NoMux
  /\ loop = NoEvent
  /\ due = [x \in Subscription |-> {}] /\ heard = [x \in Subscription |-> {}]
  /\ query = [q \in Query |-> [state |-> "none", got |-> {}, atStart |-> {}]]
  /\ errors = 0

Idle == loop.left = {}

-----------------------------------------------------------------------------
(* decodeStatements: what is malformed is passed over. *)

AllOrNothingFault(page) == IF page \cap Malformed = {} THEN page ELSE {}
Decoded(page) == page \ Malformed

(* mapSubmitResponse. *)
SubmitResult(status) ==
  IF status \in {"new", "known"} THEN "ok" ELSE
  IF status = "knownExpired" THEN "KnownExpired" ELSE
  IF status = "internalError" THEN "InternalStore" ELSE status

Opens(u) == [upstream EXCEPT ![u] = [state |-> "open", unsent |-> stored, dump |-> stored]]
Closes(u) == [upstream EXCEPT ![u].state = "closed", ![u].unsent = {}]

-----------------------------------------------------------------------------
(* subscribe and its result, also from within a callback. *)

Subscribe(x) ==
  /\ x \notin mux.listeners
  /\ IF mux = NoMux
     THEN /\ opened < MaxUpstreams /\ opened' = opened + 1
          /\ upstream' = Opens(opened + 1)
          /\ mux' = [upstream |-> opened + 1, listeners |-> {x}]
     ELSE /\ mux' = [mux EXCEPT !.listeners = @ \cup {x}]
          /\ UNCHANGED <<opened, upstream>>
  /\ UNCHANGED <<nodeVars, listenerVars, query, errors>>

NotTornDownFault(x) ==
  /\ mux' = IF mux.listeners = {x} THEN NoMux ELSE [mux EXCEPT !.listeners = @ \ {x}]
  /\ UNCHANGED upstream

Leave(x) ==
  IF mux.listeners = {x}
  THEN /\ mux' = NoMux
       /\ upstream' = Closes(mux.upstream)
  ELSE /\ mux' = [mux EXCEPT !.listeners = @ \ {x}]
       /\ UNCHANGED upstream

Unsubscribe(x) ==
  /\ x \in mux.listeners
  /\ Leave(x)
  /\ UNCHANGED <<nodeVars, opened, listenerVars, query, errors>>

(* An event of the shared upstream; the listeners of then are called one by
   one, those that one of them has unsubscribed meanwhile too. *)
Event(u) ==
  /\ Idle /\ u \in 1 .. MaxUpstreams /\ upstream[u].state = "open"
  /\ \E page \in SUBSET upstream[u].unsent \ {{}} :
       /\ upstream' = [upstream EXCEPT ![u].unsent = @ \ page]
       /\ loop' = IF Decoded(page) = {} THEN NoEvent
                  ELSE [statements |-> Decoded(page), left |-> mux.listeners]
       /\ due' = [x \in Subscription |->
                    IF x \in mux.listeners THEN due[x] \cup (page \ Malformed) ELSE due[x]]
  /\ UNCHANGED <<nodeVars, muxVars, heard, query, errors>>

CallNext(x) ==
  /\ x \in loop.left
  /\ heard' = [heard EXCEPT ![x] = @ \cup loop.statements]
  /\ loop' = IF loop.left = {x} THEN NoEvent ELSE [loop EXCEPT !.left = @ \ {x}]
  /\ UNCHANGED <<nodeVars, upstream, muxVars, due, query, errors>>

(* error: logged.  The entry stays, and so do those who join it. *)
Fails(u) ==
  /\ Idle /\ errors < MaxErrors /\ upstream[u].state = "open"
  /\ errors' = errors + 1
  /\ upstream' = [upstream EXCEPT ![u].state = "failed", ![u].unsent = {}]
  /\ query' = IF u \in Query THEN [query EXCEPT ![u].state = "failed"] ELSE query
  /\ UNCHANGED <<nodeVars, muxVars, listenerVars>>

-----------------------------------------------------------------------------
(* query. *)

Ask(q) ==
  /\ query[q].state = "none"
  /\ query' = [query EXCEPT ![q] = [state |-> "asked", got |-> {}, atStart |-> stored]]
  /\ upstream' = Opens(q)
  /\ UNCHANGED <<nodeVars, muxVars, listenerVars, errors>>

FirstPageFault(q, page) == TRUE
IsLast(q, page) == upstream[q].dump \subseteq page

(* Events of the dump come first, and tell how much of it remains. *)
QueryEvent(q) ==
  /\ Idle /\ query[q].state = "asked"
  /\ \E page \in SUBSET upstream[q].dump :
       /\ page # {} \/ upstream[q].dump = {}
       /\ IF IsLast(q, page)
          THEN /\ query' = [query EXCEPT ![q].state = "answered", ![q].got = @ \cup Decoded(page)]
               /\ upstream' = Closes(q)
          ELSE /\ query' = [query EXCEPT ![q].got = @ \cup Decoded(page)]
               /\ upstream' = [upstream EXCEPT ![q].unsent = @ \ page, ![q].dump = @ \ page]
  /\ UNCHANGED <<nodeVars, muxVars, listenerVars, errors>>

-----------------------------------------------------------------------------
(* submit. *)

Submit(s) ==
  /\ submission[s] = "none" /\ s \notin Malformed
  /\ submission' = [submission EXCEPT ![s] = "sent"]
  /\ UNCHANGED <<stored, upstream, muxVars, listenerVars, query, errors>>

(* The node stores the statement and tells its upstreams, or refuses it; or the
   connection fails, with the statement stored or not. *)
Stores(s) ==
  /\ stored' = stored \cup {s}
  /\ upstream' = [u \in Upstream |-> IF upstream[u].state = "open" /\ s \notin stored
                                     THEN [upstream[u] EXCEPT !.unsent = @ \cup {s}]
                                     ELSE upstream[u]]

Answered(s) ==
  /\ Idle /\ submission[s] = "sent"
  /\ \/ /\ Stores(s)
        /\ \E r \in {SubmitResult(IF s \in stored THEN "known" ELSE "new"), "Transport"} :
             submission' = [submission EXCEPT ![s] = r]
     \/ /\ \E r \in {SubmitResult(status) : status \in Status \ {"new", "known"}} \cup {"Transport"} :
             submission' = [submission EXCEPT ![s] = r]
        /\ UNCHANGED <<stored, upstream>>
  /\ UNCHANGED <<muxVars, listenerVars, query, errors>>

(* Statements of others. *)
Published(s) ==
  /\ Idle /\ s \notin stored /\ Stores(s)
  /\ UNCHANGED <<submission, muxVars, listenerVars, query, errors>>

Next ==
  \/ \E x \in Subscription : Subscribe(x) \/ Unsubscribe(x) \/ CallNext(x)
  \/ \E u \in Upstream : Event(u) \/ Fails(u)
  \/ \E q \in Query : Ask(q) \/ QueryEvent(q)
  \/ \E s \in Statement : Submit(s) \/ Answered(s) \/ Published(s)

Spec == Init /\ [][Next]_vars

-----------------------------------------------------------------------------
(* Properties. *)

(* An upstream of the node is open only for listeners, and at most one: whoever
   comes and goes while its events are delivered, the last one to leave closes
   it, and the next one to come opens another. *)
UpstreamHasListeners ==
  /\ mux.upstream = 0 <=> mux.listeners = {}
  /\ \A u \in 1 .. MaxUpstreams : upstream[u].state = "open" => mux.upstream = u

(* Whoever listens has been handed every well-formed statement that its
   upstream was sent since it joined, whoever came and went meanwhile and
   whatever came in the same event. *)
ListenersHearAll ==
  \A x \in mux.listeners : x \notin loop.left => due[x] \subseteq heard[x]

(* A query answers with every well-formed statement that was stored when it was
   asked, and a submission that succeeds has been stored. *)
AnswersAreTrue ==
  /\ \A q \in Query : query[q].state = "answered" => query[q].atStart \ Malformed \subseteq query[q].got
  /\ \A s \in Statement : submission[s] = "ok" => s \in stored
=============================================================================
