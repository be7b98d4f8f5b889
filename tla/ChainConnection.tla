-------------------------- MODULE ChainConnection --------------------------
(***************************************************************************)
(* The host's connections to the nodes of the chains:                      *)
(* packages/api-protocol/src/host-facade/connectionManager.ts and          *)
(* handleChainConnection in protocolHandler.ts.  A connection is opened for *)
(* the first user of a chain, shared, and closed by the last.  Its users    *)
(* are follow subscriptions, from start to clean-up, and requests about the *)
(* chain itself, from getOrCreateChain to their finally.  Requests about a  *)
(* follow borrow the follow's connection and are no users of it.            *)
(*                                                                         *)
(* Abstractions.  Follow stands for the transport's subscription ids and    *)
(* Request for requests; a follow's node-assigned id is not told apart from *)
(* it, its events are left out: registered says where they go.  A node      *)
(* answers in any order, and nothing once its connection is closed.  The    *)
(* transport starts a follow once and cleans it up as TransportSubscription *)
(* says.                                                                    *)
(***************************************************************************)
EXTENDS Integers, FiniteSets

CONSTANTS
  Chain,
  Unsupported,    \* chains the factory has no provider for
  Follow,         \* subscriptions to remote_chain_head_follow
  Request,        \* requests of the product
  MaxConnections, \* bound: connections opened
  MaxFailures,    \* bound: calls of connection.send that throw
  None

User == Follow \cup Request
Connection == 1 .. MaxConnections

ASSUME UsersAreFinite == IsFiniteSet(Follow) /\ IsFiniteSet(Request)
ASSUME UsersDiffer == Follow \cap Request = {}
ASSUME BoundsAreNat == MaxConnections \in Nat /\ MaxFailures \in Nat
ASSUME UnsupportedAreChains == Unsupported \subseteq Chain
ASSUME NoneIsNothing == None \notin Chain \cup Connection \cup Follow

VARIABLES
  chains,      \* chains[c]: the connection of the entry of c
  lastConn,    \* connections opened so far
  open,        \* connections not disconnected
  refCount,    \* refCount[n]: that of the entry of connection n
  registered,  \* the keys of followSubscriptions, of all entries
  chain, conn, \* what a user was given by getOrCreateChain or resolveFollow
  follow,      \* follow[f]: how far the transport and the clean-up are
  node,        \* node[f]: the follow call, as last heard of or answered
  request,     \* request[r]: how far the handler is
  about,       \* about[r]: the follow a request is about, if any
  failures,    \* used budget of MaxFailures
  unsent,      \* follows whose unfollow could not be sent
  phase        \* "aborted": a dispose that threw half-way

entryVars == <<chains, lastConn, open, refCount, registered>>
userVars == <<chain, conn, follow, node, request, about>>
vars == <<entryVars, userVars, failures, unsent, phase>>

(* A follow is "following" while its clean-up is stored and has not been run,
   "halted" when the clean-up threw before it released the chain, "cleaned"
   when it was run but stayed stored. *)
TypeOK ==
  /\ chains \in [Chain -> Connection \cup {None}]
  /\ lastConn \in 0 .. MaxConnections
  /\ open \subseteq Connection
  /\ refCount \in [Connection -> Int]
  /\ registered \subseteq Follow /\ unsent \subseteq Follow
  /\ chain \in [User -> Chain \cup {None}]
  /\ conn \in [User -> Connection \cup {None}]
  /\ follow \in [Follow -> {"new", "following", "halted", "cleaned", "over"}]
  /\ node \in [Follow -> {"none", "asked", "accepted", "rejected", "active",
                          "unfollowed", "refused"}]
  /\ request \in [Request -> {"new", "waiting", "settled", "answered"}]
  /\ about \in [Request -> Follow \cup {None}]
  /\ failures \in 0 .. MaxFailures
  /\ phase \in {"serving", "aborted", "disposed"}

Init ==
  /\ chains = [c \in Chain |-> None] /\ lastConn = 0 /\ open = {}
  /\ refCount = [n \in Connection |-> 0]
  /\ registered = {} /\ unsent = {}
  /\ chain = [u \in User |-> None] /\ conn = [u \in User |-> None]
  /\ follow = [f \in Follow |-> "new"] /\ node = [f \in Follow |-> "none"]
  /\ request = [r \in Request |-> "new"] /\ about = [r \in Request |-> None]
  /\ failures = 0 /\ phase = "serving"

-----------------------------------------------------------------------------
(* connectionManager.ts. *)

SendThrows == failures < MaxFailures /\ failures' = failures + 1

CanConnect(c) == c \notin Unsupported /\ (chains[c] = None => lastConn < MaxConnections)
(* Faulty variants of definitions are named *Fault; no action uses them, each
   stands for a slip that one of the properties must notice. *)
ConnectionOf(c) == IF chains[c] = None THEN lastConn + 1 ELSE chains[c]

UncountedFault(n) == [refCount EXCEPT ![n] = 1]
CountedOneMore(n) == [refCount EXCEPT ![n] = @ + 1]

GetOrCreateChain(c) ==
  LET n == ConnectionOf(c) IN
  /\ CanConnect(c)
  /\ chains' = [chains EXCEPT ![c] = n]
  /\ lastConn' = IF chains[c] = None THEN n ELSE lastConn
  /\ open' = open \cup {n}
  /\ refCount' = CountedOneMore(n)

(* getOrCreateChain and releaseChain in one go. *)
TouchChain(c) ==
  /\ CanConnect(c)
  /\ lastConn' = IF chains[c] = None THEN lastConn + 1 ELSE lastConn
  /\ UNCHANGED <<chains, open, refCount, registered>>

(* releaseChain: of whatever entry c has now.  The last user disconnects; kept
   is what followSubscriptions holds by then, and unfollowAll clears it. *)
ReleaseChain(c, kept) ==
  LET n == chains[c] IN
  /\ refCount' = IF n = None THEN refCount ELSE [refCount EXCEPT ![n] = @ - 1]
  /\ IF n # None /\ refCount[n] <= 1
     THEN /\ chains' = [chains EXCEPT ![c] = None]
          /\ open' = open \ {n}
          /\ registered' = {f \in kept : conn[f] # n}
     ELSE UNCHANGED <<chains, open>> /\ registered' = kept
  /\ UNCHANGED lastConn

-----------------------------------------------------------------------------
(* Follows. *)

Serving == phase # "disposed"

(* The handler of remote_chain_head_follow.  Without a provider it interrupts;
   when send throws it interrupts too, and its clean-up releases the chain. *)
StartFollow(f, c) ==
  /\ Serving /\ follow[f] = "new"
  /\ \/ /\ GetOrCreateChain(c)
        /\ chain' = [chain EXCEPT ![f] = c]
        /\ conn' = [conn EXCEPT ![f] = ConnectionOf(c)]
        /\ follow' = [follow EXCEPT ![f] = "following"]
        /\ node' = [node EXCEPT ![f] = "asked"]
        /\ UNCHANGED <<registered, failures>>
     \/ /\ TouchChain(c) /\ SendThrows
        /\ follow' = [follow EXCEPT ![f] = "over"]
        /\ UNCHANGED <<chain, conn, node>>
     \/ /\ c \in Unsupported
        /\ follow' = [follow EXCEPT ![f] = "over"]
        /\ UNCHANGED <<entryVars, chain, conn, node, failures>>
  /\ UNCHANGED <<request, about, unsent, phase>>

(* The node takes up a follow call, or turns it down. *)
NodeAnswers(f) ==
  /\ node[f] = "asked" /\ conn[f] \in open
  /\ \E answer \in {"accepted", "rejected"} : node' = [node EXCEPT ![f] = answer]
  /\ UNCHANGED <<entryVars, chain, conn, follow, request, about, failures, unsent, phase>>

(* Stop was called when the clean-up was run, whatever became of it. *)
Stopped(f) == follow[f] # "following"

(* The answer arrives: a stopped follow is unfollowed only now. *)
FollowAccepted(f) ==
  /\ node[f] = "accepted" /\ conn[f] \in open
  /\ \/ /\ ~Stopped(f)
        /\ registered' = registered \cup {f}
        /\ node' = [node EXCEPT ![f] = "active"]
        /\ UNCHANGED <<failures, unsent>>
     \/ /\ Stopped(f)
        /\ node' = [node EXCEPT ![f] = "unfollowed"]
        /\ UNCHANGED <<registered, failures, unsent>>
     \/ /\ Stopped(f) /\ SendThrows
        /\ node' = [node EXCEPT ![f] = "active"]
        /\ unsent' = unsent \cup {f}
        /\ UNCHANGED registered
  /\ UNCHANGED <<chains, lastConn, open, refCount, chain, conn, follow, request, about, phase>>

(* A rejection interrupts the subscription, which runs its clean-up. *)
FollowRejected(f) ==
  /\ node[f] = "rejected" /\ conn[f] \in open
  /\ node' = [node EXCEPT ![f] = "refused"]
  /\ IF Stopped(f)
     THEN UNCHANGED <<entryVars, follow>>
     ELSE /\ follow' = [follow EXCEPT ![f] = "over"]
          /\ ReleaseChain(chain[f], registered)
  /\ UNCHANGED <<chain, conn, request, about, failures, unsent, phase>>

SilentStopFault(f) == node
(* What stopFollow says to the node: nothing before the node has answered,
   nothing the second time. *)
Unfollowed(f) ==
  [node EXCEPT ![f] = IF follow[f] = "following" /\ @ = "active" THEN "unfollowed" ELSE @]

(* The product's stop: the clean-up is stopFollow, then releaseChain.  When the
   unfollow cannot be sent it ends there and stays stored. *)
StopFollow(f) ==
  /\ Serving /\ follow[f] \in {"following", "halted", "cleaned"}
  /\ \/ /\ follow' = [follow EXCEPT ![f] = "over"]
        /\ node' = Unfollowed(f)
        /\ ReleaseChain(chain[f], registered \ {f})
        /\ UNCHANGED <<failures, unsent>>
     \/ /\ follow[f] = "following" /\ node[f] = "active" /\ SendThrows
        /\ follow' = [follow EXCEPT ![f] = "halted"]
        /\ registered' = registered \ {f}
        /\ unsent' = unsent \cup {f}
        /\ UNCHANGED <<chains, lastConn, open, refCount, node>>
  /\ UNCHANGED <<chain, conn, request, about, phase>>

-----------------------------------------------------------------------------
(* Requests. *)

(* resolveFollow: in the entry its chain has now. *)
Resolves(f) == f \in registered /\ chains[chain[f]] = conn[f]

(* About a follow (header, body, storage, call, unpin, continue, stop of an
   operation): refused unless the follow is active. *)
AskAboutFollow(r, f) ==
  /\ Serving /\ request[r] = "new"
  /\ about' = [about EXCEPT ![r] = f]
  /\ \/ /\ Resolves(f)
        /\ request' = [request EXCEPT ![r] = "waiting"]
        /\ chain' = [chain EXCEPT ![r] = chain[f]]
        /\ conn' = [conn EXCEPT ![r] = conn[f]]
        /\ UNCHANGED failures
     \/ /\ ~Resolves(f)
        /\ request' = [request EXCEPT ![r] = "answered"]
        /\ UNCHANGED <<chain, conn, failures>>
     \/ /\ Resolves(f) /\ SendThrows
        /\ request' = [request EXCEPT ![r] = "answered"]
        /\ UNCHANGED <<chain, conn>>
  /\ UNCHANGED <<entryVars, follow, node, unsent, phase>>

(* About the chain (chainSpec, transactions): a send that throws rejects, and
   the finally releases the chain all the same. *)
AskAboutChain(r, c) ==
  /\ Serving /\ request[r] = "new"
  /\ \/ /\ GetOrCreateChain(c)
        /\ chain' = [chain EXCEPT ![r] = c]
        /\ conn' = [conn EXCEPT ![r] = ConnectionOf(c)]
        /\ \/ request' = [request EXCEPT ![r] = "waiting"] /\ UNCHANGED failures
           \/ request' = [request EXCEPT ![r] = "settled"] /\ SendThrows
        /\ UNCHANGED registered
     \/ /\ c \in Unsupported
        /\ request' = [request EXCEPT ![r] = "answered"]
        /\ UNCHANGED <<entryVars, chain, conn, failures>>
  /\ UNCHANGED <<about, follow, node, unsent, phase>>

(* The node's result or error settles the pending request ... *)
Settle(r) ==
  /\ request[r] = "waiting" /\ conn[r] \in open
  /\ request' = [request EXCEPT ![r] = "settled"]
  /\ UNCHANGED <<entryVars, chain, conn, follow, node, about, failures, unsent, phase>>

(* ... and the handler goes on, with its finally, in a later microtask: a
   provider may hand over more than one message in a task. *)
KeptFault(r) == UNCHANGED <<chains, lastConn, open, refCount, registered>>
Finally(r) ==
  IF about[r] = None THEN ReleaseChain(chain[r], registered) ELSE UNCHANGED entryVars

Continue(r) ==
  /\ request[r] = "settled"
  /\ request' = [request EXCEPT ![r] = "answered"]
  /\ Finally(r)
  /\ UNCHANGED <<chain, conn, follow, node, about, failures, unsent, phase>>

-----------------------------------------------------------------------------
(* dispose: unregistering runs the stored clean-ups one after the other, then
   the manager disconnects what is left. *)

Stored == {f \in Follow : follow[f] \in {"following", "halted", "cleaned"}}

UnfollowedAll(S) ==
  [f \in Follow |-> IF f \in S /\ follow[f] = "following" /\ node[f] = "active"
                    THEN "unfollowed" ELSE node[f]]
ReleasedAll(S) ==
  [n \in Connection |-> refCount[n] - Cardinality({f \in S : conn[f] = n})]

ClosedBy(S) == {n \in open : ReleasedAll(S)[n] <= 0 /\ \E f \in S : conn[f] = n}

DisconnectedByDispose == {}

Dispose ==
  /\ phase = "serving"
  /\ phase' = "disposed"
  /\ follow' = [f \in Follow |-> IF f \in Stored THEN "over" ELSE follow[f]]
  /\ node' = UnfollowedAll(Stored)
  /\ refCount' = ReleasedAll(Stored)
  /\ open' = DisconnectedByDispose
  /\ chains' = [c \in Chain |-> None]
  /\ registered' = {}
  /\ UNCHANGED <<lastConn, chain, conn, request, about, failures, unsent>>

(* The unfollow of f cannot be sent: the clean-ups of S have been run, all
   clean-ups stay stored, the handlers stay in force, and dispose does nothing
   a second time. *)
DisposeThrows ==
  /\ phase = "serving" /\ SendThrows
  /\ \E S \in SUBSET Stored : \E f \in Stored \ S :
       /\ follow[f] = "following" /\ node[f] = "active"
       /\ phase' = "aborted"
       /\ follow' = [g \in Follow |-> IF g \in S THEN "cleaned" ELSE
                                     IF g = f THEN "halted" ELSE follow[g]]
       /\ node' = UnfollowedAll(S)
       /\ unsent' = unsent \cup {f}
       /\ refCount' = ReleasedAll(S)
       /\ open' = open \ ClosedBy(S)
       /\ chains' = [c \in Chain |-> IF chains[c] \in ClosedBy(S) THEN None ELSE chains[c]]
       /\ registered' = {g \in registered \ (S \cup {f}) : conn[g] \notin ClosedBy(S)}
  /\ UNCHANGED <<lastConn, chain, conn, request, about>>

-----------------------------------------------------------------------------
Next ==
  \/ \E f \in Follow : \/ \E c \in Chain : StartFollow(f, c)
                       \/ NodeAnswers(f) \/ FollowAccepted(f) \/ FollowRejected(f)
                       \/ StopFollow(f)
  \/ \E r \in Request : \/ \E f \in Follow : AskAboutFollow(r, f)
                        \/ \E c \in Chain : AskAboutChain(r, c)
                        \/ Settle(r) \/ Continue(r)
  \/ Dispose \/ DisposeThrows

Spec == Init /\ [][Next]_vars

(* Nodes answer while they are connected, and promises that are settled are
   continued. *)
FairSpec ==
  /\ Spec
  /\ \A f \in Follow : /\ WF_vars(NodeAnswers(f)) /\ WF_vars(FollowAccepted(f))
                       /\ WF_vars(FollowRejected(f))
  /\ \A r \in Request : WF_vars(Settle(r)) /\ WF_vars(Continue(r))

-----------------------------------------------------------------------------
(* Properties. *)

Borrowed(r) == about[r] # None

Holding(u) ==
  \/ u \in Follow /\ follow[u] \in {"following", "halted"}
  \/ u \in Request /\ request[u] \in {"waiting", "settled"} /\ ~Borrowed(u)
Holders(n) == {u \in User : Holding(u) /\ conn[u] = n}

(* Until it releases it, a user has the connection its chain has: it is neither
   closed under it nor replaced, whoever starts, stops, fails or is rejected
   meanwhile.  What dispose closes nobody is served by any more. *)
ConnectionHeld ==
  /\ phase = "serving" =>
       \A u \in User : Holding(u) => /\ chain[u] \in Chain /\ conn[u] \in Connection
                                     /\ chains[chain[u]] = conn[u]
  /\ phase = "disposed" => open = {}

(* The count of an entry is the number of its users: it is disconnected by the
   last one, not earlier and not later. *)
RefCounted ==
  phase = "serving" =>
    \A n \in open : refCount[n] = Cardinality(Holders(n)) /\ refCount[n] > 0

(* Events go to a follow that is live, on the connection it was made on, and
   its requests resolve in the entry it was registered in. *)
RegisteredIsLive ==
  \A f \in registered :
    /\ follow[f] = "following" /\ node[f] = "active"
    /\ conn[f] \in open /\ chains[chain[f]] = conn[f]

(* No follow is left running on a connected node that nobody here knows of,
   whether the stop came before or after the node's answer, unless the
   unfollow could not be sent. *)
NoForgottenFollow ==
  \A f \in Follow :
    node[f] = "active" /\ conn[f] \in open => f \in registered \cup unsent

(* A request about a follow holds no reference: it is left unanswered by a
   connection that is closed, but only after its follow has been stopped. *)
AbandonedWithFollow ==
  phase = "serving" =>
    \A r \in Request :
      request[r] = "waiting" /\ Borrowed(r) /\ conn[r] \notin open =>
        follow[about[r]] # "following"

(* Nothing is connected that no entry knows, and an entry is only ever known by
   users of its own chain, also of those that have released it.  With what
   surrounds them these are the inductive strengthening of the properties. *)
EntriesSound ==
  /\ \A c, d \in Chain : chains[c] # None /\ chains[c] = chains[d] => c = d
  /\ \A c \in Chain : chains[c] # None => chains[c] \in open
  /\ \A n \in open : n <= lastConn /\ \E c \in Chain : chains[c] = n
  /\ \A n \in Connection : n > lastConn => refCount[n] = 0

Given(u) ==
  \/ u \in Follow /\ follow[u] \in {"following", "halted", "cleaned"}
  \/ u \in Request /\ request[u] \in {"waiting", "settled"}

Linked ==
  \A u \in User :
    /\ Given(u) => conn[u] # None
    /\ conn[u] # None => /\ chain[u] \in Chain /\ conn[u] <= lastConn
                         /\ conn[u] \in open => chains[chain[u]] = conn[u]

Borrowing ==
  \A r \in Request :
    /\ request[r] = "new" => ~Borrowed(r)
    /\ request[r] \in {"waiting", "settled"} /\ Borrowed(r) =>
         conn[r] = conn[about[r]] /\ follow[about[r]] # "new"

CleanedByAbort ==
  phase # "aborted" => \A f \in Follow : follow[f] # "cleaned"

ConnectionInv ==
  /\ EntriesSound /\ Linked /\ Borrowing /\ CleanedByAbort
  /\ ConnectionHeld /\ RefCounted /\ RegisteredIsLive /\ NoForgottenFollow

(* A request that holds a reference is answered: nobody else can take its
   connection away, except dispose. *)
ChainRequestAnswered ==
  \A r \in Request :
    (request[r] = "waiting" /\ ~Borrowed(r)) ~> (request[r] = "answered" \/ phase # "serving")

=============================================================================
