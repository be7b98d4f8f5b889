----------------------- MODULE ChainConnection_proofs -----------------------
(***************************************************************************)
(* Theorems about ChainConnection for all sets of chains, finite sets of   *)
(* follows and requests, and all bounds.  The inductive invariant is       *)
(* TypeOK with ConnectionInv; its steps rest on two lemmas, on acquiring   *)
(* and on releasing a chain.                                               *)
(***************************************************************************)
EXTENDS ChainConnection, FiniteSetTheorems, TLAPS

IInv == TypeOK /\ ConnectionInv

LEMMA HoldersFinite == \A n : IsFiniteSet(Holders(n))
<1>1. IsFiniteSet(User)
  BY UsersAreFinite, FS_Union DEF User
<1>2. QED BY <1>1, FS_Subset DEF Holders

LEMMA HoldersFiniteNext == \A n : IsFiniteSet(Holders(n)')
<1>1. IsFiniteSet(User)
  BY UsersAreFinite, FS_Union DEF User
<1>2. \A n : Holders(n)' \in SUBSET User
  BY DEF Holders
<1>3. QED BY <1>1, <1>2, FS_Subset

LEMMA InitInv == Init => IInv
<1> SUFFICES ASSUME Init PROVE IInv
  OBVIOUS
<1>1. TypeOK
  BY BoundsAreNat DEF Init, TypeOK
<1>2. EntriesSound /\ Linked /\ Borrowing /\ CleanedByAbort
  BY DEF Init, EntriesSound, Linked, Given, Borrowing, Borrowed, CleanedByAbort
<1>3. ConnectionHeld /\ RefCounted /\ RegisteredIsLive /\ NoForgottenFollow
  BY UsersDiffer
  DEF Init, ConnectionHeld, RefCounted, RegisteredIsLive, NoForgottenFollow, Holding
<1>4. QED BY <1>1, <1>2, <1>3 DEF IInv, ConnectionInv

-----------------------------------------------------------------------------
(* Acquiring: what getOrCreateChain does to the entries. *)

LEMMA Acquired ==
  ASSUME IInv, NEW c \in Chain, GetOrCreateChain(c)
  PROVE  LET n == ConnectionOf(c) IN
         /\ n \in Connection /\ n <= lastConn' /\ lastConn <= lastConn'
         /\ chains' \in [Chain -> Connection \cup {None}] /\ lastConn' \in 0 .. MaxConnections
         /\ refCount' \in [Connection -> Int] /\ open' \subseteq Connection
         /\ \A d \in Chain : chains'[d] = IF d = c THEN n ELSE chains[d]
         /\ open' = open \cup {n}
         /\ \A m \in Connection : refCount'[m] = IF m = n THEN refCount[n] + 1 ELSE refCount[m]
         /\ \/ chains[c] = n /\ n \in open
            \/ chains[c] = None /\ n = lastConn + 1 /\ n \notin open /\ refCount[n] = 0
         /\ EntriesSound'
<1> DEFINE n == ConnectionOf(c)
<1>1. n \in Connection /\ lastConn \in Nat /\ MaxConnections \in Nat /\ lastConn <= MaxConnections
  BY BoundsAreNat
  DEF GetOrCreateChain, CanConnect, ConnectionOf, IInv, TypeOK, Connection
<1>2. n <= lastConn' /\ lastConn <= lastConn' /\ lastConn' \in 0 .. MaxConnections
  BY <1>1 DEF GetOrCreateChain, ConnectionOf, IInv, TypeOK, ConnectionInv, EntriesSound, Connection
<1>3. /\ chains' \in [Chain -> Connection \cup {None}] /\ open' \subseteq Connection
      /\ refCount' \in [Connection -> Int]
  BY <1>1 DEF GetOrCreateChain, CountedOneMore, IInv, TypeOK
<1>4. /\ \A d \in Chain : chains'[d] = IF d = c THEN n ELSE chains[d]
      /\ open' = open \cup {n}
      /\ \A m \in Connection : refCount'[m] = IF m = n THEN refCount[n] + 1 ELSE refCount[m]
  BY <1>1 DEF GetOrCreateChain, CountedOneMore, IInv, TypeOK
<1>5. \/ chains[c] = n /\ n \in open
      \/ chains[c] = None /\ n = lastConn + 1 /\ n \notin open /\ refCount[n] = 0
  BY <1>1 DEF ConnectionOf, IInv, ConnectionInv, EntriesSound
<1>6. \A d \in Chain : chains[d] = n => d = c
  <2>1. n # None
    BY <1>1, NoneIsNothing
  <2>2. \A d \in Chain : chains[d] = n => n \in open
    BY <2>1 DEF IInv, ConnectionInv, EntriesSound
  <2>3. \A d \in Chain : chains[d] = n /\ chains[c] = n => d = c
    BY <2>1 DEF IInv, ConnectionInv, EntriesSound
  <2>4. QED BY <1>5, <2>2, <2>3
<1>7. EntriesSound'
  <2>1. n \in Int /\ lastConn \in Int /\ lastConn' \in Int /\ Connection \subseteq Int
    BY <1>1, <1>2 DEF Connection
  <2>2. n # None
    BY <1>1, NoneIsNothing
  <2>3. (\A a, b \in Chain : chains[a] # None /\ chains[a] = chains[b] => a = b)'
    BY <1>4, <1>6, <2>2 DEF IInv, ConnectionInv, EntriesSound
  <2>4. (\A a \in Chain : chains[a] # None => chains[a] \in open)'
    BY <1>4 DEF IInv, ConnectionInv, EntriesSound
  <2>5. (\A m \in open : m <= lastConn /\ \E a \in Chain : chains[a] = m)'
    <3> SUFFICES ASSUME NEW m \in open' PROVE m <= lastConn' /\ \E a \in Chain : chains'[a] = m
      OBVIOUS
    <3>1. CASE m = n
      BY <1>2, <1>4, <3>1
    <3>2. CASE m # n
      <4>1. m \in open /\ m <= lastConn /\ m \in Int
        BY <1>4, <2>1, <3>2 DEF IInv, TypeOK, ConnectionInv, EntriesSound
      <4>2. PICK a \in Chain : chains[a] = m
        BY <4>1 DEF IInv, ConnectionInv, EntriesSound
      <4>3. a # c
        BY <1>5, <4>1, <4>2, <3>2, NoneIsNothing DEF IInv, TypeOK
      <4>4. QED BY <1>2, <1>4, <2>1, <4>1, <4>2, <4>3
    <3>3. QED BY <3>1, <3>2
  <2>6. (\A m \in Connection : m > lastConn => refCount[m] = 0)'
    <3> SUFFICES ASSUME NEW m \in Connection, m > lastConn' PROVE refCount'[m] = 0
      OBVIOUS
    <3>1. m # n /\ m > lastConn
      BY <1>2, <2>1
    <3>2. refCount[m] = 0
      BY <3>1 DEF IInv, ConnectionInv, EntriesSound
    <3>3. QED BY <1>4, <3>1, <3>2
  <2>7. QED BY <2>3, <2>4, <2>5, <2>6 DEF EntriesSound
<1>8. QED BY <1>1, <1>2, <1>3, <1>4, <1>5, <1>7

(* A new user of a chain, and what it leaves true of all users. *)
LEMMA AcquireStep ==
  ASSUME IInv, NEW c \in Chain, GetOrCreateChain(c), NEW u \in User,
         ~Holding(u), UNCHANGED phase, phase # "disposed",
         chain' = [chain EXCEPT ![u] = c], conn' = [conn EXCEPT ![u] = ConnectionOf(c)],
         \A v \in User : Holding(v)' <=> Holding(v) \/ v = u
  PROVE  /\ EntriesSound' /\ ConnectionHeld' /\ RefCounted'
         /\ \A v \in User : conn'[v] # None =>
              /\ chain'[v] \in Chain /\ conn'[v] <= lastConn'
              /\ conn'[v] \in open' => chains'[chain'[v]] = conn'[v]
<1> DEFINE n == ConnectionOf(c)
<1>1. /\ n \in Connection /\ n <= lastConn' /\ lastConn <= lastConn'
      /\ \A d \in Chain : chains'[d] = IF d = c THEN n ELSE chains[d]
      /\ open' = open \cup {n}
      /\ \A m \in Connection : refCount'[m] = IF m = n THEN refCount[n] + 1 ELSE refCount[m]
      /\ \/ chains[c] = n /\ n \in open
         \/ chains[c] = None /\ n = lastConn + 1 /\ n \notin open /\ refCount[n] = 0
      /\ EntriesSound' /\ lastConn' \in 0 .. MaxConnections
  BY Acquired
<1> HIDE DEF n
<1>2. /\ \A v \in User : conn'[v] = IF v = u THEN n ELSE conn[v]
      /\ \A v \in User : chain'[v] = IF v = u THEN c ELSE chain[v]
  BY DEF IInv, TypeOK, n
<1>3. Connection \subseteq Int /\ lastConn \in Int /\ lastConn' \in Int /\ None \notin Connection
      /\ \A v \in User : conn[v] \in Connection \cup {None}
  BY <1>1, NoneIsNothing DEF Connection, IInv, TypeOK
<1>4. \A v \in User : conn[v] # None => conn[v] <= lastConn /\ chain[v] \in Chain
                       /\ (conn[v] \in open => chains[chain[v]] = conn[v])
  BY DEF IInv, ConnectionInv, Linked
<1>5. \A v \in User : conn[v] = n => conn[v] \in open
  BY <1>1, <1>3, <1>4
<1>6. ASSUME NEW v \in User, conn'[v] # None
      PROVE  /\ chain'[v] \in Chain /\ conn'[v] <= lastConn'
             /\ conn'[v] \in open' => chains'[chain'[v]] = conn'[v]
  <2>1. CASE v = u
    BY <1>1, <1>2, <2>1
  <2>2. CASE v # u
    <3>1. conn'[v] = conn[v] /\ chain'[v] = chain[v]
      BY <1>2, <2>2
    <3>2. conn[v] <= lastConn' /\ chain[v] \in Chain
      <4>1. conn[v] # None /\ conn[v] <= lastConn /\ chain[v] \in Chain
        BY <1>4, <1>6, <3>1
      <4>2. conn[v] \in Int /\ lastConn \in Int /\ lastConn' \in Int
        BY <1>3, <4>1
      <4>3. lastConn <= lastConn'
        BY <1>1
      <4>4. QED BY <4>1, <4>2, <4>3
    <3>3. conn[v] \in open' => conn[v] \in open
      BY <1>1, <1>5
    <3>4. conn[v] \in open => chains'[chain[v]] = conn[v]
      BY <1>1, <1>3, <1>4, <1>6, <3>1
    <3>5. QED BY <3>1, <3>2, <3>3, <3>4
  <2>3. QED BY <2>1, <2>2
<1>7. ConnectionHeld'
  <2>1. ASSUME phase = "serving", NEW v \in User, Holding(v)'
        PROVE  chain'[v] \in Chain /\ conn'[v] \in Connection /\ chains'[chain'[v]] = conn'[v]
    <3>1. CASE v = u
      BY <1>1, <1>2, <3>1
    <3>2. CASE v # u
      <4>1. Holding(v) /\ conn'[v] = conn[v] /\ chain'[v] = chain[v]
        BY <1>2, <2>1, <3>2
      <4>2. chain[v] \in Chain /\ conn[v] \in Connection /\ chains[chain[v]] = conn[v]
        BY <2>1, <4>1 DEF IInv, ConnectionInv, ConnectionHeld
      <4>3. QED BY <1>1, <1>3, <4>1, <4>2
    <3>3. QED BY <3>1, <3>2
  <2>2. QED BY <2>1 DEF ConnectionHeld
<1>8. RefCounted'
  <2> SUFFICES ASSUME phase = "serving", NEW m \in open'
               PROVE  refCount'[m] = Cardinality(Holders(m)') /\ refCount'[m] > 0
    BY DEF RefCounted
  <2>1. m \in Connection
    BY <1>1 DEF IInv, TypeOK
  <2>2. \A v \in User : Holding(v) => conn[v] \in open
    BY <1>3 DEF IInv, ConnectionInv, ConnectionHeld, EntriesSound
  <2>3. m \in open => refCount[m] = Cardinality(Holders(m)) /\ refCount[m] > 0
    BY DEF IInv, ConnectionInv, RefCounted
  <2>4. CASE m = n
    <3>1. Holders(m)' = Holders(m) \cup {u}
      BY <1>2, <2>4 DEF Holders
    <3>2. u \notin Holders(m)
      BY DEF Holders
    <3>3. IsFiniteSet(Holders(m))
      BY HoldersFinite
    <3>4. Cardinality(Holders(m)') = Cardinality(Holders(m)) + 1
      BY <3>1, <3>2, <3>3, FS_AddElement
    <3>5. refCount[m] = Cardinality(Holders(m)) /\ refCount[m] >= 0
      <4>1. CASE m \in open
        BY <2>3, <3>3, <4>1, FS_CardinalityType
      <4>2. CASE m \notin open
        <5>1. Holders(m) = {}
          BY <2>2, <4>2 DEF Holders
        <5>2. QED BY <1>1, <2>4, <4>2, <5>1, FS_EmptySet
      <4>3. QED BY <4>1, <4>2
    <3>6. Cardinality(Holders(m)) \in Nat
      BY <3>3, FS_CardinalityType
    <3>7. QED BY <1>1, <2>1, <2>4, <3>4, <3>5, <3>6
  <2>5. CASE m # n
    <3>1. Holders(m)' = Holders(m)
      BY <1>2, <2>5 DEF Holders
    <3>2. QED BY <1>1, <2>1, <2>3, <2>5, <3>1
  <2>6. QED BY <2>4, <2>5
<1>9. QED BY <1>1, <1>6, <1>7, <1>8

-----------------------------------------------------------------------------
(* Releasing: by a user that holds the chain, or, after an aborted dispose, by
   one that has released it before. *)

LEMMA ReleaseStep ==
  ASSUME IInv, NEW u \in User, NEW kept \in SUBSET registered,
         Given(u), ReleaseChain(chain[u], kept), Holding(u) \/ phase = "aborted",
         UNCHANGED <<phase, chain, conn>>, ~Holding(u)',
         \A v \in User : v # u => (Holding(v)' <=> Holding(v))
  PROVE  /\ EntriesSound' /\ ConnectionHeld' /\ RefCounted'
         /\ chains' \in [Chain -> Connection \cup {None}] /\ lastConn' \in 0 .. MaxConnections
         /\ refCount' \in [Connection -> Int] /\ open' \subseteq Connection
         /\ registered' = {f \in kept : conn[f] \in open'}
         /\ \A f \in registered' : chains'[chain[f]] = conn[f]
         /\ open' \subseteq open /\ UNCHANGED lastConn
         /\ \A v \in User : conn[v] \in open' => chains'[chain[v]] = conn[v]
<1> DEFINE c == chain[u]
           n == chains[chain[u]]
<1>1. c \in Chain /\ conn[u] \in Connection /\ n \in Connection \cup {None}
  BY DEF IInv, TypeOK, ConnectionInv, Linked
<1>2. /\ \A v \in User : conn[v] \in open => conn[v] \in Connection /\ chain[v] \in Chain
                                             /\ chains[chain[v]] = conn[v]
      /\ None \notin Connection /\ open \subseteq Connection
  BY NoneIsNothing DEF IInv, TypeOK, ConnectionInv, Linked
<1>3. \A f \in registered : f \in User /\ conn[f] \in open
  BY DEF IInv, TypeOK, ConnectionInv, RegisteredIsLive, User
<1>4. /\ \A a, b \in Chain : chains[a] # None /\ chains[a] = chains[b] => a = b
      /\ \A a \in Chain : chains[a] # None => chains[a] \in open
      /\ \A m \in open : m <= lastConn /\ \E a \in Chain : chains[a] = m
      /\ \A m \in Connection : m > lastConn => refCount[m] = 0
  BY DEF IInv, ConnectionInv, EntriesSound
<1>5. \A v \in User : Holding(v) /\ phase = "serving" =>
        chains[chain[v]] = conn[v] /\ conn[v] \in open
  BY <1>2, <1>4 DEF IInv, ConnectionInv, ConnectionHeld
<1>6. phase = "serving" => n = conn[u] /\ n \in open /\ Holding(u)
  BY <1>5
<1>7. phase = "disposed" => open = {} /\ n = None
  BY <1>1, <1>4 DEF IInv, ConnectionInv, ConnectionHeld
<1>8. lastConn \in Int /\ Connection \subseteq Int
  BY DEF IInv, TypeOK, Connection
<1>9. CASE n = None \/ ~(refCount[n] <= 1)
  <2>1. UNCHANGED <<chains, open, lastConn>> /\ registered' = kept
    BY <1>9 DEF ReleaseChain
  <2>2. /\ refCount' \in [Connection -> Int]
        /\ n = None => refCount' = refCount
        /\ n # None => \A m \in Connection :
                        refCount'[m] = IF m = n THEN refCount[m] - 1 ELSE refCount[m]
    BY <1>1 DEF ReleaseChain, IInv, TypeOK
  <2>3. EntriesSound'
    <3>1. ASSUME n # None PROVE ~(n > lastConn)
      <4>1. n \in open /\ n \in Int
        BY <1>1, <1>4, <1>8, <3>1
      <4>2. n <= lastConn
        BY <1>4, <4>1
      <4>3. QED BY <1>8, <4>1, <4>2
    <3>2. \A m \in Connection : m > lastConn => refCount'[m] = 0
      BY <1>1, <1>4, <2>2, <3>1
    <3>3. QED BY <1>4, <2>1, <3>2 DEF EntriesSound
  <2>4. ConnectionHeld'
    BY <2>1 DEF ConnectionHeld, IInv, ConnectionInv
  <2>5. RefCounted'
    <3> SUFFICES ASSUME phase = "serving", NEW m \in open
                 PROVE  refCount'[m] = Cardinality(Holders(m)') /\ refCount'[m] > 0
      BY <2>1 DEF RefCounted
    <3>1. refCount[m] = Cardinality(Holders(m)) /\ refCount[m] > 0 /\ m \in Connection
          /\ refCount[m] \in Int
      BY <1>2 DEF IInv, TypeOK, ConnectionInv, RefCounted
    <3>2. CASE m = n
      <4>1. Holders(m)' = Holders(m) \ {u} /\ u \in Holders(m)
        BY <1>6, <3>2 DEF Holders
      <4>2. Cardinality(Holders(m)') = Cardinality(Holders(m)) - 1
        BY <4>1, HoldersFinite, FS_RemoveElement
      <4>3. QED BY <1>2, <1>9, <2>2, <3>1, <3>2, <4>2
    <3>3. CASE m # n
      <4>1. Holders(m)' = Holders(m)
        BY <1>6, <3>3 DEF Holders
      <4>2. QED BY <1>6, <2>2, <3>1, <3>3, <4>1
    <3>4. QED BY <3>2, <3>3
  <2>6. registered' = {f \in kept : conn[f] \in open'}
    BY <1>3, <2>1
  <2>7. \A v \in User : conn[v] \in open' => chains'[chain[v]] = conn[v]
    BY <1>2, <2>1
  <2>8. \A f \in registered' : chains'[chain[f]] = conn[f]
    BY <1>3, <2>6, <2>7
  <2>9. QED BY <2>1, <2>2, <2>3, <2>4, <2>5, <2>6, <2>7, <2>8 DEF IInv, TypeOK
<1>10. CASE n # None /\ refCount[n] <= 1
  <2>1. /\ chains' = [chains EXCEPT ![c] = None] /\ open' = open \ {n}
        /\ registered' = {f \in kept : conn[f] # n} /\ UNCHANGED lastConn
        /\ refCount' = [refCount EXCEPT ![n] = @ - 1]
    BY <1>10 DEF ReleaseChain
  <2>2. /\ refCount' \in [Connection -> Int]
        /\ \A m \in Connection : refCount'[m] = IF m = n THEN refCount[m] - 1 ELSE refCount[m]
        /\ chains' \in [Chain -> Connection \cup {None}]
        /\ \A d \in Chain : chains'[d] = IF d = c THEN None ELSE chains[d]
        /\ n \in open
    BY <1>1, <1>4, <1>10, <2>1 DEF IInv, TypeOK
  <2>3. EntriesSound'
    <3>1. (\A a, b \in Chain : chains[a] # None /\ chains[a] = chains[b] => a = b)'
      BY <1>4, <2>2
    <3>2. (\A a \in Chain : chains[a] # None => chains[a] \in open)'
      BY <1>1, <1>4, <1>10, <2>1, <2>2
    <3>3. (\A m \in open : m <= lastConn /\ \E a \in Chain : chains[a] = m)'
      BY <1>4, <2>1, <2>2
    <3>4. (\A m \in Connection : m > lastConn => refCount[m] = 0)'
      BY <1>1, <1>4, <1>8, <2>1, <2>2
    <3>5. QED BY <3>1, <3>2, <3>3, <3>4 DEF EntriesSound
  <2>4. \A v \in User : conn[v] \in open' => chains'[chain[v]] = conn[v]
    <3> SUFFICES ASSUME NEW v \in User, conn[v] \in open' PROVE chains'[chain[v]] = conn[v]
      OBVIOUS
    <3>1. conn[v] \in open /\ conn[v] # n
      BY <2>1
    <3>2. chain[v] \in Chain /\ chain[v] # c
      BY <1>2, <3>1
    <3>3. QED BY <1>2, <2>2, <3>1, <3>2
  <2>5. RefCounted' /\ ConnectionHeld'
    <3>1. CASE phase = "serving"
      <4>1. Holders(n) = {u}
        <5>1. n \in open /\ u \in Holders(n) /\ IsFiniteSet(Holders(n))
          BY <1>6, <3>1, HoldersFinite DEF Holders
        <5>2. refCount[n] = Cardinality(Holders(n)) /\ refCount[n] > 0 /\ refCount[n] \in Int
          BY <1>2, <3>1, <5>1 DEF IInv, TypeOK, ConnectionInv, RefCounted
        <5>3. Cardinality(Holders(n)) = 1
          BY <1>10, <5>2
        <5>4. QED BY <5>1, <5>3, FS_Singleton
      <4>2. \A v \in User : Holding(v)' => Holding(v) /\ v # u /\ conn[v] # n
        BY <4>1 DEF Holders
      <4>3. \A v \in User : Holding(v)' => conn[v] \in open'
        BY <1>5, <2>1, <3>1, <4>2
      <4>4. ConnectionHeld'
        BY <1>2, <2>4, <3>1, <4>3, <2>1 DEF ConnectionHeld
      <4>5. RefCounted'
        <5> SUFFICES ASSUME NEW m \in open'
                     PROVE  refCount'[m] = Cardinality(Holders(m)') /\ refCount'[m] > 0
          BY DEF RefCounted
        <5>1. m \in open /\ m # n /\ m \in Connection
          BY <1>2, <2>1
        <5>2. Holders(m)' = Holders(m)
          BY <1>6, <3>1, <5>1 DEF Holders
        <5>3. refCount[m] = Cardinality(Holders(m)) /\ refCount[m] > 0
          BY <3>1, <5>1 DEF IInv, ConnectionInv, RefCounted
        <5>4. QED BY <2>2, <5>1, <5>2, <5>3
      <4>6. QED BY <4>4, <4>5
    <3>2. CASE phase # "serving"
      BY <1>7, <1>10, <3>2, <2>1 DEF RefCounted, ConnectionHeld
    <3>3. QED BY <3>1, <3>2
  <2>6. registered' = {f \in kept : conn[f] \in open'}
    BY <1>3, <2>1
  <2>7. \A f \in registered' : chains'[chain[f]] = conn[f]
    BY <1>3, <2>4, <2>6
  <2>8. QED BY <2>1, <2>2, <2>3, <2>4, <2>5, <2>6, <2>7 DEF IInv, TypeOK
<1>11. QED BY <1>9, <1>10

-----------------------------------------------------------------------------
(* The steps. *)

(* Follows and requests differ, so a step of the one leaves the other alone. *)
LEMMA UserKinds ==
  /\ Follow \subseteq User /\ Request \subseteq User
  /\ \A f \in Follow : f \notin Request
BY UsersDiffer DEF User

(* Steps that touch neither the entries nor who holds them. *)
LEMMA EntriesKept ==
  ASSUME IInv, UNCHANGED <<entryVars, chain, conn, phase>>,
         \A u \in User : Holding(u)' <=> Holding(u)
  PROVE  /\ EntriesSound' /\ ConnectionHeld' /\ RefCounted'
         /\ \A u \in User : conn'[u] # None =>
              /\ chain'[u] \in Chain /\ conn'[u] <= lastConn'
              /\ conn'[u] \in open' => chains'[chain'[u]] = conn'[u]
<1>1. EntriesSound'
  BY DEF IInv, ConnectionInv, EntriesSound, entryVars
<1>2. ConnectionHeld'
  BY DEF IInv, ConnectionInv, ConnectionHeld, entryVars
<1>3. \A n : Holders(n)' = Holders(n)
  BY DEF Holders
<1>4. RefCounted'
  BY <1>3 DEF IInv, ConnectionInv, RefCounted, entryVars
<1>5. QED BY <1>1, <1>2, <1>4 DEF IInv, ConnectionInv, Linked, entryVars

LEMMA StartFollowStep ==
  ASSUME IInv, NEW f \in Follow, NEW c \in Chain, StartFollow(f, c)
  PROVE  IInv'
<1>0. follow[f] = "new" /\ phase # "disposed" /\ f \in User /\ f \notin Request
      /\ UNCHANGED <<request, about, unsent, phase>> /\ f \notin registered
  BY UserKinds DEF StartFollow, Serving, IInv, ConnectionInv, RegisteredIsLive
<1>1. CASE /\ GetOrCreateChain(c)
           /\ chain' = [chain EXCEPT ![f] = c]
           /\ conn' = [conn EXCEPT ![f] = ConnectionOf(c)]
           /\ follow' = [follow EXCEPT ![f] = "following"]
           /\ node' = [node EXCEPT ![f] = "asked"]
           /\ UNCHANGED <<registered, failures>>
  <2> DEFINE n == ConnectionOf(c)
  <2>1. /\ n \in Connection /\ n <= lastConn' /\ lastConn <= lastConn'
        /\ chains' \in [Chain -> Connection \cup {None}] /\ lastConn' \in 0 .. MaxConnections
        /\ refCount' \in [Connection -> Int] /\ open' \subseteq Connection
        /\ \A d \in Chain : chains'[d] = IF d = c THEN n ELSE chains[d]
        /\ open' = open \cup {n}
        /\ \/ chains[c] = n /\ n \in open
           \/ chains[c] = None /\ n = lastConn + 1 /\ n \notin open /\ refCount[n] = 0
    BY <1>1, Acquired
  <2> HIDE DEF n
  <2>2. TypeOK'
    BY <1>0, <1>1, <2>1 DEF IInv, TypeOK, n
  <2>3. /\ \A g \in Follow : follow'[g] = IF g = f THEN "following" ELSE follow[g]
        /\ \A g \in Follow : node'[g] = IF g = f THEN "asked" ELSE node[g]
        /\ \A u \in User : conn'[u] = IF u = f THEN n ELSE conn[u]
        /\ \A u \in User : chain'[u] = IF u = f THEN c ELSE chain[u]
    BY <1>1, UserKinds DEF IInv, TypeOK, n
  <2>4. ~Holding(f) /\ \A u \in User : Holding(u)' <=> Holding(u) \/ u = f
    BY <1>0, <2>3 DEF Holding, Borrowed
  <2>5. /\ EntriesSound' /\ ConnectionHeld' /\ RefCounted'
        /\ \A v \in User : conn'[v] # None =>
             /\ chain'[v] \in Chain /\ conn'[v] <= lastConn'
             /\ conn'[v] \in open' => chains'[chain'[v]] = conn'[v]
    BY <1>0, <1>1, <2>4, AcquireStep
  <2>6. Linked'
    <3>1. \A u \in User : Given(u)' => Given(u) \/ u = f
      BY <1>0, <2>3 DEF Given
    <3>2. \A u \in User : Given(u)' => conn'[u] # None
      BY <2>1, <2>3, <3>1, NoneIsNothing DEF IInv, ConnectionInv, Linked
    <3>3. QED BY <2>5, <3>2 DEF Linked
  <2>7. RegisteredIsLive'
    BY <1>0, <1>1, <2>1, <2>3, <2>5, UserKinds, NoneIsNothing
    DEF IInv, TypeOK, ConnectionInv, RegisteredIsLive
  <2>8. Borrowing'
    <3>1. \A r \in Request : request[r] \in {"waiting", "settled"} /\ Borrowed(r) =>
            about[r] \in Follow /\ about[r] # f
      BY <1>0 DEF IInv, TypeOK, ConnectionInv, Borrowing, Borrowed
    <3>2. QED BY <1>0, <2>3, <3>1, UserKinds DEF IInv, ConnectionInv, Borrowing, Borrowed
  <2>9. NoForgottenFollow'
    <3> SUFFICES ASSUME NEW g \in Follow, node'[g] = "active", conn'[g] \in open'
                 PROVE  g \in registered' \cup unsent'
      BY DEF NoForgottenFollow
    <3>1. g # f /\ node[g] = "active" /\ conn'[g] = conn[g]
      BY <2>3, UserKinds
    <3>2. conn[g] # None => conn[g] <= lastConn
      BY UserKinds DEF IInv, ConnectionInv, Linked
    <3>3. conn[g] \in open
      BY <2>1, <3>1, <3>2, NoneIsNothing DEF IInv, TypeOK
    <3>4. QED BY <1>0, <1>1, <3>1, <3>3 DEF IInv, ConnectionInv, NoForgottenFollow
  <2>10. CleanedByAbort'
    BY <1>0, <2>3 DEF IInv, ConnectionInv, CleanedByAbort
  <2>11. QED BY <2>2, <2>5, <2>6, <2>7, <2>8, <2>9, <2>10 DEF IInv, ConnectionInv
<1>2. CASE /\ follow' = [follow EXCEPT ![f] = "over"]
           /\ UNCHANGED <<chains, open, refCount, registered, chain, conn, node>>
           /\ lastConn' \in 0 .. MaxConnections /\ failures' \in 0 .. MaxFailures
           /\ lastConn <= lastConn'
  <2>1. TypeOK'
    BY <1>0, <1>2 DEF IInv, TypeOK
  <2>2. \A g \in Follow : follow'[g] = IF g = f THEN "over" ELSE follow[g]
    BY <1>2 DEF IInv, TypeOK
  <2>3. /\ \A u \in User : Holding(u)' <=> Holding(u)
        /\ \A u \in User : Given(u)' <=> Given(u)
    BY <1>0, <2>2 DEF Holding, Given, Borrowed
  <2>4. \A n : Holders(n)' = Holders(n)
    BY <1>2, <2>3 DEF Holders
  <2>5. lastConn \in Int /\ lastConn' \in Int /\ open \subseteq Int /\ Connection \subseteq Int
    BY <1>2 DEF IInv, TypeOK, Connection
  <2>6. EntriesSound'
    BY <1>2, <2>5 DEF IInv, ConnectionInv, EntriesSound
  <2>7. ConnectionHeld' /\ RefCounted'
    BY <1>0, <1>2, <2>3, <2>4 DEF IInv, ConnectionInv, ConnectionHeld, RefCounted
  <2>8. Linked'
    <3>1. \A u \in User : conn[u] # None => conn[u] \in Int
      BY <2>5 DEF IInv, TypeOK
    <3>2. QED BY <1>2, <2>3, <2>5, <3>1 DEF IInv, ConnectionInv, Linked
  <2>9. RegisteredIsLive' /\ NoForgottenFollow'
    BY <1>0, <1>2, <2>2 DEF IInv, TypeOK, ConnectionInv, RegisteredIsLive, NoForgottenFollow
  <2>10. Borrowing'
    BY <1>0, <1>2, <2>2 DEF IInv, TypeOK, ConnectionInv, Borrowing, Borrowed
  <2>11. CleanedByAbort'
    BY <1>0, <2>2 DEF IInv, ConnectionInv, CleanedByAbort
  <2>12. QED BY <2>1, <2>6, <2>7, <2>8, <2>9, <2>10, <2>11 DEF IInv, ConnectionInv
<1>3. ASSUME TouchChain(c), SendThrows
      PROVE  /\ lastConn' \in 0 .. MaxConnections /\ failures' \in 0 .. MaxFailures
             /\ lastConn <= lastConn'
  BY <1>3, BoundsAreNat DEF TouchChain, CanConnect, SendThrows, IInv, TypeOK
<1>4. lastConn \in 0 .. MaxConnections /\ lastConn <= lastConn /\ failures \in 0 .. MaxFailures
  BY DEF IInv, TypeOK
<1>5. QED BY <1>1, <1>2, <1>3, <1>4 DEF StartFollow, TouchChain, entryVars

LEMMA NodeAnswersStep ==
  ASSUME IInv, NEW f \in Follow, NodeAnswers(f)
  PROVE  IInv'
<1>1. PICK answer \in {"accepted", "rejected"} : node' = [node EXCEPT ![f] = answer]
  BY DEF NodeAnswers
<1>2. UNCHANGED <<entryVars, chain, conn, follow, request, about, failures, unsent, phase>>
  BY DEF NodeAnswers
<1>3. node[f] = "asked" /\ \A g \in Follow : node'[g] = IF g = f THEN answer ELSE node[g]
  BY <1>1 DEF NodeAnswers, IInv, TypeOK
<1>4. TypeOK'
  BY <1>1, <1>2 DEF IInv, TypeOK, entryVars
<1>5. \A u \in User : (Holding(u)' <=> Holding(u)) /\ (Given(u)' <=> Given(u))
  BY <1>2 DEF Holding, Given, Borrowed
<1>6. EntriesSound' /\ ConnectionHeld' /\ RefCounted' /\ Linked'
  BY <1>2, <1>5, EntriesKept DEF IInv, ConnectionInv, Linked
<1>7. RegisteredIsLive' /\ NoForgottenFollow' /\ Borrowing' /\ CleanedByAbort'
  BY <1>2, <1>3
  DEF IInv, TypeOK, ConnectionInv, RegisteredIsLive, NoForgottenFollow, Borrowing, Borrowed,
      CleanedByAbort, entryVars
<1>8. QED BY <1>4, <1>6, <1>7 DEF IInv, ConnectionInv

LEMMA FollowAcceptedStep ==
  ASSUME IInv, NEW f \in Follow, FollowAccepted(f)
  PROVE  IInv'
<1>1. /\ node[f] = "accepted" /\ conn[f] \in open /\ f \in User
      /\ UNCHANGED <<chains, lastConn, open, refCount, chain, conn, follow, request, about, phase>>
  BY UserKinds DEF FollowAccepted
<1>2. \A u \in User : (Holding(u)' <=> Holding(u)) /\ (Given(u)' <=> Given(u))
  BY <1>1 DEF Holding, Given, Borrowed
<1>3. \A n : Holders(n)' = Holders(n)
  BY <1>1, <1>2 DEF Holders
<1>4. EntriesSound' /\ ConnectionHeld' /\ RefCounted' /\ Linked' /\ Borrowing' /\ CleanedByAbort'
  BY <1>1, <1>2, <1>3
  DEF IInv, ConnectionInv, EntriesSound, ConnectionHeld, RefCounted, Linked, Borrowing, Borrowed,
      CleanedByAbort
<1>5. CASE /\ ~Stopped(f) /\ registered' = registered \cup {f}
           /\ node' = [node EXCEPT ![f] = "active"]
           /\ UNCHANGED <<failures, unsent>>
  <2>1. TypeOK'
    BY <1>1, <1>5 DEF IInv, TypeOK
  <2>2. \A g \in Follow : node'[g] = IF g = f THEN "active" ELSE node[g]
    BY <1>5 DEF IInv, TypeOK
  <2>3. chains[chain[f]] = conn[f]
    BY <1>1, NoneIsNothing DEF IInv, TypeOK, ConnectionInv, Linked
  <2>4. RegisteredIsLive' /\ NoForgottenFollow'
    BY <1>1, <1>5, <2>2, <2>3
    DEF IInv, TypeOK, ConnectionInv, RegisteredIsLive, NoForgottenFollow, Stopped
  <2>5. QED BY <1>4, <2>1, <2>4 DEF IInv, ConnectionInv
<1>6. CASE /\ Stopped(f) /\ UNCHANGED registered /\ failures' \in 0 .. MaxFailures
           /\ \/ node' = [node EXCEPT ![f] = "unfollowed"] /\ UNCHANGED unsent
              \/ node' = [node EXCEPT ![f] = "active"] /\ unsent' = unsent \cup {f}
  <2>1. TypeOK'
    BY <1>1, <1>6 DEF IInv, TypeOK
  <2>2. f \notin registered
    BY <1>1 DEF IInv, ConnectionInv, RegisteredIsLive
  <2>3. \A g \in Follow : g # f => node'[g] = node[g]
    BY <1>6 DEF IInv, TypeOK
  <2>4. node'[f] = "unfollowed" \/ f \in unsent'
    BY <1>6 DEF IInv, TypeOK
  <2>5. unsent \subseteq unsent'
    BY <1>6
  <2>6. RegisteredIsLive' /\ NoForgottenFollow'
    BY <1>1, <1>6, <2>2, <2>3, <2>4, <2>5
    DEF IInv, TypeOK, ConnectionInv, RegisteredIsLive, NoForgottenFollow
  <2>7. QED BY <1>4, <2>1, <2>6 DEF IInv, ConnectionInv
<1>7. failures \in 0 .. MaxFailures /\ (SendThrows => failures' \in 0 .. MaxFailures)
  BY BoundsAreNat DEF SendThrows, IInv, TypeOK
<1>8. QED BY <1>5, <1>6, <1>7 DEF FollowAccepted

(* Releasing when the clean-up of a follow has been run to its end. *)
LEMMA CleanedUpStep ==
  ASSUME IInv, NEW f \in Follow, NEW kept \in SUBSET registered,
         follow[f] \in {"following", "halted", "cleaned"},
         ReleaseChain(chain[f], kept), follow' = [follow EXCEPT ![f] = "over"],
         f \notin kept, registered \subseteq kept \cup {f},
         node' \in [Follow -> {"unfollowed", "refused", "none", "asked", "accepted",
                              "rejected", "active"}],
         \A g \in Follow : g # f => node'[g] = node[g],
         node'[f] = "active" => node[f] = "active" /\ follow[f] # "following",
         UNCHANGED <<chain, conn, request, about, failures, unsent, phase>>
  PROVE  IInv'
<1>1. f \in User /\ f \notin Request /\ Given(f)
  BY UserKinds DEF Given
<1>2. \A g \in Follow : follow'[g] = IF g = f THEN "over" ELSE follow[g]
  BY DEF IInv, TypeOK
<1>3. /\ ~Holding(f)' /\ \A v \in User : v # f => (Holding(v)' <=> Holding(v))
      /\ \A v \in User : Given(v)' => Given(v)
      /\ Holding(f) \/ phase = "aborted"
  BY <1>1, <1>2 DEF Holding, Given, Borrowed, IInv, ConnectionInv, CleanedByAbort
<1>4. /\ EntriesSound' /\ ConnectionHeld' /\ RefCounted'
      /\ chains' \in [Chain -> Connection \cup {None}] /\ lastConn' \in 0 .. MaxConnections
      /\ refCount' \in [Connection -> Int] /\ open' \subseteq Connection
      /\ registered' = {g \in kept : conn[g] \in open'}
      /\ \A g \in registered' : chains'[chain[g]] = conn[g]
      /\ open' \subseteq open /\ UNCHANGED lastConn
      /\ \A v \in User : conn[v] \in open' => chains'[chain[v]] = conn[v]
  BY <1>1, <1>3, ReleaseStep
<1>5. TypeOK'
  BY <1>4 DEF IInv, TypeOK
<1>6. Linked'
  BY <1>3, <1>4 DEF IInv, ConnectionInv, Linked
<1>7. RegisteredIsLive'
  BY <1>1, <1>2, <1>4 DEF IInv, TypeOK, ConnectionInv, RegisteredIsLive
<1>8. NoForgottenFollow'
  <2> SUFFICES ASSUME NEW g \in Follow, node'[g] = "active", conn[g] \in open'
               PROVE  g \in registered' \cup unsent
    BY DEF NoForgottenFollow
  <2>1. node[g] = "active" /\ conn[g] \in open
    BY <1>4
  <2>2. g \in registered \cup unsent
    BY <2>1 DEF IInv, ConnectionInv, NoForgottenFollow
  <2>3. CASE g = f
    <3>1. f \notin registered
      BY <2>3 DEF IInv, ConnectionInv, RegisteredIsLive
    <3>2. QED BY <2>2, <2>3, <3>1
  <2>4. CASE g # f
    BY <1>4, <2>2, <2>4
  <2>5. QED BY <2>3, <2>4
<1>9. Borrowing' /\ CleanedByAbort'
  BY <1>2 DEF IInv, TypeOK, ConnectionInv, Borrowing, Borrowed, CleanedByAbort
<1>10. QED BY <1>4, <1>5, <1>6, <1>7, <1>8, <1>9 DEF IInv, ConnectionInv

LEMMA FollowRejectedStep ==
  ASSUME IInv, NEW f \in Follow, FollowRejected(f)
  PROVE  IInv'
<1>1. /\ node[f] = "rejected" /\ node' = [node EXCEPT ![f] = "refused"] /\ f \in User
      /\ UNCHANGED <<chain, conn, request, about, failures, unsent, phase>>
  BY UserKinds DEF FollowRejected
<1>2. /\ node' \in [Follow -> {"unfollowed", "refused", "none", "asked", "accepted",
                              "rejected", "active"}]
      /\ \A g \in Follow : node'[g] = IF g = f THEN "refused" ELSE node[g]
      /\ f \notin registered
  BY <1>1 DEF IInv, TypeOK, ConnectionInv, RegisteredIsLive
<1>3. CASE ~Stopped(f)
  <2>1. /\ follow' = [follow EXCEPT ![f] = "over"] /\ follow[f] = "following"
        /\ ReleaseChain(chain[f], registered)
    BY <1>3 DEF FollowRejected, Stopped
  <2>2. QED BY <1>1, <1>2, <2>1, CleanedUpStep
<1>4. CASE Stopped(f)
  <2>1. UNCHANGED <<entryVars, follow>>
    BY <1>4 DEF FollowRejected
  <2>2. \A u \in User : (Holding(u)' <=> Holding(u)) /\ (Given(u)' <=> Given(u))
    BY <1>1, <2>1 DEF Holding, Given, Borrowed
  <2>3. EntriesSound' /\ ConnectionHeld' /\ RefCounted' /\ Linked'
    BY <1>1, <2>1, <2>2, EntriesKept DEF IInv, ConnectionInv, Linked
  <2>4. RegisteredIsLive' /\ NoForgottenFollow' /\ Borrowing' /\ CleanedByAbort'
    BY <1>1, <1>2, <2>1
    DEF IInv, TypeOK, ConnectionInv, RegisteredIsLive, NoForgottenFollow, Borrowing, Borrowed,
        CleanedByAbort, entryVars
  <2>5. TypeOK'
    BY <1>1, <1>2, <2>1 DEF IInv, TypeOK, entryVars
  <2>6. QED BY <2>3, <2>4, <2>5 DEF IInv, ConnectionInv
<1>5. QED BY <1>3, <1>4

LEMMA StopFollowStep ==
  ASSUME IInv, NEW f \in Follow, StopFollow(f)
  PROVE  IInv'
<1>1. /\ follow[f] \in {"following", "halted", "cleaned"} /\ phase # "disposed"
      /\ UNCHANGED <<chain, conn, request, about, phase>> /\ f \in User
  BY UserKinds DEF StopFollow, Serving
<1>2. CASE /\ follow' = [follow EXCEPT ![f] = "over"] /\ node' = Unfollowed(f)
           /\ ReleaseChain(chain[f], registered \ {f}) /\ UNCHANGED <<failures, unsent>>
  <2>1. /\ node' \in [Follow -> {"unfollowed", "refused", "none", "asked", "accepted",
                                "rejected", "active"}]
        /\ \A g \in Follow : g # f => node'[g] = node[g]
        /\ node'[f] = "active" => node[f] = "active" /\ follow[f] # "following"
    BY <1>2 DEF Unfollowed, IInv, TypeOK
  <2>2. registered \ {f} \in SUBSET registered /\ f \notin registered \ {f}
        /\ registered \subseteq (registered \ {f}) \cup {f}
    OBVIOUS
  <2>3. QED BY <1>1, <1>2, <2>1, <2>2, CleanedUpStep
<1>3. CASE /\ follow[f] = "following" /\ node[f] = "active" /\ SendThrows
           /\ follow' = [follow EXCEPT ![f] = "halted"]
           /\ registered' = registered \ {f} /\ unsent' = unsent \cup {f}
           /\ UNCHANGED <<chains, lastConn, open, refCount, node>>
  <2>1. \A g \in Follow : follow'[g] = IF g = f THEN "halted" ELSE follow[g]
    BY <1>3 DEF IInv, TypeOK
  <2>2. TypeOK'
    BY <1>1, <1>3, BoundsAreNat DEF SendThrows, IInv, TypeOK
  <2>3. \A u \in User : (Holding(u)' <=> Holding(u)) /\ (Given(u)' <=> Given(u))
    BY <1>1, <1>3, <2>1, UserKinds DEF Holding, Given, Borrowed
  <2>4. \A n : Holders(n)' = Holders(n)
    BY <1>1, <2>3 DEF Holders
  <2>5. EntriesSound' /\ ConnectionHeld' /\ RefCounted' /\ Linked'
    BY <1>1, <1>3, <2>3, <2>4
    DEF IInv, ConnectionInv, EntriesSound, ConnectionHeld, RefCounted, Linked
  <2>6. RegisteredIsLive' /\ NoForgottenFollow'
    BY <1>1, <1>3, <2>1
    DEF IInv, TypeOK, ConnectionInv, RegisteredIsLive, NoForgottenFollow
  <2>7. Borrowing' /\ CleanedByAbort'
    BY <1>1, <2>1 DEF IInv, TypeOK, ConnectionInv, Borrowing, Borrowed, CleanedByAbort
  <2>8. QED BY <2>2, <2>5, <2>6, <2>7 DEF IInv, ConnectionInv
<1>4. QED BY <1>2, <1>3 DEF StopFollow

LEMMA AskAboutFollowStep ==
  ASSUME IInv, NEW r \in Request, NEW f \in Follow, AskAboutFollow(r, f)
  PROVE  IInv'
<1>1. /\ request[r] = "new" /\ about' = [about EXCEPT ![r] = f] /\ phase # "disposed"
      /\ UNCHANGED <<entryVars, follow, node, unsent, phase>>
      /\ r \in User /\ r \notin Follow /\ f \in User
  BY UserKinds DEF AskAboutFollow, Serving
<1>2. \A q \in Request : about'[q] = IF q = r THEN f ELSE about[q]
  BY <1>1 DEF IInv, TypeOK
<1>3. f # None
  BY NoneIsNothing
<1>4. CASE /\ Resolves(f) /\ request' = [request EXCEPT ![r] = "waiting"]
           /\ chain' = [chain EXCEPT ![r] = chain[f]]
           /\ conn' = [conn EXCEPT ![r] = conn[f]]
           /\ UNCHANGED failures
  <2>1. /\ \A q \in Request : request'[q] = IF q = r THEN "waiting" ELSE request[q]
        /\ \A u \in User : conn'[u] = IF u = r THEN conn[f] ELSE conn[u]
        /\ \A u \in User : chain'[u] = IF u = r THEN chain[f] ELSE chain[u]
    BY <1>1, <1>4 DEF IInv, TypeOK
  <2>2. conn[f] \in open /\ follow[f] = "following" /\ conn[f] # None
        /\ chains[chain[f]] = conn[f] /\ chain[f] \in Chain /\ conn[f] <= lastConn
    BY <1>1, <1>4, NoneIsNothing
    DEF Resolves, IInv, TypeOK, ConnectionInv, RegisteredIsLive, Linked
  <2>3. \A u \in User : /\ Holding(u)' <=> Holding(u)
                        /\ Holding(u) => u # r
                        /\ Given(u)' => Given(u) \/ u = r
    BY <1>1, <1>2, <1>3, <2>1 DEF Holding, Given, Borrowed
  <2>4. \A n : Holders(n)' = Holders(n)
    BY <2>1, <2>3 DEF Holders
  <2>5. TypeOK'
    BY <1>1, <1>4 DEF IInv, TypeOK, entryVars
  <2>6. EntriesSound' /\ RefCounted'
    BY <1>1, <2>4 DEF IInv, ConnectionInv, EntriesSound, RefCounted, entryVars
  <2>7. ConnectionHeld' /\ Linked'
    BY <1>1, <2>1, <2>2, <2>3 DEF IInv, ConnectionInv, ConnectionHeld, Linked, entryVars
  <2>8. Borrowing'
    BY <1>1, <1>2, <1>3, <2>1, <2>2, UserKinds
    DEF IInv, TypeOK, ConnectionInv, Borrowing, Borrowed
  <2>9. RegisteredIsLive' /\ NoForgottenFollow' /\ CleanedByAbort'
    BY <1>1, <2>1, UserKinds DEF IInv, TypeOK, ConnectionInv, RegisteredIsLive,
       NoForgottenFollow, CleanedByAbort, entryVars
  <2>10. QED BY <2>5, <2>6, <2>7, <2>8, <2>9 DEF IInv, ConnectionInv
<1>5. CASE /\ request' = [request EXCEPT ![r] = "answered"]
           /\ UNCHANGED <<chain, conn>> /\ failures' \in 0 .. MaxFailures
  <2>1. \A q \in Request : request'[q] = IF q = r THEN "answered" ELSE request[q]
    BY <1>5 DEF IInv, TypeOK
  <2>2. \A u \in User : (Holding(u)' <=> Holding(u)) /\ (Given(u)' <=> Given(u))
    BY <1>1, <1>2, <2>1 DEF Holding, Given, Borrowed
  <2>3. EntriesSound' /\ ConnectionHeld' /\ RefCounted' /\ Linked'
    BY <1>1, <1>5, <2>2, EntriesKept DEF IInv, ConnectionInv, Linked
  <2>4. TypeOK'
    BY <1>1, <1>5 DEF IInv, TypeOK, entryVars
  <2>5. RegisteredIsLive' /\ NoForgottenFollow' /\ CleanedByAbort'
    BY <1>1, <1>5
    DEF IInv, ConnectionInv, RegisteredIsLive, NoForgottenFollow, CleanedByAbort, entryVars
  <2>6. Borrowing'
    BY <1>1, <1>2, <1>5, <2>1 DEF IInv, ConnectionInv, Borrowing, Borrowed
  <2>7. QED BY <2>3, <2>4, <2>5, <2>6 DEF IInv, ConnectionInv
<1>6. failures \in 0 .. MaxFailures /\ (SendThrows => failures' \in 0 .. MaxFailures)
  BY BoundsAreNat DEF SendThrows, IInv, TypeOK
<1>7. QED BY <1>4, <1>5, <1>6 DEF AskAboutFollow

LEMMA AskAboutChainStep ==
  ASSUME IInv, NEW r \in Request, NEW c \in Chain, AskAboutChain(r, c)
  PROVE  IInv'
<1>1. /\ request[r] = "new" /\ phase # "disposed" /\ ~Borrowed(r)
      /\ UNCHANGED <<about, follow, node, unsent, phase>>
      /\ r \in User /\ r \notin Follow
  BY UserKinds DEF AskAboutChain, Serving, IInv, ConnectionInv, Borrowing
<1>2. failures \in 0 .. MaxFailures /\ (SendThrows => failures' \in 0 .. MaxFailures)
  BY BoundsAreNat DEF SendThrows, IInv, TypeOK
<1>3. CASE /\ GetOrCreateChain(c)
           /\ chain' = [chain EXCEPT ![r] = c]
           /\ conn' = [conn EXCEPT ![r] = ConnectionOf(c)]
           /\ \E step \in {"waiting", "settled"} : request' = [request EXCEPT ![r] = step]
           /\ failures' \in 0 .. MaxFailures
           /\ UNCHANGED registered
  <2> DEFINE n == ConnectionOf(c)
  <2>1. /\ n \in Connection /\ n <= lastConn' /\ lastConn <= lastConn'
        /\ chains' \in [Chain -> Connection \cup {None}] /\ lastConn' \in 0 .. MaxConnections
        /\ refCount' \in [Connection -> Int] /\ open' \subseteq Connection
        /\ \A d \in Chain : chains'[d] = IF d = c THEN n ELSE chains[d]
        /\ open' = open \cup {n}
        /\ \/ chains[c] = n /\ n \in open
           \/ chains[c] = None /\ n = lastConn + 1 /\ n \notin open /\ refCount[n] = 0
    BY <1>3, Acquired
  <2> HIDE DEF n
  <2>2. PICK step \in {"waiting", "settled"} : request' = [request EXCEPT ![r] = step]
    BY <1>3
  <2>3. TypeOK'
    BY <1>1, <1>3, <2>1, <2>2 DEF IInv, TypeOK, n
  <2>4. /\ \A q \in Request : request'[q] = IF q = r THEN step ELSE request[q]
        /\ \A u \in User : conn'[u] = IF u = r THEN n ELSE conn[u]
        /\ \A u \in User : chain'[u] = IF u = r THEN c ELSE chain[u]
    BY <1>1, <1>3, <2>2 DEF IInv, TypeOK, n
  <2>5. /\ ~Holding(r) /\ \A u \in User : Holding(u)' <=> Holding(u) \/ u = r
        /\ \A u \in User : Given(u)' => Given(u) \/ u = r
    BY <1>1, <2>4 DEF Holding, Given, Borrowed
  <2>6. /\ EntriesSound' /\ ConnectionHeld' /\ RefCounted'
        /\ \A v \in User : conn'[v] # None =>
             /\ chain'[v] \in Chain /\ conn'[v] <= lastConn'
             /\ conn'[v] \in open' => chains'[chain'[v]] = conn'[v]
    BY <1>1, <1>3, <2>5, AcquireStep
  <2>7. Linked'
    BY <2>1, <2>4, <2>5, <2>6, NoneIsNothing DEF IInv, ConnectionInv, Linked
  <2>8. Borrowing'
    BY <1>1, <2>4, UserKinds DEF IInv, TypeOK, ConnectionInv, Borrowing, Borrowed
  <2>9. /\ \A f \in Follow : conn'[f] = conn[f] /\ chain'[f] = chain[f]
        /\ \A f \in Follow : conn[f] # None => conn[f] <= lastConn
    BY <1>1, <2>4, UserKinds DEF IInv, ConnectionInv, Linked
  <2>10. \A f \in Follow : conn[f] \in open' => conn[f] \in open
    BY <2>1, <2>9, NoneIsNothing DEF IInv, TypeOK
  <2>11. RegisteredIsLive'
    <3>1. \A f \in registered : f \in Follow /\ f \in User /\ conn[f] \in open'
            /\ follow[f] = "following" /\ node[f] = "active" /\ conn[f] # None
      BY <2>1, UserKinds, NoneIsNothing DEF IInv, TypeOK, ConnectionInv, RegisteredIsLive
    <3>2. QED BY <1>1, <1>3, <2>6, <2>9, <3>1 DEF RegisteredIsLive
  <2>12. NoForgottenFollow' /\ CleanedByAbort'
    BY <1>1, <1>3, <2>9, <2>10 DEF IInv, ConnectionInv, NoForgottenFollow, CleanedByAbort
  <2>13. QED BY <2>3, <2>6, <2>7, <2>8, <2>11, <2>12 DEF IInv, ConnectionInv
<1>4. CASE /\ c \in Unsupported /\ request' = [request EXCEPT ![r] = "answered"]
           /\ UNCHANGED <<entryVars, chain, conn, failures>>
  <2>1. \A q \in Request : request'[q] = IF q = r THEN "answered" ELSE request[q]
    BY <1>4 DEF IInv, TypeOK
  <2>2. \A u \in User : (Holding(u)' <=> Holding(u)) /\ (Given(u)' <=> Given(u))
    BY <1>1, <2>1 DEF Holding, Given, Borrowed
  <2>3. EntriesSound' /\ ConnectionHeld' /\ RefCounted' /\ Linked'
    BY <1>1, <1>4, <2>2, EntriesKept DEF IInv, ConnectionInv, Linked
  <2>4. TypeOK'
    BY <1>1, <1>4 DEF IInv, TypeOK, entryVars
  <2>5. RegisteredIsLive' /\ NoForgottenFollow' /\ CleanedByAbort'
    BY <1>1, <1>4
    DEF IInv, ConnectionInv, RegisteredIsLive, NoForgottenFollow, CleanedByAbort, entryVars
  <2>6. Borrowing'
    BY <1>1, <1>4, <2>1 DEF IInv, ConnectionInv, Borrowing, Borrowed
  <2>7. QED BY <2>3, <2>4, <2>5, <2>6 DEF IInv, ConnectionInv
<1>5. QED BY <1>2, <1>3, <1>4 DEF AskAboutChain

LEMMA SettleStep ==
  ASSUME IInv, NEW r \in Request, Settle(r)
  PROVE  IInv'
<1>1. /\ request[r] = "waiting" /\ request' = [request EXCEPT ![r] = "settled"]
      /\ UNCHANGED <<entryVars, chain, conn, follow, node, about, failures, unsent, phase>>
  BY DEF Settle
<1>2. \A q \in Request : request'[q] = IF q = r THEN "settled" ELSE request[q]
  BY <1>1 DEF IInv, TypeOK
<1>3. \A u \in User : (Holding(u)' <=> Holding(u)) /\ (Given(u)' <=> Given(u))
  BY <1>1, <1>2, UserKinds DEF Holding, Given, Borrowed
<1>4. EntriesSound' /\ ConnectionHeld' /\ RefCounted' /\ Linked'
  BY <1>1, <1>3, EntriesKept DEF IInv, ConnectionInv, Linked
<1>5. TypeOK'
  BY <1>1 DEF IInv, TypeOK, entryVars
<1>6. RegisteredIsLive' /\ NoForgottenFollow' /\ CleanedByAbort' /\ Borrowing'
  BY <1>1, <1>2 DEF IInv, ConnectionInv, RegisteredIsLive, NoForgottenFollow, CleanedByAbort,
     Borrowing, Borrowed, entryVars
<1>7. QED BY <1>4, <1>5, <1>6 DEF IInv, ConnectionInv

LEMMA ContinueStep ==
  ASSUME IInv, NEW r \in Request, Continue(r)
  PROVE  IInv'
<1>1. /\ request[r] = "settled" /\ request' = [request EXCEPT ![r] = "answered"]
      /\ UNCHANGED <<chain, conn, follow, node, about, failures, unsent, phase>>
      /\ r \in User /\ r \notin Follow /\ Given(r)
  BY UserKinds DEF Continue, Given
<1>2. \A q \in Request : request'[q] = IF q = r THEN "answered" ELSE request[q]
  BY <1>1 DEF IInv, TypeOK
<1>3. \A u \in User : /\ u # r => (Holding(u)' <=> Holding(u))
                      /\ Given(u)' => Given(u)
  BY <1>1, <1>2, UserKinds DEF Holding, Given, Borrowed
<1>4. ~Holding(r)'
  BY <1>1, <1>2 DEF Holding
<1>5. Borrowing' /\ CleanedByAbort'
  BY <1>1, <1>2 DEF IInv, ConnectionInv, Borrowing, Borrowed, CleanedByAbort
<1>6. CASE ~Borrowed(r)
  <2>1. Holding(r)
    BY <1>1, <1>6 DEF Holding
  <2>2. ReleaseChain(chain[r], registered)
    BY <1>6 DEF Continue, Finally, Borrowed
  <2>3. registered \in SUBSET registered
    OBVIOUS
  <2>4. /\ EntriesSound' /\ ConnectionHeld' /\ RefCounted'
        /\ chains' \in [Chain -> Connection \cup {None}] /\ lastConn' \in 0 .. MaxConnections
        /\ refCount' \in [Connection -> Int] /\ open' \subseteq Connection
        /\ registered' = {f \in registered : conn[f] \in open'}
        /\ \A f \in registered' : chains'[chain[f]] = conn[f]
        /\ open' \subseteq open /\ UNCHANGED lastConn
        /\ \A v \in User : conn[v] \in open' => chains'[chain[v]] = conn[v]
    BY <1>1, <1>3, <1>4, <2>1, <2>2, <2>3, ReleaseStep
  <2>5. TypeOK'
    BY <1>1, <2>4 DEF IInv, TypeOK
  <2>6. Linked'
    BY <1>1, <1>3, <2>4 DEF IInv, ConnectionInv, Linked
  <2>7. RegisteredIsLive' /\ NoForgottenFollow'
    BY <1>1, <2>4 DEF IInv, ConnectionInv, RegisteredIsLive, NoForgottenFollow
  <2>8. QED BY <1>5, <2>4, <2>5, <2>6, <2>7 DEF IInv, ConnectionInv
<1>7. CASE Borrowed(r)
  <2>1. UNCHANGED entryVars
    BY <1>7 DEF Continue, Finally, Borrowed
  <2>2. \A u \in User : (Holding(u)' <=> Holding(u)) /\ (Given(u)' => Given(u))
    BY <1>1, <1>3, <1>4, <1>7 DEF Holding
  <2>3. EntriesSound' /\ ConnectionHeld' /\ RefCounted' /\ Linked'
    BY <1>1, <2>1, <2>2, EntriesKept DEF IInv, ConnectionInv, Linked
  <2>4. TypeOK'
    BY <1>1, <2>1 DEF IInv, TypeOK, entryVars
  <2>5. RegisteredIsLive' /\ NoForgottenFollow'
    BY <1>1, <2>1 DEF IInv, ConnectionInv, RegisteredIsLive, NoForgottenFollow, entryVars
  <2>6. QED BY <1>5, <2>3, <2>4, <2>5 DEF IInv, ConnectionInv
<1>8. QED BY <1>6, <1>7

-----------------------------------------------------------------------------
(* dispose. *)

LEMMA ReleasedAllType ==
  ASSUME IInv, NEW S \in SUBSET Follow
  PROVE  /\ ReleasedAll(S) \in [Connection -> Int]
         /\ \A n \in Connection : n > lastConn => ReleasedAll(S)[n] = 0
<1>1. \A n : IsFiniteSet({f \in S : conn[f] = n}) /\ Cardinality({f \in S : conn[f] = n}) \in Nat
  <2>1. \A n : {f \in S : conn[f] = n} \in SUBSET Follow
    OBVIOUS
  <2>2. QED BY <2>1, UsersAreFinite, FS_Subset, FS_CardinalityType
<1>2. ReleasedAll(S) \in [Connection -> Int]
  <2>1. \A n \in Connection : refCount[n] \in Int
    BY DEF IInv, TypeOK
  <2>2. ASSUME NEW n \in Connection
        PROVE  refCount[n] - Cardinality({f \in S : conn[f] = n}) \in Int
    <3>1. Cardinality({f \in S : conn[f] = n}) \in Nat /\ refCount[n] \in Int
      BY <1>1, <2>1
    <3>2. QED BY <3>1
  <2>3. QED BY <2>2 DEF ReleasedAll
<1>3. ASSUME NEW n \in Connection, n > lastConn PROVE ReleasedAll(S)[n] = 0
  <2>1. refCount[n] = 0
    BY <1>3 DEF IInv, ConnectionInv, EntriesSound
  <2>2. \A f \in S : conn[f] # n
    BY <1>3, UserKinds, NoneIsNothing DEF IInv, TypeOK, ConnectionInv, Linked, Connection
  <2>3. {f \in S : conn[f] = n} = {}
    BY <2>2
  <2>4. QED BY <2>1, <2>3, FS_EmptySet DEF ReleasedAll
<1>4. QED BY <1>2, <1>3

LEMMA DisposeStep ==
  ASSUME IInv, Dispose
  PROVE  IInv'
<1>1. /\ phase' = "disposed" /\ open' = {} /\ registered' = {}
      /\ chains' = [c \in Chain |-> None]
      /\ follow' = [f \in Follow |-> IF f \in Stored THEN "over" ELSE follow[f]]
      /\ node' = UnfollowedAll(Stored) /\ refCount' = ReleasedAll(Stored)
      /\ UNCHANGED <<lastConn, chain, conn, request, about, failures, unsent>>
  BY DEF Dispose, DisconnectedByDispose
<1>2. Stored \in SUBSET Follow
  BY DEF Stored
<1>3. TypeOK'
  BY <1>1, <1>2, ReleasedAllType DEF UnfollowedAll, IInv, TypeOK
<1>4. EntriesSound' /\ ConnectionHeld' /\ RefCounted' /\ RegisteredIsLive' /\ NoForgottenFollow'
  BY <1>1, <1>2, ReleasedAllType
  DEF EntriesSound, ConnectionHeld, RefCounted, RegisteredIsLive, NoForgottenFollow
<1>5. \A u \in User : Given(u)' => Given(u)
  BY <1>1 DEF Given, Stored
<1>6. Linked' /\ CleanedByAbort'
  BY <1>1, <1>5 DEF IInv, ConnectionInv, Linked, CleanedByAbort, Stored
<1>7. Borrowing'
  BY <1>1 DEF IInv, TypeOK, ConnectionInv, Borrowing, Borrowed
<1>8. QED BY <1>3, <1>4, <1>6, <1>7 DEF IInv, ConnectionInv

LEMMA DisposeThrowsStep ==
  ASSUME IInv, DisposeThrows
  PROVE  IInv'
<1>1. PICK S \in SUBSET Stored, f \in Stored :
        /\ f \notin S
        /\ follow[f] = "following" /\ node[f] = "active"
        /\ phase' = "aborted"
        /\ follow' = [g \in Follow |-> IF g \in S THEN "cleaned" ELSE
                                      IF g = f THEN "halted" ELSE follow[g]]
        /\ node' = UnfollowedAll(S)
        /\ unsent' = unsent \cup {f}
        /\ refCount' = ReleasedAll(S)
        /\ open' = open \ ClosedBy(S)
        /\ chains' = [c \in Chain |-> IF chains[c] \in ClosedBy(S) THEN None ELSE chains[c]]
        /\ registered' = {g \in registered \ (S \cup {f}) : conn[g] \notin ClosedBy(S)}
  BY DEF DisposeThrows
<1>2. UNCHANGED <<lastConn, chain, conn, request, about>> /\ failures' \in 0 .. MaxFailures
  BY BoundsAreNat DEF DisposeThrows, SendThrows, IInv, TypeOK
<1>3. /\ S \in SUBSET Follow /\ f \in Follow /\ f \notin S
      /\ \A g \in Follow : follow'[g] = IF g \in S THEN "cleaned" ELSE
                                         IF g = f THEN "halted" ELSE follow[g]
      /\ \A g \in S : follow[g] \in {"following", "halted", "cleaned"}
  BY <1>1 DEF Stored
<1>4. \A g \in Follow :
        node'[g] = IF g \in S /\ follow[g] = "following" /\ node[g] = "active"
                   THEN "unfollowed" ELSE node[g]
  BY <1>1 DEF UnfollowedAll
<1>5. /\ ReleasedAll(S) \in [Connection -> Int]
      /\ \A n \in Connection : n > lastConn => ReleasedAll(S)[n] = 0
  BY <1>3, ReleasedAllType
<1>6. \A c \in Chain : chains'[c] = IF chains[c] \in ClosedBy(S) THEN None ELSE chains[c]
  BY <1>1
<1>7. TypeOK'
  <2>1. follow' \in [Follow -> {"new", "following", "halted", "cleaned", "over"}]
    BY <1>1 DEF IInv, TypeOK
  <2>2. node' \in [Follow -> {"none", "asked", "accepted", "rejected", "active",
                             "unfollowed", "refused"}]
    BY <1>1 DEF UnfollowedAll, IInv, TypeOK
  <2>3. chains' \in [Chain -> Connection \cup {None}]
    BY <1>1 DEF IInv, TypeOK
  <2>4. QED BY <1>1, <1>2, <1>3, <1>5, <2>1, <2>2, <2>3 DEF IInv, TypeOK
<1>8. EntriesSound'
  <2>1. /\ \A c, d \in Chain : chains[c] # None /\ chains[c] = chains[d] => c = d
        /\ \A c \in Chain : chains[c] # None => chains[c] \in open
        /\ \A n \in open : n <= lastConn /\ \E c \in Chain : chains[c] = n
    BY DEF IInv, ConnectionInv, EntriesSound
  <2>2. (\A c, d \in Chain : chains[c] # None /\ chains[c] = chains[d] => c = d)'
    BY <1>6, <2>1
  <2>3. (\A c \in Chain : chains[c] # None => chains[c] \in open)'
    BY <1>1, <1>6, <2>1
  <2>4. (\A n \in open : n <= lastConn /\ \E c \in Chain : chains[c] = n)'
    BY <1>1, <1>2, <1>6, <2>1
  <2>5. (\A n \in Connection : n > lastConn => refCount[n] = 0)'
    BY <1>1, <1>2, <1>5
  <2>6. QED BY <2>2, <2>3, <2>4, <2>5 DEF EntriesSound
<1>9. ConnectionHeld' /\ RefCounted' /\ CleanedByAbort'
  BY <1>1 DEF ConnectionHeld, RefCounted, CleanedByAbort
<1>10. Linked'
  <2>1. \A u \in User : Given(u)' => Given(u)
    BY <1>1, <1>2, <1>3 DEF Given
  <2>2. \A u \in User : conn[u] # None => /\ chain[u] \in Chain /\ conn[u] <= lastConn
                                          /\ conn[u] \in open => chains[chain[u]] = conn[u]
    BY DEF IInv, ConnectionInv, Linked
  <2>3. QED BY <1>1, <1>2, <1>6, <2>1, <2>2 DEF IInv, ConnectionInv, Linked
<1>11. RegisteredIsLive'
  <2> SUFFICES ASSUME NEW g \in registered'
               PROVE  /\ follow'[g] = "following" /\ node'[g] = "active"
                      /\ conn[g] \in open' /\ chains'[chain[g]] = conn[g]
    BY <1>2 DEF RegisteredIsLive
  <2>1. g \in Follow /\ g \in User /\ g \notin S /\ g # f /\ conn[g] \notin ClosedBy(S)
    BY <1>1, UserKinds DEF IInv, TypeOK
  <2>2. /\ follow[g] = "following" /\ node[g] = "active"
        /\ conn[g] \in open /\ chains[chain[g]] = conn[g]
    BY <1>1 DEF IInv, ConnectionInv, RegisteredIsLive
  <2>3. chain[g] \in Chain
    BY <2>1, <2>2, NoneIsNothing DEF IInv, TypeOK, ConnectionInv, Linked
  <2>4. QED BY <1>1, <1>3, <1>4, <1>6, <2>1, <2>2, <2>3
<1>12. NoForgottenFollow'
  <2> SUFFICES ASSUME NEW g \in Follow, node'[g] = "active", conn[g] \in open'
               PROVE  g \in registered' \cup unsent'
    BY <1>2 DEF NoForgottenFollow
  <2>1. node[g] = "active" /\ conn[g] \in open /\ conn[g] \notin ClosedBy(S)
    BY <1>1, <1>4
  <2>2. g \in registered \cup unsent
    BY <2>1 DEF IInv, ConnectionInv, NoForgottenFollow
  <2>3. g \in registered => g \notin S
    BY <1>4, <2>1 DEF IInv, ConnectionInv, RegisteredIsLive
  <2>4. QED BY <1>1, <2>1, <2>2, <2>3
<1>13. Borrowing'
  BY <1>2, <1>3 DEF IInv, TypeOK, ConnectionInv, Borrowing, Borrowed
<1>14. QED BY <1>7, <1>8, <1>9, <1>10, <1>11, <1>12, <1>13 DEF IInv, ConnectionInv

-----------------------------------------------------------------------------

LEMMA NextInv == IInv /\ [Next]_vars => IInv'
<1> SUFFICES ASSUME IInv, [Next]_vars PROVE IInv'
  OBVIOUS
<1>1. ASSUME NEW f \in Follow, NEW c \in Chain, StartFollow(f, c) PROVE IInv'
  BY <1>1, StartFollowStep
<1>2. ASSUME NEW f \in Follow, NodeAnswers(f) PROVE IInv'
  BY <1>2, NodeAnswersStep
<1>3. ASSUME NEW f \in Follow, FollowAccepted(f) PROVE IInv'
  BY <1>3, FollowAcceptedStep
<1>4. ASSUME NEW f \in Follow, FollowRejected(f) PROVE IInv'
  BY <1>4, FollowRejectedStep
<1>5. ASSUME NEW f \in Follow, StopFollow(f) PROVE IInv'
  BY <1>5, StopFollowStep
<1>6. ASSUME NEW r \in Request, NEW f \in Follow, AskAboutFollow(r, f) PROVE IInv'
  BY <1>6, AskAboutFollowStep
<1>7. ASSUME NEW r \in Request, NEW c \in Chain, AskAboutChain(r, c) PROVE IInv'
  BY <1>7, AskAboutChainStep
<1>8. ASSUME NEW r \in Request, Settle(r) PROVE IInv'
  BY <1>8, SettleStep
<1>9. ASSUME NEW r \in Request, Continue(r) PROVE IInv'
  BY <1>9, ContinueStep
<1>10. CASE Dispose
  BY <1>10, DisposeStep
<1>11. CASE DisposeThrows
  BY <1>11, DisposeThrowsStep
<1>12. CASE UNCHANGED vars
  <2>1. TypeOK'
    BY <1>12 DEF IInv, TypeOK, vars, entryVars, userVars
  <2>2. \A u \in User : (Holding(u)' <=> Holding(u)) /\ (Given(u)' <=> Given(u))
    BY <1>12 DEF Holding, Given, Borrowed, vars, userVars
  <2>3. EntriesSound' /\ ConnectionHeld' /\ RefCounted' /\ Linked'
    BY <1>12, <2>2, EntriesKept DEF IInv, ConnectionInv, Linked, vars, userVars
  <2>4. RegisteredIsLive' /\ NoForgottenFollow' /\ Borrowing' /\ CleanedByAbort'
    BY <1>12 DEF IInv, ConnectionInv, RegisteredIsLive, NoForgottenFollow, Borrowing, Borrowed,
       CleanedByAbort, vars, entryVars, userVars
  <2>5. QED BY <2>1, <2>3, <2>4 DEF IInv, ConnectionInv
<1>13. QED
  BY <1>1, <1>2, <1>3, <1>4, <1>5, <1>6, <1>7, <1>8, <1>9, <1>10, <1>11, <1>12 DEF Next

LEMMA Inductive == Spec => []IInv
<1>1. QED BY InitInv, NextInv, PTL DEF Spec

(* Type correctness: every variable keeps its range whatever throws. *)
THEOREM TypeCorrect == Spec => []TypeOK
<1>1. IInv => TypeOK
  BY DEF IInv
<1>2. QED BY <1>1, Inductive, PTL

(* The inductive invariant of the connections, as the run checks it. *)
THEOREM InvariantCorrect == Spec => []ConnectionInv
<1>1. IInv => ConnectionInv
  BY DEF IInv
<1>2. QED BY <1>1, Inductive, PTL

(* No connection is closed, or replaced, under a user that has not released
   it, and dispose leaves none open. *)
THEOREM HeldCorrect == Spec => []ConnectionHeld
<1>1. IInv => ConnectionHeld
  BY DEF IInv, ConnectionInv
<1>2. QED BY <1>1, Inductive, PTL

(* refCount counts the users: none is counted twice or forgotten, also when
   calls of send throw, when follows are rejected and when they are stopped
   before they were answered. *)
THEOREM CountCorrect == Spec => []RefCounted
<1>1. IInv => RefCounted
  BY DEF IInv, ConnectionInv
<1>2. QED BY <1>1, Inductive, PTL

(* Events and requests are routed only to follows that are live on the present
   connection of their chain (eventListener and resolveFollow). *)
THEOREM LiveCorrect == Spec => []RegisteredIsLive
<1>1. IInv => RegisteredIsLive
  BY DEF IInv, ConnectionInv
<1>2. QED BY <1>1, Inductive, PTL

(* A follow that runs on a connected node is registered, or its unfollow could
   not be sent: a stop is never lost, before or after the node's answer. *)
THEOREM FollowsCorrect == Spec => []NoForgottenFollow
<1>1. IInv => NoForgottenFollow
  BY DEF IInv, ConnectionInv
<1>2. QED BY <1>1, Inductive, PTL

(* Only the requests of a follow that was stopped are left without an answer. *)
THEOREM AbandonedCorrect == Spec => []AbandonedWithFollow
<1>1. ASSUME IInv PROVE AbandonedWithFollow
  <2> SUFFICES ASSUME phase = "serving", NEW r \in Request, request[r] = "waiting",
                      Borrowed(r), conn[r] \notin open, follow[about[r]] = "following"
               PROVE  FALSE
    BY DEF AbandonedWithFollow
  <2>1. about[r] \in Follow /\ about[r] \in User /\ conn[r] = conn[about[r]]
    BY <1>1, UserKinds DEF IInv, TypeOK, ConnectionInv, Borrowing, Borrowed
  <2>2. Holding(about[r])
    BY <2>1 DEF Holding
  <2>3. /\ chain[about[r]] \in Chain /\ conn[about[r]] \in Connection
        /\ chains[chain[about[r]]] = conn[about[r]]
    BY <1>1, <2>1, <2>2 DEF IInv, ConnectionInv, ConnectionHeld
  <2>4. conn[about[r]] \in open
    BY <1>1, <2>3, NoneIsNothing DEF IInv, ConnectionInv, EntriesSound
  <2>5. QED BY <2>1, <2>4
<1>2. QED BY <1>1, Inductive, PTL

=============================================================================
