---------------------------- MODULE HostSdk_proofs ----------------------------
(* Proofs about pairing and the SDK's remote session, for any products and any
   number of attempts, builds, clears, reloads and failures: the types, that a
   remote session is never left behind, that what is paired survives a reload,
   and that whoever is signed in is whom the signer signs with. *)
EXTENDS HostSdk, TLAPS

SsoState == [status : {"idle", "pairing", "awaiting_scan", "paired", "failed"},
             session : Session \cup {None}]
BuildState == [phase : BuildPhase, session : Session \cup {None}]
ClearState == [phase : {"none", "secrets", "meta", "failed", "over"},
               session : Session \cup {None}]
RestoreState == [phase : {"loading", "verifying", "clearing", "over"},
                 session : Session \cup {None}, found : BOOLEAN]
AuthState == [status : {"idle", "pairing", "authenticated", "error"},
              session : Session \cup {None}, by : Build \cup {None}]

(* TypeOK in the groups in which the actions change variables. *)
StoreTypes == meta \in Session \cup {None} /\ secrets \subseteq Session
PairTypes ==
  /\ controller \in Session \cup {None}
  /\ attempt \in [Session -> AttemptPhase] /\ attesting \subseteq Session
  /\ lastPairing \in 0 .. MaxPairings
ClearTypes == unpair \in [Clear -> ClearState] /\ lastClear \in 0 .. MaxClears
SignerTypes ==
  /\ build \in [Build -> BuildState] /\ lastBuild \in 0 .. MaxBuilds
  /\ remote \in Build \cup {None} /\ live \subseteq Build
  /\ auth \in AuthState /\ overtaken \subseteq Build
PageTypes ==
  /\ identity \in {"unknown", "asked", "cached"}
  /\ product \in [Product -> {"none", "wired", "unwired"}]
  /\ disposed \in BOOLEAN
  /\ restarts \in 0 .. MaxRestarts /\ failures \in 0 .. MaxFailures
  /\ disturbed \subseteq Session

(* What is being verified is a session. *)
RestoreKnown == restore.phase = "verifying" => restore.session \in Session

Types ==
  /\ StoreTypes /\ PairTypes /\ ClearTypes /\ SignerTypes /\ PageTypes
  /\ sso \in SsoState /\ restore \in RestoreState
  /\ RestoreKnown

LEMMA TypesAreTypeOK == Types => TypeOK
BY DEF Types, TypeOK, StoreTypes, PairTypes, ClearTypes, SignerTypes, PageTypes,
       SsoState, BuildState, ClearState, RestoreState, AuthState

(* What restore can be, step by step. *)
LEMMA RestoredTypes == Restored \in RestoreState
BY Zenon DEF Restored, RestoreState

LEMMA NewPageTypes ==
  ASSUME NEW s \in Session \cup {None}
  PROVE  NewPage(s) \in RestoreState
BY Zenon DEF NewPage, RestoreState

LEMMA VerifyingTypes ==
  ASSUME restore \in RestoreState, NEW b \in BOOLEAN
  PROVE  [restore EXCEPT !.phase = "verifying", !.found = b] \in RestoreState
BY DEF RestoreState

LEMMA ClearingTypes ==
  ASSUME restore \in RestoreState
  PROVE  [restore EXCEPT !.phase = "clearing"] \in RestoreState
BY DEF RestoreState

LEMMA AuthIsTypes ==
  ASSUME NEW status \in {"idle", "pairing", "authenticated", "error"}
  PROVE  AuthIs(status) \in AuthState
BY DEF AuthIs, AuthState

LEMMA TypesInit == Init => Types
<1> SUFFICES ASSUME Init PROVE Types
  OBVIOUS
<1>1. StoreTypes /\ PairTypes
  BY BoundsAreNat DEF Init, StoreTypes, PairTypes, AttemptPhase
<1>2. ClearTypes
  BY BoundsAreNat DEF Init, ClearTypes, ClearState
<1>3. SignerTypes
  BY AuthIsTypes, BoundsAreNat DEF Init, SignerTypes, BuildState, BuildPhase
<1>4. disposed \in BOOLEAN
  BY Zenon DEF Init
<1>5. PageTypes
  BY <1>4, BoundsAreNat DEF Init, PageTypes
<1>6. sso \in SsoState /\ restore \in RestoreState
  BY NewPageTypes DEF Init, Idle, SsoState
<1>7. RestoreKnown
  BY DEF Init, RestoreKnown, NewPage
<1>8. QED BY <1>1, <1>2, <1>3, <1>5, <1>6, <1>7 DEF Types

-----------------------------------------------------------------------------
(* The steps that several actions share. *)

LEMMA StartBuildsTypes ==
  ASSUME SignerTypes, NEW s \in Session \cup {None}, NEW k \in Nat, StartBuilds(s, k)
  PROVE  build' \in [Build -> BuildState] /\ lastBuild' \in 0 .. MaxBuilds
BY BoundsAreNat DEF SignerTypes, StartBuilds, BuildState, BuildPhase

LEMMA TakeBackTypes ==
  ASSUME SignerTypes, NEW a \in AuthState, TakeBack(a)
  PROVE  /\ remote' \in Build \cup {None} /\ live' \subseteq Build
         /\ auth' \in AuthState /\ overtaken' \subseteq Build
BY DEF SignerTypes, TakeBack, DisposeRemoteSession, InFlight

LEMMA BecomePairedTypes ==
  ASSUME SignerTypes, sso \in SsoState, NEW s \in Session \cup {None}, NEW k \in Nat,
         BecomePaired(s, k)
  PROVE  SignerTypes' /\ sso' \in SsoState
<1>1. CASE disposed
  BY <1>1 DEF BecomePaired, SignerTypes, signerVars
<1>2. CASE ~disposed
  <2>1. build' \in [Build -> BuildState] /\ lastBuild' \in 0 .. MaxBuilds
    BY <1>2, StartBuildsTypes DEF BecomePaired
  <2>2. sso' \in SsoState /\ overtaken' \subseteq Build
    BY <1>2 DEF BecomePaired, SsoState, SignerTypes, InFlight
  <2>3. QED BY <1>2, <2>1, <2>2 DEF BecomePaired, SignerTypes
<1>3. QED BY <1>1, <1>2

LEMMA BecomeIdleTypes ==
  ASSUME SignerTypes, sso \in SsoState, BecomeIdle
  PROVE  SignerTypes' /\ sso' \in SsoState
<1>1. CASE disposed
  BY <1>1 DEF BecomeIdle, SignerTypes, signerVars
<1>2. CASE ~disposed
  <2>1. sso' \in SsoState /\ UNCHANGED <<build, lastBuild>>
    BY <1>2 DEF BecomeIdle, Idle, SsoState
  <2>2. /\ remote' \in Build \cup {None} /\ live' \subseteq Build
        /\ auth' \in AuthState /\ overtaken' \subseteq Build
    BY <1>2, TakeBackTypes, AuthIsTypes DEF BecomeIdle, SignerTypes
  <2>3. QED BY <2>1, <2>2 DEF SignerTypes
<1>3. QED BY <1>1, <1>2

LEMMA ProgressTypes ==
  ASSUME SignerTypes, NEW status \in {"pairing", "awaiting_scan", "failed"}, Progress(status)
  PROVE  SignerTypes' /\ sso' \in SsoState
BY AuthIsTypes DEF SignerTypes, Progress, SsoState

LEMMA AbortTypes ==
  ASSUME PairTypes, Abort
  PROVE  /\ controller' \in Session \cup {None} /\ attempt' \in [Session -> AttemptPhase]
         /\ attesting' \subseteq Session
BY DEF PairTypes, Abort, AttemptPhase

-----------------------------------------------------------------------------
(* One lemma for each group of actions. *)

LEMMA RestartTypes ==
  ASSUME Types, Restart
  PROVE  Types'
<1>0. disposed' \in BOOLEAN
  BY Zenon DEF Restart
<1>1. StoreTypes' /\ PageTypes'
  BY <1>0, BoundsAreNat DEF Restart, Types, StoreTypes, PageTypes, storeVars
<1>2. PairTypes'
  BY DEF Restart, Types, PairTypes, AttemptPhase
<1>3. ClearTypes'
  BY DEF Restart, Types, ClearTypes, ClearState
<1>4. SignerTypes'
  BY AuthIsTypes, BoundsAreNat DEF Restart, SignerTypes, BuildState, BuildPhase
<1>5. sso' \in SsoState /\ restore' \in RestoreState
  BY NewPageTypes DEF Restart, Idle, SsoState, Types, StoreTypes
<1>6. RestoreKnown'
  BY DEF Restart, RestoreKnown, NewPage
<1>7. QED BY <1>1, <1>2, <1>3, <1>4, <1>5, <1>6 DEF Types

LEMMA RestoreTypes ==
  ASSUME Types, RestoreLoaded \/ RestoreVerified \/ RestoreCleared
  PROVE  Types'
<1>1. ASSUME RestoreReturns PROVE build' \in [Build -> BuildState] /\ lastBuild' \in 0 .. MaxBuilds
  BY <1>1, StartBuildsTypes DEF RestoreReturns, Types, SsoState, SignerTypes
<1>2. CASE RestoreLoaded
  <2>1. restore' \in RestoreState
    <3>1. (restore.session \in secrets) \in BOOLEAN
      OBVIOUS
    <3>2. [restore EXCEPT !.phase = "verifying", !.found = restore.session \in secrets] \in RestoreState
      BY <3>1, VerifyingTypes, Zenon DEF Types
    <3>3. QED BY <1>2, <3>2, RestoredTypes, Zenon DEF RestoreLoaded
  <2>2. build' \in [Build -> BuildState] /\ lastBuild' \in 0 .. MaxBuilds
    BY <1>1, <1>2 DEF RestoreLoaded, Types, SignerTypes
  <2>0. restore.session \in Session \cup {None} /\ restore.phase = "loading"
    BY <1>2 DEF RestoreLoaded, Types, RestoreState
  <2>3. RestoreKnown'
    <3>1. CASE restore.session = None
      BY <1>2, <3>1 DEF RestoreLoaded, RestoreKnown, Restored
    <3>2. CASE restore.session # None
      <4> DEFINE found == restore.session \in secrets
      <4>1. restore' = [restore EXCEPT !.phase = "verifying", !.found = found]
        BY <1>2, <3>2, Zenon DEF RestoreLoaded
      <4> HIDE DEF found
      <4>2. restore'.session = restore.session
        BY <4>1 DEF Types, RestoreState
      <4>3. QED BY <2>0, <3>2, <4>2 DEF RestoreKnown
    <3>3. QED BY <3>1, <3>2
  <2>4. QED BY <1>2, <2>1, <2>2, <2>3 DEF RestoreLoaded, Types, StoreTypes, PairTypes, ClearTypes, SignerTypes,
               PageTypes, storeVars, pairVars, clearVars
<1>3. CASE RestoreCleared
  <2>1. restore' \in RestoreState
    BY <1>3, RestoredTypes DEF RestoreCleared
  <2>2. build' \in [Build -> BuildState] /\ lastBuild' \in 0 .. MaxBuilds
    BY <1>1, <1>3 DEF RestoreCleared
  <2>3. RestoreKnown'
    BY <1>3 DEF RestoreCleared, RestoreKnown, Restored
  <2>4. QED BY <1>3, <2>1, <2>2, <2>3 DEF RestoreCleared, Types, StoreTypes, PairTypes, ClearTypes, SignerTypes,
               PageTypes, storeVars, pairVars, clearVars
<1>4. CASE RestoreVerified
  <2>1. restore' \in RestoreState
    BY <1>4, RestoredTypes, ClearingTypes, Zenon DEF RestoreVerified, Types
  <2>2. SignerTypes' /\ sso' \in SsoState
    <3>1. CASE UNCHANGED <<sso, signerVars>>
      BY <3>1 DEF Types, SignerTypes, signerVars
    <3>2. CASE BecomePaired(restore.session, 2)
      BY <3>2, BecomePairedTypes DEF Types, RestoreState
    <3>3. CASE RestoreReturns /\ UNCHANGED <<sso, remote, live, auth, overtaken>>
      BY <1>1, <3>3 DEF Types, SignerTypes
    <3>4. QED BY <1>4, <3>1, <3>2, <3>3 DEF RestoreVerified
  <2>3. StoreTypes'
    BY <1>4 DEF RestoreVerified, Types, StoreTypes
  <2>4. PageTypes'
    <3>1. failures' \in 0 .. MaxFailures
      BY <1>4, BoundsAreNat DEF RestoreVerified, Types, PageTypes, Fails
    <3>2. disturbed' \subseteq Session
      <4>1. disturbed \subseteq Session /\ meta \in Session \cup {None} /\ restore.session \in Session \cup {None}
        BY DEF Types, PageTypes, StoreTypes, RestoreState
      <4>2. CASE Verified
        <5>1. restore.session \in Session
          BY <1>4 DEF RestoreVerified, Types, RestoreKnown
        <5>2. QED BY <1>4, <4>1, <4>2, <5>1 DEF RestoreVerified
      <4>3. CASE ~Verified
        BY <1>4, <4>1, <4>3 DEF RestoreVerified
      <4>4. QED BY <4>2, <4>3
    <3>3. QED BY <1>4, <3>1, <3>2 DEF RestoreVerified, Types, PageTypes
  <2>5. RestoreKnown'
    BY <1>4 DEF RestoreVerified, RestoreKnown, Restored, Types, RestoreState
  <2>6. QED BY <1>4, <2>1, <2>2, <2>3, <2>4, <2>5 DEF RestoreVerified, Types, PairTypes, ClearTypes, pairVars, clearVars
<1>5. QED BY <1>2, <1>3, <1>4

LEMMA PairTyped ==
  ASSUME Types, Pair
  PROVE  Types'
<1>1. lastPairing + 1 \in Session
  BY BoundsAreNat DEF Pair, Types, PairTypes, Session
<1>2. SignerTypes' /\ sso' \in SsoState
  BY ProgressTypes DEF Pair, Types
<1>3. PairTypes'
  BY <1>1 DEF Pair, Types, PairTypes, AttemptPhase
<1>4. failures' \in 0 .. MaxFailures
  BY BoundsAreNat DEF Pair, Fails, Types, PageTypes
<1>5. QED BY <1>2, <1>3, <1>4 DEF Pair, Types, StoreTypes, ClearTypes, PageTypes, RestoreKnown, storeVars, clearVars

LEMMA AttemptTyped ==
  ASSUME Types, NEW n \in Session,
         PairFails(n) \/ WalletAnswers(n) \/ AttestationEnds(n) \/ Paired(n)
  PROVE  Types'
<1>1. SignerTypes' /\ sso' \in SsoState
  BY ProgressTypes, BecomePairedTypes
  DEF PairFails, WalletAnswers, AttestationEnds, Paired, Types, SignerTypes, signerVars
<1>2. PairTypes'
  BY DEF PairFails, WalletAnswers, AttestationEnds, Paired, Types, PairTypes, AttemptPhase
<1>3. QED BY <1>1, <1>2
  DEF PairFails, WalletAnswers, AttestationEnds, Paired, Types, StoreTypes, ClearTypes, PageTypes,
      RestoreKnown, storeVars, clearVars

LEMMA SaveTyped ==
  ASSUME Types, NEW n \in Session, SaveMeta(n) \/ SaveSecrets(n)
  PROVE  Types'
<1>1. StoreTypes'
  BY DEF SaveMeta, SaveSecrets, Types, StoreTypes, WithSecrets
<1>2. PairTypes'
  BY DEF SaveMeta, SaveSecrets, Types, PairTypes, AttemptPhase
<1>3. failures' \in 0 .. MaxFailures
  BY BoundsAreNat DEF SaveMeta, SaveSecrets, Fails, Types, PageTypes
<1>4. disturbed' \subseteq Session
  BY DEF SaveMeta, SaveSecrets, Types, PageTypes, StoreTypes
<1>5. QED BY <1>1, <1>2, <1>3, <1>4
  DEF SaveMeta, SaveSecrets, Types, ClearTypes, SignerTypes, PageTypes, RestoreKnown, clearVars, signerVars

LEMMA CancelTyped ==
  ASSUME Types, CancelPairing
  PROVE  Types'
<1>1. PairTypes'
  BY AbortTypes DEF CancelPairing, Types, PairTypes
<1>2. SignerTypes' /\ sso' \in SsoState
  BY BecomeIdleTypes DEF CancelPairing, Types, SignerTypes, signerVars
<1>3. disturbed' \subseteq Session
  BY DEF CancelPairing, AbortedWhileSaving, Types, PageTypes
<1>4. QED BY <1>1, <1>2, <1>3
  DEF CancelPairing, Types, StoreTypes, ClearTypes, PageTypes, RestoreKnown, storeVars, clearVars

LEMMA ClearTyped ==
  ASSUME Types, ClearSession
  PROVE  Types'
<1> DEFINE u == lastClear + 1
           s == IF sso.status = "paired" THEN sso.session ELSE None
<1>1. s \in Session \cup {None}
  BY DEF Types, SsoState
<1>2. u \in Clear /\ u \in 0 .. MaxClears /\ lastClear' = u
  BY BoundsAreNat DEF ClearSession, Types, ClearTypes, Clear
<1>3. ClearTypes'
  <2>1. PICK phase \in {"secrets", "meta", "failed"} :
          unpair' = [unpair EXCEPT ![u] = [phase |-> phase, session |-> s]]
    BY DEF ClearSession
  <2> DEFINE r == [phase |-> phase, session |-> s]
  <2>2. r \in ClearState
    BY <1>1 DEF ClearState
  <2>3. unpair' = [unpair EXCEPT ![u] = r]
    BY <2>1
  <2> HIDE DEF r
  <2>4. QED BY <1>2, <2>2, <2>3 DEF Types, ClearTypes
<1>4. PairTypes'
  BY AbortTypes DEF ClearSession, Types, PairTypes
<1>5. StoreTypes' /\ sso' \in SsoState
  BY DEF ClearSession, Types, StoreTypes, SsoState, Idle, storeVars
<1>6. SignerTypes'
  BY TakeBackTypes, AuthIsTypes DEF ClearSession, Types, SignerTypes
<1>7. disturbed' \subseteq Session
  BY <1>1 DEF ClearSession, AbortedWhileSaving, Types, PageTypes, StoreTypes
<1>8. failures' \in 0 .. MaxFailures
  BY BoundsAreNat DEF ClearSession, Fails, Types, PageTypes
<1>9. QED BY <1>3, <1>4, <1>5, <1>6, <1>7, <1>8 DEF ClearSession, Types, PageTypes, RestoreKnown

LEMMA UnpairTyped ==
  ASSUME Types, NEW u \in Clear, UnpairMeta(u) \/ Unpaired(u)
  PROVE  Types'
<1>1. unpair' \in [Clear -> ClearState]
  <2>1. unpair[u] \in ClearState
    BY DEF Types, ClearTypes
  <2>2. CASE Unpaired(u)
    BY <2>2 DEF Unpaired, Types, ClearTypes, ClearState
  <2>3. CASE UnpairMeta(u)
    <3>1. PICK phase \in {"meta", "failed"} : unpair' = [unpair EXCEPT ![u].phase = phase]
      BY <2>3 DEF UnpairMeta
    <3> DEFINE r == [unpair[u] EXCEPT !.phase = phase]
    <3>2. r \in ClearState
      BY <2>1 DEF ClearState
    <3>3. unpair' = [unpair EXCEPT ![u] = r]
      BY <3>1
    <3>4. QED BY <3>2, <3>3 DEF Types, ClearTypes
  <2>4. QED BY <2>2, <2>3
<1>2. SignerTypes' /\ sso' \in SsoState
  BY BecomeIdleTypes DEF UnpairMeta, Unpaired, Types, SignerTypes, signerVars
<1>3. StoreTypes'
  BY DEF UnpairMeta, Unpaired, Types, StoreTypes, storeVars
<1>4. disturbed' \subseteq Session /\ failures' \in 0 .. MaxFailures
  BY BoundsAreNat DEF UnpairMeta, Unpaired, Types, StoreTypes, PageTypes, Fails
<1>5. QED BY <1>1, <1>2, <1>3, <1>4
  DEF UnpairMeta, Unpaired, Types, PairTypes, ClearTypes, PageTypes, RestoreKnown, pairVars

LEMMA DisposeTyped ==
  ASSUME Types, Dispose
  PROVE  Types'
<1>1. PairTypes'
  BY AbortTypes DEF Dispose, Types, PairTypes
<1>2. SignerTypes'
  BY TakeBackTypes, AuthIsTypes DEF Dispose, Types, SignerTypes
<1>3. sso' \in SsoState
  BY DEF Dispose, Types, SsoState, Idle
<1>4. disposed' \in BOOLEAN
  BY Zenon DEF Dispose
<1>5. disturbed' \subseteq Session
  BY DEF Dispose, AbortedWhileSaving, Types, PageTypes
<1>6. QED BY <1>1, <1>2, <1>3, <1>4, <1>5
  DEF Dispose, Types, StoreTypes, ClearTypes, PageTypes, RestoreKnown, storeVars, clearVars

LEMMA BuildTyped ==
  ASSUME Types, IdentityResolved \/ \E b \in Build : BuildSession(b) \/ FinishBuild(b)
  PROVE  Types'
<1>1. build' \in [Build -> BuildState]
  BY DEF BuildSession, FinishBuild, IdentityResolved, Types, SignerTypes, BuildState, BuildPhase
<1>2. remote' \in Build \cup {None} /\ live' \subseteq Build
  BY DEF BuildSession, FinishBuild, IdentityResolved, DisposeRemoteSession, Types, SignerTypes
<1>3. auth' \in AuthState
  BY DEF BuildSession, FinishBuild, IdentityResolved, SignedIn, Types, SignerTypes, AuthState, BuildState
<1>4. identity' \in {"unknown", "asked", "cached"}
  BY DEF BuildSession, FinishBuild, IdentityResolved, NodeAnswer, Types, PageTypes
<1>5. QED BY <1>1, <1>2, <1>3, <1>4
  DEF BuildSession, FinishBuild, IdentityResolved, Types, StoreTypes, PairTypes, ClearTypes, SignerTypes,
      PageTypes, RestoreKnown, storeVars, pairVars, clearVars

LEMMA EmbedTyped ==
  ASSUME Types, NEW p \in Product, Embed(p) \/ Unembed(p)
  PROVE  Types'
BY DEF Embed, Unembed, Types, StoreTypes, PairTypes, ClearTypes, SignerTypes, PageTypes, RestoreKnown,
       storeVars, pairVars, clearVars, signerVars

LEMMA TypesStep == Types /\ [Next]_vars => Types'
<1> SUFFICES ASSUME Types, [Next]_vars PROVE Types'
  OBVIOUS
<1>1. CASE UNCHANGED vars
  BY <1>1 DEF vars, storeVars, pairVars, clearVars, signerVars, Types, StoreTypes, PairTypes, ClearTypes,
              SignerTypes, PageTypes, RestoreKnown
<1>2. CASE Next
  BY <1>2, RestartTypes, RestoreTypes, PairTyped, AttemptTyped, SaveTyped, CancelTyped, ClearTyped,
     UnpairTyped, DisposeTyped, BuildTyped, EmbedTyped, Zenon DEF Next, PageStep
<1>3. QED BY <1>1, <1>2

(* Every state of every instance is well typed. *)
THEOREM TypeCorrect == Spec => []TypeOK
<1>1. Spec => []Types
  BY TypesInit, TypesStep, PTL DEF Spec
<1>2. QED BY <1>1, TypesAreTypeOK, PTL

-----------------------------------------------------------------------------
(* The SDK's one place for a remote session. *)

(* Taking back leaves nothing, building one leaves that. *)
LEMMA TakeBackLeavesNothing ==
  ASSUME NoLeakedSession, NEW a, TakeBack(a)
  PROVE  NoLeakedSession'
BY DEF NoLeakedSession, TakeBack, DisposeRemoteSession

LEMMA BuildReplaces ==
  ASSUME NoLeakedSession, NEW b \in Build, BuildSession(b)
  PROVE  NoLeakedSession'
BY BoundsAreNat DEF NoLeakedSession, BuildSession, DisposeRemoteSession, Build, None

LEMMA BecomeIdleKeeps ==
  ASSUME NoLeakedSession, BecomeIdle
  PROVE  NoLeakedSession'
BY TakeBackLeavesNothing DEF BecomeIdle, NoLeakedSession, signerVars

LEMMA NoLeakStep == NoLeakedSession /\ [Next]_vars => NoLeakedSession'
<1> SUFFICES ASSUME NoLeakedSession, [Next]_vars PROVE NoLeakedSession'
  OBVIOUS
<1> DEFINE Same == UNCHANGED <<remote, live>>
<1>1. Same => NoLeakedSession'
  BY DEF NoLeakedSession
<1>2. CASE UNCHANGED vars
  BY <1>1, <1>2 DEF vars, signerVars
<1>3. CASE Restart
  BY <1>3 DEF Restart, NoLeakedSession
<1>4. CASE RestoreLoaded \/ RestoreVerified \/ RestoreCleared
  BY <1>1, <1>4 DEF RestoreLoaded, RestoreVerified, RestoreCleared, BecomePaired, signerVars
<1>5. CASE Pair
  BY <1>1, <1>5 DEF Pair, Progress
<1>6. ASSUME NEW n \in Session,
             \/ PairFails(n) \/ WalletAnswers(n) \/ AttestationEnds(n)
             \/ SaveMeta(n) \/ SaveSecrets(n) \/ Paired(n)
      PROVE  NoLeakedSession'
  BY <1>1, <1>6 DEF PairFails, WalletAnswers, AttestationEnds, SaveMeta, SaveSecrets, Paired,
                    Progress, BecomePaired, signerVars
<1>7. CASE CancelPairing
  BY <1>1, <1>7, BecomeIdleKeeps DEF CancelPairing, signerVars
<1>8. CASE ClearSession \/ Dispose
  BY <1>8, TakeBackLeavesNothing DEF ClearSession, Dispose
<1>9. ASSUME NEW u \in Clear, UnpairMeta(u) \/ Unpaired(u)
      PROVE  NoLeakedSession'
  BY <1>1, <1>9, BecomeIdleKeeps DEF UnpairMeta, Unpaired, signerVars
<1>10. ASSUME NEW b \in Build, BuildSession(b) \/ FinishBuild(b)
       PROVE  NoLeakedSession'
  BY <1>1, <1>10, BuildReplaces DEF FinishBuild
<1>11. CASE IdentityResolved
  BY <1>1, <1>11 DEF IdentityResolved
<1>12. ASSUME NEW p \in Product, Embed(p) \/ Unembed(p)
       PROVE  NoLeakedSession'
  BY <1>1, <1>12 DEF Embed, Unembed, signerVars
<1>13. QED BY <1>2, <1>3, <1>4, <1>5, <1>6, <1>7, <1>8, <1>9, <1>10, <1>11, <1>12 DEF Next, PageStep

(* However builds, clears, pairings, reloads and disposal overlap, at most one
   remote session is undisposed, and it is the one the SDK holds. *)
THEOREM NoLeakCorrect == Spec => []NoLeakedSession
<1>1. Init => NoLeakedSession
  BY DEF Init, NoLeakedSession
<1>2. QED BY <1>1, NoLeakStep, PTL DEF Spec

-----------------------------------------------------------------------------
(* What is stored.  That a pairing survives is not inductive: it rests on what
   an attempt has saved so far, and on what a restore has found. *)
SavedSoFar ==
  \A n \in Session : n \notin disturbed =>
    /\ attempt[n] = "savingMeta" => meta = n
    /\ attempt[n] = "savingSecrets" => meta = n /\ n \in secrets
FoundSoFar ==
  restore.phase = "verifying" /\ restore.session \notin disturbed /\ restore.found =>
    restore.session \in secrets
PairingInv == Types /\ SavedSoFar /\ FoundSoFar /\ PairedSurvives

LEMMA PairingInvInit == Init => PairingInv
<1> SUFFICES ASSUME Init PROVE PairingInv
  OBVIOUS
<1>1. Types
  BY TypesInit
<1>2. SavedSoFar
  BY DEF Init, SavedSoFar
<1>3. FoundSoFar
  BY DEF Init, FoundSoFar, NewPage
<1>4. PairedSurvives
  BY DEF Init, PairedSurvives, Idle
<1>5. QED BY <1>1, <1>2, <1>3, <1>4 DEF PairingInv

(* Whoever writes the store disturbs what it held. *)
LEMMA StoreStep ==
  ASSUME Types, [Next]_vars
  PROVE  /\ disturbed \subseteq disturbed'
         /\ secrets \ disturbed' \subseteq secrets'
         /\ meta' = meta \/ meta = None \/ meta \in disturbed'
<1>1. CASE UNCHANGED vars
  BY <1>1 DEF vars, storeVars
<1>2. CASE Restart
  BY <1>2 DEF Restart, storeVars
<1>3. CASE RestoreLoaded \/ RestoreCleared
  BY <1>3 DEF RestoreLoaded, RestoreCleared, storeVars
<1>4. CASE RestoreVerified
  BY <1>4 DEF RestoreVerified
<1>5. CASE Pair \/ CancelPairing \/ Dispose \/ IdentityResolved
  BY <1>5 DEF Pair, CancelPairing, Dispose, IdentityResolved, storeVars
<1>6. ASSUME NEW n \in Session,
             \/ PairFails(n) \/ WalletAnswers(n) \/ AttestationEnds(n)
             \/ SaveMeta(n) \/ SaveSecrets(n) \/ Paired(n)
      PROVE  /\ disturbed \subseteq disturbed'
             /\ secrets \ disturbed' \subseteq secrets'
             /\ meta' = meta \/ meta = None \/ meta \in disturbed'
  BY <1>6 DEF PairFails, WalletAnswers, AttestationEnds, SaveMeta, SaveSecrets, Paired, WithSecrets, storeVars
<1>7. CASE ClearSession
  BY <1>7 DEF ClearSession, storeVars, None
<1>8. ASSUME NEW u \in Clear, UnpairMeta(u) \/ Unpaired(u)
      PROVE  /\ disturbed \subseteq disturbed'
             /\ secrets \ disturbed' \subseteq secrets'
             /\ meta' = meta \/ meta = None \/ meta \in disturbed'
  BY <1>8 DEF UnpairMeta, Unpaired, storeVars
<1>9. ASSUME NEW b \in Build, BuildSession(b) \/ FinishBuild(b)
      PROVE  UNCHANGED <<storeVars, disturbed>>
  BY <1>9 DEF BuildSession, FinishBuild
<1>10. ASSUME NEW p \in Product, Embed(p) \/ Unembed(p)
       PROVE  UNCHANGED <<storeVars, disturbed>>
  BY <1>10 DEF Embed, Unembed
<1>11. QED BY <1>1, <1>2, <1>3, <1>4, <1>5, <1>6, <1>7, <1>8, <1>9, <1>10 DEF Next, PageStep, storeVars

(* An attempt has saved only what it has saved itself. *)
LEMMA AttemptStep ==
  ASSUME Types, [Next]_vars, NEW n \in Session, attempt'[n] \in {"savingMeta", "savingSecrets"}
  PROVE  \/ attempt'[n] = attempt[n]
         \/ attempt'[n] = "savingMeta" /\ meta' = n
         \/ /\ attempt'[n] = "savingSecrets" /\ attempt[n] = "savingMeta"
            /\ secrets' = secrets \cup {n} /\ meta' = meta /\ disturbed' = disturbed
<1> DEFINE Goal == \/ attempt'[n] = attempt[n]
                   \/ attempt'[n] = "savingMeta" /\ meta' = n
                   \/ /\ attempt'[n] = "savingSecrets" /\ attempt[n] = "savingMeta"
                      /\ secrets' = secrets \cup {n} /\ meta' = meta /\ disturbed' = disturbed
<1>1. UNCHANGED attempt => Goal
  OBVIOUS
<1>2. CASE UNCHANGED vars
  BY <1>1, <1>2 DEF vars, pairVars
<1>3. CASE Restart
  BY <1>3 DEF Restart
<1>4. CASE RestoreLoaded \/ RestoreVerified \/ RestoreCleared \/ IdentityResolved
  BY <1>1, <1>4 DEF RestoreLoaded, RestoreVerified, RestoreCleared, IdentityResolved, pairVars
<1>5. CASE Pair
  BY <1>5 DEF Pair, Types, PairTypes
<1>6. CASE CancelPairing \/ ClearSession \/ Dispose
  BY <1>6 DEF CancelPairing, ClearSession, Dispose, Abort
<1>7. ASSUME NEW i \in Session,
             PairFails(i) \/ WalletAnswers(i) \/ AttestationEnds(i) \/ Paired(i)
      PROVE  Goal
  BY <1>7 DEF PairFails, WalletAnswers, AttestationEnds, Paired, Types, PairTypes
<1>8. ASSUME NEW i \in Session, SaveMeta(i) \/ SaveSecrets(i)
      PROVE  Goal
  BY <1>8 DEF SaveMeta, SaveSecrets, WithSecrets, Types, PairTypes
<1>9. ASSUME NEW u \in Clear, UnpairMeta(u) \/ Unpaired(u)
      PROVE  UNCHANGED attempt
  BY <1>9 DEF UnpairMeta, Unpaired, pairVars
<1>10. ASSUME NEW b \in Build, BuildSession(b) \/ FinishBuild(b)
       PROVE  UNCHANGED attempt
  BY <1>10 DEF BuildSession, FinishBuild, pairVars
<1>11. ASSUME NEW p \in Product, Embed(p) \/ Unembed(p)
       PROVE  UNCHANGED attempt
  BY <1>11 DEF Embed, Unembed, pairVars
<1>12. QED BY <1>1, <1>2, <1>3, <1>4, <1>5, <1>6, <1>7, <1>8, <1>9, <1>10, <1>11 DEF Next, PageStep

LEMMA SavedStep ==
  ASSUME Types, SavedSoFar, [Next]_vars
  PROVE  SavedSoFar'
<1> SUFFICES ASSUME NEW n \in Session, n \notin disturbed'
             PROVE  /\ attempt'[n] = "savingMeta" => meta' = n
                    /\ attempt'[n] = "savingSecrets" => meta' = n /\ n \in secrets'
  BY DEF SavedSoFar
<1>1. disturbed \subseteq disturbed' /\ (secrets \ disturbed' \subseteq secrets')
  BY StoreStep
<1>2. meta' = meta \/ meta = None \/ meta \in disturbed'
  BY StoreStep
<1>3. CASE attempt'[n] \notin {"savingMeta", "savingSecrets"}
  BY <1>3
<1>4. CASE attempt'[n] = attempt[n]
  BY <1>1, <1>2, <1>4 DEF SavedSoFar, Session, None
<1>5. CASE attempt'[n] \in {"savingMeta", "savingSecrets"} /\ attempt'[n] # attempt[n]
  BY <1>1, <1>5, AttemptStep DEF SavedSoFar
<1>6. QED BY <1>3, <1>4, <1>5

(* Restore looks for the secrets once; they stay unless disturbed. *)
LEMMA FoundStep ==
  ASSUME Types, FoundSoFar, [Next]_vars
  PROVE  FoundSoFar'
<1>1. UNCHANGED restore => FoundSoFar'
  BY StoreStep, Zenon DEF FoundSoFar
<1>2. CASE UNCHANGED vars
  BY <1>1, <1>2 DEF vars
<1>3. CASE Restart
  BY <1>3 DEF Restart, FoundSoFar, NewPage
<1>4. CASE RestoreLoaded
  <2>1. CASE restore.session = None
    BY <1>4, <2>1 DEF RestoreLoaded, FoundSoFar, Restored
  <2>2. CASE restore.session # None
    <3> DEFINE found == restore.session \in secrets
    <3>1. restore' = [restore EXCEPT !.phase = "verifying", !.found = found] /\ secrets' = secrets
      BY <1>4, <2>2, Zenon DEF RestoreLoaded, storeVars
    <3>2. found \in BOOLEAN
      OBVIOUS
    <3> HIDE DEF found
    <3>3. restore'.found = found /\ restore'.session = restore.session
      BY <3>1, <3>2 DEF Types, RestoreState
    <3>4. restore'.found => restore'.session \in secrets'
      BY <3>1, <3>3, Zenon DEF found
    <3>5. QED BY <3>4, Zenon DEF FoundSoFar
  <2>3. QED BY <2>1, <2>2
<1>5. CASE RestoreVerified \/ RestoreCleared
  <2>1. restore'.phase # "verifying"
    BY <1>5 DEF RestoreVerified, RestoreCleared, Restored, Types, RestoreState
  <2>2. QED BY <2>1 DEF FoundSoFar
<1>6. CASE Pair \/ CancelPairing \/ ClearSession \/ Dispose \/ IdentityResolved
  BY <1>1, <1>6 DEF Pair, CancelPairing, ClearSession, Dispose, IdentityResolved
<1>7. ASSUME NEW n \in Session,
             \/ PairFails(n) \/ WalletAnswers(n) \/ AttestationEnds(n)
             \/ SaveMeta(n) \/ SaveSecrets(n) \/ Paired(n)
      PROVE  UNCHANGED restore
  BY <1>7 DEF PairFails, WalletAnswers, AttestationEnds, SaveMeta, SaveSecrets, Paired
<1>8. ASSUME NEW u \in Clear, UnpairMeta(u) \/ Unpaired(u)
      PROVE  UNCHANGED restore
  BY <1>8 DEF UnpairMeta, Unpaired
<1>9. ASSUME NEW b \in Build, BuildSession(b) \/ FinishBuild(b)
      PROVE  UNCHANGED restore
  BY <1>9 DEF BuildSession, FinishBuild
<1>10. ASSUME NEW p \in Product, Embed(p) \/ Unembed(p)
       PROVE  UNCHANGED restore
  BY <1>10 DEF Embed, Unembed
<1>11. QED BY <1>1, <1>2, <1>3, <1>4, <1>5, <1>6, <1>7, <1>8, <1>9, <1>10 DEF Next, PageStep

(* What the manager says changes to paired only when it has been saved, or
   found. *)
LEMMA SurvivesStep ==
  ASSUME PairingInv, [Next]_vars
  PROVE  PairedSurvives'
<1> DEFINE Was == sso'.status = "paired" => sso.status = "paired" /\ sso'.session = sso.session
<1>1. ASSUME Was PROVE PairedSurvives'
  <2>1. SUFFICES ASSUME sso'.status = "paired", sso'.session \notin disturbed'
                 PROVE  meta' = sso'.session /\ sso'.session \in secrets'
    BY DEF PairedSurvives
  <2>2. meta = sso.session /\ sso.session \in secrets /\ sso'.session = sso.session
    BY <1>1, <2>1, StoreStep DEF PairingInv, PairedSurvives
  <2>3. meta # None
    BY <2>2 DEF PairingInv, Types, StoreTypes, Session, None
  <2>4. QED BY <2>1, <2>2, <2>3, StoreStep DEF PairingInv
<1>2. UNCHANGED sso => Was
  BY Zenon
<1>3. BecomeIdle => Was
  BY DEF BecomeIdle, Idle, signerVars
<1>4. CASE UNCHANGED vars
  BY <1>1, <1>2, <1>4 DEF vars
<1>5. CASE Restart
  BY <1>1, <1>5 DEF Restart, Idle
<1>6. CASE RestoreVerified
  <2>1. CASE UNCHANGED sso
    BY <1>1, <1>2, <2>1
  <2>2. CASE ~UNCHANGED sso
    <3>1. /\ Verified /\ restore.phase = "verifying"
          /\ sso' = [status |-> "paired", session |-> restore.session]
          /\ disturbed' = IF sso = Idle /\ meta = restore.session THEN disturbed
                          ELSE disturbed \cup {restore.session}
          /\ UNCHANGED <<meta, secrets>>
      BY <1>6, <2>2 DEF RestoreVerified, BecomePaired
    <3>2. QED BY <3>1 DEF PairedSurvives, PairingInv, FoundSoFar, Verified
  <2>3. QED BY <2>1, <2>2
<1>7. CASE RestoreLoaded \/ RestoreCleared \/ IdentityResolved
  BY <1>1, <1>2, <1>7 DEF RestoreLoaded, RestoreCleared, IdentityResolved
<1>8. CASE Pair
  BY <1>1, <1>8 DEF Pair, Progress
<1>9. CASE CancelPairing
  BY <1>1, <1>2, <1>3, <1>9 DEF CancelPairing
<1>10. CASE ClearSession \/ Dispose
  BY <1>1, <1>10 DEF ClearSession, Dispose, Idle
<1>11. ASSUME NEW n \in Session,
              PairFails(n) \/ WalletAnswers(n) \/ AttestationEnds(n) \/ SaveMeta(n) \/ SaveSecrets(n)
       PROVE  PairedSurvives'
  BY <1>1, <1>11 DEF PairFails, WalletAnswers, AttestationEnds, SaveMeta, SaveSecrets, Progress
<1>12. ASSUME NEW n \in Session, Paired(n) PROVE PairedSurvives'
  <2>1. CASE disposed
    BY <1>1, <1>12, <2>1 DEF Paired, BecomePaired
  <2>2. CASE ~disposed
    BY <1>12, <2>2 DEF Paired, BecomePaired, PairedSurvives, PairingInv, SavedSoFar, storeVars
  <2>3. QED BY <2>1, <2>2
<1>13. ASSUME NEW u \in Clear, UnpairMeta(u) \/ Unpaired(u)
       PROVE  PairedSurvives'
  BY <1>1, <1>2, <1>3, <1>13 DEF UnpairMeta, Unpaired
<1>14. ASSUME NEW b \in Build, BuildSession(b) \/ FinishBuild(b)
       PROVE  PairedSurvives'
  BY <1>1, <1>14 DEF BuildSession, FinishBuild
<1>15. ASSUME NEW p \in Product, Embed(p) \/ Unembed(p)
       PROVE  PairedSurvives'
  BY <1>1, <1>15 DEF Embed, Unembed
<1>16. QED BY <1>4, <1>5, <1>6, <1>7, <1>8, <1>9, <1>10, <1>11, <1>12, <1>13, <1>14, <1>15
           DEF Next, PageStep

LEMMA PairingInvStep == PairingInv /\ [Next]_vars => PairingInv'
BY TypesStep, SavedStep, FoundStep, SurvivesStep DEF PairingInv

(* Whatever crashes, fails and overlaps, what the manager says is paired is in
   the store, with its secrets, unless the store was written, or the state
   taken, by something else meanwhile. *)
THEOREM SurvivesCorrect == Spec => []PairedSurvives
<1>1. Spec => []PairingInv
  BY PairingInvInit, PairingInvStep, PTL DEF Spec
<1>2. PairingInv => PairedSurvives
  BY DEF PairingInv
<1>3. QED BY <1>1, <1>2, PTL

-----------------------------------------------------------------------------
(* Who is signed in.  What the invariant rests on is the builds that nothing
   has overtaken: all that are in flight are of one session, the manager's when
   it is paired, and the remote session is of the last of them to have come by
   its secrets. *)
Under(b) == build[b].phase \in {"identity", "resolved"}
Standing == InFlight \ overtaken

NotStartedYet == \A b \in Build : b > lastBuild => build[b].phase = "none"
OneSession ==
  /\ \A b, c \in Standing : build[b].session = build[c].session
  /\ sso.status = "paired" => \A b \in Standing : build[b].session = sso.session
SignedInBy ==
  auth.by # None => build[auth.by].phase = "over" /\ auth.session = build[auth.by].session
RemoteIsLast ==
  remote # None =>
    /\ Under(remote) \/ build[remote].phase = "over"
    /\ remote \notin overtaken =>
         /\ \A b \in Standing : Under(b) => build[b].session = build[remote].session
         /\ build[remote].phase = "over" /\ auth.by # None /\ auth.by \notin overtaken =>
              auth.session = build[remote].session
RemoteStands ==
  ~disposed /\ remote = None =>
    /\ \A b \in Standing : ~Under(b)
    /\ auth.by # None => auth.by \in overtaken
SignInv == NotStartedYet /\ OneSession /\ SignedInBy /\ RemoteIsLast /\ RemoteStands

LEMMA SignInvInit == Init => SignInv
BY DEF Init, SignInv, NotStartedYet, OneSession, SignedInBy, RemoteIsLast, RemoteStands,
       Standing, InFlight, Under, AuthIs, Idle, None

(* Steps that leave the builds and the remote session alone, and may take back
   what is shown. *)
Quiet ==
  /\ UNCHANGED <<build, lastBuild, remote, overtaken, disposed>>
  /\ auth' = auth \/ auth'.by = None
  /\ sso' = sso \/ sso'.status # "paired"

(* Steps that take the remote session back. *)
Taken ==
  /\ UNCHANGED <<build, lastBuild>>
  /\ remote' = None /\ overtaken' = overtaken \cup InFlight
  /\ auth'.by = None \/ (auth' = auth /\ disposed')
  /\ sso' = sso \/ sso'.status # "paired"

(* Steps that start builds, for the session that is paired by then; those in
   flight for another are overtaken. *)
Starts(s, k) ==
  /\ StartBuilds(s, k)
  /\ UNCHANGED <<remote, auth, disposed>>
  /\ overtaken \subseteq overtaken' /\ {b \in Standing : build[b].session # s} \subseteq overtaken'
  /\ sso'.status = "paired" /\ sso'.session = s

LEMMA QuietKeeps ==
  ASSUME SignInv, Quiet
  PROVE  SignInv'
<1>1. NotStartedYet' /\ OneSession'
  BY DEF Quiet, SignInv, NotStartedYet, OneSession, Standing, InFlight
<1>2. SignedInBy'
  BY DEF Quiet, SignInv, SignedInBy
<1>3. RemoteIsLast' /\ RemoteStands'
  BY DEF Quiet, SignInv, RemoteIsLast, RemoteStands, Standing, InFlight, Under
<1>4. QED BY <1>1, <1>2, <1>3 DEF SignInv

LEMMA TakenKeeps ==
  ASSUME SignInv, Taken
  PROVE  SignInv'
<1>1. Standing' = {}
  BY DEF Taken, Standing, InFlight
<1>2. NotStartedYet' /\ OneSession'
  BY <1>1 DEF Taken, SignInv, NotStartedYet, OneSession
<1>3. SignedInBy'
  BY DEF Taken, SignInv, SignedInBy
<1>4. RemoteIsLast' /\ RemoteStands'
  BY <1>1 DEF Taken, RemoteIsLast, RemoteStands
<1>5. QED BY <1>2, <1>3, <1>4 DEF SignInv

LEMMA StartsKeep ==
  ASSUME Types, SignInv, NEW s \in Session \cup {None}, NEW k \in Nat, Starts(s, k)
  PROVE  SignInv'
<1> DEFINE Older(b) == build'[b] = build[b]
           Newer(b) == build'[b] = [phase |-> "secrets", session |-> s] /\ build[b].phase = "none"
<1>1. /\ \A b \in Build : Older(b) \/ Newer(b)
      /\ lastBuild' \in Nat /\ lastBuild <= lastBuild'
      /\ \A b \in Build : b > lastBuild' => Older(b)
  BY BoundsAreNat DEF Starts, StartBuilds, SignInv, NotStartedYet, Types, SignerTypes, Build
<1>2. NotStartedYet'
  BY <1>1, BoundsAreNat DEF SignInv, NotStartedYet, Types, SignerTypes, Build
<1>3. \A b \in Build : build[b].phase # "none" => Older(b)
  BY <1>1
<1>4. \A b \in Standing' : build'[b].session = s /\ (Under(b)' => b \in Standing /\ Under(b) /\ Older(b))
  <2> SUFFICES ASSUME NEW b \in Standing'
               PROVE  build'[b].session = s /\ (Under(b)' => b \in Standing /\ Under(b) /\ Older(b))
    OBVIOUS
  <2>1. CASE Newer(b)
    BY <2>1 DEF Under
  <2>2. CASE Older(b)
    BY <2>2 DEF Under, Standing, InFlight, Starts
  <2>3. QED BY <1>1, <2>1, <2>2 DEF Standing, InFlight
<1>5. OneSession'
  BY <1>4 DEF OneSession, Starts
<1>6. auth.by \in Build \cup {None} /\ remote \in Build \cup {None}
  BY DEF Types, SignerTypes, AuthState
<1>7. SignedInBy'
  BY <1>3, <1>6 DEF SignInv, SignedInBy, Starts
<1>8. remote # None => Older(remote)
  BY <1>3, <1>6 DEF SignInv, RemoteIsLast, Under
<1> HIDE DEF Older, Newer
<1>9. overtaken \subseteq overtaken' /\ remote' = remote /\ auth' = auth /\ disposed' = disposed
  BY DEF Starts
<1>10. RemoteIsLast'
  <2> SUFFICES ASSUME remote # None PROVE RemoteIsLast'
    BY <1>9 DEF RemoteIsLast
  <2>1. build'[remote] = build[remote]
    BY <1>8 DEF Older
  <2>2. Under(remote)' \/ build'[remote].phase = "over"
    BY <1>9, <2>1 DEF SignInv, RemoteIsLast, Under
  <2>3. ASSUME remote \notin overtaken', NEW b \in Standing', Under(b)'
        PROVE  build'[b].session = build'[remote].session
    BY <1>4, <1>9, <2>1, <2>3 DEF SignInv, RemoteIsLast, Older
  <2>4. ASSUME remote \notin overtaken', build'[remote].phase = "over",
               auth.by # None, auth.by \notin overtaken'
        PROVE  auth.session = build'[remote].session
    BY <1>9, <2>1, <2>4 DEF SignInv, RemoteIsLast
  <2>5. QED BY <1>9, <2>2, <2>3, <2>4 DEF RemoteIsLast
<1>11. RemoteStands'
  BY <1>4, <1>9 DEF SignInv, RemoteStands
<1>12. QED BY <1>2, <1>5, <1>7, <1>10, <1>11 DEF SignInv

LEMMA BuildSessionKeeps ==
  ASSUME Types, SignInv, NEW b \in Build, BuildSession(b)
  PROVE  SignInv'
<1>1. /\ build[b].phase = "secrets" /\ Under(b)' /\ remote' = b /\ b # None
      /\ \A c \in Build : build'[c].session = build[c].session /\ (c # b => build'[c] = build[c])
      /\ UNCHANGED <<lastBuild, auth, overtaken, sso, disposed>>
  BY BoundsAreNat DEF BuildSession, Under, Types, SignerTypes, BuildState, Build, None
<1>2. Standing' = Standing
  BY <1>1 DEF Standing, InFlight, Under
<1>3. auth.by \in Build \cup {None}
  BY DEF Types, SignerTypes, AuthState
<1>4. NotStartedYet'
  BY <1>1 DEF SignInv, NotStartedYet
<1>5. OneSession'
  BY <1>1, <1>2 DEF SignInv, OneSession, Standing, InFlight
<1>6. SignedInBy'
  BY <1>1, <1>3 DEF SignInv, SignedInBy
<1>7. b \notin overtaken => b \in Standing
  BY <1>1 DEF Standing, InFlight
<1>8. b \notin overtaken => \A c \in Standing : build[c].session = build[b].session
  BY <1>7 DEF SignInv, OneSession
<1>9. build'[b].phase # "over"
  BY <1>1 DEF Under
<1>10. RemoteIsLast'
  BY <1>1, <1>2, <1>8, <1>9 DEF RemoteIsLast, Standing, InFlight
<1>11. RemoteStands'
  BY <1>1 DEF RemoteStands
<1>12. QED BY <1>4, <1>5, <1>6, <1>10, <1>11 DEF SignInv

LEMMA ResolvedKeeps ==
  ASSUME Types, SignInv, IdentityResolved
  PROVE  SignInv'
<1>1. /\ \A c \in Build : \/ build'[c] = build[c]
                          \/ /\ build[c].phase = "identity" /\ build'[c].phase = "resolved"
                             /\ build'[c].session = build[c].session
      /\ UNCHANGED <<lastBuild, auth, overtaken, sso, disposed, remote>>
  BY DEF IdentityResolved, Types, SignerTypes, BuildState
<1>2. Standing' = Standing /\ \A c \in Build : Under(c)' = Under(c) /\ build'[c].session = build[c].session
  BY <1>1 DEF Standing, InFlight, Under
<1>3. \A c \in Build : (build'[c].phase = "over" <=> build[c].phase = "over")
                       /\ (build'[c].phase = "none" <=> build[c].phase = "none")
  BY <1>1
<1>4. auth.by \in Build \cup {None} /\ remote \in Build \cup {None} /\ Standing \subseteq Build
  BY DEF Types, SignerTypes, AuthState, Standing, InFlight
<1>5. NotStartedYet'
  BY <1>1, <1>3 DEF SignInv, NotStartedYet
<1>6. OneSession'
  BY <1>1, <1>2, <1>4 DEF SignInv, OneSession
<1>7. SignedInBy'
  BY <1>1, <1>2, <1>3, <1>4 DEF SignInv, SignedInBy
<1>8. RemoteIsLast'
  BY <1>1, <1>2, <1>3, <1>4 DEF SignInv, RemoteIsLast
<1>9. RemoteStands'
  BY <1>1, <1>2, <1>4 DEF SignInv, RemoteStands
<1>10. QED BY <1>5, <1>6, <1>7, <1>8, <1>9 DEF SignInv

LEMMA FinishKeeps ==
  ASSUME Types, SignInv, NEW b \in Build, FinishBuild(b)
  PROVE  SignInv'
<1>1. /\ build[b].phase = "resolved" /\ build'[b].phase = "over"
      /\ \A c \in Build : build'[c].session = build[c].session /\ (c # b => build'[c] = build[c])
      /\ auth'.by = b /\ auth'.session = build[b].session
      /\ UNCHANGED <<lastBuild, overtaken, sso, disposed, remote>>
  BY DEF FinishBuild, SignedIn, Types, SignerTypes, BuildState
<1>2. Standing' = Standing \ {b}
  BY <1>1 DEF Standing, InFlight
<1>3. remote \in Build \cup {None} /\ Standing \subseteq Build
  BY DEF Types, SignerTypes, Standing, InFlight
<1>4. Under(b) /\ (b \notin overtaken => b \in Standing)
  BY <1>1 DEF Standing, InFlight, Under
<1>5. \A c \in Build : c # b => Under(c)' = Under(c)
  BY <1>1 DEF Under
<1>6. NotStartedYet'
  BY <1>1 DEF SignInv, NotStartedYet
<1>7. OneSession'
  BY <1>1, <1>2, <1>3 DEF SignInv, OneSession
<1>8. SignedInBy'
  BY <1>1 DEF SignedInBy
<1>9. RemoteIsLast'
  <2> SUFFICES ASSUME remote # None PROVE RemoteIsLast'
    BY <1>1 DEF RemoteIsLast
  <2>1. Under(remote)' \/ build'[remote].phase = "over"
    BY <1>1, <1>3, <1>5 DEF SignInv, RemoteIsLast
  <2>2. ASSUME remote \notin overtaken, NEW c \in Standing', Under(c)'
        PROVE  build'[c].session = build'[remote].session
    BY <1>1, <1>2, <1>3, <1>5, <2>2 DEF SignInv, RemoteIsLast
  <2>3. ASSUME remote \notin overtaken, b \notin overtaken
        PROVE  build[b].session = build[remote].session
    BY <1>4, <2>3 DEF SignInv, RemoteIsLast
  <2>4. QED BY <1>1, <1>3, <2>1, <2>2, <2>3 DEF RemoteIsLast
<1>10. RemoteStands'
  BY <1>1, <1>2, <1>3, <1>4, <1>5 DEF SignInv, RemoteStands
<1>11. QED BY <1>6, <1>7, <1>8, <1>9, <1>10 DEF SignInv

LEMMA RestartSigns == Restart => SignInv'
BY DEF Restart, SignInv, NotStartedYet, OneSession, SignedInBy, RemoteIsLast, RemoteStands,
       Standing, InFlight, Under, AuthIs, Idle, None

-----------------------------------------------------------------------------
(* Which step is which. *)

LEMMA BecomePairedSigns ==
  ASSUME Types, SignInv, NEW s \in Session \cup {None}, NEW k \in Nat, BecomePaired(s, k),
         UNCHANGED disposed
  PROVE  SignInv'
<1>1. CASE disposed
  BY <1>1, QuietKeeps DEF BecomePaired, signerVars, Quiet
<1>2. CASE ~disposed
  BY <1>2, StartsKeep DEF BecomePaired, Starts, Standing
<1>3. QED BY <1>1, <1>2

LEMMA TakeBackIsTaken ==
  ASSUME TakeBack(AuthIs("idle")), build' = build, lastBuild' = lastBuild,
         sso' = sso \/ sso'.status # "paired"
  PROVE  Taken
BY DEF TakeBack, AuthIs, Taken

LEMMA BecomeIdleSigns ==
  ASSUME SignInv, BecomeIdle, UNCHANGED disposed
  PROVE  SignInv'
<1>1. Idle.status # "paired"
  BY DEF Idle
<1>2. CASE disposed
  BY <1>2, QuietKeeps DEF BecomeIdle, signerVars, Quiet
<1>3. CASE ~disposed /\ auth.status = "authenticated"
  <2>1. TakeBack(AuthIs("idle")) /\ sso' = Idle /\ build' = build /\ lastBuild' = lastBuild
    BY <1>3, Zenon DEF BecomeIdle
  <2>2. QED BY <1>1, <2>1, TakeBackIsTaken, TakenKeeps
<1>4. CASE ~disposed /\ auth.status # "authenticated"
  BY <1>1, <1>4, QuietKeeps, Zenon DEF BecomeIdle, Quiet
<1>5. QED BY <1>2, <1>3, <1>4

LEMMA ProgressSigns ==
  ASSUME NEW status \in {"pairing", "awaiting_scan", "failed"}, Progress(status), UNCHANGED disposed
  PROVE  Quiet
BY DEF Progress, AuthIs, Quiet

LEMMA RestoreReturnsSigns ==
  ASSUME Types, SignInv, RestoreReturns, UNCHANGED <<sso, remote, live, auth, overtaken, disposed>>
  PROVE  SignInv'
<1>1. CASE sso.status = "paired"
  <2>1. sso.session \in Session \cup {None}
    BY DEF Types, SsoState
  <2>2. Starts(sso.session, 1)
    BY <1>1 DEF RestoreReturns, Starts, SignInv, OneSession
  <2>3. QED BY <2>1, <2>2, StartsKeep
<1>2. CASE sso.status # "paired"
  BY <1>2, QuietKeeps DEF RestoreReturns, Quiet
<1>3. QED BY <1>1, <1>2

LEMMA SignInvStep == Types /\ SignInv /\ [Next]_vars => SignInv'
<1> SUFFICES ASSUME Types, SignInv, [Next]_vars PROVE SignInv'
  OBVIOUS
<1>1. CASE UNCHANGED vars
  BY <1>1, QuietKeeps DEF vars, signerVars, Quiet
<1>2. CASE Restart
  BY <1>2, RestartSigns
<1>3. CASE RestoreLoaded
  <2>1. CASE restore.session = None
    BY <1>3, <2>1, RestoreReturnsSigns DEF RestoreLoaded
  <2>2. CASE restore.session # None
    BY <1>3, <2>2, QuietKeeps DEF RestoreLoaded, Quiet
  <2>3. QED BY <2>1, <2>2
<1>4. CASE RestoreVerified
  <2>1. restore.session \in Session \cup {None} /\ 2 \in Nat
    BY DEF Types, RestoreState
  <2>2. /\ UNCHANGED disposed
        /\ \/ BecomePaired(restore.session, 2)
           \/ RestoreReturns /\ UNCHANGED <<sso, remote, live, auth, overtaken>>
           \/ UNCHANGED <<sso, signerVars>>
    BY <1>4 DEF RestoreVerified
  <2>3. CASE BecomePaired(restore.session, 2)
    BY <2>1, <2>2, <2>3, BecomePairedSigns
  <2>4. CASE UNCHANGED <<sso, signerVars>>
    BY <2>2, <2>4, QuietKeeps DEF Quiet, signerVars
  <2>5. CASE RestoreReturns /\ UNCHANGED <<sso, remote, live, auth, overtaken>>
    BY <2>2, <2>5, RestoreReturnsSigns
  <2>6. QED BY <2>2, <2>3, <2>4, <2>5
<1>5. CASE RestoreCleared
  BY <1>5, RestoreReturnsSigns DEF RestoreCleared
<1>6. CASE Pair
  BY <1>6, ProgressSigns, QuietKeeps DEF Pair
<1>7. ASSUME NEW n \in Session, PairFails(n) PROVE SignInv'
  <2>1. CASE disposed
    BY <1>7, <2>1, QuietKeeps DEF PairFails, Quiet, signerVars
  <2>2. CASE ~disposed
    BY <1>7, <2>2, ProgressSigns, QuietKeeps DEF PairFails
  <2>3. QED BY <2>1, <2>2
<1>8. ASSUME NEW n \in Session, WalletAnswers(n) \/ AttestationEnds(n) \/ SaveMeta(n) \/ SaveSecrets(n)
      PROVE  SignInv'
  BY <1>8, QuietKeeps DEF WalletAnswers, AttestationEnds, SaveMeta, SaveSecrets, Quiet, signerVars
<1>9. ASSUME NEW n \in Session, Paired(n) PROVE SignInv'
  <2>1. BecomePaired(n, 1) /\ UNCHANGED disposed /\ n \in Session \cup {None} /\ 1 \in Nat
    BY <1>9 DEF Paired
  <2>2. QED BY <2>1, BecomePairedSigns
<1>10. CASE CancelPairing
  <2>1. CASE BecomeIdle
    BY <1>10, <2>1, BecomeIdleSigns DEF CancelPairing
  <2>2. CASE UNCHANGED <<sso, signerVars>>
    BY <1>10, <2>2, QuietKeeps DEF CancelPairing, Quiet, signerVars
  <2>3. QED BY <1>10, <2>1, <2>2 DEF CancelPairing
<1>11. CASE ClearSession
  <2>1. build' = build /\ lastBuild' = lastBuild /\ TakeBack(AuthIs("idle"))
    BY <1>11, Zenon DEF ClearSession
  <2>2. sso' = sso \/ sso'.status # "paired"
    BY <1>11 DEF ClearSession, Idle
  <2>3. QED BY <2>1, <2>2, TakeBackIsTaken, TakenKeeps
<1>12. CASE Dispose
  BY <1>12, TakenKeeps DEF Dispose, TakeBack, AuthIs, Idle, Taken
<1>13. ASSUME NEW u \in Clear, UnpairMeta(u) \/ Unpaired(u) PROVE SignInv'
  <2>1. CASE UnpairMeta(u)
    BY <2>1, QuietKeeps DEF UnpairMeta, Quiet, signerVars
  <2>2. CASE Unpaired(u)
    BY <2>2, BecomeIdleSigns DEF Unpaired
  <2>3. QED BY <1>13, <2>1, <2>2
<1>14. ASSUME NEW b \in Build, BuildSession(b) \/ FinishBuild(b) PROVE SignInv'
  BY <1>14, BuildSessionKeeps, FinishKeeps
<1>15. CASE IdentityResolved
  BY <1>15, ResolvedKeeps
<1>16. ASSUME NEW p \in Product, Embed(p) \/ Unembed(p) PROVE SignInv'
  BY <1>16, QuietKeeps DEF Embed, Unembed, Quiet, signerVars
<1>17. QED BY <1>1, <1>2, <1>3, <1>4, <1>5, <1>6, <1>7, <1>8, <1>9, <1>10, <1>11, <1>12, <1>13,
              <1>14, <1>15, <1>16 DEF Next, PageStep

(* However pairings, restores, clears and builds overlap, once no build is in
   flight whoever is shown as signed in is whom the signer signs with. *)
THEOREM SignedInCorrect == Spec => []SignedInCanSign
<1>1. Spec => [](Types /\ SignInv)
  BY TypesInit, TypesStep, SignInvInit, SignInvStep, PTL DEF Spec
<1>2. Types /\ SignInv => SignedInCanSign
  <2> SUFFICES ASSUME Types, SignInv, ~disposed, auth.by # None, InFlight = {},
                      {auth.by, remote} \cap overtaken = {}
               PROVE  remote # None /\ build[remote].session = auth.session
    BY DEF SignedInCanSign
  <2>1. remote # None
    BY DEF SignInv, RemoteStands
  <2>2. remote \in Build
    BY <2>1 DEF Types, SignerTypes
  <2>3. ~Under(remote)
    BY <2>2 DEF InFlight, Under
  <2>4. QED BY <2>1, <2>3 DEF SignInv, RemoteIsLast
<1>3. QED BY <1>1, <1>2, PTL

=============================================================================
