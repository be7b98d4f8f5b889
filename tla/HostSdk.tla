------------------------------ MODULE HostSdk ------------------------------
(***************************************************************************)
(* Pairing with the wallet, what of it is stored, and what the SDK builds  *)
(* on it: auth/sso/manager.ts with its stores, pairingExecutor.ts and      *)
(* attestation.ts, and the part of sdk.ts that keeps the remote session,   *)
(* the signer and the state of authManager.ts in step with the manager.    *)
(*                                                                         *)
(* A session is named by the attempt that paired it: every attempt derives *)
(* fresh keys, and with them a fresh session id.  Everything asynchronous  *)
(* (an attempt, its attestation, restore, unpair, a build of the signer)   *)
(* has a phase, which says what it awaits; an action is what it does from  *)
(* one await to the next.  Storage takes effect when it is called, as both *)
(* adapters in storage/ do, and answers later; a write or a clear may      *)
(* fail.  One wallet account is paired with, so the resolver has one key.  *)
(***************************************************************************)
EXTENDS Naturals, FiniteSets

CONSTANTS
  Product,      \* iframes that may be embedded
  MaxPairings,  \* bound: attempts, over all pages
  MaxBuilds,    \* bound: builds of the remote signer in one page
  MaxClears,    \* bound: calls of clearSession
  MaxRestarts,  \* bound: pages that crash or are reloaded
  MaxFailures   \* bound: storage calls and attempts that fail

ASSUME BoundsAreNat ==
  /\ MaxPairings \in Nat /\ MaxBuilds \in Nat /\ MaxClears \in Nat
  /\ MaxRestarts \in Nat /\ MaxFailures \in Nat

None == 0
Session == 1 .. MaxPairings
Build == 1 .. MaxBuilds
Clear == 1 .. MaxClears

VARIABLES
  meta, secrets,        \* storage: 'sso_session', and which 'sso_secrets_*' exist
  sso,                  \* the manager's currentState
  controller,           \* the attempt its abort controller is of
  attempt,              \* attempt[n]: what it awaits
  attesting,            \* attempts whose attestation has not ended
  lastPairing,
  restore,              \* what restoreSession awaits, with the session it loaded
  unpair, lastClear,    \* unpair[u]: the same, with the session it clears
  build, lastBuild,     \* build[b]: the same, with the session it is for
  identity,             \* the resolver's entry for the wallet
  remote,               \* the build that made remoteSession and remoteSigner
  live,                 \* builds whose session was created and not disposed
  auth,                 \* the state of authManager, by: the build that set it
  product,              \* product[p]: its handlers for signing
  disposed,
  restarts, failures,   \* used budgets
  disturbed,            \* sessions that were being saved, or restored over, when
                        \* something else wrote the store or took the state
  overtaken             \* builds in flight when what they build was taken back

storeVars == <<meta, secrets>>
pairVars == <<controller, attempt, attesting, lastPairing>>
clearVars == <<unpair, lastClear>>
signerVars == <<build, lastBuild, remote, live, auth, overtaken>>
vars == <<storeVars, sso, pairVars, restore, clearVars, signerVars, identity,
          product, disposed, restarts, failures, disturbed>>

Idle == [status |-> "idle", session |-> None]

AttemptPhase == {"none", "failing", "waiting", "answered", "savingMeta", "savingSecrets", "over"}
BuildPhase == {"none", "secrets", "identity", "resolved", "over"}

TypeOK ==
  /\ meta \in Session \cup {None} /\ secrets \subseteq Session
  /\ sso \in [status : {"idle", "pairing", "awaiting_scan", "paired", "failed"},
              session : Session \cup {None}]
  /\ controller \in Session \cup {None}
  /\ attempt \in [Session -> AttemptPhase] /\ attesting \subseteq Session
  /\ lastPairing \in 0 .. MaxPairings
  /\ restore \in [phase : {"loading", "verifying", "clearing", "over"},
                  session : Session \cup {None}, found : BOOLEAN]
  /\ unpair \in [Clear -> [phase : {"none", "secrets", "meta", "failed", "over"},
                           session : Session \cup {None}]]
  /\ lastClear \in 0 .. MaxClears
  /\ build \in [Build -> [phase : BuildPhase, session : Session \cup {None}]]
  /\ lastBuild \in 0 .. MaxBuilds
  /\ identity \in {"unknown", "asked", "cached"}
  /\ remote \in Build \cup {None} /\ live \subseteq Build
  /\ auth \in [status : {"idle", "pairing", "authenticated", "error"},
               session : Session \cup {None}, by : Build \cup {None}]
  /\ product \in [Product -> {"none", "wired", "unwired"}]
  /\ disposed \in BOOLEAN
  /\ restarts \in 0 .. MaxRestarts /\ failures \in 0 .. MaxFailures
  /\ disturbed \subseteq Session /\ overtaken \subseteq Build

-----------------------------------------------------------------------------
(* authManager.ts, and the SDK's remote session. *)

AuthIs(status) == [status |-> status, session |-> None, by |-> None]

InFlight == {b \in Build : build[b].phase \in {"secrets", "identity", "resolved"}}

LeakedSessionFault == live
DisposeRemoteSession == live \ {remote}

StillSignedInFault(authState) ==
  /\ live' = DisposeRemoteSession
  /\ remote' = None
  /\ overtaken' = overtaken \cup InFlight
  /\ UNCHANGED auth

(* What the SDK takes back: the session is disposed, the signer gone. *)
TakeBack(authState) ==
  /\ live' = DisposeRemoteSession
  /\ remote' = None
  /\ auth' = authState
  /\ overtaken' = overtaken \cup InFlight

NotWhilePairingFault(s, times) ==
  IF s \in secrets /\ auth.status # "pairing"
  THEN /\ lastBuild + times <= MaxBuilds
       /\ lastBuild' = lastBuild + times
       /\ build' = [b \in Build |-> IF b \in lastBuild + 1 .. lastBuild + times
                                    THEN [phase |-> "secrets", session |-> s] ELSE build[b]]
  ELSE UNCHANGED <<build, lastBuild>>

(* buildRemoteSignerAndSetAuth up to its first await, called so many times: the
   secrets are asked for; when there are none it ends there. *)
StartBuilds(s, times) ==
  IF s \in secrets
  THEN /\ lastBuild + times <= MaxBuilds
       /\ lastBuild' = lastBuild + times
       /\ build' = [b \in Build |-> IF b \in lastBuild + 1 .. lastBuild + times
                                    THEN [phase |-> "secrets", session |-> s] ELSE build[b]]
  ELSE UNCHANGED <<build, lastBuild>>

(* setState of the manager, with the SDK's subscriber. *)
BecomePaired(s, builds) ==
  IF disposed
  THEN UNCHANGED <<sso, signerVars>>
  ELSE /\ sso' = [status |-> "paired", session |-> s]
       /\ StartBuilds(s, builds)
       /\ overtaken' = overtaken \cup {b \in InFlight : build[b].session # s}
       /\ UNCHANGED <<remote, live, auth>>

BecomeIdle ==
  IF disposed
  THEN UNCHANGED <<sso, signerVars>>
  ELSE /\ sso' = Idle
       /\ IF auth.status = "authenticated" THEN TakeBack(AuthIs("idle"))
          ELSE UNCHANGED <<remote, live, auth, overtaken>>
       /\ UNCHANGED <<build, lastBuild>>

SameNameFault(status) ==
  /\ sso' = [status |-> status, session |-> None]
  /\ auth' = AuthIs(status)
  /\ UNCHANGED <<build, lastBuild, remote, live, overtaken>>

(* The attempt's other states: authManager has no name for "pairing". *)
Progress(status) ==
  /\ sso' = [status |-> status, session |-> None]
  /\ auth' = IF status = "awaiting_scan" THEN AuthIs("pairing") ELSE
             IF status = "failed" THEN AuthIs("error") ELSE auth
  /\ UNCHANGED <<build, lastBuild, remote, live, overtaken>>

Fails == failures < MaxFailures /\ failures' = failures + 1

-----------------------------------------------------------------------------
(* A page. *)

Restored == [phase |-> "over", session |-> None, found |-> FALSE]
NewPage(m) == [phase |-> "loading", session |-> m, found |-> FALSE]

Init ==
  /\ meta = None /\ secrets = {}
  /\ sso = Idle /\ controller = None
  /\ attempt = [n \in Session |-> "none"] /\ attesting = {}
  /\ lastPairing = 0
  /\ restore = NewPage(None)
  /\ unpair = [u \in Clear |-> [phase |-> "none", session |-> None]] /\ lastClear = 0
  /\ build = [b \in Build |-> [phase |-> "none", session |-> None]] /\ lastBuild = 0
  /\ identity = "unknown" /\ remote = None /\ live = {}
  /\ auth = AuthIs("idle")
  /\ product = [p \in Product |-> "none"]
  /\ disposed = FALSE /\ restarts = 0 /\ failures = 0
  /\ disturbed = {} /\ overtaken = {}

(* The page goes away, at any point, and comes back: createHostSdk calls
   restoreSession, which reads the stored session at once. *)
Restart ==
  /\ restarts < MaxRestarts /\ restarts' = restarts + 1
  /\ sso' = Idle /\ controller' = None
  /\ attempt' = [n \in Session |-> IF n <= lastPairing THEN "over" ELSE "none"]
  /\ attesting' = {}
  /\ restore' = NewPage(meta)
  /\ unpair' = [u \in Clear |-> [phase |-> IF u <= lastClear THEN "over" ELSE "none",
                                 session |-> None]]
  /\ build' = [b \in Build |-> [phase |-> "none", session |-> None]] /\ lastBuild' = 0
  /\ identity' = "unknown" /\ remote' = None /\ live' = {} /\ auth' = AuthIs("idle")
  /\ product' = [p \in Product |-> "none"]
  /\ disposed' = FALSE
  /\ overtaken' = {}
  /\ UNCHANGED <<storeVars, lastPairing, lastClear, failures, disturbed>>

-----------------------------------------------------------------------------
(* restoreSession, and the build that the SDK chains to it: when a session is
   restored there are two, of the subscriber and of the chain, in one task.  A
   page that was disposed restores nothing, but its chain goes on. *)

RestoreReturns ==
  IF sso.status = "paired" THEN StartBuilds(sso.session, 1) ELSE UNCHANGED <<build, lastBuild>>

(* The stored session has been read: its secrets are asked for. *)
RestoreLoaded ==
  /\ restore.phase = "loading"
  /\ IF restore.session = None
     THEN /\ restore' = Restored
          /\ RestoreReturns
     ELSE /\ restore' = [restore EXCEPT !.phase = "verifying", !.found = restore.session \in secrets]
          /\ UNCHANGED <<build, lastBuild>>
  /\ UNCHANGED <<storeVars, sso, pairVars, clearVars, remote, live, auth, overtaken, identity,
                 product, disposed, restarts, failures, disturbed>>

Verified == restore.found

(* One with secrets is taken, whatever the state is by now; one without them is
   cleared, whatever is stored by now. *)
RestoreVerified ==
  /\ restore.phase = "verifying"
  /\ \/ /\ Verified
        /\ restore' = Restored
        /\ IF disposed THEN RestoreReturns /\ UNCHANGED <<sso, remote, live, auth, overtaken>>
           ELSE BecomePaired(restore.session, 2)
        /\ disturbed' = IF sso = Idle /\ meta = restore.session THEN disturbed
                        ELSE disturbed \cup {restore.session}
        /\ UNCHANGED <<meta, failures>>
     \/ /\ ~Verified
        /\ restore' = [restore EXCEPT !.phase = "clearing"]
        /\ meta' = None
        /\ disturbed' = disturbed \cup ({meta} \ {None})
        /\ UNCHANGED <<sso, signerVars, failures>>
     \/ /\ ~Verified /\ Fails
        /\ restore' = Restored
        /\ UNCHANGED <<meta, sso, signerVars, disturbed>>
  /\ UNCHANGED <<secrets, pairVars, clearVars, identity, product, disposed, restarts>>

RestoreCleared ==
  /\ restore.phase = "clearing"
  /\ restore' = Restored
  /\ RestoreReturns
  /\ UNCHANGED <<storeVars, sso, pairVars, clearVars, remote, live, auth, overtaken, identity,
                 product, disposed, restarts, failures, disturbed>>

-----------------------------------------------------------------------------
(* pair: the executor shows the QR code, starts the attestation and subscribes
   to the handshake topic before it awaits anything.  It may throw before or
   after the code is shown. *)
Pair ==
  LET n == lastPairing + 1 IN
  /\ ~disposed /\ sso.status \in {"idle", "failed"} /\ n <= MaxPairings
  /\ lastPairing' = n /\ controller' = n
  /\ \/ /\ attempt' = [attempt EXCEPT ![n] = "waiting"]
        /\ attesting' = attesting \cup {n}
        /\ Progress("awaiting_scan")
        /\ UNCHANGED failures
     \/ /\ Fails
        /\ attempt' = [attempt EXCEPT ![n] = "failing"]
        /\ UNCHANGED attesting
        /\ Progress("pairing") \/ Progress("awaiting_scan")
  /\ UNCHANGED <<storeVars, restore, clearVars, identity, product, disposed,
                 restarts, disturbed>>

PairFails(n) ==
  /\ attempt[n] = "failing"
  /\ attempt' = [attempt EXCEPT ![n] = "over"]
  /\ IF disposed THEN UNCHANGED <<sso, signerVars>> ELSE Progress("failed")
  /\ UNCHANGED <<storeVars, controller, attesting, lastPairing, restore, clearVars,
                 identity, product, disposed, restarts, failures, disturbed>>

(* The wallet has scanned the code; statements that cannot be decrypted with
   the attempt's key are skipped. *)
WalletAnswers(n) ==
  /\ attempt[n] = "waiting"
  /\ attempt' = [attempt EXCEPT ![n] = "answered"]
  /\ UNCHANGED <<storeVars, sso, controller, attesting, lastPairing, restore, clearVars,
                 signerVars, identity, product, disposed, restarts, failures, disturbed>>

(* attestation.ts: its steps are skipped once the attempt is aborted; whatever
   goes wrong ends it, and is not fatal. *)
AttestationEnds(n) ==
  /\ n \in attesting
  /\ attesting' = attesting \ {n}
  /\ UNCHANGED <<storeVars, sso, controller, attempt, lastPairing, restore, clearVars,
                 signerVars, identity, product, disposed, restarts, failures, disturbed>>

(* The executor has returned: the manager saves the session, then the secrets,
   then says so.  Only the first of these looks at the signal.  A save that
   fails ends it where it is. *)
SaveMeta(n) ==
  /\ attempt[n] = "answered" /\ n \notin attesting
  /\ \/ /\ disposed
        /\ attempt' = [attempt EXCEPT ![n] = "over"]
        /\ UNCHANGED <<meta, failures, disturbed>>
     \/ /\ ~disposed
        /\ \/ /\ meta' = n
              /\ attempt' = [attempt EXCEPT ![n] = "savingMeta"]
              /\ disturbed' = disturbed \cup ({meta} \ {None})
              /\ UNCHANGED failures
           \/ /\ Fails
              /\ attempt' = [attempt EXCEPT ![n] = "over"]
              /\ UNCHANGED <<meta, disturbed>>
  /\ UNCHANGED <<secrets, sso, controller, attesting, lastPairing, restore, clearVars,
                 signerVars, identity, product, disposed, restarts>>

SkippedSecretsFault(n) == secrets
WithSecrets(n) == secrets \cup {n}

SaveSecrets(n) ==
  /\ attempt[n] = "savingMeta"
  /\ \/ /\ secrets' = WithSecrets(n)
        /\ attempt' = [attempt EXCEPT ![n] = "savingSecrets"]
        /\ UNCHANGED failures
     \/ /\ Fails
        /\ attempt' = [attempt EXCEPT ![n] = "over"]
        /\ UNCHANGED secrets
  /\ UNCHANGED <<meta, sso, controller, attesting, lastPairing, restore, clearVars,
                 signerVars, identity, product, disposed, restarts, disturbed>>

Paired(n) ==
  /\ attempt[n] = "savingSecrets"
  /\ attempt' = [attempt EXCEPT ![n] = "over"]
  /\ BecomePaired(n, 1)
  /\ UNCHANGED <<storeVars, controller, attesting, lastPairing, restore, clearVars,
                 identity, product, disposed, restarts, failures, disturbed>>

-----------------------------------------------------------------------------
(* cancelPairing, clearSession, dispose. *)

Saving(n) == attempt[n] \in {"savingMeta", "savingSecrets"}

(* An attempt that is aborted before it saves will end without effect; one that
   saves does not look again. *)
Abort ==
  /\ controller' = None
  /\ attempt' = [n \in Session |-> IF n = controller /\ ~Saving(n) THEN "over" ELSE attempt[n]]
  /\ attesting' = attesting \ {controller}

AbortedWhileSaving == {n \in Session : n = controller /\ Saving(n)}

CancelPairing ==
  /\ ~disposed
  /\ controller # None \/ sso.status \in {"pairing", "awaiting_scan"}
  /\ Abort
  /\ IF sso.status \in {"pairing", "awaiting_scan"} THEN BecomeIdle
     ELSE UNCHANGED <<sso, signerVars>>
  /\ disturbed' = disturbed \cup AbortedWhileSaving
  /\ UNCHANGED <<storeVars, lastPairing, restore, clearVars, identity, product,
                 disposed, restarts, failures>>

(* clearSession: unpair up to its first await, then the SDK's own clean-up. *)
ClearSession ==
  LET u == lastClear + 1
      s == IF sso.status = "paired" THEN sso.session ELSE None IN
  /\ ~disposed /\ u <= MaxClears
  /\ lastClear' = u
  /\ Abort
  /\ sso' = IF sso.status \in {"pairing", "awaiting_scan"} THEN Idle ELSE sso
  /\ \/ /\ s # None
        /\ secrets' = secrets \ {s}
        /\ unpair' = [unpair EXCEPT ![u] = [phase |-> "secrets", session |-> s]]
        /\ UNCHANGED <<meta, failures>>
     \/ /\ s = None
        /\ meta' = None
        /\ unpair' = [unpair EXCEPT ![u] = [phase |-> "meta", session |-> s]]
        /\ UNCHANGED <<secrets, failures>>
     \/ /\ Fails
        /\ unpair' = [unpair EXCEPT ![u] = [phase |-> "failed", session |-> s]]
        /\ UNCHANGED storeVars
  /\ TakeBack(AuthIs("idle"))
  /\ disturbed' = disturbed \cup AbortedWhileSaving \cup ({s, meta} \ {None})
  /\ UNCHANGED <<lastPairing, restore, build, lastBuild, identity, product, disposed, restarts>>

(* unpair goes on: the session after the secrets, and idle in the end,
   whatever the state has become. *)
UnpairMeta(u) ==
  /\ unpair[u].phase = "secrets"
  /\ \/ /\ meta' = None
        /\ unpair' = [unpair EXCEPT ![u].phase = "meta"]
        /\ UNCHANGED failures
     \/ /\ Fails
        /\ unpair' = [unpair EXCEPT ![u].phase = "failed"]
        /\ UNCHANGED meta
  /\ disturbed' = disturbed \cup ({meta} \ {None})
  /\ UNCHANGED <<secrets, sso, pairVars, restore, lastClear, signerVars, identity, product,
                 disposed, restarts>>

Unpaired(u) ==
  /\ unpair[u].phase = "meta"
  /\ unpair' = [unpair EXCEPT ![u] = [phase |-> "over", session |-> None]]
  /\ BecomeIdle
  /\ UNCHANGED <<storeVars, pairVars, restore, lastClear, identity, product, disposed, restarts,
                 failures, disturbed>>

(* The products, the manager (which cancels), the session: builds in flight
   are not told. *)
Dispose ==
  /\ ~disposed /\ disposed' = TRUE
  /\ Abort
  /\ sso' = IF sso.status \in {"pairing", "awaiting_scan"} THEN Idle ELSE sso
  /\ TakeBack(IF sso' # sso /\ auth.status = "authenticated" THEN AuthIs("idle") ELSE auth)
  /\ product' = [p \in Product |-> "none"]
  /\ disturbed' = disturbed \cup AbortedWhileSaving
  /\ UNCHANGED <<storeVars, lastPairing, restore, clearVars, build, lastBuild, identity,
                 restarts, failures>>

-----------------------------------------------------------------------------
(* buildRemoteSignerAndSetAuth after its awaits. *)

(* Secrets in hand: the previous session goes, the new one comes, and the
   wallet's identity is asked for, unless it is cached or being asked for. *)
BuildSession(b) ==
  /\ build[b].phase = "secrets"
  /\ live' = DisposeRemoteSession \cup {b}
  /\ remote' = b
  /\ build' = [build EXCEPT ![b].phase = IF identity = "cached" THEN "resolved" ELSE "identity"]
  /\ identity' = IF identity = "unknown" THEN "asked" ELSE identity
  /\ UNCHANGED <<storeVars, sso, pairVars, restore, clearVars, lastBuild, auth, overtaken, product,
                 disposed, restarts, failures, disturbed>>

(* chainProvider.ts: a chain without the storage item, an unknown account and an
   error of the node are answers, and kept; an SDK that cannot be loaded is not. *)
NodeAnswer == {"cached", "unknown"}

(* The answer goes to all who wait for it. *)
IdentityResolved ==
  /\ identity = "asked"
  /\ identity' \in NodeAnswer
  /\ build' = [b \in Build |-> IF build[b].phase = "identity" THEN [build[b] EXCEPT !.phase = "resolved"]
                               ELSE build[b]]
  /\ UNCHANGED <<storeVars, sso, pairVars, restore, clearVars, lastBuild, remote, live, auth,
                 overtaken, product, disposed, restarts, failures, disturbed>>

SignedIn(b) == [status |-> "authenticated", session |-> build[b].session, by |-> b]

FinishBuild(b) ==
  /\ build[b].phase = "resolved"
  /\ build' = [build EXCEPT ![b].phase = "over"]
  /\ auth' = SignedIn(b)
  /\ UNCHANGED <<storeVars, sso, pairVars, restore, clearVars, lastBuild, remote, live, overtaken,
                 identity, product, disposed, restarts, failures, disturbed>>

(* embed: the handlers for signing are wired if there is a signer by now. *)
Embed(p) ==
  /\ ~disposed /\ product[p] = "none"
  /\ product' = [product EXCEPT ![p] = IF remote = None THEN "unwired" ELSE "wired"]
  /\ UNCHANGED <<storeVars, sso, pairVars, restore, clearVars, signerVars, identity,
                 disposed, restarts, failures, disturbed>>

Unembed(p) ==
  /\ product[p] # "none"
  /\ product' = [product EXCEPT ![p] = "none"]
  /\ UNCHANGED <<storeVars, sso, pairVars, restore, clearVars, signerVars, identity,
                 disposed, restarts, failures, disturbed>>

-----------------------------------------------------------------------------
PageStep ==
  \/ RestoreLoaded \/ RestoreVerified \/ RestoreCleared
  \/ \E n \in Session : \/ PairFails(n) \/ AttestationEnds(n) \/ SaveMeta(n) \/ SaveSecrets(n) \/ Paired(n)
  \/ \E u \in Clear : UnpairMeta(u) \/ Unpaired(u)
  \/ \E b \in Build : BuildSession(b) \/ FinishBuild(b)
  \/ IdentityResolved

Next ==
  \/ PageStep
  \/ Pair \/ (\E n \in Session : WalletAnswers(n))
  \/ CancelPairing \/ ClearSession \/ Dispose \/ Restart
  \/ \E p \in Product : Embed(p) \/ Unembed(p)

Spec == Init /\ [][Next]_vars

(* Storage and the node answer; what awaited them goes on. *)
FairSpec == Spec /\ WF_vars(PageStep)

-----------------------------------------------------------------------------
(* Properties. *)

(* Whatever builds, rebuilds, clears and disposes overlap, there is at most one
   undisposed remote session and it is the one the SDK holds: no session's
   subscriptions outlive it. *)
NoLeakedSession == live = {remote} \ {None}

(* A pairing survives a reload: what the manager says is what the store holds,
   unless something else wrote the store, or took the state, while it was being
   saved or restored. *)
PairedSurvives ==
  sso.status = "paired" /\ sso.session \notin disturbed =>
    meta = sso.session /\ sso.session \in secrets

(* Who is shown as signed in is whom the signer signs with, once no build is in
   flight, unless the build that signed in had been overtaken. *)
SignedInCanSign ==
  ~disposed /\ auth.by # None /\ InFlight = {} /\ {auth.by, remote} \cap overtaken = {} =>
    remote # None /\ build[remote].session = auth.session

(* Whoever is paired, newly or restored, is shown as signed in, unless it is
   undone: by a clear, or one of which the storage has failed half-way. *)
PairedSignsIn ==
  sso.status = "paired" ~>
    \/ auth.status = "authenticated" \/ sso.status # "paired" \/ disposed
    \/ \E u \in Clear : unpair[u].phase = "failed"

=============================================================================
