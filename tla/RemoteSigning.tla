---------------------------- MODULE RemoteSigning ----------------------------
(***************************************************************************)
(* Signing by the paired wallet: from the product's request through        *)
(* handlers/signing.ts, the approval gate of sdk.ts, signing.ts and        *)
(* signRequestExecutor.ts to the session with the wallet, and back.        *)
(*                                                                         *)
(* The session (StatementSession) is abstracted to what it promises: a     *)
(* request is handed over and ACKed; the wallet, at the other end of the   *)
(* same protocol, puts its answers into one batch that grows until it is   *)
(* ACKed, and queues what does not fit.  A batch stands for the id under   *)
(* which it is ACKed.  Who is paired and signed in is HostSdk's.           *)
(***************************************************************************)
EXTENDS Naturals, FiniteSets

CONSTANTS
  Call,        \* the product's calls of a signing method
  BatchSize,   \* answers that fit into one statement
  MaxBuilds    \* bound: remote signers built

ASSUME BatchSizeIsPositive == BatchSize \in Nat \ {0}
ASSUME BuildsAreNat == MaxBuilds \in Nat

VARIABLES
  gate,      \* config.onSignApproval is given
  paired,    \* the manager's state is "paired"
  signer,    \* the SDK has a remote signer and its session
  signedIn,  \* auth.getSession() has a session
  product,   \* "none", or embedded with a signing callback or without
  builds,
  call,      \* call[c]
  wallet,    \* wallet[c]: what the paired wallet has of the call
  batch,     \* the answers of the wallet's outgoing request
  queue,     \* its answers that wait for the ACK of the batch
  surfaced,  \* the batch this session has handed its subscribers
  acks,      \* batches whose ACK is on its way
  lost       \* batches whose ACK could not be submitted

sdkVars == <<gate, paired, signer, signedIn, product, builds>>
walletVars == <<wallet, batch, queue>>
ackVars == <<acks, lost>>
vars == <<sdkVars, call, walletVars, surfaced, ackVars>>

Verdict == {"signed", "refused"}
Answer == Call \X Verdict
NoCall == [phase |-> "none", heard |-> FALSE, acked |-> FALSE, end |-> "none"]

TypeOK ==
  /\ gate \in BOOLEAN /\ paired \in BOOLEAN /\ signer \in BOOLEAN /\ signedIn \in BOOLEAN
  /\ product \in {"none", "mute", "signing"} /\ builds \in 0 .. MaxBuilds
  /\ call \in [Call -> [phase : {"none", "approving", "waiting", "ended"},
                        heard : BOOLEAN, acked : BOOLEAN,
                        end : {"none", "PermissionDenied", "Unknown", "failed", "timeout"} \cup Verdict]]
  /\ wallet \in [Call -> {"none", "sent", "asked", "unreadable", "answered"}]
  /\ batch \subseteq Answer /\ Cardinality(batch) <= BatchSize
  /\ queue \subseteq Answer /\ (batch = {} => queue = {})
  /\ surfaced \subseteq Answer /\ acks \cup lost \subseteq SUBSET Answer
  /\ \A c \in Call : /\ call[c].phase = "ended" <=> call[c].end # "none"
                     /\ call[c].heard => call[c].phase = "waiting" /\ signer

Init ==
  /\ gate \in BOOLEAN
  /\ paired = FALSE /\ signer = FALSE /\ signedIn = FALSE /\ product = "none" /\ builds = 0
  /\ call = [c \in Call |-> NoCall] /\ wallet = [c \in Call |-> "none"]
  /\ batch = {} /\ queue = {} /\ surfaced = {} /\ acks = {} /\ lost = {}

-----------------------------------------------------------------------------
(* settle: once, and the subscription ends with it. *)

Settled(c, end) == [call[c] EXCEPT !.phase = "ended", !.heard = FALSE, !.end = end]

(* Session.dispose: subscribers are dropped; a request that was not ACKed is
   rejected and with it its call, others are left to their timer. *)
DisposedCalls ==
  [c \in Call |-> IF ~call[c].heard THEN call[c]
                  ELSE IF call[c].acked THEN [call[c] EXCEPT !.heard = FALSE]
                  ELSE Settled(c, "failed")]

DisposeRemoteSession ==
  /\ call' = DisposedCalls
  /\ surfaced' = {}

-----------------------------------------------------------------------------
(* The SDK: pairing, the building of the signer, signing out. *)

Pair ==
  /\ ~paired /\ builds < MaxBuilds
  /\ paired' = TRUE
  /\ wallet' = [c \in Call |-> "none"] /\ batch' = {} /\ queue' = {}
  /\ acks' = {} /\ lost' = {}
  /\ UNCHANGED <<gate, signer, signedIn, product, builds, call, surfaced>>

(* A restored session is built twice: the second disposes the first. *)
Build ==
  /\ paired /\ builds < MaxBuilds
  /\ builds' = builds + 1 /\ signer' = TRUE
  /\ DisposeRemoteSession
  /\ UNCHANGED <<gate, paired, signedIn, product, walletVars, ackVars>>

(* The identity is resolved by then; a session cleared meanwhile is not asked. *)
SignIn ==
  /\ builds > 0 /\ signedIn' = TRUE
  /\ UNCHANGED <<gate, paired, signer, product, builds, call, walletVars, surfaced, ackVars>>

ClearSession ==
  /\ signer' = FALSE /\ signedIn' = FALSE
  /\ DisposeRemoteSession
  /\ UNCHANGED <<gate, paired, product, builds, walletVars, ackVars>>

Unpaired ==
  /\ paired
  /\ paired' = FALSE /\ signer' = FALSE /\ signedIn' = FALSE
  /\ DisposeRemoteSession
  /\ UNCHANGED <<gate, product, builds, walletVars, ackVars>>

(* The callbacks a product is embedded with depend on the signer by then. *)
Embed ==
  /\ product = "none"
  /\ product' = IF signer THEN "signing" ELSE "mute"
  /\ UNCHANGED <<gate, paired, signer, signedIn, builds, call, walletVars, surfaced, ackVars>>

-----------------------------------------------------------------------------
(* Calls. *)

Ends(c, end) ==
  /\ call' = [call EXCEPT ![c] = Settled(c, end)]
  /\ UNCHANGED wallet

(* remoteSigner!.signPayload, signRaw: the signer of now; without one it throws.
   The subscription comes before the request, which the session may refuse. *)
DoSign(c) ==
  IF ~signer \/ ~paired THEN Ends(c, "failed") ELSE
  \/ Ends(c, "failed")
  \/ /\ call' = [call EXCEPT ![c] = [NoCall EXCEPT !.phase = "waiting", !.heard = TRUE]]
     /\ wallet' = [wallet EXCEPT ![c] = "sent"]

Sign(c) ==
  /\ product # "none" /\ call[c].phase = "none"
  /\ IF ~signedIn THEN Ends(c, "PermissionDenied")
     ELSE IF product = "mute" THEN Ends(c, "Unknown")
     ELSE IF gate THEN /\ call' = [call EXCEPT ![c].phase = "approving"]
                       /\ UNCHANGED wallet
     ELSE DoSign(c)
  /\ UNCHANGED <<sdkVars, batch, queue, surfaced, ackVars>>

Approved(c) ==
  /\ call[c].phase = "approving"
  /\ DoSign(c) \/ Ends(c, "failed")
  /\ UNCHANGED <<sdkVars, batch, queue, surfaced, ackVars>>

(* The session's request is ACKed, or answered with an error code. *)
RequestAcked(c) ==
  /\ call[c].heard /\ ~call[c].acked /\ wallet[c] \notin {"none", "sent"}
  /\ call' = [call EXCEPT ![c] = IF wallet[c] = "unreadable" THEN Settled(c, "failed")
                                 ELSE [call[c] EXCEPT !.acked = TRUE]]
  /\ UNCHANGED <<sdkVars, walletVars, surfaced, ackVars>>

ClearedOnAckFault(c) == call[c].phase = "waiting" /\ ~call[c].acked
TimerRuns(c) == call[c].phase = "waiting"

(* The timeout aborts the executor, which unsubscribes, and answers. *)
TimesOut(c) ==
  /\ TimerRuns(c)
  /\ call' = [call EXCEPT ![c] = Settled(c, "timeout")]
  /\ UNCHANGED <<sdkVars, walletVars, surfaced, ackVars>>

-----------------------------------------------------------------------------
(* The wallet. *)

WalletReceives(c) ==
  /\ wallet[c] = "sent"
  /\ \E w \in {"asked", "unreadable"} : wallet' = [wallet EXCEPT ![c] = w]
  /\ UNCHANGED <<sdkVars, call, batch, queue, surfaced, ackVars>>

(* Answers differ in size. *)
Fits == IF batch = {} THEN {TRUE} ELSE IF Cardinality(batch) < BatchSize THEN BOOLEAN ELSE {FALSE}

WalletAnswers(c) ==
  /\ wallet[c] = "asked"
  /\ wallet' = [wallet EXCEPT ![c] = "answered"]
  /\ \E v \in Verdict, fits \in Fits :
       /\ batch' = IF fits THEN batch \cup {<<c, v>>} ELSE batch
       /\ queue' = IF fits THEN queue ELSE queue \cup {<<c, v>>}
  /\ UNCHANGED <<sdkVars, call, surfaced, ackVars>>

AnyAnswerFault(c) == IF call[c].heard THEN batch ELSE {}
AnswersTo(c) == {a \in batch : call[c].heard /\ a[1] = c}

OnlySignaturesFault(matched) == \E c \in matched : <<c, "signed">> \in batch
IsAcked(matched) == matched # {}

(* The session surfaces the batch: each subscriber looks for the answer to its
   own request, ACKs the batch and settles, also when the ACK cannot be submitted; an answer
   nobody waits for is passed over. *)
Surface ==
  /\ signer /\ batch # {} /\ batch # surfaced
  /\ LET matched == {c \in Call : AnswersTo(c) # {}} IN
     /\ call' = [c \in Call |-> IF c \in matched THEN Settled(c, (CHOOSE a \in AnswersTo(c) : TRUE)[2])
                                ELSE call[c]]
     /\ \/ /\ acks' = IF IsAcked(matched) THEN acks \cup {batch} ELSE acks
           /\ UNCHANGED lost
        \/ /\ IsAcked(matched) /\ lost' = lost \cup {batch}
           /\ UNCHANGED acks
  /\ surfaced' = batch
  /\ UNCHANGED <<sdkVars, walletVars>>

(* The wallet's session: an ACK of an earlier batch is passed over. *)
AckArrives(b) ==
  /\ b \in acks /\ acks' = acks \ {b}
  /\ IF b # batch THEN UNCHANGED <<batch, queue>>
     ELSE \E next \in SUBSET queue :
            /\ Cardinality(next) <= BatchSize /\ (next = {} => queue = {})
            /\ batch' = next /\ queue' = queue \ next
  /\ UNCHANGED <<sdkVars, call, wallet, surfaced, lost>>

Next ==
  \/ Pair \/ Build \/ SignIn \/ ClearSession \/ Unpaired \/ Embed \/ Surface
  \/ \E c \in Call : \/ Sign(c) \/ Approved(c) \/ RequestAcked(c) \/ TimesOut(c)
                     \/ WalletReceives(c) \/ WalletAnswers(c)
  \/ \E b \in acks : AckArrives(b)

Spec == Init /\ [][Next]_vars

(* The timer is set before anything else of the call is done. *)
FairSpec == Spec /\ \A c \in Call : WF_vars(TimesOut(c))

-----------------------------------------------------------------------------
(* Properties. *)

(* What a call ends with is what the wallet of this pairing said of that very
   request, whatever else the batch holds. *)
OwnAnswer ==
  [][\A c \in Call : call[c].end # call'[c].end /\ call'[c].end \in Verdict =>
       <<c, call'[c].end>> \in batch /\ signer /\ wallet[c] = "answered"]_vars

(* The wallet's outgoing request is left without an ACK only because of an
   answer that came too late for its call, or of an ACK that failed: else nothing
   holds its queue up. *)
StuckByLateOnly ==
  signer /\ batch # {} /\ batch = surfaced /\ batch \notin acks \cup lost =>
    \E a \in batch : call[a[1]].end \notin Verdict

(* Whatever becomes of the session, a call that waits ends: its timer outlives
   the ACK and the session. *)
EveryCallEnds == \A c \in Call : call[c].phase = "waiting" ~> call[c].phase = "ended"
=============================================================================
