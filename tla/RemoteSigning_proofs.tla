------------------------ MODULE RemoteSigning_proofs -------------------------
(* Proofs about remote signing, for every number of calls, every size of a
   batch and every number of signers built: its types, that a call ends with
   its own answer, and that only answers that came too late hold up the wallet. *)
EXTENDS RemoteSigning, FiniteSetTheorems, TLAPS

(* A call, while there is a signer or not. *)
Phase == {"none", "approving", "waiting", "ended"}
End == {"none", "PermissionDenied", "Unknown", "failed", "timeout"} \cup Verdict
CallState == [phase : Phase, heard : BOOLEAN, acked : BOOLEAN, end : End]

CallOK(s, isSigner) ==
  /\ s \in CallState
  /\ s.phase = "ended" <=> s.end # "none"
  /\ s.heard => s.phase = "waiting" /\ isSigner

CallsOK == call \in [Call -> CallState] /\ \A c \in Call : CallOK(call[c], signer)

(* What the wallet holds: answers of calls it was asked, each once; one that
   is still queued has not been taken, and a batch of which every answer was
   taken has an ACK on its way, or one that failed. *)
WalletOK ==
  /\ IsFiniteSet(batch) /\ IsFiniteSet(queue)
  /\ batch \subseteq Answer /\ queue \subseteq Answer
  /\ \A a \in batch \cup queue : wallet[a[1]] = "answered"
  /\ \A a \in batch, b \in queue : a[1] # b[1]
  /\ \A a, b \in queue : a[1] = b[1] => a = b
  /\ \A c \in Call : wallet[c] \in {"sent", "asked", "unreadable"} => call[c].end \notin Verdict
  /\ \A c \in Call : wallet[c] # "none" => call[c].phase \in {"waiting", "ended"}
  /\ \A a \in queue : call[a[1]].end \notin Verdict
  /\ batch # {} /\ (\A a \in batch : call[a[1]].end \in Verdict) => batch \in acks \cup lost

(* The types of everything but the calls. *)
OthersOK ==
  /\ gate \in BOOLEAN /\ paired \in BOOLEAN /\ signer \in BOOLEAN /\ signedIn \in BOOLEAN
  /\ product \in {"none", "mute", "signing"} /\ builds \in 0 .. MaxBuilds
  /\ wallet \in [Call -> {"none", "sent", "asked", "unreadable", "answered"}]
  /\ Cardinality(batch) <= BatchSize /\ (batch = {} => queue = {})
  /\ surfaced \subseteq Answer /\ acks \cup lost \subseteq SUBSET Answer

Inv == CallsOK /\ OthersOK /\ WalletOK

LEMMA TypesFromInv == Inv => TypeOK
BY DEF Inv, TypeOK, OthersOK, WalletOK, CallsOK, CallOK, CallState, Phase, End

(* A call that settles is well formed whatever becomes of the signer. *)
LEMMA SettledOK ==
  ASSUME NEW c \in Call, CallsOK, NEW end \in End \ {"none"}, NEW isSigner \in BOOLEAN
  PROVE  CallOK(Settled(c, end), isSigner) /\ Settled(c, end).end = end
<1> DEFINE s == call[c]
<1>1. s \in CallState
  BY DEF CallsOK
<1>2. [s EXCEPT !.phase = "ended", !.heard = FALSE, !.end = end] \in CallState
  BY <1>1 DEF CallState, Phase
<1>3. QED BY <1>1, <1>2 DEF CallOK, Settled, CallState

(* What disposing of the session leaves of a call: no subscription, and no
   answer it did not have. *)
LEMMA DisposedOK ==
  ASSUME CallsOK, NEW isSigner \in BOOLEAN
  PROVE  /\ DisposedCalls \in [Call -> CallState]
         /\ \A c \in Call : /\ CallOK(DisposedCalls[c], isSigner)
                            /\ DisposedCalls[c].end = call[c].end \/ DisposedCalls[c].end \notin Verdict
<1> SUFFICES ASSUME NEW c \in Call
             PROVE  /\ DisposedCalls[c] \in CallState /\ CallOK(DisposedCalls[c], isSigner)
                    /\ DisposedCalls[c].end = call[c].end \/ DisposedCalls[c].end \notin Verdict
  BY DEF DisposedCalls
<1>1. CallOK(call[c], signer) /\ call[c] \in CallState
  BY DEF CallsOK
<1>2. CASE ~call[c].heard
  <2>1. DisposedCalls[c] = call[c]
    BY <1>2 DEF DisposedCalls
  <2>2. QED BY <1>1, <1>2, <2>1 DEF CallOK
<1>3. CASE call[c].heard /\ call[c].acked
  <2>1. DisposedCalls[c] = [call[c] EXCEPT !.heard = FALSE]
    BY <1>3 DEF DisposedCalls
  <2>2. DisposedCalls[c] \in CallState
    BY <1>1, <2>1 DEF CallState
  <2>3. QED BY <1>1, <2>1, <2>2 DEF CallOK, CallState
<1>4. CASE call[c].heard /\ ~call[c].acked
  <2>1. DisposedCalls[c] = Settled(c, "failed")
    BY <1>4 DEF DisposedCalls
  <2>2. QED BY <2>1, SettledOK DEF End, Verdict, CallOK
<1>5. QED BY <1>2, <1>3, <1>4

LEMMA InvInit == Init => Inv
<1> SUFFICES ASSUME Init PROVE Inv
  OBVIOUS
<1>1. CallsOK
  BY DEF Init, CallsOK, CallOK, CallState, Phase, End, NoCall
<1>2. Cardinality({}) = 0 /\ IsFiniteSet({})
  BY FS_EmptySet
<1>3. OthersOK
  <2>1. gate \in BOOLEAN /\ paired \in BOOLEAN /\ signer \in BOOLEAN /\ signedIn \in BOOLEAN
    BY DEF Init
  <2>2. Cardinality(batch) <= BatchSize
    BY <1>2, BatchSizeIsPositive DEF Init
  <2>3. QED BY <2>1, <2>2, BuildsAreNat DEF Init, OthersOK
<1>4. WalletOK
  BY <1>2 DEF Init, WalletOK, NoCall, Verdict
<1>5. QED BY <1>1, <1>3, <1>4 DEF Inv

(* Calls that go on, or end without an answer, leave the wallet's part alone. *)
LEMMA WalletOKKept ==
  ASSUME WalletOK, UNCHANGED <<batch, queue, acks, lost>>,
         wallet \in [Call -> {"none", "sent", "asked", "unreadable", "answered"}],
         \A c \in Call : call'[c].end = call[c].end \/ call'[c].end \notin Verdict,
         \A c \in Call : call'[c] = call[c] \/ call'[c].phase \in {"waiting", "ended"},
         \A c \in Call :
           \/ wallet'[c] = wallet[c]
           \/ /\ wallet[c] # "answered" /\ call'[c].end \notin Verdict
              /\ call'[c].phase \in {"waiting", "ended"}
  PROVE  WalletOK'
<1>1. \A a \in batch \cup queue : a[1] \in Call
  BY DEF WalletOK, Answer
<1>2. /\ batch' = batch /\ queue' = queue /\ acks' = acks /\ lost' = lost
  OBVIOUS
<1>3. \A a \in batch' \cup queue' : wallet'[a[1]] = "answered"
  BY <1>1, <1>2 DEF WalletOK
<1>4. \A c \in Call : wallet'[c] \in {"sent", "asked", "unreadable"} => call'[c].end \notin Verdict
  BY DEF WalletOK
<1>5. \A c \in Call : wallet'[c] # "none" => call'[c].phase \in {"waiting", "ended"}
  BY DEF WalletOK
<1>6. \A a \in queue' : call'[a[1]].end \notin Verdict
  BY <1>1, <1>2 DEF WalletOK
<1>7. batch' # {} /\ (\A a \in batch' : call'[a[1]].end \in Verdict) => batch' \in acks' \cup lost'
  BY <1>1, <1>2 DEF WalletOK
<1>8. QED BY <1>2, <1>3, <1>4, <1>5, <1>6, <1>7 DEF WalletOK

LEMMA OneCall ==
  ASSUME CallsOK, NEW c \in Call, NEW s, CallOK(s, signer), UNCHANGED signer,
         call' = [call EXCEPT ![c] = s]
  PROVE  CallsOK'
BY DEF CallsOK, CallOK

(* A call is refused, fails, or is sent to the wallet. *)
LEMMA FailedEnd ==
  \A end \in {"PermissionDenied", "Unknown", "failed", "timeout"} :
    end \in End \ {"none"} /\ end \notin Verdict
BY DEF End, Verdict

LEMMA EndsStep ==
  ASSUME Inv, NEW c \in Call, NEW end \in End \ {"none"}, end \notin Verdict,
         call' = [call EXCEPT ![c] = Settled(c, end)],
         UNCHANGED <<sdkVars, wallet, batch, queue, surfaced, ackVars>>
  PROVE  Inv'
<1>1. /\ CallOK(Settled(c, end), signer) /\ Settled(c, end).end = end
      /\ Settled(c, end).phase = "ended"
  BY SettledOK DEF Inv, OthersOK, CallOK
<1>2. CallsOK'
  BY <1>1, OneCall DEF Inv, sdkVars
<1>3. OthersOK'
  BY DEF Inv, OthersOK, sdkVars, ackVars
<1>4. /\ \A d \in Call : call'[d] = call[d] \/ call'[d].phase \in {"waiting", "ended"}
      /\ \A d \in Call : call'[d].end = call[d].end \/ call'[d].end \notin Verdict
  BY <1>1 DEF Inv, CallsOK
<1>5. WalletOK'
  <2>1. WalletOK /\ wallet' = wallet /\ UNCHANGED <<batch, queue, acks, lost>>
    BY DEF Inv, ackVars
  <2>2. wallet \in [Call -> {"none", "sent", "asked", "unreadable", "answered"}]
    BY DEF Inv, OthersOK
  <2>3. QED BY <1>4, <2>1, <2>2, WalletOKKept
<1>6. QED BY <1>2, <1>3, <1>5 DEF Inv

LEMMA DoSignStep ==
  ASSUME Inv, NEW c \in Call, call[c].phase \in {"none", "approving"}, DoSign(c),
         UNCHANGED <<sdkVars, batch, queue, surfaced, ackVars>>
  PROVE  Inv'
<1>1. CASE Ends(c, "failed")
  BY <1>1, FailedEnd, EndsStep DEF Ends
<1>2. CASE /\ signer
           /\ call' = [call EXCEPT ![c] = [NoCall EXCEPT !.phase = "waiting", !.heard = TRUE]]
           /\ wallet' = [wallet EXCEPT ![c] = "sent"]
  <2> DEFINE s == [NoCall EXCEPT !.phase = "waiting", !.heard = TRUE]
  <2>1. CallOK(s, signer) /\ s.end \notin Verdict /\ s.phase = "waiting"
    BY <1>2 DEF CallOK, CallState, Phase, End, NoCall, Verdict
  <2>2. CallsOK'
    BY <1>2, <2>1, OneCall DEF Inv, sdkVars
  <2>3. OthersOK'
    BY <1>2 DEF Inv, OthersOK, sdkVars, ackVars
  <2>4. /\ \A d \in Call : call'[d] = call[d] \/ call'[d].phase \in {"waiting", "ended"}
        /\ \A d \in Call : call'[d].end = call[d].end \/ call'[d].end \notin Verdict
    BY <1>2, <2>1 DEF Inv, CallsOK
  <2>5. wallet[c] = "none"
    BY DEF Inv, WalletOK
  <2>6. \A d \in Call :
          \/ wallet'[d] = wallet[d]
          \/ /\ wallet[d] # "answered" /\ call'[d].end \notin Verdict
             /\ call'[d].phase \in {"waiting", "ended"}
    <3>1. call'[c] = s
      BY <1>2 DEF Inv, CallsOK
    <3>2. \A d \in Call \ {c} : wallet'[d] = wallet[d]
      BY <1>2 DEF Inv, OthersOK
    <3>3. QED BY <2>1, <2>5, <3>1, <3>2
  <2>7. WalletOK /\ UNCHANGED <<batch, queue, acks, lost>>
    BY DEF Inv, ackVars
  <2>8. wallet \in [Call -> {"none", "sent", "asked", "unreadable", "answered"}]
    BY DEF Inv, OthersOK
  <2>9. WalletOK'
    BY <2>4, <2>6, <2>7, <2>8, WalletOKKept
  <2>10. QED BY <2>2, <2>3, <2>9 DEF Inv
<1>3. QED BY <1>1, <1>2 DEF DoSign

(* The product's side of a call. *)
LEMMA CallStep ==
  ASSUME Inv, NEW c \in Call, Sign(c) \/ Approved(c) \/ RequestAcked(c) \/ TimesOut(c)
  PROVE  Inv'
<1>1. CASE Sign(c)
  <2>1. CASE Ends(c, "PermissionDenied") \/ Ends(c, "Unknown")
    BY <1>1, <2>1, FailedEnd, EndsStep DEF Sign, Ends
  <2>2. CASE DoSign(c)
    BY <1>1, <2>2, DoSignStep DEF Sign
  <2>3. CASE call' = [call EXCEPT ![c].phase = "approving"] /\ UNCHANGED wallet
    <3> DEFINE s == [call[c] EXCEPT !.phase = "approving"]
    <3>1. CallOK(call[c], signer) /\ call[c] \in CallState /\ call[c].phase = "none"
      BY <1>1 DEF Inv, CallsOK, Sign
    <3>2. CallOK(s, signer) /\ s.end = call[c].end
      BY <3>1 DEF CallOK, CallState, Phase
    <3>3. CallsOK'
      BY <1>1, <2>3, <3>2, OneCall DEF Inv, Sign, sdkVars
    <3>4. OthersOK'
      BY <1>1, <2>3 DEF Inv, OthersOK, Sign, sdkVars, ackVars
    <3>5. wallet[c] = "none"
      BY <3>1 DEF Inv, WalletOK
    <3>5a. \A a \in batch \cup queue : a[1] \in Call
      BY DEF Inv, WalletOK, Answer
    <3>6. \A d \in Call : call'[d].end = call[d].end
      BY <2>3, <3>2 DEF Inv, CallsOK
    <3>6a. \A d \in Call : d # c => call'[d] = call[d]
      BY <2>3 DEF Inv, CallsOK
    <3>7. UNCHANGED <<batch, queue, wallet, acks, lost>>
      BY <1>1, <2>3 DEF Sign, ackVars
    <3>8. WalletOK'
      <4>1. WalletOK
        BY DEF Inv
      <4>2. \A d \in Call : wallet[d] # "none" => call'[d].phase \in {"waiting", "ended"}
        BY <3>5, <3>6a, <4>1 DEF WalletOK
      <4>3. \A a \in batch \cup queue : call'[a[1]].end = call[a[1]].end
        BY <3>5a, <3>6
      <4>4. \A d \in Call : wallet'[d] \in {"sent", "asked", "unreadable"} => call'[d].end \notin Verdict
        BY <3>6, <3>7, <4>1 DEF WalletOK
      <4>5. QED BY <3>7, <4>1, <4>2, <4>3, <4>4 DEF WalletOK
    <3>9. QED BY <3>3, <3>4, <3>8 DEF Inv
  <2>4. QED BY <1>1, <2>1, <2>2, <2>3 DEF Sign
<1>2. CASE Approved(c)
  BY <1>2, FailedEnd, EndsStep, DoSignStep DEF Approved, Ends
<1>3. CASE RequestAcked(c)
  <2>1. CASE call' = [call EXCEPT ![c] = Settled(c, "failed")]
    <3>1. UNCHANGED <<sdkVars, wallet, batch, queue, surfaced, ackVars>>
      BY <1>3 DEF RequestAcked, walletVars
    <3>2. QED BY <2>1, <3>1, FailedEnd, EndsStep
  <2>2. CASE call' = [call EXCEPT ![c] = [call[c] EXCEPT !.acked = TRUE]]
    <3> DEFINE s == [call[c] EXCEPT !.acked = TRUE]
    <3>1. CallOK(call[c], signer) /\ call[c] \in CallState
      BY DEF Inv, CallsOK
    <3>2. CallOK(s, signer) /\ s.end = call[c].end /\ s.phase = call[c].phase
      BY <3>1 DEF CallOK, CallState
    <3>3. CallsOK'
      BY <1>3, <2>2, <3>2, OneCall DEF Inv, RequestAcked, sdkVars
    <3>4. OthersOK'
      BY <1>3 DEF Inv, OthersOK, RequestAcked, sdkVars, walletVars, ackVars
    <3>5. \A d \in Call : call'[d].end = call[d].end /\ call'[d].phase = call[d].phase
      BY <2>2, <3>2 DEF Inv, CallsOK
    <3>6. UNCHANGED <<batch, queue, wallet, acks, lost>> /\ \A a \in batch \cup queue : a[1] \in Call
      BY <1>3 DEF Inv, WalletOK, Answer, RequestAcked, walletVars, ackVars
    <3>7. WalletOK'
      BY <3>5, <3>6 DEF Inv, WalletOK
    <3>8. QED BY <3>3, <3>4, <3>7 DEF Inv
  <2>3. QED BY <1>3, <2>1, <2>2 DEF RequestAcked
<1>4. CASE TimesOut(c)
  <2>1. UNCHANGED <<sdkVars, wallet, batch, queue, surfaced, ackVars>>
    BY <1>4 DEF TimesOut, walletVars
  <2>2. QED BY <1>4, <2>1, FailedEnd, EndsStep DEF TimesOut
<1>5. QED BY <1>1, <1>2, <1>3, <1>4

(* Whatever disposes of the session: the wallet keeps what it has. *)
LEMMA DisposeStep ==
  ASSUME Inv, Build \/ ClearSession \/ Unpaired
  PROVE  Inv'
<1>1. DisposeRemoteSession /\ UNCHANGED <<gate, product, wallet, batch, queue, acks, lost>>
  BY DEF Build, ClearSession, Unpaired, walletVars, ackVars
<1>2. signer' \in BOOLEAN /\ paired' \in BOOLEAN /\ signedIn' \in BOOLEAN
  BY DEF Inv, OthersOK, Build, ClearSession, Unpaired
<1>3. builds' \in 0 .. MaxBuilds
  BY BuildsAreNat DEF Inv, OthersOK, Build, ClearSession, Unpaired
<1>4. CallsOK /\ call' = DisposedCalls
  BY <1>1 DEF Inv, DisposeRemoteSession
<1>5. CallsOK'
  BY <1>2, <1>4, DisposedOK DEF CallsOK
<1>6. OthersOK'
  BY <1>1, <1>2, <1>3 DEF Inv, OthersOK, DisposeRemoteSession
<1>7. \A c \in Call : call'[c].end = call[c].end \/ call'[c].end \notin Verdict
  BY <1>4, DisposedOK, <1>2
<1>8. \A c \in Call : call[c].phase \in {"waiting", "ended"} => call'[c].phase \in {"waiting", "ended"}
  <2> SUFFICES ASSUME NEW c \in Call, call[c].phase \in {"waiting", "ended"}
               PROVE  DisposedCalls[c].phase \in {"waiting", "ended"}
    BY <1>4
  <2>1. call[c] \in CallState
    BY <1>4 DEF CallsOK
  <2>2. QED BY <2>1 DEF DisposedCalls, Settled, CallState
<1>9. WalletOK'
  <2>1. WalletOK /\ \A a \in batch \cup queue : a[1] \in Call
    BY DEF Inv, WalletOK, Answer
  <2>2. \A c \in Call : wallet[c] # "none" => call'[c].phase \in {"waiting", "ended"}
    BY <1>8, <2>1 DEF WalletOK
  <2>3. \A a \in batch \cup queue : call'[a[1]].end \in Verdict => call[a[1]].end \in Verdict
    BY <1>7, <2>1
  <2>4. \A c \in Call : wallet[c] \in {"sent", "asked", "unreadable"} => call'[c].end \notin Verdict
    BY <1>7, <2>1 DEF WalletOK
  <2>5. QED BY <1>1, <2>1, <2>2, <2>3, <2>4 DEF WalletOK
<1>10. QED BY <1>5, <1>6, <1>9 DEF Inv

LEMMA SdkStep ==
  ASSUME Inv, Pair \/ SignIn \/ Embed
  PROVE  Inv'
<1>1. UNCHANGED <<call, signer, gate, builds, surfaced>>
  BY DEF Pair, SignIn, Embed
<1>2. CallsOK'
  BY <1>1 DEF Inv, CallsOK
<1>3. CASE Pair
  <2>1. batch' = {} /\ queue' = {} /\ Cardinality({}) = 0 /\ IsFiniteSet({})
    BY <1>3, FS_EmptySet DEF Pair
  <2>2. paired' \in BOOLEAN /\ signedIn' = signedIn /\ product' = product /\ acks' = {} /\ lost' = {}
    BY <1>3 DEF Pair
  <2>3. OthersOK'
    BY <1>1, <1>3, <2>1, <2>2, BatchSizeIsPositive DEF Inv, OthersOK, Pair
  <2>4. WalletOK'
    BY <1>3, <2>1 DEF Pair, WalletOK
  <2>5. QED BY <1>2, <2>3, <2>4 DEF Inv
<1>4. CASE SignIn \/ Embed
  <2>1. /\ paired' = paired /\ UNCHANGED <<wallet, batch, queue, acks, lost>>
        /\ signedIn' \in BOOLEAN /\ product' \in {"none", "mute", "signing"}
    BY <1>4 DEF SignIn, Embed, walletVars, ackVars, Inv, OthersOK
  <2>2. OthersOK'
    BY <1>1, <2>1 DEF Inv, OthersOK
  <2>3. WalletOK'
    BY <1>1, <2>1 DEF Inv, WalletOK
  <2>4. QED BY <1>2, <2>2, <2>3 DEF Inv
<1>5. QED BY <1>3, <1>4

(* The wallet gets to a call and answers it, into its batch or behind it. *)
LEMMA WalletStep ==
  ASSUME Inv, NEW c \in Call, WalletReceives(c) \/ WalletAnswers(c)
  PROVE  Inv'
<1>1. UNCHANGED <<sdkVars, call, surfaced, acks, lost>>
  BY DEF WalletReceives, WalletAnswers, ackVars
<1>2. CallsOK'
  BY <1>1 DEF Inv, CallsOK, sdkVars
<1>3. wallet' \in [Call -> {"none", "sent", "asked", "unreadable", "answered"}]
  BY DEF Inv, OthersOK, WalletReceives, WalletAnswers
<1>4. CASE WalletReceives(c)
  <2>1. batch' = batch /\ queue' = queue
    BY <1>4 DEF WalletReceives
  <2>2. OthersOK'
    BY <1>1, <1>3, <2>1 DEF Inv, OthersOK, sdkVars
  <2>3. wallet'[c] \in {"asked", "unreadable"} /\ wallet[c] = "sent"
    BY <1>4 DEF WalletReceives, Inv, OthersOK
  <2>4. \A d \in Call : d # c => wallet'[d] = wallet[d]
    BY <1>4 DEF WalletReceives, Inv, OthersOK
  <2>5. WalletOK /\ \A a \in batch \cup queue : a[1] \in Call
    BY DEF Inv, WalletOK, Answer
  <2>6. \A a \in batch' \cup queue' : wallet'[a[1]] = "answered"
    BY <2>1, <2>3, <2>4, <2>5 DEF WalletOK
  <2>7. /\ \A d \in Call : wallet'[d] \in {"sent", "asked", "unreadable"} => call'[d].end \notin Verdict
        /\ \A d \in Call : wallet'[d] # "none" => call'[d].phase \in {"waiting", "ended"}
    BY <1>1, <2>3, <2>4, <2>5 DEF WalletOK
  <2>8. WalletOK'
    BY <1>1, <2>1, <2>5, <2>6, <2>7 DEF WalletOK
  <2>9. QED BY <1>2, <2>2, <2>8 DEF Inv
<1>5. CASE WalletAnswers(c)
  <2>1. PICK v \in Verdict, fits \in Fits :
          /\ batch' = IF fits THEN batch \cup {<<c, v>>} ELSE batch
          /\ queue' = IF fits THEN queue ELSE queue \cup {<<c, v>>}
    BY <1>5 DEF WalletAnswers
  <2> DEFINE a == <<c, v>>
  <2>2. a \in Answer /\ a[1] = c /\ wallet[c] = "asked" /\ wallet' = [wallet EXCEPT ![c] = "answered"]
    BY <1>5 DEF Answer, WalletAnswers
  <2>3. WalletOK /\ \A b \in batch \cup queue : b[1] \in Call /\ b[1] # c
    BY <2>2 DEF Inv, WalletOK, Answer
  <2>4. call[c].end \notin Verdict /\ call[c].phase \in {"waiting", "ended"}
    BY <2>2, <2>3 DEF WalletOK
  <2>5. /\ IsFiniteSet(batch') /\ IsFiniteSet(queue')
        /\ Cardinality(batch') <= BatchSize /\ (batch' = {} => queue' = {})
    <3>1. IsFiniteSet(batch) /\ IsFiniteSet(queue) /\ Cardinality(batch) <= BatchSize
      BY DEF Inv, OthersOK, WalletOK
    <3>2. CASE batch = {}
      <4>1. fits /\ batch' = {a} /\ queue' = queue
        BY <2>1, <3>2 DEF Fits
      <4>2. Cardinality({a}) = 1 /\ IsFiniteSet({a})
        BY FS_Singleton
      <4>3. 1 <= BatchSize /\ {a} # {}
        BY BatchSizeIsPositive
      <4>4. Cardinality(batch') = 1 /\ IsFiniteSet(batch') /\ batch' # {}
        BY <4>1, <4>2
      <4>5. QED BY <3>1, <4>1, <4>3, <4>4
    <3>3. CASE batch # {} /\ fits
      <4>1. Cardinality(batch) < BatchSize
        BY <3>3 DEF Fits
      <4>2. Cardinality(batch \cup {a}) \in {Cardinality(batch), Cardinality(batch) + 1}
        BY <3>1, FS_AddElement
      <4>3. IsFiniteSet(batch \cup {a}) /\ Cardinality(batch) \in Nat
        BY <3>1, FS_AddElement, FS_CardinalityType
      <4>4. QED BY <2>1, <3>1, <3>3, <4>1, <4>2, <4>3, BatchSizeIsPositive
    <3>4. CASE batch # {} /\ ~fits
      <4>1. IsFiniteSet(queue \cup {a})
        BY <3>1, FS_AddElement
      <4>2. QED BY <2>1, <3>1, <3>4, <4>1
    <3>5. QED BY <3>2, <3>3, <3>4
  <2>6. OthersOK'
    BY <1>1, <1>3, <2>5 DEF Inv, OthersOK, sdkVars
  <2>7. batch' \cup queue' = batch \cup queue \cup {a}
    BY <2>1
  <2>8. batch' \subseteq Answer /\ queue' \subseteq Answer
    BY <2>1, <2>2, <2>3 DEF WalletOK
  <2>9. \A b \in batch' \cup queue' : wallet'[b[1]] = "answered"
    <3>1. \A b \in batch \cup queue : wallet'[b[1]] = wallet[b[1]]
      BY <2>2, <2>3 DEF Inv, OthersOK
    <3>2. wallet'[c] = "answered"
      BY <2>2 DEF Inv, OthersOK
    <3>3. QED BY <2>2, <2>3, <2>7, <3>1, <3>2 DEF WalletOK
  <2>10. /\ \A b \in batch', d \in queue' : b[1] # d[1]
         /\ \A b, d \in queue' : b[1] = d[1] => b = d
    BY <2>1, <2>2, <2>3 DEF WalletOK
  <2>11. /\ \A d \in Call : wallet'[d] \in {"sent", "asked", "unreadable"} => call'[d].end \notin Verdict
         /\ \A d \in Call : wallet'[d] # "none" => call'[d].phase \in {"waiting", "ended"}
    <3>1. \A d \in Call : d # c => wallet'[d] = wallet[d]
      BY <2>2 DEF Inv, OthersOK
    <3>2. QED BY <1>1, <2>3, <2>4, <3>1 DEF WalletOK
  <2>12. \A d \in queue' : call'[d[1]].end \notin Verdict
    BY <1>1, <2>1, <2>2, <2>3, <2>4 DEF WalletOK
  <2>13. batch' # {} /\ (\A b \in batch' : call'[b[1]].end \in Verdict) => batch' \in acks' \cup lost'
    BY <1>1, <2>1, <2>2, <2>3, <2>4 DEF WalletOK
  <2>14. WalletOK'
    BY <2>5, <2>8, <2>9, <2>10, <2>11, <2>12, <2>13 DEF WalletOK
  <2>15. QED BY <1>2, <2>6, <2>14 DEF Inv
<1>6. QED BY <1>4, <1>5

(* The batch is surfaced: who finds its answer takes it, and then the batch has
   an ACK. *)
Matched == {c \in Call : AnswersTo(c) # {}}
Taken(c) == (CHOOSE a \in AnswersTo(c) : TRUE)[2]

LEMMA TakenOK ==
  ASSUME Inv, NEW c \in Matched
  PROVE  /\ <<c, Taken(c)>> \in batch /\ Taken(c) \in Verdict
         /\ call[c].heard /\ c \in Call
<1> DEFINE a == CHOOSE a \in AnswersTo(c) : TRUE
<1>1. AnswersTo(c) # {} /\ c \in Call
  BY DEF Matched
<1>2. a \in AnswersTo(c)
  BY <1>1
<1>3. a \in batch /\ a[1] = c /\ call[c].heard
  BY <1>2 DEF AnswersTo
<1>4. a \in Call \X Verdict
  BY <1>3 DEF Inv, WalletOK, Answer
<1>5. a = <<c, Taken(c)>> /\ Taken(c) \in Verdict
  BY <1>3, <1>4 DEF Taken
<1>6. QED BY <1>1, <1>3, <1>5

LEMMA SurfaceStep ==
  ASSUME Inv, Surface
  PROVE  Inv'
<1>1. /\ UNCHANGED <<sdkVars, wallet, batch, queue>> /\ surfaced' = batch /\ batch # {}
      /\ call' = [c \in Call |-> IF c \in Matched THEN Settled(c, Taken(c)) ELSE call[c]]
      /\ \/ acks' = (IF IsAcked(Matched) THEN acks \cup {batch} ELSE acks) /\ lost' = lost
         \/ IsAcked(Matched) /\ lost' = lost \cup {batch} /\ acks' = acks
  BY DEF Surface, Matched, Taken, walletVars
<1>2. CallsOK /\ WalletOK /\ signer \in BOOLEAN /\ signer' = signer /\ Matched \subseteq Call
  BY <1>1 DEF Inv, OthersOK, sdkVars, Matched
<1>3. \A c \in Matched : /\ CallOK(call'[c], signer) /\ call'[c].end = Taken(c)
                          /\ call'[c] \in CallState /\ call'[c].phase = "ended"
  <2> SUFFICES ASSUME NEW c \in Matched
               PROVE  /\ CallOK(Settled(c, Taken(c)), signer) /\ Settled(c, Taken(c)).end = Taken(c)
                      /\ Settled(c, Taken(c)) \in CallState /\ Settled(c, Taken(c)).phase = "ended"
    BY <1>1, <1>2
  <2>1. Taken(c) \in End \ {"none"} /\ c \in Call
    BY TakenOK DEF End, Verdict
  <2>2. CallOK(Settled(c, Taken(c)), signer) /\ Settled(c, Taken(c)).end = Taken(c)
    BY <1>2, <2>1, SettledOK
  <2>3. QED BY <2>1, <2>2 DEF CallOK
<1>4. \A c \in Call \ Matched : call'[c] = call[c]
  BY <1>1
<1>5. CallsOK'
  <2>1. \A c \in Call : call'[c] \in CallState /\ CallOK(call'[c], signer)
    BY <1>2, <1>3, <1>4 DEF CallsOK
  <2>2. call' \in [Call -> CallState]
    BY <1>1, <2>1
  <2>3. QED BY <1>2, <2>1, <2>2 DEF CallsOK
<1>6. OthersOK'
  <2>1. acks' \cup lost' \subseteq SUBSET Answer /\ surfaced' \subseteq Answer
    BY <1>1 DEF Inv, OthersOK, WalletOK
  <2>2. QED BY <1>1, <2>1 DEF Inv, OthersOK, sdkVars
<1>7. \A c \in Matched : <<c, Taken(c)>> \in batch
  BY TakenOK
<1>8. \A c \in Matched : wallet[c] = "answered" /\ \A b \in queue : b[1] # c
  <2> SUFFICES ASSUME NEW c \in Matched PROVE wallet[c] = "answered" /\ \A b \in queue : b[1] # c
    OBVIOUS
  <2>1. PICK a \in batch : a[1] = c
    BY <1>7
  <2>2. QED BY <1>2, <2>1 DEF WalletOK
<1>9. \A a \in batch \cup queue : a[1] \in Call
  BY <1>2 DEF WalletOK, Answer
<1>10. \A c \in Call : wallet[c] \in {"sent", "asked", "unreadable"} => call'[c].end \notin Verdict
  BY <1>2, <1>4, <1>8 DEF WalletOK
<1>11. \A c \in Call : wallet[c] # "none" => call'[c].phase \in {"waiting", "ended"}
  BY <1>2, <1>3, <1>4 DEF WalletOK
<1>12. \A a \in queue : call'[a[1]].end \notin Verdict
  BY <1>2, <1>4, <1>8, <1>9 DEF WalletOK
<1>13. (\A a \in batch : call'[a[1]].end \in Verdict) => batch \in acks' \cup lost'
  <2>1. CASE Matched # {}
    BY <1>1, <2>1 DEF IsAcked
  <2>2. CASE Matched = {}
    <3>1. acks' = acks /\ lost' = lost
      BY <1>1, <2>2 DEF IsAcked
    <3>2. \A c \in Call : call'[c] = call[c]
      BY <1>4, <2>2
    <3>3. \A a \in batch : call'[a[1]] = call[a[1]]
      BY <1>9, <3>2
    <3>4. QED BY <1>1, <1>2, <3>1, <3>3 DEF WalletOK
  <2>3. QED BY <2>1, <2>2
<1>14. WalletOK'
  BY <1>1, <1>2, <1>10, <1>11, <1>12, <1>13 DEF WalletOK
<1>15. QED BY <1>5, <1>6, <1>14 DEF Inv

(* The wallet's session goes on to what it had queued. *)
LEMMA AckStep ==
  ASSUME Inv, NEW b \in acks, AckArrives(b)
  PROVE  Inv'
<1>1. UNCHANGED <<sdkVars, call, wallet, surfaced, lost>> /\ acks' = acks \ {b}
  BY DEF AckArrives
<1>2. CallsOK'
  BY <1>1 DEF Inv, CallsOK, sdkVars
<1>3. CASE b # batch
  <2>1. batch' = batch /\ queue' = queue
    BY <1>3 DEF AckArrives
  <2>2. OthersOK'
    BY <1>1, <2>1 DEF Inv, OthersOK, sdkVars
  <2>3. WalletOK'
    BY <1>1, <1>3, <2>1 DEF Inv, WalletOK
  <2>4. QED BY <1>2, <2>2, <2>3 DEF Inv
<1>4. CASE b = batch
  <2>1. PICK next \in SUBSET queue :
          /\ Cardinality(next) <= BatchSize /\ (next = {} => queue = {})
          /\ batch' = next /\ queue' = queue \ next
    BY <1>4 DEF AckArrives
  <2>2. WalletOK /\ IsFiniteSet(next) /\ IsFiniteSet(queue \ next)
    BY FS_Subset, <2>1 DEF Inv, WalletOK
  <2>3. OthersOK'
    BY <1>1, <2>1 DEF Inv, OthersOK, sdkVars
  <2>4. \A a \in next, d \in queue \ next : a[1] # d[1]
    BY <2>2 DEF WalletOK
  <2>5. \A a \in batch' : call'[a[1]].end \notin Verdict
    BY <1>1, <2>1, <2>2 DEF WalletOK
  <2>6. WalletOK'
    BY <1>1, <2>1, <2>2, <2>4, <2>5 DEF WalletOK
  <2>7. QED BY <1>2, <2>3, <2>6 DEF Inv
<1>5. QED BY <1>3, <1>4

LEMMA InvStep ==
  ASSUME Inv, [Next]_vars
  PROVE  Inv'
<1>1. CASE UNCHANGED vars
  <2>1. UNCHANGED <<gate, paired, signer, signedIn, product, builds, call, wallet, batch, queue,
                    surfaced, acks, lost>>
    BY <1>1 DEF vars, sdkVars, walletVars, ackVars
  <2>2. QED BY <2>1 DEF Inv, CallsOK, OthersOK, WalletOK
<1>2. CASE \E c \in Call : Sign(c) \/ Approved(c) \/ RequestAcked(c) \/ TimesOut(c)
  BY <1>2, CallStep
<1>3. CASE \E c \in Call : WalletReceives(c) \/ WalletAnswers(c)
  BY <1>3, WalletStep
<1>4. CASE \E b \in acks : AckArrives(b)
  BY <1>4, AckStep
<1>5. QED BY <1>1, <1>2, <1>3, <1>4, SdkStep, DisposeStep, SurfaceStep DEF Next

LEMMA Inductive == Spec => []Inv
<1>1. Inv /\ [Next]_vars => Inv'
  BY InvStep
<1>2. QED BY <1>1, InvInit, PTL DEF Spec

(* Types; among them: a statement never holds more answers than fit, nothing is
   queued behind an empty one, and a call listens only while it waits for a
   signer that is there. *)
THEOREM TypeCorrect == Spec => []TypeOK
BY Inductive, TypesFromInv, PTL

(* Only an answer that came too late for its call, or an ACK that failed, holds
   up the wallet's queue. *)
THEOREM StuckCorrect == Spec => []StuckByLateOnly
<1>1. Inv => StuckByLateOnly
  BY DEF Inv, WalletOK, StuckByLateOnly
<1>2. QED BY <1>1, Inductive, PTL

(* A call that ends with an answer ends with the wallet's answer to it. *)
OwnAnswerStep ==
  \A c \in Call : call[c].end # call'[c].end /\ call'[c].end \in Verdict =>
    <<c, call'[c].end>> \in batch /\ signer /\ wallet[c] = "answered"

LEMMA QuietStep ==
  ASSUME \A c \in Call : call'[c].end = call[c].end \/ call'[c].end \notin Verdict
  PROVE  OwnAnswerStep
BY DEF OwnAnswerStep

LEMMA EndsQuietly ==
  ASSUME CallsOK, NEW c \in Call, NEW end \in End \ {"none"}, end \notin Verdict,
         call' = [call EXCEPT ![c] = Settled(c, end)]
  PROVE  OwnAnswerStep
<1>1. Settled(c, end).end = end
  BY SettledOK
<1>2. \A d \in Call : call'[d].end = call[d].end \/ call'[d].end \notin Verdict
  BY <1>1 DEF CallsOK
<1>3. QED BY <1>2, QuietStep

LEMMA DoSignQuietly ==
  ASSUME CallsOK, NEW c \in Call, DoSign(c)
  PROVE  OwnAnswerStep
<1>1. CASE Ends(c, "failed")
  BY <1>1, FailedEnd, EndsQuietly DEF Ends
<1>2. CASE call' = [call EXCEPT ![c] = [NoCall EXCEPT !.phase = "waiting", !.heard = TRUE]]
  <2>1. \A d \in Call : call'[d].end = call[d].end \/ call'[d].end \notin Verdict
    BY <1>2 DEF CallsOK, NoCall, Verdict
  <2>2. QED BY <2>1, QuietStep
<1>3. QED BY <1>1, <1>2 DEF DoSign

LEMMA OwnAnswerInductive ==
  ASSUME Inv, [Next]_vars
  PROVE  OwnAnswerStep
<1> CallsOK
  BY DEF Inv
<1>1. CASE UNCHANGED call
  BY <1>1, QuietStep
<1>2. CASE Build \/ ClearSession \/ Unpaired
  <2>1. call' = DisposedCalls
    BY <1>2 DEF Build, ClearSession, Unpaired, DisposeRemoteSession
  <2>2. \A c \in Call : DisposedCalls[c].end = call[c].end \/ DisposedCalls[c].end \notin Verdict
    BY DisposedOK
  <2>3. QED BY <2>1, <2>2, QuietStep
<1>3. ASSUME NEW c \in Call, Sign(c) PROVE OwnAnswerStep
  <2>1. CASE Ends(c, "PermissionDenied") \/ Ends(c, "Unknown")
    BY <2>1, FailedEnd, EndsQuietly DEF Ends
  <2>2. CASE DoSign(c)
    BY <2>2, DoSignQuietly
  <2>3. CASE call' = [call EXCEPT ![c].phase = "approving"]
    <3>1. \A d \in Call : call'[d].end = call[d].end
      BY <2>3 DEF CallsOK, CallState
    <3>2. QED BY <3>1, QuietStep
  <2>4. QED BY <1>3, <2>1, <2>2, <2>3 DEF Sign
<1>4. ASSUME NEW c \in Call, Approved(c) PROVE OwnAnswerStep
  BY <1>4, FailedEnd, EndsQuietly, DoSignQuietly DEF Approved, Ends
<1>5. ASSUME NEW c \in Call, RequestAcked(c) PROVE OwnAnswerStep
  <2>1. CASE call' = [call EXCEPT ![c] = Settled(c, "failed")]
    BY <2>1, FailedEnd, EndsQuietly
  <2>2. CASE call' = [call EXCEPT ![c] = [call[c] EXCEPT !.acked = TRUE]]
    <3>1. \A d \in Call : call'[d].end = call[d].end
      BY <2>2 DEF CallsOK, CallState
    <3>2. QED BY <3>1, QuietStep
  <2>3. QED BY <1>5, <2>1, <2>2 DEF RequestAcked
<1>6. ASSUME NEW c \in Call, TimesOut(c) PROVE OwnAnswerStep
  BY <1>6, FailedEnd, EndsQuietly DEF TimesOut
<1>7. CASE Surface
  <2>1. /\ signer
        /\ call' = [c \in Call |-> IF c \in Matched THEN Settled(c, Taken(c)) ELSE call[c]]
    BY <1>7 DEF Surface, Matched, Taken
  <2>2. SUFFICES ASSUME NEW c \in Call, call'[c].end # call[c].end
                 PROVE  <<c, call'[c].end>> \in batch /\ wallet[c] = "answered"
    BY <2>1 DEF OwnAnswerStep
  <2>3. c \in Matched
    BY <2>1, <2>2
  <2>4. Taken(c) \in End \ {"none"} /\ <<c, Taken(c)>> \in batch
    BY <2>3, TakenOK DEF End, Verdict
  <2>5. call'[c].end = Taken(c)
    BY <2>1, <2>3, <2>4, SettledOK DEF Inv, OthersOK
  <2>6. wallet[c] = "answered"
    BY <2>4 DEF Inv, WalletOK
  <2>7. QED BY <2>4, <2>5, <2>6
<1>8. QED
  BY <1>1, <1>2, <1>3, <1>4, <1>5, <1>6, <1>7
     DEF Next, vars, Pair, SignIn, Embed, WalletReceives, WalletAnswers, AckArrives

THEOREM OwnAnswerCorrect == Spec => OwnAnswer
<1>1. Inv /\ [Next]_vars => [OwnAnswerStep]_vars
  BY OwnAnswerInductive
<1>2. [][OwnAnswerStep]_vars => OwnAnswer
  BY PTL DEF OwnAnswer, OwnAnswerStep
<1>3. QED BY <1>1, <1>2, Inductive, PTL DEF Spec
=============================================================================
