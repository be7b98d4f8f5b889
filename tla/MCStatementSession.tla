------------------------- MODULE MCStatementSession -------------------------
(* Instances of StatementSession for TLC. *)
EXTENDS StatementSession, TLC

CONSTANTS h1, h2, h3, w1

HostSends == [m \in Payload |-> Host]
BothSend == [m \in Payload |-> IF m = w1 THEN Wallet ELSE Host]

UnitWeight == [m \in Payload |-> 1]
MixedWeight == [m \in Payload |-> IF m = h2 THEN 2 ELSE 1]

(* Payloads of one owner and one weight are alike: sound, as the run that uses
   it checks safety only. *)
Alike == Permutations(Payload)
=============================================================================
