---------------------------- MODULE MCSolTransfer ----------------------------
(* Instances of SolTransfer for TLC. *)
EXTENDS SolTransfer, TLC

CONSTANTS c1, c2, k, p, q

OneKey == c1 :> k @@ c2 :> k
\* Two processes retry one intent.
SameIntent == c1 :> p @@ c2 :> p
\* Two processes use one key for different intents.
OtherIntent == c1 :> p @@ c2 :> q
=============================================================================
