---------------------------- MODULE SplTransfer ----------------------------
(***************************************************************************)
(* examples/spl-transfer: a guarded TransferChecked.  Each attempt looks   *)
(* whether the destination's token account exists and creates it if not,   *)
(* behind the guard.  The account's owner may empty and close it, or       *)
(* somebody else create it, between the look and the landing.              *)
(* External: the token programs and the other users of the account.        *)
(***************************************************************************)
EXTENDS GuardedRetry

CONSTANTS
  Funds,          \* Transfers that the source account can pay
  MaxClosures     \* Bound: how often the destination account is closed

VARIABLES
  token2022,      \* TOKEN_PROGRAM is not the classic token program
  destination,    \* The destination token account exists
  rents,          \* History: accounts that the authority has paid for
  closures        \* History: slots in which the account was closed

token == <<token2022, destination, rents, closures>>
vars == <<cluster, chain, client, token>>

Init ==
  /\ RetryInit
  /\ token2022 \in BOOLEAN
  /\ destination \in BOOLEAN
  /\ rents = 0
  /\ closures = {}

\* The source's token balance, in transfers.
tokenBalance == Funds - Cardinality(performed)

\* CreateIdempotent, if the message carries it, then TransferChecked.
NoAccount == BusinessError(3)
InsufficientFunds == BusinessError(1)
Business(m) ==
  CASE ~destination /\ ~m.create -> {NoAccount}
    [] tokenBalance < 1 -> {InsufficientFunds}
    [] OTHER -> {Ok}
Results(m) == GuardedResults(m, Business(m))

LandTransfer(m, r) ==
  /\ Land(m, r)
  /\ IF r = Ok /\ m.create /\ ~destination
     THEN destination' = TRUE /\ rents' = rents + 1
     ELSE UNCHANGED <<destination, rents>>
  /\ UNCHANGED <<token2022, closures>>

Appears ==
  /\ ~destination
  /\ destination' = TRUE
  /\ UNCHANGED <<cluster, chain, client, token2022, rents, closures>>

Closes ==
  /\ destination /\ Cardinality(closures) < MaxClosures
  /\ destination' = FALSE
  /\ closures' = closures \cup {slot}
  /\ UNCHANGED <<cluster, chain, client, token2022, rents>>

-----------------------------------------------------------------------------
(* The client *)

\* main stops before it submits anything when the source cannot pay.
Begin(c) ==
  \/ tokenBalance >= 1 /\ Begins(c, tokenBalance)
  \/ /\ pc[c] = "main" /\ tokenBalance < 1
     /\ Throw(c, "unfunded") /\ UNCHANGED <<cluster, chain>>

\* getLatestBlockhash and prepare; create is not known yet.
GetBlockhash(c) ==
  Builds(c, [key |-> KeyOf[c], payload |-> IntentOf[c], recent |-> slot, fee |-> fee[c],
             create |-> FALSE], "check")

\* Mutant: only the first attempt looks.
CheckOnce(c) ==
  /\ pc[c] = "check"
  /\ msg' = [msg EXCEPT ![c].create = attempt[c] = 1 /\ ~destination /\ ~token2022]
  /\ pc' = [pc EXCEPT ![c] = "send"]
  /\ UNCHANGED <<cluster, chain, attempt, fee, reads, status>>

\* getAccountInfo; Token-2022 accounts cannot be created by this example.
Check(c) ==
  /\ pc[c] = "check"
  /\ IF ~destination /\ token2022
     THEN Throw(c, "no-account")
     ELSE /\ msg' = [msg EXCEPT ![c].create = ~destination]
          /\ pc' = [pc EXCEPT ![c] = "send"]
          /\ UNCHANGED <<attempt, fee, reads, status>>
  /\ UNCHANGED <<cluster, chain>>

Attempt(c) == SendAndConfirm(c, Results(msg[c]))
Report(c) == Reports(c, tokenBalance)

Progress(c) ==
  \/ Begin(c) \/ GetBlockhash(c) \/ Check(c) \/ ReadFails(c) \/ Attempt(c) \/ Report(c)

Next ==
  \/ NextSlot /\ UNCHANGED token
  \/ \E m \in inflight : \E r \in Results(m) : LandTransfer(m, r)
  \/ Appears \/ Closes
  \/ \E c \in Clients : (Progress(c) \/ ConnectionLost(c)) /\ UNCHANGED token

Spec == Init /\ [][Next]_vars

-----------------------------------------------------------------------------
(* Properties *)

\* spl-transfer:427. "duplicate blocked, no ATA rent paid and no tokens moved":
\* however often the owner closes the account and the retries find it missing, the
\* authority pays for it at most once per key.
BlockedPaysNothing == rents <= Cardinality(Keys)

\* spl-transfer:309-312. The look before the send races with the account, and the race
\* is benign: an account that appears fails nothing, and only an account that was
\* closed after the attempt took its blockhash makes its transfer fail.
OnlyAClosureFails ==
  \A l \in landed : l.result = NoAccount =>
    \E s \in closures : l.msg.recent <= s /\ s <= l.slot

\* spl-transfer:626-633. What a run prints for the source is one transfer when its own
\* submission committed, and never more than one while no other order pays from it.
SourcePaysOnce ==
  \A c \in Clients : after[c] # Unread =>
    /\ before[c] - after[c] \in 0 .. Cardinality(Keys)
    /\ Said(c, "committed") => before[c] - after[c] >= 1
=============================================================================
