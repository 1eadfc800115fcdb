---------------------------- MODULE MCCommitOnce ----------------------------
(* Instances of CommitOnce for TLC: which instruction lists are signed.    *)
EXTENDS CommitOnceLedger

CONSTANTS alice, bob, k1, k2, p, q

Least == MIN_RETENTION_SECONDS

ClaimOf(authority, key, payload, retention) ==
  [ op |-> "claim", authority |-> authority, receipt |-> <<authority, key>>,
    key |-> key, payload_hash |-> payload, retention_seconds |-> retention,
    refund_destination |-> authority ]
CloseTo(authority, key, dest) ==
  [op |-> "close", receipt |-> <<authority, key>>, refund_destination |-> dest]
Send(from, to, amount) == [op |-> "transfer", from |-> from, to |-> to, amount |-> amount]
Act == [op |-> "business"]
Advance == [op |-> "advance_nonce"]

\* Durable nonces in front of the claim, behind it and behind the scan bound.
NonceScripts ==
  { <<Advance, ClaimOf(alice, k1, p, Least), Act>>,
    <<Advance, ClaimOf(alice, k1, p, 0), Act>>,
    <<ClaimOf(alice, k1, p, Least), Act, Act, Advance>>,
    <<ClaimOf(alice, k1, p, Least), Act>>,
    <<CloseTo(alice, k1, alice)>> }

\* One intent, two payloads, a finite or a permanent retention, rebuilt, cleaned up; two
\* intents in one transaction, cleanup and reclaim in one transaction.
RetryScripts ==
  NonceScripts \cup
  { <<ClaimOf(alice, k1, q, 0), Act>>,
    <<ClaimOf(alice, k1, p, Least), ClaimOf(alice, k2, p, 0), Act>>,
    <<CloseTo(alice, k1, alice), ClaimOf(alice, k1, q, Least), Act>> }

\* Two wallets and one address: wrong signers, substituted addresses, bad arguments.
PartyScripts ==
  { <<ClaimOf(alice, k1, p, Least), Act>>,
    <<ClaimOf(bob, k1, p, Least), Act>>,
    <<[ClaimOf(bob, k1, p, Least) EXCEPT !.receipt = <<alice, k1>>], Act>>,
    <<[ClaimOf(alice, k1, p, Least) EXCEPT !.refund_destination = <<alice, k1>>]>>,
    <<[ClaimOf(alice, k1, p, Least) EXCEPT !.refund_destination = DefaultPubkey]>>,
    <<ClaimOf(alice, k1, p, MAX_RETENTION_SECONDS + 1), Act>> }

\* Deposits: prefunded addresses, a refund to another receipt, cleanup by anyone.
DepositScripts ==
  PartyScripts \cup
  { <<[ClaimOf(alice, k1, p, Least) EXCEPT !.refund_destination = <<bob, k1>>], Act>>,
    <<Send(bob, <<alice, k1>>, 1)>>,
    <<Send(bob, <<alice, k1>>, 3)>>,
    <<CloseTo(alice, k1, alice)>>,
    <<CloseTo(alice, k1, bob)>>,
    <<CloseTo(alice, k1, <<bob, k1>>)>> }

\* A client guards a call that already guards itself: two claims of one intent.
DoubleGuardScripts ==
  { <<ClaimOf(alice, k1, p, Least), ClaimOf(alice, k1, p, Least), Act>>,
    <<ClaimOf(alice, k1, p, Least), Act>>,
    <<ClaimOf(alice, k1, q, Least), Act>> }
=============================================================================
