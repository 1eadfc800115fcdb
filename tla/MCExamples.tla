------------------------------ MODULE MCExamples ------------------------------
(***************************************************************************)
(* The three examples that put something of their own behind the guard of  *)
(* GuardedRetry, and the programs that guard themselves.  They are         *)
(* separate programs: an instance runs the processes of one of them, and   *)
(* the variables of the others rest.  The instances are of the modules     *)
(* that hold the proofs, so that the theorems are known of them.           *)
(***************************************************************************)
EXTENDS Integers

CONSTANTS
  c1, c2, k1, k2, p,
  NoReceipt, NoMsg, MAX_ATTEMPTS, BASE_PRIORITY_FEE, MAX_PROCESSING_AGE, MaxSlot,
  Owners, FormKeys, MaxCount, MaxInstructions,     \* GuardedPrograms
  Idle       \* The value of a variable that the instance does not use

ASSUME ExamplesAssumption ==
  /\ MAX_ATTEMPTS \in Nat \ {0} /\ BASE_PRIORITY_FEE \in Nat \ {0}
  /\ MAX_PROCESSING_AGE \in Nat \ {0} /\ MaxSlot \in Nat /\ MaxCount \in Nat
  /\ NoReceipt \notin [payload : {p, <<p, 0>>}, slot : Nat]

VARIABLES
  instance,
  slot, inflight, landed, receipt, performed,
  pc, attempt, fee, msg, before, after, status,
  token2022, destination, rents, closures,     \* SplTransfer
  counter, others,                             \* CustomProgram
  swap, dryRun, printed,                       \* JupiterSwap
  receipts, count, done, saved, tx, called     \* GuardedPrograms

loop == <<slot, inflight, landed, receipt, performed, pc, attempt, fee, msg, before, after, status>>
token == <<token2022, destination, rents, closures>>
custom == <<counter, others>>
jupiter == <<swap, dryRun, printed>>
programs == <<receipts, count, done, saved, tx, called>>

OneOrder == [c \in {c1, c2} |-> k1]
TwoOrders == [c \in {c1, c2} |-> IF c = c1 THEN k1 ELSE k2]
OnePayload == [c \in {c1, c2} |-> p]

\* Quotes with and without a price of their own, and two that the example refuses.
Quote(ixs, payer, lifetime) == [ixs |-> ixs, feePayer |-> payer, lifetime |-> lifetime]
Quotes ==
  { Quote(<<"limit", "price", "route", "close">>, "authority", "blockhash"),
    Quote(<<"route">>, "authority", "blockhash"),
    Quote(<<"route">>, "relayer", "blockhash"),
    Quote(<<"route">>, "authority", "nonce") }

\* One process retries a transfer to an account that comes and goes.
Transfer == INSTANCE SplTransferProofs WITH
  Clients <- {c1}, KeyOf <- [c \in {c1} |-> k1], IntentOf <- [c \in {c1} |-> p],
  Funds <- 2, MaxClosures <- 2

\* Two orders are paid from an account that can pay one.
Payments == INSTANCE SplTransferProofs WITH
  Clients <- {c1, c2}, KeyOf <- TwoOrders, IntentOf <- OnePayload, Funds <- 1, MaxClosures <- 0,
  MAX_ATTEMPTS <- 1

\* Two processes retry one order that creates the counter.
Order == INSTANCE CustomProgramProofs WITH
  Clients <- {c1, c2}, KeyOf <- OneOrder, IntentOf <- OnePayload, MaxOthers <- 1, MAX_ATTEMPTS <- 1

\* Two orders race to create the counter.
Race == INSTANCE CustomProgramProofs WITH
  Clients <- {c1, c2}, KeyOf <- TwoOrders, IntentOf <- OnePayload, MaxOthers <- 0

\* Two processes submit or dry-run their own quotes of one intent.
Swap == INSTANCE JupiterSwapProofs WITH
  Clients <- {c1, c2}, KeyOf <- OneOrder, IntentOf <- OnePayload,
  Sizes <- {1231, 1232, 1233}, TX_LIMIT <- 1232, MAX_ATTEMPTS <- 1

\* Owners use every form of guard, up to the overflow of a count.
Forms == INSTANCE GuardedPrograms WITH Keys <- FormKeys

NoLoop ==
  /\ slot = Idle /\ inflight = Idle /\ landed = Idle /\ receipt = Idle /\ performed = Idle
  /\ pc = Idle /\ attempt = Idle /\ fee = Idle /\ msg = Idle
  /\ before = Idle /\ after = Idle /\ status = Idle
NoTransfer == token2022 = Idle /\ destination = Idle /\ rents = Idle /\ closures = Idle
NoCounter == counter = Idle /\ others = Idle
NoSwap == swap = Idle /\ dryRun = Idle /\ printed = Idle
NoPrograms ==
  receipts = Idle /\ count = Idle /\ done = Idle /\ saved = Idle /\ tx = Idle /\ called = Idle

Init ==
  \/ instance = "transfer" /\ Transfer!Init /\ NoCounter /\ NoSwap /\ NoPrograms
  \/ instance = "payments" /\ Payments!Init /\ NoCounter /\ NoSwap /\ NoPrograms
  \/ instance = "order" /\ Order!Init /\ NoTransfer /\ NoSwap /\ NoPrograms
  \/ instance = "race" /\ Race!Init /\ NoTransfer /\ NoSwap /\ NoPrograms
  \/ instance = "swap" /\ Swap!Init /\ NoTransfer /\ NoCounter /\ NoPrograms
  \/ instance = "forms" /\ Forms!Init /\ NoLoop /\ NoTransfer /\ NoCounter /\ NoSwap

Runs(name, rest) == instance = name /\ UNCHANGED <<instance, rest>>

Next ==
  \/ Runs("transfer", <<custom, jupiter, programs>>) /\ Transfer!Next
  \/ Runs("payments", <<custom, jupiter, programs>>) /\ Payments!Next
  \/ Runs("order", <<token, jupiter, programs>>) /\ Order!Next
  \/ Runs("race", <<token, jupiter, programs>>) /\ Race!Next
  \/ Runs("swap", <<token, custom, programs>>) /\ Swap!Next
  \/ Runs("forms", <<loop, token, custom, jupiter>>) /\ Forms!Next

vars == <<instance, loop, token, custom, jupiter, programs>>

Spec == Init /\ [][Next]_vars

-----------------------------------------------------------------------------
(* What the examples have in common, each in its own way                   *)

\* sol-transfer:264-265, demo-counter/src/lib.rs:60-76. Between transactions a key is consumed
\* exactly when its action has run, and that has run once: across retries, with a source that
\* can pay one of two orders, behind initialize, and for every form of guard.
OncePerKey ==
  /\ instance = "transfer" => Transfer!ReceiptMeansPerformed /\ Transfer!PerformedAtMostOnce
  /\ instance = "payments" => Payments!ReceiptMeansPerformed /\ Payments!PerformedAtMostOnce
  /\ instance = "order" => Order!ReceiptMeansPerformed /\ Order!PerformedAtMostOnce
  /\ instance = "race" => Race!ReceiptMeansPerformed /\ Race!PerformedAtMostOnce
  /\ instance = "swap" => Swap!ReceiptMeansPerformed /\ Swap!PerformedAtMostOnce
  /\ instance = "forms" => Forms!ReceiptsAreActions /\ Forms!OneActionPerKey

\* spl-transfer:427, 626-633, custom-program:571-574. What the chain shows of the actions is
\* theirs and nothing else: an account's rent and the tokens are paid once per key, and the
\* counter holds the guarded increments and those of other transactions.
EffectsAreExact ==
  /\ instance = "transfer" => Transfer!BlockedPaysNothing /\ Transfer!SourcePaysOnce
  /\ instance = "payments" => Payments!SourcePaysOnce
  /\ instance = "order" => Order!CountIsExact
  /\ instance = "race" => Race!CountIsExact

\* spl-transfer:309-312, custom-program:343-346, 476. What was read before a message was signed
\* and is old when it lands can make it fail, and does no more: only a closure after the look
\* fails a transfer, initialize never answers in the place of the guard, and an order that gave
\* up on a stale snapshot of the counter never runs.
StaleReadsOnlyFail ==
  /\ instance = "transfer" => Transfer!OnlyAClosureFails
  /\ instance = "order" => Order!InitializeNeverMasksGuard
  /\ instance = "race" => Race!InitializeNeverMasksGuard /\ Race!StaleSnapshotIsHarmless

\* custom-program:493, jupiter-swap:629-634. Nothing that a retry may change is in the
\* fingerprint: neither the count that was read nor the quote.
NoFalseConflict ==
  /\ instance = "order" => Order!NoFalseConflict
  /\ instance = "swap" => Swap!RequoteIsSameIntent

\* jupiter-swap:408-415, 721-722. What is submitted has the guard in front and is not refused
\* for a second price, and a dry run warns of every oversize transaction.
ComposedWell == instance = "swap" => Swap!ComposedWell /\ Swap!OversizeIsReported
=============================================================================
