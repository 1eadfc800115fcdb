# Verification of CommitOnce

TLA+ models of CommitOnce (idempotency keys for Solana transactions), the TLC runs that check
them on small instances, and theorems that TLAPS proves for every value of the constants. Paths
below are relative to the repository.

## 1. The system

| Part | State it keeps | Operations | Hard part |
| --- | --- | --- | --- |
| `commit_once::claim` (`programs/commit-once/src/instructions/claim.rs`) | one receipt account per (authority, namespace, key) | check, create the receipt, answer a repeated claim with an error | atomic with the rest of the transaction; retried under new signatures; prefunded addresses; durable nonces |
| `commit_once::close_receipt` (`close_receipt.rs`) | removes a receipt | two clock gates, refund to the recorded destination | a cleanup must not let a duplicate in that is still valid |
| Examples (`examples/{sol-transfer,spl-transfer,custom-program,jupiter-swap}`) | attempt, fee, message, what `main` has read | rebuild, send, confirm, classify the error, retry, report | lost answers, late landings, several processes; reads that are old when the message lands |
| SDK errors (`packages/sdk/src/errors.ts`) | none | find a custom code in an unknown object, name it | codes of other programs in one transaction |
| SDK encoding (`hash.ts`, `pda.ts`) | none | canonical encoding, hashes, address | equal intents must encode equally, different ones differently |
| SDK builders (`instructions.ts`) | none | parse and check a retention, build the claim | a number that wraps in its field |
| SDK reads (`client.ts`, `accounts.ts`) | none | `inspect`, `fetchClock`, `isClosable` | receipt and clock are read at different moments, from nodes that lag |
| SDK events (`events.ts`) | none | find the program's events in logs | lines of other programs, narration, malformed events |
| Demo transport (`apps/demo/src/solana.ts`) | pending signatures, polls | RPC retries, `fetchFreshBlockhash`, `submitAndConfirm`, `submitManyAndConfirm` | timeouts that race confirmation, rate limits, one send of many failing, abandoned blocks |
| Demo scripts (`apps/demo/*.ts`) | a counter, receipts, a nonce account | A/B comparison, contention, receipt lifecycle, nonce policy | the verdict must follow the chain, not the order of answers |
| `demo_counter`, `native-guard` | a counter | `increment`, the same guarded by a CPI, also with a vault as authority | the claim is inside the guarded instruction |
| Measurements, tooling, site | none | | not protocol logic |

The client and the program share no memory: a client signs messages, the runtime executes each
message at most once and only while its blockhash is recent (or, on a durable nonce, at any later
time), and everything a failed transaction did is rolled back. The SDK's pure functions connect
the two sides: the address and the fingerprint that a client computes are what the program
compares. Where two parts meet, the models compose them: the retry loops and the demo scripts run
on one model of the cluster (`Cluster`), and the receipt they see follows the rule of
`claim.rs:97-151`, which `CommitOnce` models in full and `IntentLedger` states abstractly.

What makes each part correct: the program commits an intent at most once per retention, whole or
not at all, for its authority only, and answers duplicates truthfully; deposits are complete and
return to the recorded destination; a retry loop reports success only when the action has run,
and always ends; a demo prints a verdict only when it is true of the confirmed chain; an encoding
is injective on meaning; a read of the SDK is never a wrong prediction. The hazards are listed
line by line in `PROJECT.json`, each with the properties that would catch it going wrong.

## 2. Modules

| Module | What it is |
| --- | --- |
| `CommitOnce` | `claim` and `close_receipt` inside transactions, with clocks, blockhashes, durable nonces and account creation |
| `IntentLedger` | the abstract specification: intents, grants, release when the retention is over |
| `CommitOnceLedger` | the refinement mapping from `CommitOnce` to `IntentLedger` |
| `Cluster` | slots, messages in flight and landed; external, shared by all client models |
| `GuardedRetry` (extends `Cluster`) | the retry loop of the examples, with the business of the transaction as a parameter |
| `SolTransfer`, `SplTransfer`, `CustomProgram`, `JupiterSwap` (extend `GuardedRetry`) | the four examples: each one's message, reads and business instructions |
| `Transport` (extends `Cluster`) | `apps/demo/src/solana.ts`: blockhash, send, poll, details, over forks and lagging nodes |
| `ABDemo`, `Contention` (extend `Transport`) | the two demo scripts that use the transport |
| `ReceiptLifecycle`, `NoncePolicy` (extend `Cluster`) | the two scripts that talk to the cluster themselves |
| `GuardedPrograms` | `demo_counter` and `native-guard` as two-step instructions of a transaction |
| `ReceiptReads` | `inspect` and `fetchClock` while an address is prefunded and a receipt is created, closed and created again |
| `PrepareIntent` | retention and refund destination, from the caller to the receipt |
| `ErrorSearch`, `EventScan`, `IntentEncoding` | algorithms of the SDK against reference definitions |
| `CommitOnceProofs` | theorems about the program: safety, transactions, lamports, the refinement of `IntentLedger` |
| `GuardedRetryProofs` | lemmas about the retry loop, whatever its business and its fingerprint |
| `SolTransferProofs`, `SplTransferProofs`, `CustomProgramProofs`, `JupiterSwapProofs` (extend the example and `GuardedRetryProofs`) | theorems about the four examples |
| `ExamplesProofs` | theorems about `GuardedPrograms`, and about the sum `MCExamples` from those of its parts |
| `ClientProofs` | theorems about the demo scripts and their sum `MCDemos`, and about `ReceiptReads`, `PrepareIntent`, `ErrorSearch` and `EventScan` |
| `IntentValues` | the values an intent is made of |
| `MCCommitOnce`, `MCSolTransfer` | instances for TLC |
| `MCExamples`, `MCDemos`, `MCSdk` | the other components, each with its bounds, for TLC |

### CommitOnce

State: `slot` and `unix` are the two fields of `Clock`; `account` is every account as the
executing transaction sees it, and `saved` what a rollback returns to; `signed` and `processed`
are the messages made and landed; `tx` and `pc` the transaction being executed and its next
instruction; `outcome` how the last one ended. `commits` and `ran` are histories (successful
claims, executed business instructions) that are rolled back with the accounts.

Actions: `Claim`, `ClaimRejected` and `CreateReceiptFails` are the three ends of `handle_claim`;
`CloseReceipt` and `CloseRejected` those of `handle_close_receipt`. `ClaimChecks` and
`CloseChecks` list the checks with their errors in the order of the code (the Anchor account
constraints first); the first one that fails is the answer. `CreateReceiptChecks` and `TopUp` are
the two branches of `create_receipt`. `Transfer`, `Business` and `AdvanceNonce` stand for the
instructions of other programs in the same transaction; `Sign`, `Begin`, `Finish` and `Abort` are
the runtime.

Abstractions: a key is one value for the pair (namespace, idempotency key); hashes are their
preimages, the PDA is the pair of authority and key (both injective; `IntentEncoding` looks into
them); the bump, the event, fees and the compute budget are left out; arithmetic is unbounded,
since `saturating_add` cannot saturate below 365 days from any clock that occurs. The minimum
balance of an empty account is 1 lamport, that of a receipt `Deposit`. A durable message may
carry its nonce advance anywhere: stricter runtimes allow fewer messages.

### Cluster and the examples

A message is its content, so two processes can build the same one; it lands at most once, in a
slot after its blockhash's and while that is recent, perhaps late, perhaps never. A client is one
process running `main`: it reads what it reports on (`Begin`), submits, submits the same intent
again, and reports (`Report`). `Builds` is everything from `getLatestBlockhash` to the signature;
`Submit`, `PreflightFails` and `SendFails` are `sendTransaction` with its simulation;
`Confirmed`, `BlockHeightExceeded` and `ConnectionLost` the ways the wait for a confirmation ends;
`Catch` the `catch` block with `Classify` (`classifyError`). The retention asked for (24 hours)
outlasts a run, so a receipt stays.

* `SolTransfer`: the business instruction succeeds or fails with a code of `BusinessCodes`.
* `SplTransfer`: every attempt looks for the destination's token account before it signs
  (`Check`); the owner may close the account meanwhile (`Closes`); two token programs; a source
  that can run dry.
* `CustomProgram`: `needsInitialize` is read once, before all attempts; other transactions of the
  owner create and increment the counter (`others`).
* `JupiterSwap`: the supplied transaction (a quote) with its own instructions, refusals (durable
  nonce, foreign fee payer), the dry run with its size estimate and what it says of it, and the
  composition of price, guard and quote.

### Transport and the demo scripts

A node answers for any slot from `slot - MAX_LAG` on (`Views`); slots after `confirmed` may be
abandoned (`Forks`), which puts their messages back in flight. `SendAnswered`, `SendRetries` and
`SendFails` are the send loop with its retryable errors, `Poll` and `NeverConfirmed` the wait,
`FetchDetails` the loop around `getTransaction`. A delay takes no time of its own: steps of the
cluster happen between any two steps of the script. `ABDemo` follows `main` through the setup,
both scenarios and the final reads; `Contention` through funding, the race, the verdict and the
sweep. Both end in an exit code. In `ReceiptLifecycle` time is counted in the 30 seconds between
two attempts to close; `NoncePolicy` runs the two simulations on nodes that may not have the
nonce account yet.

### The rest

`GuardedPrograms` splits an instruction into its call and its action, so that a failure can fall
between them (`called` says that the first instruction left in `tx` has been through its call),
and lets owners initialize their counter at any time; the transaction's effects are taken back
from `saved`. An action is recorded with the count it made, so that two equal ones differ.

In `ReceiptReads` the history of the chain is a sequence of states, a lagging node answers from an
earlier one, and the program closes a receipt and creates another under the same address, which
may hold lamports without data in between: `inspect` throws on such an account.
`PrepareIntent` carries the retention from its five spellings through the checks and the `u64`
into the receipt. `ErrorSearch` keeps the stack and the set of visited objects of `findCustomCode`
next to the search that the demo has of its own; error values are graphs and may be cyclic: a
status with `{ InstructionError: [i, { Custom: c }] }`, a failed preflight with the code in its
logs, a message that names it in hexadecimal or decimal, Kit's error for a transaction that failed
after it was sent (the code is the number `context.code`), a network failure.
`EventScan` classifies a line by who wrote it and by what follows the prefix in it: any program
logs data with our discriminator, well-formed or not, and narration may hold any text.
`IntentEncoding` encodes values down to UTF-16 units, lone surrogates included.

## 3. Runs

`CHECK_DEADLOCK FALSE` everywhere: clients and scripts end, and the instances have a last slot,
so a run really stops. Every property of a passing run is also checked against a mutation of the
model that a slip in the code would amount to (marked `Mutant` in the modules), which must
violate it.

| Run | Shows | Bounds |
| --- | --- | --- |
| `retry` | at most one commit per retention, all or nothing, true answers, receipts only expire; a message that never expires commits for good only, an expiring duplicate never outlives a receipt; the program implements `IntentLedger` | 3 messages of one intent with 2 payloads, finite and permanent, plus cleanup; 2 keys in one transaction; close and claim again in one transaction; nonce advance before, after and behind the scan bound (3); 2 slots per second; slots 0..3 |
| `deposits` | deposits complete, conserved, refunded to the recorded destination; only the authority consumes its key; integrity errors never fire | transfers of 1 and 3 against a deposit of 2; a refund into another receipt; 2 wallets, foreign receipt, bad refund destination, retention above the maximum |
| `same_intent` | retries perform an intent once, implement `IntentLedger`, rebuilt messages differ, a replay is blocked, every call ends | 2 processes, 2 attempts, 2 submissions, slots 0..3 |
| `key_reuse` | success and conflict are reported truthfully; a key is consumed exactly when its action ran | 2 processes with different payloads |
| `examples` | `transfer`: rent and tokens are paid once, only a closure after the look makes a transfer fail. `payments`: a key is consumed exactly when its transfer has run, although the source runs dry. `order`, `race`: the count is exact, no retry conflicts with itself, `initialize` never answers in the guard's place, a stale snapshot only ever makes a run give up. `swap`: one swap for all quotes of a request, the guard in front, every oversize dry run gets the warning. `forms`: receipts and actions correspond, across an overflow behind the call; all forms of guard share one key | `transfer`: 1 process, 2 attempts, 2 closures. `payments`: 2 orders, funds for one. `order`: 2 processes, 1 foreign increment. `race`: 2 orders, 2 attempts. `swap`: 2 processes, quotes with and without a price, a durable nonce, a foreign fee payer, sizes around the limit. `forms`: 2 owners, 2 keys, 4 forms, 2 instructions, an overflow after 2 increments |
| `demos` | `commitonce-demo`: exit 0 is true of the confirmed chain, the guarded increment runs once. `concurrent-claim`: one attempt commits, results are final, the verdict and what is said of the slots are true. `receipt-lifecycle`: `VERIFIED` only for a receipt that is closed and refunded. All four exit, which is all that is said of `nonce-policy` | lag 1, forks of 2 slots, blockhashes of 2 slots, 1 poll of a submission, 2 reads of an account, 2 sends, 2 requests in the comparison and 1 in the race, 3 attempts in the race, slots up to 8, 6, 8 and 5; retention of 2 ticks, 2 closes |
| `sdk` | `expired` is never premature, what `inspect` says of a receipt holds until both its deadlines have passed; the recorded retention is the one asked for, prepared claims are accepted; both error searches find the code that an error names, agree and end; the scan of logs returns the event of every line that holds one, or throws over one that cannot be decoded; equal intents and only they have one fingerprint, every name its own address | lag 2, slots 1..8, so that a receipt of one second (4 slots) is closed and its key claimed again; the program's limits in a field of 26 bits, numbers around every limit; the shapes of errors listed in section 2; logs of up to 4 lines; some 670 values, all pairs |

`MCExamples`, `MCDemos` and `MCSdk` are sums: the examples, the scripts and the functions of the
SDK are separate programs that share no state, so a behaviour runs one of them, named by a
variable that never changes, and the variables of the others keep one value. In `MCExamples` each
part is an instance of its own module with bounds of its own, given in the `INSTANCE`; those of
`GuardedPrograms` are constants of `MCExamples`. The examples are instances of their proof modules,
so that `ExamplesProofs` can cite the theorems of each. The bounds of `MCDemos` are constants, so
that its theorems hold for all of them; `MCSdk` extends the modules that `ClientProofs` is about.
A property of a sum states, for
each of its parts, what the part's own module defines: `OncePerKey` is `ReceiptMeansPerformed`
and `PerformedAtMostOnce` of every example and `ReceiptsAreActions` and `OneActionPerKey` of the
forms of guard; `ConclusionsAreTrue` is `ExitZeroIsTrue`, `HoldsIsTrue`, `RaceIsTrue` and
`VerifiedIsTrue`.

Why the bounds are enough: three messages are the shortest history of a commit, a cleanup and a
duplicate; two processes with two attempts each are the shortest history of a lost answer, an
overtaking and a late landing; the last slot lies beyond the end of the longest wait, and the
blockhash window is shorter than the run, so that expiry happens. In the demo models one poll and
two requests of each loop suffice to succeed at once, to succeed after a failure, and to give up.

Five runs show disagreements between the code and what it or its documentation says:

* `double_guard`: a transaction that claims one intent twice fails with `AlreadyCommitted`
  because of its own first claim, and nothing is committed. `docs/API_REFERENCE.md:249` tells the
  caller to treat the code as success.
* `mixed_retention`: a permanent claim on a durable nonce, signed first, still commits after a
  finite receipt of the same intent has been cleaned up (`docs/SECURITY_MODEL.md:252-253`). Among
  messages on blockhashes that cannot happen (`NoStaleDuplicate`, proved).
* `code_clash`: `classifyError` does not look at which program raised a custom code; a business
  error 6000 (`demo_counter`'s `Overflow` is one) is reported as a blocked duplicate.
* `decode`: `receipt-lifecycle.ts` calls `decodeReceipt`, which the client does not have; only a
  node that lags lets the script get to the wait for the deadlines that
  `apps/demo/README.md:93-94` describes.
* `events`: a line of narration that holds `Program data: ` before other text makes
  `decodeEventsFromLogs` throw, and the program's events are lost (`events.ts:269`), although
  lines of other programs and narration "are skipped silently" (`events.ts:290-292`). What the
  scan does keep is `ScanIsComplete`; a data line of another program that bears the discriminator
  is one that holds an event.

Others that the modelling met are steps of the models, and no property claims the contrary:

* A Jupiter transaction that brings its own price is rebuilt without a new fee
  (`jupiter-swap/index.ts:449`), so within the life of one blockhash the attempt is the same
  message again. The dry run ends by printing that the composed transaction "still fits in 1,232
  bytes", also below the warning that it does not (line 762; `SaidOf`); `OversizeIsReported` is
  about the warning only. Its estimate rounds up, so that a transaction of 1,231 or 1,232 bytes
  gets the warning too (line 736).
* In `concurrent-claim.ts` slots that are unknown count as one slot (line 376), which `RaceIsTrue`
  leaves aside, and the balance
  read of the sweep is outside the `try` that keeps a failed sweep from failing the run (467).
* `receipt-lifecycle.ts` signs its close once and retries it beyond its blockhash (line 208), and
  ends with a name that does not exist (249).
* `nonce-policy.ts` prints its conclusion and exits with 0 whatever the simulations answered (line
  275); the policy itself is `DurableOnlyPermanent` of the program. It never
  closes the nonce account (265), which line 30 announces.
* `inspect` says `unclaimed`, documented as "The intent has not committed" (`client.ts:87`),
  after a cleanup.
* `classifyError` finds no code in Kit's error for a transaction that failed after it was sent:
  the code is there as a number that no `Custom` field names, and the message writes it as
  `#6000`, which neither expression of `errors.ts:114-119` matches. The caller takes such a failure
  for an ambiguous one and tries again (`ConnectionLost` of `GuardedRetry`); the demo's reader takes
  any number in the range of Anchor's codes for a code, so there the two readers disagree.
* `inspect` throws on an address that was only sent lamports, since its account is the System
  Program's (`client.ts:170-176`), while `claim` accepts it.
* Strings that differ in a lone surrogate have one encoding (`hash.ts:147`);
  `SameIntentSameHash` is about well-formed text.

## 4. Fairness

The safety runs assume none.

* `EveryCallEnds` (`SolTransfer`): slots keep coming, and a client is not stopped for good (the
  JavaScript event loop runs every settled promise). Nothing is assumed of delivery or answers: a
  lost message ends with the block height. Past the last slot whose blockhash can still expire
  within the bound, the node no longer gives out blockhashes.
* `EveryRunEnds` (`MCDemos`): the script is scheduled, and wall-clock time passes for the one that
  waits for a deadline. Not even slots are assumed: every other wait counts its polls.
* `SearchesEnd` (`MCSdk`): each search is executed.

## 5. Proofs

Every invariant that a passing run checks is a theorem, but for `HashesIdentify`, and so are the
action properties and both refinements of `IntentLedger`. An
`ASSUME` of a module is evaluated by every run of it; the other hypotheses are in the statements.

### The program: `CommitOnceProofs`

For every value of the constants that satisfies `ConstantsAssumption` (ranges, and that wallets,
receipts and the placeholder values are different things), `FiniteAssumption` (finitely many
accounts), `LedgerAssumption` (the placeholder for no receipt is not a grant of the ledger) and,
where the blockhash window matters, `RetentionOutlastsBlockhash`:

| Theorem | Property |
| --- | --- |
| `TypeCorrect` | `TypeOK` |
| `SafetyCorrect` | `SafetyInv` |
| `AtMostOnce` | `AtMostOnceWhileRetained` |
| `StaleDuplicatesExpire` | `NoStaleDuplicate` |
| `DurableCommitsArePermanent` | `DurableOnlyPermanent` |
| `CommitsAreSigned` | `OnlyAuthorityCommits` |
| `ReceiptsAreTrue` | `ReceiptRecordsCommit` |
| `ReceiptsAreRentExempt` | `LiveReceiptIsRentExempt` |
| `PrefundingNeverBlocks` | `PrefundNeverBlocks` |
| `IntegrityErrorsNeverFire` | `IntegrityErrorsUnreachable` |
| `TransactionsProgress` | `TransactionInv` |
| `GuardAndActionTogether` | `AllOrNothing` |
| `AnswersHold` | `AnswersAreTrue` |
| `ReceiptsOnlyExpire` | `ReceiptOnlyExpires` (action property) |
| `DepositsAreRefunded` | `DepositGoesToRefund` (action property) |
| `LamportsAreConserved` | `LamportsConserved` |
| `ProgramImplementsLedger` | `ImplementsLedger` (refinement) |

`AtMostOnceWhileRetained` is not inductive: nothing in it says that a past commit still blocks.
`SafetyInv` adds what the program's safety rests on. Of one bank (accounts and their history of
commits): every commit's deadlines are its creation plus its retention, and its message was
executable when it committed (`CommitOK`); a commit whose retention is not over still has its
receipt, unchanged (`Remembered`); every receipt is the program's, sits at its own address and
records a commit (`Recorded`); commits of one intent are a retention apart (`Spaced`). It holds
of the working bank and of the saved one, since an abort makes the saved bank the working one,
and with `TxOK`: the message in execution is still valid, or carries its nonce advance. A claim
creates a receipt only where there is none, so every earlier commit there has expired
(`ClaimSafe`); a close removes a receipt only past its deadlines (`CloseSafe`). Each is a lemma,
and `SafetyStep` has one step per action. The checks of `claim` are used through `ClaimPasses`,
`CreatePasses` and `ClosePasses`.

All or nothing needs to know how far a transaction is. `TransactionInv` (defined in
`CommitOnce`) relates the working histories to the saved ones: what the executing transaction has
claimed and run is what its instructions before `pc` say (`Progress`), and a message that has not
landed has left nothing (`OnlyProcessedLeftTraces`). It also says of every address what has become
of it since the saved bank: kept, released because it had lapsed, or granted anew in this very
slot (`Kept`, `Released`, `Granted`). The truth of the answers (`AnswersInv`) follows: the receipt
that a claim meets is a committed one of its intent, unless the message claims the intent twice.

The refinement rests on the same three cases. The committed receipts change at the end of a
successful transaction only (`FinishSettles`): a kept, released or granted address is a step of
that intent in the ledger (`Ledger!Keep`, `Ledger!Release`, `Ledger!Perform`), and all of them at
once are one step of it, `Ledger!Settle`. Clock steps are its ticks, everything else stutters
(`LedgerStep`).

Conservation is about a sum over all accounts, and the induction that a sum calls for is out of
the prover's reach. The proof goes around it with least counterexamples: subsets of a finite set
are well-founded, so a statement that fails for some subset fails for a least one (`LeastSubset`),
and the step from a strict subset contradicts that. This gives the existence and the uniqueness of
the sum, and from these how it changes with one value (`SumOneChange`) and that a transfer leaves
it alone (`SumTransfer`); each action moves lamports between two accounts or not at all.

### The examples

`GuardedRetryProofs` states the inductive invariant of the loop once, for any fingerprint `P`
of a client's intent: `BankInv` (a key without a receipt has no execution, one with a receipt has
a single one, of the payload it records), `LoopInv` (a client sends messages of its own key and
fingerprint) and `AnswerInv` (a result that has landed stays
true because receipts stay; what a client has been told follows from such a result; a client that
submits for the second time holds a consumed key and waits for a message that has not succeeded).
Each example adds what its own business needs, under `ClusterAssumption` and `RetryAssumption`
(a receipt is not the placeholder for none; `FreshReceipts` says so of an example's own
fingerprints):

| Theorem | Property of the example | Hypothesis |
| --- | --- | --- |
| `RetriesPerformOnce` | `PerformedAtMostOnce` | |
| `ReceiptsArePerformed` | `ReceiptMeansPerformed` | |
| `SuccessIsReal` | `SuccessIsTrue` | `CodesDiffer` |
| `ConflictIsReal` | `ConflictIsTrue` | `CodesDiffer` |
| `ReplayNeverCommits` | `ReplayIsBlocked` | `CodesDiffer` |
| `RebuildsDiffer` | `RebuildsAreNew` (action property) | |
| `RetriesImplementLedger` | `ImplementsLedger` (refinement) | |
| `PaymentsRunOnce` (spl-transfer) | `PerformedAtMostOnce`, `ReceiptMeansPerformed` | |
| `OnlyClosuresFail` | `OnlyAClosureFails` | |
| `RentIsPaidOnce` | `BlockedPaysNothing` | finitely many clients |
| `SourceIsChargedOnce` | `SourcePaysOnce` | finitely many clients, `Funds \in Nat` |
| `OrdersPerformOnce` (custom-program) | `PerformedAtMostOnce`, `ReceiptMeansPerformed` | `FreshReceipts` |
| `ConflictsAreOthers` | `NoFalseConflict` | `FreshReceipts` |
| `CountsAreExact` | `CountIsExact` | `FreshReceipts`, finitely many clients |
| `InitializeIsBehindGuard` | `InitializeNeverMasksGuard` | `FreshReceipts` |
| `StaleSnapshotsNeverRun` | `StaleSnapshotIsHarmless` | `FreshReceipts`, finitely many clients |
| `SwapsPerformOnce` (jupiter-swap) | `PerformedAtMostOnce`, `ReceiptMeansPerformed` | `FreshReceipts` |
| `RequotesNeverConflict` | `RequoteIsSameIntent` | `FreshReceipts`, `OneRequestPerKey` |
| `SwapsAreComposedWell` | `ComposedWell` | `FreshReceipts`, `SuppliedOK` |
| `OversizeIsWarned` | `OversizeIsReported` | sizes and the limit are numbers |

* `CodesDiffer`: no business instruction fails with 6000 or 6001; `code_clash` shows that
  `SuccessIsTrue` needs it.
* `OneRequestPerKey`: two processes with one key make the same request. Otherwise a conflict is
  the right answer.
* `SuppliedOK`: what the swap service supplies sets the price at most once; the example adds one
  only if there is none (`BuildComposes`).
* `RebuildsAreNew` needs `FeeInv`: a client's message carries the fee it holds, which a rebuilt
  attempt has doubled.
* `spl-transfer` needs `LookInv` (an account that a message relies on is there, or was closed
  after the look), `RentInv` and `PaidInv` (the accounts paid for are no more than the consumed
  keys, and what two reads of the source differ by is between them); `custom-program` `CounterInv`
  (the counter is the number of executions and of others' increments; a cardinality, so the
  clients are finite) and `SnapshotInv` (an order refused by its business is `Stuck`: all its
  messages initialize a counter that exists).

`ExamplesProofs` proves `CallsAndActionsAreOne` (`ReceiptsAreActions`) and `FormsShareKeys`
(`OneActionPerKey`) of `GuardedPrograms`, for any owners, keys, counts and lengths of a
transaction. `FormsInv` says of the saved bank that it is exact, and of the working one that it
is exact but for the call that has been made and whose action is `Pending`. Its other theorems are
the properties that `MCExamples` checks:

| Theorem | Property |
| --- | --- |
| `EveryKeyOnce` | `OncePerKey` |
| `EffectsMatch` | `EffectsAreExact` |
| `StaleReadsAreSafe` | `StaleReadsOnlyFail` |
| `RetriesNeverConflict` | `NoFalseConflict` |
| `ComposedAlways` | `ComposedWell` |

A behaviour of the sum that starts as one of the programs is a behaviour of that program
(`TransferRuns` and the like), the hypotheses of its theorems hold of the instance
(`TransferKnown`), and so do the theorems (`TransferHolds`). `ExamplesAssumption` gives the ranges
of the constants.

### The scripts: `ClientProofs`

Theorems about `Spec` of `MCDemos`, for any number of attempts, requests, polls and slots, any age
of a blockhash, any lag of a node and any depth of a fork. `DemosAssumption`: a race has two
attempts at least, a blockhash lives a slot at least, and the last slots are numbers.

| Theorem | Property |
| --- | --- |
| `ConclusionsStayTrue` | `ConclusionsAreTrue` |
| `IncrementsOnce` | `GuardedOnce` |
| `AttemptsAreTwo` | `AttemptsDiffer` |
| `SubmissionsAreFinal` | `ResultsAreFinal` |

What makes the scripts hard is that a block that a node has shown may be abandoned. The argument
separates what no fork takes back (`Final`: what landed up to the confirmed slot) from what may
return to flight. `Final` only grows (`MovesKeep`), so whatever a script has read of it stays true;
`SubmissionInv` says that every status the transport has taken for an answer is of a final
transaction, and that what a submission returns is what the confirmed chain holds (`Returned`).
This part is stated over four kinds of step (`Signs`, `HandsOver`, `Polls`, `Details`) and shared
by the two scripts that use the transport.

* A/B comparison: `StepsInv` (each step of the script signs one message, and only a step that was
  reached), `BlockhashInv` (the second attempt of a scenario is built on another blockhash, so it
  is another message), `GuardInv` (a second guarded increment finds the receipt of the first in
  the part of the chain it lands on: `GuardedOk` of one transaction only), `PassedInv` (what each
  passed scenario has shown is final). `ABGives` has the properties from these.
* Race: `BatchInv` (the attempts are signed once, one for each fee), `RaceGuardInv`, and
  `VerdictInv`: `HOLDS` means `Held`, that one attempt has committed for good and every other one
  was refused. The counts of successes and refusals that the script compares are turned into that
  statement by cardinalities of finite sets (`HoldsMeansHeld`).
* Lifecycle: `LifecycleInv`. There is one claim, and it has landed once a receipt is read, so a
  receipt that is closed stays closed.
* Nonce policy: no property but that it exits, which is not proved.

`DemosInv` is the invariant of the script that runs. A step of the sum is a step of that script
(`OneScriptRuns`), which keeps its own part.

### The SDK: `ClientProofs`

| Theorem | Property | Of |
| --- | --- | --- |
| `ExpiredIsFinal` | `ExpiredCanBeClosed` | `ReadsSpec` |
| `MatchesHold` | `MatchHoldsWhileRetained` | `ReadsSpec` |
| `RetentionIsKept` | `RecordsWhatWasAsked` | `PrepareSpec` |
| `PreparedClaimsPass` | `PreparedIsAccepted` | `PrepareSpec` |
| `SearchReadsTheCode` | `CodeIsRead` | `SearchSpec` |
| `ScanFindsAll` | `ScanIsComplete` | `ScanSpec` |

Each is about the specification of its own module; `SdkSpec`, which `MCSdk` checks, runs one of
them at a time.

* Reads, for every lag: time never runs backwards along the chain, a clock is a moment that the
  chain has reached, and a summary follows from the receipt it shows (`ReadsInv`). Every receipt
  that stood once still stands or is past both deadlines (`HistoryOK`), so that what an old node
  shows is still the answer of `claim` until then.
* Builders, for every width of the field that holds the largest retention (`PrepareInv`).
* Error search, for any codes of 32 bits and any other numbers in the errors (`SearchAssumption`).
  `Explored` is the invariant of a walk over any graph, cyclic ones included: it has found nothing
  in what it has seen, and everything that leads to is seen or still on the stack, or it has ended
  at a node that ends it. So a walk that ends with nothing has seen a set of nodes that is
  `Closed`, and `CasesAreReadable` says of each shape of error that such a set contains the code
  if the error names one, and that nothing else in the error reads as one.
* Event scan, for logs of any length: `ScanInv` says of the lines that have been passed what
  `ScanIsComplete` says of all of them.

The runs do not repeat `SafetyInv`, `TransactionInv`, `ReceiptRecordsCommit` and
`PreparedIsAccepted`, which are proved.

### Only model-checked

* `HashesIdentify` (`MCSdk`): the encoding of an intent is a recursive operator over nested
  values, and that it is injective for every value is an induction over data that the prover
  cannot make.
* All liveness (`EveryCallEnds`, `EveryRunEnds`, `SearchesEnd`): fairness and ENABLED are out of
  the prover's reach.

## 6. Not modelled

* Measurement scripts (`blockhash-window.ts`, `slot-rate.ts`, `rent-exemption-check.ts`,
  `cu-on-runtime.ts`), `report.ts`, `payer.ts`, the web site, the build, release and
  documentation scripts: they read, compute a figure and print; no later step relies on state.
* Printing, wording of errors (`describeTransactionError`), addresses of explorers, keypair files.
* The decoding of a receipt (`decodeIntentReceipt` throws on another size or discriminator, and
  `supportedVersion` tells of another version): with one version of the program every account of
  its own decodes.
* Byte layouts (account, instruction, event bodies), base64, SHA-256 and the bump: the encodings
  are modelled where a property depends on them, otherwise they are injections.
* Delays between polls: a retry takes no time of its own, which allows more interleavings.
* The reads of `main` in the examples are of the latest state; lagging reads are in `Transport`,
  `ReceiptLifecycle`, `NoncePolicy` and `ReceiptReads`.
* `MAX_WAIT_SECONDS` in `receipt-lifecycle.ts:55` is never used. The SDK does not refuse the
  default public key as refund destination; the program does. `PrepareIntent` leaves that address
  out.
* `native-guard`'s checks of account count, addresses and data length, which no caller in the
  repository fails, and the slot and actor that `demo_counter` records.

## 7. Plan

Modelled in this order: the program (`CommitOnce`, `IntentLedger`), the retry loops, the demo
transport and its scripts, the SDK's reads and builders, its algorithms, the programs that guard
themselves; proved in the same order. What the prover can reach of the runs is proved. What would
come next is new code: a client that reuses a receipt's address through the SDK's cleanup, or a
script that submits over the transport, extends `Transport` and inherits `NetInv` and
`SubmissionInv`.
