----------------------------- MODULE CommitOnce -----------------------------
(***************************************************************************)
(* The commit_once Solana program: its two instructions, `claim` and       *)
(* `close_receipt`, executed inside atomic transactions next to business   *)
(* instructions, with the parts of the runtime they rely on: the clock,    *)
(* the blockhash window, durable nonces, the System Program's account      *)
(* creation and the rollback of a failed transaction.                      *)
(*                                                                         *)
(* A receipt PDA is derived from (authority, namespace, key); a member of  *)
(* Keys stands for a (namespace, idempotency key) pair and the derivation  *)
(* is the pairing <<authority, key>> (injective, like the PDA).            *)
(* Hashes, the bump seed, compute budget and fees are left out.            *)
(***************************************************************************)
EXTENDS Integers, Sequences, FiniteSets, Functions

CONSTANTS
  Wallets,                \* System-owned signers: authorities, payers, strangers
  Keys,                   \* (namespace, idempotency key) pairs
  Payloads,               \* Payload fingerprints
  DefaultPubkey,          \* Pubkey::default()
  NoData,                 \* The data of an account that has none
  NoTx,                   \* No transaction is executing
  Scripts,                \* The instruction lists that applications sign
  Fees,                   \* Rebuilding with another fee makes another message
  Deposit,                \* Rent::minimum_balance(IntentReceipt::LEN)
  InitialLamports,        \* Opening balance of every wallet
  MIN_RETENTION_SECONDS,
  MAX_RETENTION_SECONDS,
  SLOTS_PER_SECOND,
  MAX_INSTRUCTION_SCAN,
  MAX_PROCESSING_AGE,     \* Slots a blockhash stays acceptable
  MaxSlot,                \* Bound: the last slot explored
  MaxUnix,                \* Bound: the last timestamp explored
  MaxMessages             \* Bound: how many messages are ever signed

RECEIPT_VERSION == 1
PERMANENT_RETENTION == 0

Receipts == Wallets \X Keys
Addresses == Wallets \cup Receipts
Owners == {"system", "commit_once"}

ReceiptData ==
  [ version: Nat, authority: Wallets, key: Keys, payload_hash: Payloads,
    refund_destination: Addresses, created_slot: Nat, expires_at_slot: Nat,
    created_unix_ts: Nat, expires_at_unix_ts: Nat ]

Account == [lamports: Nat, owner: Owners, data: ReceiptData \cup {NoData}]

ClaimIx ==
  [ op: {"claim"}, authority: Wallets, receipt: Receipts, key: Keys,
    payload_hash: Payloads, retention_seconds: Nat,
    refund_destination: Addresses \cup {DefaultPubkey} ]
CloseIx == [op: {"close"}, receipt: Receipts, refund_destination: Addresses]
TransferIx == [op: {"transfer"}, from: Wallets, to: Addresses, amount: Nat]
BusinessIx == [op: {"business"}]
AdvanceNonceIx == [op: {"advance_nonce"}]
Instruction == ClaimIx \cup CloseIx \cup TransferIx \cup BusinessIx \cup AdvanceNonceIx

\* A signed message. Its content is its identity: equal content, equal signature.
Message ==
  [signer: Wallets, ixs: Seq(Instruction), recent: Nat, durable: BOOLEAN, fee: Fees]

Commit == [addr: Receipts, data: ReceiptData, retention: Nat, msg: Message]

Errors ==
  { "AccountNotSigner", "ConstraintSeeds", "InvalidRetention",
    "InvalidRefundDestination", "DurableNonceUnsupported",
    "InstructionScanInconclusive", "InvalidReceiptOwner", "InvalidReceiptData",
    "InvalidReceiptAuthority", "UnsupportedReceiptVersion", "AlreadyCommitted",
    "IdempotencyConflict",
    "AccountAlreadyInUse", "InsufficientFunds", "AccountNotInitialized",
    "ConstraintAddress", "ReceiptIsPermanent", "ReceiptNotExpired",
    "BusinessFailed" }

ASSUME ConstantsAssumption ==
  /\ NoData \notin ReceiptData
  /\ NoTx \notin Message
  /\ Wallets \cap Receipts = {}
  /\ DefaultPubkey \notin Addresses
  /\ Scripts \subseteq Seq(Instruction)
  /\ Deposit \in Nat \ {0}
  /\ InitialLamports \in Nat
  /\ MIN_RETENTION_SECONDS \in Nat \ {0}
  /\ MAX_RETENTION_SECONDS \in Nat
  /\ SLOTS_PER_SECOND \in Nat \ {0}
  /\ MAX_INSTRUCTION_SCAN \in Nat
  /\ MAX_PROCESSING_AGE \in Nat
  /\ MaxSlot \in Nat /\ MaxUnix \in Nat /\ MaxMessages \in Nat

\* There are finitely many accounts to count lamports over.
ASSUME FiniteAssumption == IsFiniteSet(Addresses)

\* constants.rs: an hour of retention outlasts the validity of a blockhash.
ASSUME RetentionOutlastsBlockhash ==
  MIN_RETENTION_SECONDS * SLOTS_PER_SECOND > MAX_PROCESSING_AGE

VARIABLES
  slot,        \* Clock::slot
  unix,        \* Clock::unix_timestamp
  account,     \* Accounts as the executing transaction sees them
  commits,     \* History: successful claims (rolled back like accounts)
  ran,         \* History: business instructions done, as <<message, index>>
  saved,       \* account, commits and ran to return to if the transaction fails
  signed,      \* Messages signed so far
  processed,   \* Messages whose transaction landed, successful or not
  tx,          \* The message being executed, or NoTx
  pc,          \* Index of its next instruction
  outcome      \* How the last transaction ended, and at which instruction

bank == <<account, commits, ran>>
Bank == [account |-> account, commits |-> commits, ran |-> ran]
pool == <<signed, processed>>
vars == <<slot, unix, account, commits, ran, saved, signed, processed, tx, pc, outcome>>

Idle == tx = NoTx
Here == tx.ixs[pc]

Init ==
  /\ slot = 0
  /\ unix = 0
  /\ account = [a \in Addresses |->
       [ lamports |-> IF a \in Wallets THEN InitialLamports ELSE 0,
         owner |-> "system", data |-> NoData ]]
  /\ commits = {}
  /\ ran = {}
  /\ saved = Bank
  /\ signed = {}
  /\ processed = {}
  /\ tx = NoTx
  /\ pc = 1
  /\ outcome = [error |-> "none", msg |-> NoTx, at |-> 0]

-----------------------------------------------------------------------------
(* The environment: time passes and messages are signed between            *)
(* transactions. Slots and wall-clock time advance independently: the slot *)
(* rate differs between clusters and drifts.                               *)

NextSlot ==
  /\ Idle
  /\ slot < MaxSlot
  /\ slot' = slot + 1
  /\ UNCHANGED <<unix, bank, saved, pool, tx, pc, outcome>>

NextSecond ==
  /\ Idle
  /\ unix < MaxUnix
  /\ unix' = unix + 1
  /\ UNCHANGED <<slot, bank, saved, pool, tx, pc, outcome>>

Carries(ixs, op) == \E i \in DOMAIN ixs : ixs[i].op = op

\* Build and sign a message on the current blockhash, or on a durable nonce.
Sign(signer, ixs, durable, fee) ==
  LET m == [ signer |-> signer, ixs |-> ixs, recent |-> slot,
             durable |-> durable, fee |-> fee ]
  IN /\ Idle
     /\ durable => Carries(ixs, "advance_nonce")
     /\ m \notin signed
     /\ Cardinality(signed) < MaxMessages
     /\ signed' = signed \cup {m}
     /\ UNCHANGED <<slot, unix, bank, saved, processed, tx, pc, outcome>>

\* The runtime accepts a message once, and a blockhash only while it is recent.
Executable(m) ==
  /\ m \in signed \ processed
  /\ m.durable \/ slot <= m.recent + MAX_PROCESSING_AGE

Begin(m) ==
  /\ Idle
  /\ Executable(m)
  /\ tx' = m
  /\ pc' = 1
  /\ saved' = Bank
  /\ UNCHANGED <<slot, unix, bank, pool, outcome>>

\* An instruction succeeded: the next one runs.
Proceed ==
  /\ pc' = pc + 1
  /\ UNCHANGED <<slot, unix, saved, pool, tx, outcome>>

\* An instruction failed: everything the transaction did is rolled back.
Abort(error) ==
  /\ account' = saved.account
  /\ commits' = saved.commits
  /\ ran' = saved.ran
  /\ processed' = processed \cup {tx}
  /\ outcome' = [error |-> error, msg |-> tx, at |-> pc]
  /\ tx' = NoTx
  /\ UNCHANGED <<slot, unix, saved, signed, pc>>

Finish ==
  /\ ~Idle
  /\ pc > Len(tx.ixs)
  /\ processed' = processed \cup {tx}
  /\ outcome' = [error |-> "none", msg |-> tx, at |-> pc]
  /\ tx' = NoTx
  /\ saved' = Bank
  /\ UNCHANGED <<slot, unix, bank, signed, pc>>

Running(op) == ~Idle /\ pc <= Len(tx.ixs) /\ Here.op = op

-----------------------------------------------------------------------------
(* claim *)

ValidRetention(r) ==
  \/ r = PERMANENT_RETENTION
  \/ MIN_RETENTION_SECONDS <= r /\ r <= MAX_RETENTION_SECONDS

\* The scan of the instructions sysvar stops at a bound; reaching it proves nothing.
NonceSeen(ixs) ==
  \E i \in DOMAIN ixs : i <= MAX_INSTRUCTION_SCAN /\ ixs[i].op = "advance_nonce"
\* Mutant: past the bound the scan assumes that there is no nonce advance.
ScanFailsOpen(ixs) == FALSE
ScanInconclusive(ixs) == ~NonceSeen(ixs) /\ Len(ixs) >= MAX_INSTRUCTION_SCAN

\* Mutant: the authority is an unchecked account.
SignsUnchecked(ix) == TRUE
Signs(ix) == ix.authority = tx.signer

\* Mutant: the receipt address is taken as passed.
SeedsUnchecked(ix) == ix.receipt \in Receipts
SeedsMatch(ix) == ix.receipt = <<ix.authority, ix.key>>

\* Mutant: the two answers to a second claim are swapped.
OtherPayload(receipt, ix) == receipt.payload_hash # ix.payload_hash
SamePayload(receipt, ix) == receipt.payload_hash = ix.payload_hash

\* The checks of `claim` in the order the code makes them: <<error, passes>>.
ClaimChecks(ix) ==
  LET finite == ix.retention_seconds # PERMANENT_RETENTION
      found == account[ix.receipt]
      exists == found.data # NoData
  IN << <<"AccountNotSigner", Signs(ix)>>,
        <<"ConstraintSeeds", SeedsMatch(ix)>>,
        <<"InvalidRetention", ValidRetention(ix.retention_seconds)>>,
        <<"InvalidRefundDestination", ix.refund_destination # DefaultPubkey>>,
        <<"InvalidRefundDestination", ix.refund_destination # ix.receipt>>,
        <<"DurableNonceUnsupported", finite => ~NonceSeen(tx.ixs)>>,
        <<"InstructionScanInconclusive", finite => ~ScanInconclusive(tx.ixs)>>,
        <<"InvalidReceiptOwner", exists => found.owner = "commit_once">>,
        <<"UnsupportedReceiptVersion", exists => found.data.version = RECEIPT_VERSION>>,
        <<"InvalidReceiptAuthority", exists => found.data.authority = ix.authority>>,
        <<"InvalidReceiptData", exists => found.data.key = ix.key>>,
        <<"AlreadyCommitted", exists => ~SamePayload(found.data, ix)>>,
        <<"IdempotencyConflict", ~exists>> >>

Passes(checks) == \A i \in DOMAIN checks : checks[i][2]
FirstError(checks) ==
  checks[CHOOSE i \in DOMAIN checks :
           ~checks[i][2] /\ \A j \in 1 .. i - 1 : checks[j][2]][1]

\* SystemInstruction::CreateAccount refuses an address that holds lamports.
CreateAccountChecks(from, to) ==
  << <<"AccountAlreadyInUse", account[to].lamports = 0>>,
     <<"InsufficientFunds", account[from].lamports >= Deposit>> >>

\* Mutant: an address that already holds lamports is not topped up.
NoTopUp(to) == IF account[to].lamports = 0 THEN Deposit ELSE 0
TopUp(to) == IF account[to].lamports < Deposit THEN Deposit - account[to].lamports ELSE 0

\* Mutant: CreateAccount also at a prefunded address.
AlwaysCreateAccount(ix) == CreateAccountChecks(ix.authority, ix.receipt)
\* Mutant: the payer's balance is not looked at.
FundsUnchecked(ix) == << >>
\* A prefunded address is topped up, allocated and assigned instead.
CreateReceiptChecks(ix) ==
  IF account[ix.receipt].lamports = 0
  THEN CreateAccountChecks(ix.authority, ix.receipt)
  ELSE << <<"InsufficientFunds", account[ix.authority].lamports >= TopUp(ix.receipt)>> >>

\* Mutant: seconds added to a slot number without conversion.
SlotDeadlineInSeconds(retention) == slot + retention
SlotDeadline(retention) == slot + retention * SLOTS_PER_SECOND

NewReceipt(ix) ==
  LET permanent == ix.retention_seconds = PERMANENT_RETENTION
  IN [ version |-> RECEIPT_VERSION, authority |-> ix.authority, key |-> ix.key,
       payload_hash |-> ix.payload_hash,
       refund_destination |-> ix.refund_destination,
       created_slot |-> slot,
       expires_at_slot |->
         IF permanent THEN 0 ELSE SlotDeadline(ix.retention_seconds),
       created_unix_ts |-> unix,
       expires_at_unix_ts |-> IF permanent THEN 0 ELSE unix + ix.retention_seconds ]

\* Mutant: the whole deposit is credited to a prefunded address as well.
CreditsWholeDeposit(ix) ==
  account' = [account EXCEPT
    ![ix.authority].lamports = @ - TopUp(ix.receipt),
    ![ix.receipt] = [ lamports |-> @.lamports + Deposit,
                      owner |-> "commit_once", data |-> NewReceipt(ix) ]]

CreateReceipt(ix) ==
  account' = [account EXCEPT
    ![ix.authority].lamports = @ - TopUp(ix.receipt),
    ![ix.receipt] = [ lamports |-> @.lamports + TopUp(ix.receipt),
                      owner |-> "commit_once", data |-> NewReceipt(ix) ]]

Claim ==
  /\ Running("claim")
  /\ Passes(ClaimChecks(Here))
  /\ Passes(CreateReceiptChecks(Here))
  /\ CreateReceipt(Here)
  /\ commits' = commits \cup
       {[ addr |-> Here.receipt, data |-> NewReceipt(Here),
          retention |-> Here.retention_seconds, msg |-> tx ]}
  /\ UNCHANGED ran
  /\ Proceed

\* Mutant: a repeated claim returns Ok instead of an error.
ClaimIgnored ==
  /\ Running("claim")
  /\ ~Passes(ClaimChecks(Here))
  /\ UNCHANGED bank
  /\ Proceed

ClaimRejected ==
  /\ Running("claim")
  /\ ~Passes(ClaimChecks(Here))
  /\ Abort(FirstError(ClaimChecks(Here)))

CreateReceiptFails ==
  /\ Running("claim")
  /\ Passes(ClaimChecks(Here))
  /\ ~Passes(CreateReceiptChecks(Here))
  /\ Abort(FirstError(CreateReceiptChecks(Here)))

-----------------------------------------------------------------------------
(* close_receipt *)

\* Mutant: close_receipt only compares the deadlines, 0 for a permanent receipt.
NeverPermanent(receipt) == FALSE
IsPermanent(receipt) == receipt.expires_at_slot = 0

\* Mutant: only the wall clock gates the cleanup.
CloseChecksWithoutSlot(ix) ==
  LET found == account[ix.receipt]
      exists == found.owner = "commit_once" /\ found.data # NoData
  IN << <<"AccountNotInitialized", exists>>,
        <<"ConstraintAddress",
          exists => ix.refund_destination = found.data.refund_destination>>,
        <<"ReceiptIsPermanent", exists => ~IsPermanent(found.data)>>,
        <<"ReceiptNotExpired", exists => unix >= found.data.expires_at_unix_ts>> >>

\* Mutant: whoever closes the receipt says where the deposit goes.
CloseChecksWithoutAddress(ix) ==
  LET found == account[ix.receipt]
      exists == found.owner = "commit_once" /\ found.data # NoData
  IN << <<"AccountNotInitialized", exists>>,
        <<"ReceiptIsPermanent", exists => ~IsPermanent(found.data)>>,
        <<"ReceiptNotExpired", exists => slot >= found.data.expires_at_slot>>,
        <<"ReceiptNotExpired", exists => unix >= found.data.expires_at_unix_ts>> >>

CloseChecks(ix) ==
  LET found == account[ix.receipt]
      exists == found.owner = "commit_once" /\ found.data # NoData
  IN << <<"AccountNotInitialized", exists>>,
        <<"ConstraintAddress",
          exists => ix.refund_destination = found.data.refund_destination>>,
        <<"ReceiptIsPermanent", exists => ~IsPermanent(found.data)>>,
        <<"ReceiptNotExpired", exists => slot >= found.data.expires_at_slot>>,
        <<"ReceiptNotExpired", exists => unix >= found.data.expires_at_unix_ts>> >>

\* Anchor's `close`: all lamports to the destination, the account back to the system.
CloseReceipt ==
  /\ Running("close")
  /\ Passes(CloseChecks(Here))
  /\ account' = [account EXCEPT
       ![Here.refund_destination].lamports = @ + account[Here.receipt].lamports,
       ![Here.receipt] = [lamports |-> 0, owner |-> "system", data |-> NoData]]
  /\ UNCHANGED <<commits, ran>>
  /\ Proceed

CloseRejected ==
  /\ Running("close")
  /\ ~Passes(CloseChecks(Here))
  /\ Abort(FirstError(CloseChecks(Here)))

-----------------------------------------------------------------------------
(* The instructions of other programs that share a transaction with them.  *)

\* SystemInstruction::Transfer: anyone may send lamports to any address.
Transfer ==
  /\ Running("transfer")
  /\ Here.from = tx.signer
  /\ account[Here.from].lamports >= Here.amount
  /\ account' = [account EXCEPT
       ![Here.from].lamports = @ - Here.amount,
       ![Here.to].lamports = @ + Here.amount]
  /\ UNCHANGED <<commits, ran>>
  /\ Proceed

TransferFails ==
  /\ Running("transfer")
  /\ \/ Here.from # tx.signer
     \/ account[Here.from].lamports < Here.amount
  /\ Abort("InsufficientFunds")

\* The guarded action may succeed, or fail for a reason of its own.
Business ==
  /\ Running("business")
  /\ ran' = ran \cup {<<tx, pc>>}
  /\ UNCHANGED <<account, commits>>
  /\ Proceed

BusinessFails == Running("business") /\ Abort("BusinessFailed")

\* Consuming the nonce is the runtime's part: a processed message never runs again.
AdvanceNonce == Running("advance_nonce") /\ UNCHANGED bank /\ Proceed

Execute ==
  \/ Claim \/ ClaimRejected \/ CreateReceiptFails
  \/ CloseReceipt \/ CloseRejected
  \/ Transfer \/ TransferFails
  \/ Business \/ BusinessFails
  \/ AdvanceNonce
  \/ Finish

Next ==
  \/ NextSlot
  \/ NextSecond
  \/ \E signer \in Wallets, ixs \in Scripts, durable \in BOOLEAN, fee \in Fees :
       Sign(signer, ixs, durable, fee)
  \/ \E m \in signed : Begin(m)
  \/ Execute

Spec == Init /\ [][Next]_vars

-----------------------------------------------------------------------------
(* Properties *)

TypeOK ==
  /\ slot \in Nat
  /\ unix \in Nat
  /\ account \in [Addresses -> Account]
  /\ commits \subseteq Commit
  /\ ran \subseteq Message \X (Nat \ {0})
  /\ saved \in [ account: [Addresses -> Account], commits: SUBSET Commit,
                 ran: SUBSET (Message \X (Nat \ {0})) ]
  /\ signed \subseteq Message
  /\ processed \subseteq signed
  /\ tx \in signed \cup {NoTx}
  /\ pc \in Nat \ {0}
  /\ outcome \in [error: Errors \cup {"none"}, msg: signed \cup {NoTx}, at: Nat]

\* Commit d came after the retention promised by commit c had run out, on both clocks.
RetentionOver(c, d) ==
  /\ c.retention # PERMANENT_RETENTION
  /\ d.data.created_unix_ts >= c.data.created_unix_ts + c.retention
  /\ d.data.created_slot >= c.data.created_slot + c.retention * SLOTS_PER_SECOND

\* Any two commits of one address are a retention apart.
Spaced(cs) ==
  \A c, d \in cs :
    c.addr = d.addr /\ c # d => RetentionOver(c, d) \/ RetentionOver(d, c)

\* lib.rs:19-22. Of two guarded transactions that commit for one (authority,
\* namespace, key), one commits only after the retention the other asked for
\* has run out; a permanent receipt is never followed by another commit.
AtMostOnceWhileRetained == Spaced(commits)

\* constants.rs:19-28, SECURITY_MODEL T7. A duplicate signed on a blockhash before
\* the first commit never commits, not even after the receipt was cleaned up:
\* what commits later was also signed later, in a slot after the first commit.
NoStaleDuplicate ==
  \A c, d \in commits :
    /\ c.addr = d.addr
    /\ c.data.created_slot < d.data.created_slot
    /\ ~d.msg.durable
    => d.msg.recent > c.data.created_slot

\* claim.rs:86-95, SECURITY_MODEL T8. A transaction that never expires only
\* commits under a receipt that never expires.
DurableOnlyPermanent ==
  \A c \in commits : c.msg.durable => c.retention = PERMANENT_RETENTION

\* SECURITY_MODEL T2. A key is consumed only by a message its authority signed.
OnlyAuthorityCommits == \A c \in commits : c.msg.signer = c.addr[1]

\* Instructions of message m of kind op, by index.
IndicesOf(m, op) == {i \in DOMAIN m.ixs : m.ixs[i].op = op}

\* The business instructions of m that have run, and the receipts m has claimed.
DoneBy(m, runs) == {i \in IndicesOf(m, "business") : <<m, i>> \in runs}
ClaimedBy(m, cs) == {c.addr : c \in {d \in cs : d.msg = m}}

\* The receipts that m claims before its instruction n.
ClaimsBefore(m, n) == {m.ixs[i].receipt : i \in {j \in IndicesOf(m, "claim") : j < n}}

\* lib.rs:24-31. In the committed state a transaction has done all its business
\* instructions and all its claims, or none of either: no receipt without its
\* action, no action of a blocked duplicate.
AllOrNothing ==
  \A m \in signed :
    LET done == DoneBy(m, saved.ran)
        claimed == ClaimedBy(m, saved.commits)
        all == done = IndicesOf(m, "business") /\ claimed = ClaimsBefore(m, Len(m.ixs) + 1)
        none == done = {} /\ claimed = {}
    IN all \/ none

\* ARCHITECTURE 2. Every receipt in the committed state is owned by the program,
\* sits at the address of its own authority and key, and records a commit that
\* really happened, with that commit's fingerprint, destination and deadlines.
ReceiptRecordsCommit ==
  \A r \in Receipts :
    LET a == saved.account[r]
    IN a.data # NoData =>
         /\ a.owner = "commit_once"
         /\ r = <<a.data.authority, a.data.key>>
         /\ \E c \in saved.commits : c.addr = r /\ c.data = a.data

\* close_receipt.rs:26-42, SECURITY_MODEL T4 and T6. A receipt, once committed, is
\* never rewritten; it only disappears, when it is not permanent and the clock
\* has reached both of its deadlines.
ReceiptOnlyExpires ==
  [][\A r \in Receipts :
       LET old == saved.account[r].data
       IN old # NoData /\ saved'.account[r].data # old =>
            /\ old.expires_at_slot # 0
            /\ slot >= old.expires_at_slot
            /\ unix >= old.expires_at_unix_ts]_vars

\* SECURITY_MODEL T6 and 9.6. While a transaction runs, lamports leave a receipt
\* only all at once, and into the destination the receipt recorded.
DepositGoesToRefund ==
  [][\A r \in Receipts :
       LET old == account[r]
       IN old.data # NoData /\ account'[r].lamports < old.lamports /\ tx' # NoTx =>
            /\ account'[r].lamports = 0
            /\ account'[old.data.refund_destination].lamports =
                 account[old.data.refund_destination].lamports + old.lamports]_vars

\* SECURITY_MODEL 9.6. No instruction creates or destroys lamports (fees left out).
Balances(accounts) == [a \in Addresses |-> accounts[a].lamports]
LamportsConserved ==
  SumFunction(Balances(account)) = InitialLamports * Cardinality(Wallets)

\* claim.rs:178-243. A receipt always holds at least its rent-exempt deposit,
\* however its address was funded before the claim.
LiveReceiptIsRentExempt ==
  \A r \in Receipts : account[r].data # NoData => account[r].lamports >= Deposit

\* claim.rs:193-218, SECURITY_MODEL T2b. Lamports sent to an unclaimed address
\* never make its claim fail in account creation.
PrefundNeverBlocks == outcome.error # "AccountAlreadyInUse"

\* API_REFERENCE 7. The integrity checks on an existing receipt never fire.
IntegrityErrorsUnreachable ==
  outcome.error \notin
    { "InvalidReceiptOwner", "InvalidReceiptData", "InvalidReceiptAuthority",
      "UnsupportedReceiptVersion" }

\* The instruction at which the last transaction failed.
FailedIx == outcome.msg.ixs[outcome.at]

\* Some earlier claim of the failed message was for the same receipt.
ClaimedTwiceInMessage ==
  \E i \in 1 .. outcome.at - 1 :
    outcome.msg.ixs[i].op = "claim" /\ outcome.msg.ixs[i].receipt = FailedIx.receipt

\* claim.rs:141-150. A transaction told AlreadyCommitted (IdempotencyConflict) failed
\* because the same (another) payload did commit for that key, unless the
\* transaction itself claims the key twice.
AnswersAreTrue ==
  /\ outcome.error = "AlreadyCommitted" /\ ~ClaimedTwiceInMessage =>
       \E c \in commits :
         c.addr = FailedIx.receipt /\ c.data.payload_hash = FailedIx.payload_hash
  /\ outcome.error = "IdempotencyConflict" /\ ~ClaimedTwiceInMessage =>
       \E c \in commits :
         c.addr = FailedIx.receipt /\ c.data.payload_hash # FailedIx.payload_hash

\* API_REFERENCE:249, "Treat as success: the intent already committed". Whoever is
\* told AlreadyCommitted can rely on the intent having committed.
AlreadyCommittedMeansCommitted ==
  outcome.error = "AlreadyCommitted" =>
    \E c \in saved.commits :
      c.addr = FailedIx.receipt /\ c.data.payload_hash = FailedIx.payload_hash

\* SECURITY_MODEL:253, "there is no configuration in which cleanup can outrun a
\* live duplicate": what commits later was signed after the first commit, whether
\* on a blockhash or on a durable nonce.
CleanupNeverOutrunsDuplicate ==
  \A c, d \in commits :
    c.addr = d.addr /\ c.data.created_slot < d.data.created_slot
    => d.msg.recent > c.data.created_slot

-----------------------------------------------------------------------------
(* The inductive invariant behind the safety properties. It speaks of one  *)
(* bank, accounts with their history of commits, and holds of the working  *)
(* bank and of the saved one.                                              *)

\* What is known of every commit in the history.
CommitOK(c) ==
  /\ c.retention # PERMANENT_RETENTION => c.retention >= MIN_RETENTION_SECONDS
  /\ c.data.created_slot <= slot /\ c.data.created_unix_ts <= unix
  /\ c.data.expires_at_slot =
       IF c.retention = PERMANENT_RETENTION THEN 0
       ELSE c.data.created_slot + c.retention * SLOTS_PER_SECOND
  /\ c.data.expires_at_unix_ts =
       IF c.retention = PERMANENT_RETENTION THEN 0
       ELSE c.data.created_unix_ts + c.retention
  /\ IF c.msg.durable THEN c.retention = PERMANENT_RETENTION
     ELSE c.data.created_slot <= c.msg.recent + MAX_PROCESSING_AGE
  /\ c.msg.signer = c.addr[1]
  /\ c.data.refund_destination # c.addr

Expired(c) ==
  /\ c.retention # PERMANENT_RETENTION
  /\ slot >= c.data.created_slot + c.retention * SLOTS_PER_SECOND
  /\ unix >= c.data.created_unix_ts + c.retention

\* A commit whose retention is not over still has its receipt.
Remembered(accounts, cs) ==
  \A c \in cs : Expired(c) \/ accounts[c.addr].data = c.data

\* A receipt stands for a commit.
Recorded(accounts, cs) ==
  \A r \in Receipts :
    LET a == accounts[r]
    IN a.data # NoData =>
         /\ a.owner = "commit_once"
         /\ a.lamports >= Deposit
         /\ r = <<a.data.authority, a.data.key>>
         /\ a.data.version = RECEIPT_VERSION
         /\ \E c \in cs : c.addr = r /\ c.data = a.data

BankOK(accounts, cs) ==
  /\ \A c \in cs : CommitOK(c)
  /\ Remembered(accounts, cs)
  /\ Recorded(accounts, cs)
  /\ Spaced(cs)

\* A message in execution was executable; a durable one carries its nonce advance.
TxOK ==
  /\ \A m \in signed : m.durable => Carries(m.ixs, "advance_nonce")
  /\ ~Idle /\ ~tx.durable => slot <= tx.recent + MAX_PROCESSING_AGE

SafetyInv ==
  /\ BankOK(account, commits)
  /\ BankOK(saved.account, saved.commits)
  /\ TxOK

-----------------------------------------------------------------------------
(* The inductive invariant of a transaction's progress: how the working    *)
(* bank differs from the saved one while a transaction runs.               *)

\* Both deadlines of a receipt that is not permanent are reached.
Lapsed(d) ==
  /\ ~IsPermanent(d)
  /\ slot >= d.expires_at_slot
  /\ unix >= d.expires_at_unix_ts

\* The receipts with which an intent has been committed.
DataOf(cs, r) == {c.data : c \in {d \in cs : d.addr = r}}

\* What the transaction has done to one receipt: nothing, closed it, or claimed it,
\* perhaps after closing it.
Kept(r) ==
  /\ account[r].data = saved.account[r].data
  /\ DataOf(commits, r) = DataOf(saved.commits, r)

Released(r) ==
  /\ saved.account[r].data # NoData /\ Lapsed(saved.account[r].data)
  /\ account[r].data = NoData
  /\ DataOf(commits, r) = DataOf(saved.commits, r)

Granted(r) ==
  /\ saved.account[r].data # NoData => Lapsed(saved.account[r].data)
  /\ account[r].data # NoData
  /\ account[r].data.created_slot = slot /\ account[r].data.created_unix_ts = unix
  /\ DataOf(commits, r) = DataOf(saved.commits, r) \cup {account[r].data}

\* The business instructions of m before its instruction n, as the history records them.
RunsBefore(m, n) == {<<m, i>> : i \in {j \in IndicesOf(m, "business") : j < n}}

\* What the running transaction has added to the histories, up to its next instruction.
Progress ==
  /\ tx \notin processed
  /\ ran = saved.ran \cup RunsBefore(tx, pc)
  /\ saved.commits \subseteq commits
  /\ \A c \in commits \ saved.commits : c.msg = tx
  /\ ClaimedBy(tx, commits) = ClaimsBefore(tx, pc)

\* Only messages that have landed have left anything behind.
OnlyProcessedLeftTraces ==
  /\ \A e \in saved.ran : e[1] \in processed
  /\ \A c \in saved.commits : c.msg \in processed

TransactionInv ==
  /\ Idle => saved = Bank
  /\ ~Idle => Progress
  /\ OnlyProcessedLeftTraces
  /\ AllOrNothing
  /\ \A r \in Receipts : Kept(r) \/ Released(r) \/ Granted(r)

\* What a failed claim was told is true of the committed history.
AnswersInv ==
  /\ outcome.error = "AlreadyCommitted" /\ ~ClaimedTwiceInMessage =>
       \E c \in saved.commits :
         c.addr = FailedIx.receipt /\ c.data.payload_hash = FailedIx.payload_hash
  /\ outcome.error = "IdempotencyConflict" /\ ~ClaimedTwiceInMessage =>
       \E c \in saved.commits :
         c.addr = FailedIx.receipt /\ c.data.payload_hash # FailedIx.payload_hash
=============================================================================
