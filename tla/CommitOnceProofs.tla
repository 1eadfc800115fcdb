-------------------------- MODULE CommitOnceProofs --------------------------
(***************************************************************************)
(* Theorems about CommitOnce for every value of its constants: types, the  *)
(* safety of an intent across retries and cleanups, what one transaction   *)
(* does to the committed state, the lamports, and that the program         *)
(* implements the ledger of intents.                                       *)
(***************************************************************************)
EXTENDS CommitOnceLedger, FiniteSetTheorems, WellFoundedInduction, TLAPS

USE DEF PERMANENT_RETENTION, RECEIPT_VERSION

-----------------------------------------------------------------------------
(* Instructions and checks *)

LEMMA HereType ==
  ASSUME TypeOK, NEW op, Running(op)
  PROVE  tx \in Message /\ pc \in DOMAIN tx.ixs /\ Here \in Instruction /\ Here.op = op
<1>1. tx \in Message
  BY DEF TypeOK, Running, Idle
<1>2. tx.ixs \in Seq(Instruction) /\ pc \in 1 .. Len(tx.ixs)
  BY <1>1 DEF TypeOK, Running, Message
<1> QED
  BY <1>1, <1>2 DEF Here, Running

LEMMA ClaimHere ==
  ASSUME TypeOK, Running("claim")
  PROVE  Here \in ClaimIx
BY HereType DEF Instruction, ClaimIx, CloseIx, TransferIx, BusinessIx, AdvanceNonceIx

LEMMA CloseHere ==
  ASSUME TypeOK, Running("close")
  PROVE  Here \in CloseIx
BY HereType DEF Instruction, ClaimIx, CloseIx, TransferIx, BusinessIx, AdvanceNonceIx

LEMMA TransferHere ==
  ASSUME TypeOK, Running("transfer")
  PROVE  Here \in TransferIx
BY HereType DEF Instruction, ClaimIx, CloseIx, TransferIx, BusinessIx, AdvanceNonceIx

\* What a claim that passes its checks has established.
LEMMA ClaimPasses ==
  ASSUME NEW ix, Passes(ClaimChecks(ix))
  PROVE  /\ ix.authority = tx.signer
         /\ ix.receipt = <<ix.authority, ix.key>>
         /\ ValidRetention(ix.retention_seconds)
         /\ ix.refund_destination # DefaultPubkey
         /\ ix.refund_destination # ix.receipt
         /\ ix.retention_seconds # 0 => ~NonceSeen(tx.ixs) /\ ~ScanInconclusive(tx.ixs)
         /\ account[ix.receipt].data = NoData
<1> DEFINE C == ClaimChecks(ix)
<1>1. DOMAIN C = 1 .. 13
  BY DEF ClaimChecks
<1>2. \A i \in 1 .. 13 : C[i][2]
  BY <1>1 DEF Passes
<1>3. C[1][2] /\ C[2][2] /\ C[3][2] /\ C[4][2] /\ C[5][2] /\ C[6][2] /\ C[7][2] /\ C[13][2]
  BY <1>2
<1> QED
  BY <1>3 DEF ClaimChecks, Signs, SeedsMatch

LEMMA CreateAccountPasses ==
  ASSUME NEW from, NEW to, Passes(CreateAccountChecks(from, to))
  PROVE  account[to].lamports = 0 /\ account[from].lamports >= Deposit
<1> DEFINE C == CreateAccountChecks(from, to)
<1>1. DOMAIN C = 1 .. 2
  BY DEF CreateAccountChecks
<1>2. C[1][2] /\ C[2][2]
  BY <1>1 DEF Passes
<1> QED
  BY <1>2 DEF CreateAccountChecks

\* A claim that can be funded leaves its authority with a balance.
LEMMA CreatePasses ==
  ASSUME TypeOK, NEW ix \in ClaimIx, Passes(CreateReceiptChecks(ix))
  PROVE  /\ TopUp(ix.receipt) \in Nat
         /\ account[ix.authority].lamports - TopUp(ix.receipt) \in Nat
         /\ account[ix.receipt].lamports + TopUp(ix.receipt) >= Deposit
<1> DEFINE a == account[ix.authority]  f == account[ix.receipt]
<1>1. a.lamports \in Nat /\ f.lamports \in Nat /\ Deposit \in Nat
  BY ConstantsAssumption DEF TypeOK, ClaimIx, Addresses, Account
<1>2. TopUp(ix.receipt) = IF f.lamports < Deposit THEN Deposit - f.lamports ELSE 0
  BY DEF TopUp
<1>3. a.lamports >= TopUp(ix.receipt)
  <2>1. CASE f.lamports = 0
    <3>1. Passes(CreateAccountChecks(ix.authority, ix.receipt))
      BY <2>1 DEF CreateReceiptChecks
    <3> QED
      BY <3>1, <2>1, <1>1, <1>2, CreateAccountPasses
  <2>2. CASE f.lamports # 0
    <3> DEFINE C == << <<"InsufficientFunds", account[ix.authority].lamports >= TopUp(ix.receipt)>> >>
    <3>1. Passes(C)
      BY <2>2 DEF CreateReceiptChecks
    <3>2. C[1][2]
      BY <3>1 DEF Passes
    <3> QED
      BY <3>2
  <2> QED
    BY <2>1, <2>2
<1> QED
  BY <1>1, <1>2, <1>3

\* What a close that passes its checks has established.
LEMMA ClosePasses ==
  ASSUME NEW ix, Passes(CloseChecks(ix))
  PROVE  LET d == account[ix.receipt].data
         IN /\ account[ix.receipt].owner = "commit_once"
            /\ d # NoData
            /\ ix.refund_destination = d.refund_destination
            /\ ~IsPermanent(d)
            /\ slot >= d.expires_at_slot
            /\ unix >= d.expires_at_unix_ts
<1> DEFINE C == CloseChecks(ix)
<1>1. DOMAIN C = 1 .. 5
  BY DEF CloseChecks
<1>2. C[1][2] /\ C[2][2] /\ C[3][2] /\ C[4][2] /\ C[5][2]
  BY <1>1 DEF Passes
<1> QED
  BY <1>2 DEF CloseChecks

\* A failed list of checks has a first failed one (no list is longer than 13).
LEMMA FirstErrorIsFirst ==
  ASSUME NEW checks, NEW n \in 0 .. 13, DOMAIN checks = 1 .. n, ~Passes(checks)
  PROVE  \E i \in 1 .. n :
           /\ FirstError(checks) = checks[i][1]
           /\ ~checks[i][2]
           /\ \A j \in 1 .. i - 1 : checks[j][2]
<1> DEFINE First(k) == ~checks[k][2] /\ \A j \in 1 .. k - 1 : checks[j][2]
           Found == {k \in 0 .. 13 : \/ \E i \in 1 .. k : First(i)
                                     \/ \A j \in 1 .. k : checks[j][2]}
<1>1. 0 \in Found
  OBVIOUS
<1>2. \A k \in 0 .. 12 : k \in Found => k + 1 \in Found
  <2> TAKE k \in 0 .. 12
  <2> HAVE k \in Found
  <2>1. CASE \E i \in 1 .. k : First(i)
    <3> PICK i \in 1 .. k : First(i)
      BY <2>1
    <3> QED
      BY i \in 1 .. k + 1
  <2>2. CASE (\A j \in 1 .. k : checks[j][2]) /\ ~checks[k + 1][2]
    <3>1. First(k + 1)
      BY <2>2
    <3> QED
      BY <3>1, k + 1 \in 1 .. k + 1
  <2>3. CASE (\A j \in 1 .. k : checks[j][2]) /\ checks[k + 1][2]
    <3>1. \A j \in 1 .. k + 1 : checks[j][2]
      BY <2>3
    <3> QED
      BY <3>1
  <2> QED
    BY <2>1, <2>2, <2>3
<1>3. n \in Found
  <2> HIDE DEF Found
  <2> QED
    BY <1>1, <1>2
<1>4. PICK i \in 1 .. n : First(i)
  BY <1>3 DEF Passes
<1>5. n \in Nat
  OBVIOUS
<1>6. FirstError(checks) = checks[CHOOSE k : k \in 1 .. n /\ First(k)][1]
  BY DEF FirstError
<1> DEFINE first == CHOOSE k : k \in 1 .. n /\ First(k)
<1>7. first \in 1 .. n /\ First(first)
  <2> HIDE DEF First
  <2> QED
    BY <1>4
<1> HIDE DEF first
<1>8. FirstError(checks) = checks[first][1]
  BY <1>6 DEF first
<1> QED
  BY <1>7, <1>8

\* The errors of the three lists of checks are declared errors.
LEMMA CheckErrors ==
  ASSUME NEW ix
  PROVE  /\ ~Passes(ClaimChecks(ix)) => FirstError(ClaimChecks(ix)) \in Errors
         /\ ~Passes(CreateReceiptChecks(ix)) => FirstError(CreateReceiptChecks(ix)) \in Errors
         /\ ~Passes(CloseChecks(ix)) => FirstError(CloseChecks(ix)) \in Errors
<1>1. ASSUME ~Passes(ClaimChecks(ix)) PROVE FirstError(ClaimChecks(ix)) \in Errors
  <2>1. DOMAIN ClaimChecks(ix) = 1 .. 13
    BY DEF ClaimChecks
  <2>2. PICK i \in 1 .. 13 : FirstError(ClaimChecks(ix)) = ClaimChecks(ix)[i][1]
    BY <1>1, <2>1, FirstErrorIsFirst
  <2>3. \A j \in 1 .. 13 : ClaimChecks(ix)[j][1] \in Errors
    BY DEF ClaimChecks, Errors
  <2> QED
    BY <2>2, <2>3
<1>2. ASSUME ~Passes(CreateReceiptChecks(ix)) PROVE FirstError(CreateReceiptChecks(ix)) \in Errors
  <2>1. PICK n \in 1 .. 2 : DOMAIN CreateReceiptChecks(ix) = 1 .. n
    BY DEF CreateReceiptChecks, CreateAccountChecks
  <2>2. PICK i \in 1 .. n : FirstError(CreateReceiptChecks(ix)) = CreateReceiptChecks(ix)[i][1]
    <3>1. n \in 0 .. 13
      OBVIOUS
    <3> QED
      BY <1>2, <2>1, <3>1, FirstErrorIsFirst
  <2>3. \A j \in 1 .. n : CreateReceiptChecks(ix)[j][1] \in Errors
    BY <2>1 DEF CreateReceiptChecks, CreateAccountChecks, Errors
  <2> QED
    BY <2>2, <2>3
<1>3. ASSUME ~Passes(CloseChecks(ix)) PROVE FirstError(CloseChecks(ix)) \in Errors
  <2>1. DOMAIN CloseChecks(ix) = 1 .. 5
    BY DEF CloseChecks
  <2>2. PICK i \in 1 .. 5 : FirstError(CloseChecks(ix)) = CloseChecks(ix)[i][1]
    BY <1>3, <2>1, FirstErrorIsFirst
  <2>3. \A j \in 1 .. 5 : CloseChecks(ix)[j][1] \in Errors
    BY DEF CloseChecks, Errors
  <2> QED
    BY <2>2, <2>3
<1> QED
  BY <1>1, <1>2, <1>3

-----------------------------------------------------------------------------
(* Type correctness *)

LEMMA NewReceiptType ==
  ASSUME TypeOK, NEW ix \in ClaimIx, ix.refund_destination # DefaultPubkey
  PROVE  NewReceipt(ix) \in ReceiptData
<1>1. ix.retention_seconds * SLOTS_PER_SECOND \in Nat
  BY ConstantsAssumption DEF ClaimIx
<1> QED
  BY <1>1 DEF NewReceipt, SlotDeadline, ReceiptData, ClaimIx, TypeOK

LEMMA AbortType ==
  ASSUME TypeOK, NEW error \in Errors, ~Idle, Abort(error)
  PROVE  TypeOK'
<1>1. tx \in signed
  BY DEF TypeOK, Idle
<1> QED
  BY <1>1 DEF TypeOK, Abort

LEMMA TypeStep == TypeOK /\ [Next]_vars => TypeOK'
<1> SUFFICES ASSUME TypeOK, [Next]_vars PROVE TypeOK'
  OBVIOUS
<1>1. CASE NextSlot
  BY <1>1 DEF NextSlot, TypeOK, bank, pool
<1>2. CASE NextSecond
  BY <1>2 DEF NextSecond, TypeOK, bank, pool
<1>3. ASSUME NEW signer \in Wallets, NEW ixs \in Scripts, NEW durable \in BOOLEAN,
             NEW fee \in Fees, Sign(signer, ixs, durable, fee)
      PROVE  TypeOK'
  <2>1. [ signer |-> signer, ixs |-> ixs, recent |-> slot,
          durable |-> durable, fee |-> fee ] \in Message
    BY ConstantsAssumption DEF TypeOK, Message
  <2> QED
    BY <1>3, <2>1 DEF Sign, TypeOK, bank
<1>4. ASSUME NEW m \in signed, Begin(m) PROVE TypeOK'
  BY <1>4 DEF Begin, TypeOK, bank, Bank, pool
<1>5. CASE Claim
  <2>1. Here \in ClaimIx
    BY <1>5, ClaimHere DEF Claim
  <2>2. Here.refund_destination # DefaultPubkey
    BY <1>5, ClaimPasses DEF Claim
  <2>3. NewReceipt(Here) \in ReceiptData
    BY <2>1, <2>2, NewReceiptType
  <2>4. /\ TopUp(Here.receipt) \in Nat
        /\ account[Here.authority].lamports - TopUp(Here.receipt) \in Nat
    BY <1>5, <2>1, CreatePasses DEF Claim
  <2>5. Here.authority \in Wallets /\ Here.receipt \in Receipts /\ Here.retention_seconds \in Nat
    BY <2>1 DEF ClaimIx
  <2>6. account' \in [Addresses -> Account]
    <3>1. account[Here.receipt] \in Account /\ account[Here.authority] \in Account
      BY <2>5 DEF TypeOK, Addresses
    <3>2. Here.authority # Here.receipt
      BY <2>5, ConstantsAssumption
    <3> DEFINE payer == [account[Here.authority] EXCEPT
                           !.lamports = @ - TopUp(Here.receipt)]
               funded == [ lamports |-> account[Here.receipt].lamports + TopUp(Here.receipt),
                           owner |-> "commit_once", data |-> NewReceipt(Here) ]
    <3>3. account' = [account EXCEPT ![Here.authority] = payer, ![Here.receipt] = funded]
      BY <1>5, <2>5, <3>2 DEF Claim, CreateReceipt, TypeOK, Addresses
    <3>4. payer \in Account
      BY <2>4, <3>1 DEF Account
    <3>5. funded \in Account
      BY <2>3, <2>4, <3>1 DEF Account, Owners
    <3> QED
      BY <2>5, <3>3, <3>4, <3>5 DEF TypeOK, Addresses
  <2>7. commits' \subseteq Commit
    <3>1. tx \in Message
      BY <1>5, HereType DEF Claim
    <3> QED
      BY <1>5, <2>3, <2>5, <3>1 DEF Claim, TypeOK, Commit
  <2> QED
    BY <1>5, <2>6, <2>7 DEF Claim, Proceed, TypeOK, pool
<1>6. CASE ClaimRejected
  BY <1>6, CheckErrors, AbortType DEF ClaimRejected, Running
<1>7. CASE CreateReceiptFails
  BY <1>7, CheckErrors, AbortType DEF CreateReceiptFails, Running
<1>8. CASE CloseReceipt
  <2>1. Here.receipt \in Receipts /\ Here.refund_destination \in Addresses
    BY <1>8, CloseHere DEF CloseReceipt, CloseIx
  <2>2. account' \in [Addresses -> Account]
    BY <1>8, <2>1 DEF CloseReceipt, TypeOK, Account, Owners, Addresses
  <2> QED
    BY <1>8, <2>2 DEF CloseReceipt, Proceed, TypeOK, pool
<1>9. CASE CloseRejected
  BY <1>9, CheckErrors, AbortType DEF CloseRejected, Running
<1>10. CASE Transfer
  <2>1. Here.from \in Wallets /\ Here.to \in Addresses /\ Here.amount \in Nat
    BY <1>10, TransferHere DEF Transfer, TransferIx
  <2>2. account' \in [Addresses -> Account]
    BY <1>10, <2>1 DEF Transfer, TypeOK, Account, Addresses
  <2> QED
    BY <1>10, <2>2 DEF Transfer, Proceed, TypeOK, pool
<1>11. CASE TransferFails
  BY <1>11, AbortType DEF TransferFails, Running, Errors
<1>12. CASE Business
  <2>1. tx \in Message
    BY <1>12, HereType DEF Business
  <2> QED
    BY <1>12, <2>1 DEF Business, Proceed, TypeOK, pool
<1>13. CASE BusinessFails
  BY <1>13, AbortType DEF BusinessFails, Running, Errors
<1>14. CASE AdvanceNonce
  BY <1>14 DEF AdvanceNonce, Proceed, TypeOK, bank, pool
<1>15. CASE Finish
  <2>1. tx \in signed
    BY <1>15 DEF Finish, Idle, TypeOK
  <2> QED
    BY <1>15, <2>1 DEF Finish, TypeOK, bank, Bank
<1>16. CASE UNCHANGED vars
  BY <1>16 DEF vars, TypeOK
<1> QED
  BY <1>1, <1>2, <1>3, <1>4, <1>5, <1>6, <1>7, <1>8, <1>9, <1>10, <1>11, <1>12,
     <1>13, <1>14, <1>15, <1>16 DEF Next, Execute

\* Every reachable state of the program and its runtime is well typed.
THEOREM TypeCorrect == Spec => []TypeOK
<1>1. Init => TypeOK
  <2>1. SUFFICES ASSUME Init PROVE TypeOK
    OBVIOUS
  <2>2. account \in [Addresses -> Account]
    BY <2>1, ConstantsAssumption DEF Init, Account, Owners, Addresses
  <2> QED
    BY <2>1, <2>2 DEF Init, TypeOK, Bank
<1> QED
  BY <1>1, TypeStep, PTL DEF Spec

-----------------------------------------------------------------------------
(* The safety invariant *)

\* Time only confirms what is known of a commit.
LEMMA TimePasses ==
  ASSUME TypeOK, TypeOK', NEW c \in Commit, slot' >= slot, unix' >= unix
  PROVE  /\ CommitOK(c) => CommitOK(c)'
         /\ Expired(c) => Expired(c)'
<1>1. /\ slot \in Nat /\ slot' \in Nat /\ unix \in Nat /\ unix' \in Nat
      /\ c.data.created_slot \in Nat /\ c.data.created_unix_ts \in Nat
      /\ c.retention \in Nat
  BY DEF TypeOK, Commit, ReceiptData
<1>2. c.retention * SLOTS_PER_SECOND \in Nat
  BY <1>1, ConstantsAssumption
<1>3. CommitOK(c) => CommitOK(c)'
  BY <1>1 DEF CommitOK
<1>4. Expired(c) => Expired(c)'
  BY <1>1, <1>2 DEF Expired
<1> QED
  BY <1>3, <1>4

LEMMA WorkingUnchanged ==
  ASSUME TypeOK, TypeOK', BankOK(account, commits), UNCHANGED <<account, commits>>,
         slot' >= slot, unix' >= unix
  PROVE  BankOK(account, commits)'
<1>1. \A c \in commits : CommitOK(c)' /\ (Expired(c) => Expired(c)')
  BY TimePasses DEF BankOK, TypeOK
<1> QED
  BY <1>1 DEF BankOK, Remembered, Recorded, Spaced, RetentionOver

LEMMA SavedUnchanged ==
  ASSUME TypeOK, TypeOK', BankOK(saved.account, saved.commits), UNCHANGED saved,
         slot' >= slot, unix' >= unix
  PROVE  BankOK(saved.account, saved.commits)'
<1>1. saved.commits \subseteq Commit
  BY DEF TypeOK
<1>2. \A c \in saved.commits : CommitOK(c)' /\ (Expired(c) => Expired(c)')
  BY <1>1, TimePasses DEF BankOK
<1> QED
  BY <1>2 DEF BankOK, Remembered, Recorded, Spaced, RetentionOver

\* A failed transaction leaves the bank it found.
LEMMA AbortSafe ==
  ASSUME TypeOK, SafetyInv, NEW error, Abort(error)
  PROVE  SafetyInv'
<1>1. BankOK(account, commits)' /\ BankOK(saved.account, saved.commits)'
  BY DEF Abort, SafetyInv, BankOK, Remembered, Recorded, Spaced, RetentionOver,
         CommitOK, Expired
<1>2. TxOK'
  BY DEF Abort, SafetyInv, TxOK, Idle
<1> QED
  BY <1>1, <1>2 DEF SafetyInv

\* A finite claim that passes its checks is not in a durable transaction.
LEMMA FiniteIsNotDurable ==
  ASSUME TypeOK, TxOK, Running("claim"), Passes(ClaimChecks(Here)), tx.durable
  PROVE  Here.retention_seconds = PERMANENT_RETENTION
<1> SUFFICES ASSUME Here.retention_seconds # PERMANENT_RETENTION PROVE FALSE
  OBVIOUS
<1>1. ~NonceSeen(tx.ixs) /\ ~ScanInconclusive(tx.ixs)
  BY ClaimPasses
<1>2. tx \in signed /\ tx.ixs \in Seq(Instruction)
  BY HereType DEF TypeOK, Running, Idle, Message
<1>3. PICK i \in DOMAIN tx.ixs : tx.ixs[i].op = "advance_nonce"
  BY <1>2 DEF TxOK, Carries
<1>4. i > MAX_INSTRUCTION_SCAN
  BY <1>1, <1>2, <1>3, ConstantsAssumption DEF NonceSeen
<1>5. Len(tx.ixs) < MAX_INSTRUCTION_SCAN
  BY <1>1, <1>2, ConstantsAssumption DEF ScanInconclusive
<1> QED
  BY <1>2, <1>4, <1>5, ConstantsAssumption

\* What a claim that succeeds writes.
NewCommit ==
  [ addr |-> Here.receipt, data |-> NewReceipt(Here),
    retention |-> Here.retention_seconds, msg |-> tx ]

LEMMA ClaimWrites ==
  ASSUME TypeOK, Claim
  PROVE  /\ Here.receipt \in Receipts /\ Here.retention_seconds \in Nat
         /\ Here.receipt = <<Here.authority, Here.key>>
         /\ account[Here.receipt].data = NoData
         /\ NewReceipt(Here) \in ReceiptData /\ NewReceipt(Here) # NoData
         /\ account'[Here.receipt].data = NewReceipt(Here)
         /\ account'[Here.receipt].owner = "commit_once"
         /\ account'[Here.receipt].lamports >= Deposit
         /\ \A r \in Receipts : r # Here.receipt => account'[r] = account[r]
         /\ commits' = commits \cup {NewCommit} /\ slot' = slot /\ unix' = unix
<1> DEFINE r0 == Here.receipt
<1>1. Here \in ClaimIx
  BY ClaimHere DEF Claim
<1>2. /\ r0 = <<Here.authority, Here.key>>
      /\ Here.refund_destination # DefaultPubkey
      /\ account[r0].data = NoData
  BY ClaimPasses DEF Claim
<1>3. /\ r0 \in Receipts /\ Here.authority \in Wallets /\ Here.authority # r0
      /\ Here.retention_seconds \in Nat
  BY <1>1, ConstantsAssumption DEF ClaimIx
<1>4. NewReceipt(Here) \in ReceiptData /\ NewReceipt(Here) # NoData
  BY <1>1, <1>2, NewReceiptType, ConstantsAssumption
<1>5. /\ account'[r0].data = NewReceipt(Here)
      /\ account'[r0].owner = "commit_once"
      /\ account'[r0].lamports >= Deposit
  <2>1. account[r0].lamports + TopUp(r0) >= Deposit
    BY <1>1, CreatePasses DEF Claim
  <2> QED
    BY <1>3, <2>1 DEF Claim, CreateReceipt, TypeOK, Addresses
<1>6. \A r \in Receipts : r # r0 => account'[r] = account[r]
  <2>1. \A r \in Receipts : r # Here.authority
    BY <1>3, ConstantsAssumption
  <2> QED
    BY <2>1 DEF Claim, CreateReceipt, TypeOK, Addresses
<1>7. commits' = commits \cup {NewCommit} /\ slot' = slot /\ unix' = unix
  BY DEF Claim, Proceed, NewCommit
<1> QED
  BY <1>2, <1>3, <1>4, <1>5, <1>6, <1>7

LEMMA ClaimSafe ==
  ASSUME TypeOK, TypeOK', SafetyInv, Claim
  PROVE  BankOK(account, commits)'
<1> DEFINE r0 == Here.receipt
           c0 == NewCommit
<1>1. Here \in ClaimIx /\ tx \in Message
  BY ClaimHere, HereType DEF Claim
<1>2. /\ Here.authority = tx.signer
      /\ r0 = <<Here.authority, Here.key>>
      /\ ValidRetention(Here.retention_seconds)
      /\ Here.refund_destination # DefaultPubkey
      /\ Here.refund_destination # r0
      /\ account[r0].data = NoData
  BY ClaimPasses DEF Claim
<1>3. /\ r0 \in Receipts /\ Here.retention_seconds \in Nat
  BY ClaimWrites
<1>5. /\ account'[r0].data = NewReceipt(Here)
      /\ account'[r0].owner = "commit_once"
      /\ account'[r0].lamports >= Deposit
  BY ClaimWrites
<1>6. \A r \in Receipts : r # r0 => account'[r] = account[r]
  BY ClaimWrites
<1>7. commits' = commits \cup {c0} /\ slot' = slot /\ unix' = unix
  BY ClaimWrites
<1>8. \A c \in commits : c \in Commit /\ c.addr \in Receipts /\ c.data # NoData
  BY ConstantsAssumption DEF TypeOK, Commit
<1>9. \A c \in commits : c.addr = r0 => Expired(c)
  BY <1>2, <1>8 DEF SafetyInv, BankOK, Remembered
<1>10. CommitOK(c0)
  <2>1. IF tx.durable THEN Here.retention_seconds = PERMANENT_RETENTION
        ELSE slot <= tx.recent + MAX_PROCESSING_AGE
    BY FiniteIsNotDurable DEF Claim, Running, SafetyInv, TxOK
  <2>2. r0[1] = tx.signer
    BY <1>2
  <2>3. slot \in Nat /\ unix \in Nat
    BY DEF TypeOK
  <2> QED
    BY <1>2, <2>1, <2>2, <2>3 DEF CommitOK, NewCommit, NewReceipt, SlotDeadline, ValidRetention
<1>11. \A c \in commits' : CommitOK(c)'
  BY <1>7, <1>10 DEF SafetyInv, BankOK, CommitOK
<1>12. Remembered(account, commits)'
  <2> SUFFICES ASSUME NEW c \in commits' PROVE Expired(c)' \/ account'[c.addr].data = c.data
    BY DEF Remembered
  <2>1. CASE c = c0
    BY <2>1, <1>5 DEF NewCommit
  <2>2. CASE c \in commits /\ c.addr = r0
    BY <2>2, <1>7, <1>9 DEF Expired
  <2>3. CASE c \in commits /\ c.addr # r0
    BY <2>3, <1>6, <1>7, <1>8 DEF SafetyInv, BankOK, Remembered, Expired
  <2> QED
    BY <1>7, <2>1, <2>2, <2>3
<1>13. Recorded(account, commits)'
  <2> SUFFICES ASSUME NEW r \in Receipts, account'[r].data # NoData
               PROVE  /\ account'[r].owner = "commit_once"
                      /\ account'[r].lamports >= Deposit
                      /\ r = <<account'[r].data.authority, account'[r].data.key>>
                      /\ account'[r].data.version = RECEIPT_VERSION
                      /\ \E c \in commits' : c.addr = r /\ c.data = account'[r].data
    BY DEF Recorded
  <2>1. CASE r = r0
    <3>1. r0 = <<NewReceipt(Here).authority, NewReceipt(Here).key>>
      BY <1>2 DEF NewReceipt
    <3>2. NewReceipt(Here).version = RECEIPT_VERSION
      BY DEF NewReceipt
    <3>3. c0 \in commits' /\ c0.addr = r0 /\ c0.data = account'[r0].data
      BY <1>5, <1>7 DEF NewCommit
    <3> QED
      BY <2>1, <1>5, <3>1, <3>2, <3>3
  <2>2. CASE r # r0
    BY <2>2, <1>6, <1>7 DEF SafetyInv, BankOK, Recorded
  <2> QED
    BY <2>1, <2>2
<1>14. Spaced(commits)'
  <2>1. \A c \in commits : c.addr = r0 => RetentionOver(c, c0)
    BY <1>9 DEF Expired, RetentionOver, NewCommit, NewReceipt
  <2> QED
    BY <1>7, <2>1 DEF SafetyInv, BankOK, Spaced, RetentionOver, NewCommit
<1> QED
  BY <1>11, <1>12, <1>13, <1>14 DEF BankOK

\* What a close that succeeds writes.
LEMMA CloseWrites ==
  ASSUME TypeOK, CloseReceipt
  PROVE  /\ Here.receipt \in Receipts
         /\ account[Here.receipt].data # NoData /\ ~IsPermanent(account[Here.receipt].data)
         /\ slot >= account[Here.receipt].data.expires_at_slot
         /\ unix >= account[Here.receipt].data.expires_at_unix_ts
         /\ account'[Here.receipt].data = NoData
         /\ \A r \in Receipts : r # Here.receipt =>
              /\ account'[r].data = account[r].data
              /\ account'[r].owner = account[r].owner
              /\ account'[r].lamports >= account[r].lamports
         /\ commits' = commits /\ slot' = slot /\ unix' = unix
<1> DEFINE r0 == Here.receipt
           d0 == account[r0].data
<1>1. r0 \in Receipts /\ Here.refund_destination \in Addresses
  BY CloseHere DEF CloseReceipt, CloseIx
<1>2. /\ d0 # NoData /\ ~IsPermanent(d0)
      /\ slot >= d0.expires_at_slot /\ unix >= d0.expires_at_unix_ts
  BY ClosePasses DEF CloseReceipt
<1>3. commits' = commits /\ slot' = slot /\ unix' = unix
  BY DEF CloseReceipt, Proceed
<1>4. account'[r0].data = NoData
  BY <1>1 DEF CloseReceipt, TypeOK, Addresses
<1>5. \A r \in Receipts : r # r0 =>
        /\ account'[r].data = account[r].data
        /\ account'[r].owner = account[r].owner
        /\ account'[r].lamports >= account[r].lamports
  <2>1. \A a \in Addresses : account[a] \in Account
    BY DEF TypeOK
  <2> QED
    BY <1>1, <2>1 DEF CloseReceipt, TypeOK, Addresses, Account
<1> QED
  BY <1>1, <1>2, <1>3, <1>4, <1>5

LEMMA CloseSafe ==
  ASSUME TypeOK, TypeOK', SafetyInv, CloseReceipt
  PROVE  BankOK(account, commits)'
<1> DEFINE r0 == Here.receipt
           d0 == account[r0].data
<1>2. /\ d0 # NoData /\ ~IsPermanent(d0)
      /\ slot >= d0.expires_at_slot /\ unix >= d0.expires_at_unix_ts
  BY CloseWrites
<1>3. commits' = commits /\ slot' = slot /\ unix' = unix
  BY CloseWrites
<1>4. account'[r0].data = NoData
  BY CloseWrites
<1>5. \A r \in Receipts : r # r0 =>
        /\ account'[r].data = account[r].data
        /\ account'[r].owner = account[r].owner
        /\ account'[r].lamports >= account[r].lamports
  BY CloseWrites
<1>6. \A c \in commits : c.addr = r0 => Expired(c)
  BY <1>2 DEF SafetyInv, BankOK, Remembered, CommitOK, IsPermanent, Expired
<1>7. \A c \in commits : c.addr \in Receipts
  BY DEF TypeOK, Commit
<1>8. \A c \in commits' : CommitOK(c)'
  BY <1>3 DEF SafetyInv, BankOK, CommitOK
<1>9. Remembered(account, commits)'
  BY <1>3, <1>5, <1>6, <1>7 DEF SafetyInv, BankOK, Remembered, Expired
<1>10. Recorded(account, commits)'
  <2>1. \A r \in Receipts : account[r].lamports \in Nat /\ account'[r].lamports \in Nat
    BY DEF TypeOK, Account, Addresses
  <2> QED
    BY <1>3, <1>4, <1>5, <2>1, ConstantsAssumption DEF SafetyInv, BankOK, Recorded
<1>11. Spaced(commits)'
  BY <1>3 DEF SafetyInv, BankOK, Spaced, RetentionOver
<1> QED
  BY <1>8, <1>9, <1>10, <1>11 DEF BankOK

\* A transfer moves lamports, also into receipt addresses, but no data.
LEMMA TransferWrites ==
  ASSUME TypeOK, Transfer
  PROVE  /\ commits' = commits /\ slot' = slot /\ unix' = unix
         /\ \A r \in Receipts :
              /\ account'[r].data = account[r].data
              /\ account'[r].owner = account[r].owner
              /\ account'[r].lamports >= account[r].lamports
<1>1. Here.from \in Wallets /\ Here.to \in Addresses /\ Here.amount \in Nat
  BY TransferHere DEF Transfer, TransferIx
<1>2. commits' = commits /\ slot' = slot /\ unix' = unix
  BY DEF Transfer, Proceed
<1>3. \A r \in Receipts :
        /\ account'[r].data = account[r].data
        /\ account'[r].owner = account[r].owner
        /\ account'[r].lamports >= account[r].lamports
  <2>1. \A a \in Addresses : account[a] \in Account
    BY DEF TypeOK
  <2>2. \A r \in Receipts : r # Here.from
    BY <1>1, ConstantsAssumption
  <2> QED
    BY <1>1, <2>1, <2>2 DEF Transfer, TypeOK, Addresses, Account
<1> QED
  BY <1>2, <1>3

LEMMA TransferSafe ==
  ASSUME TypeOK, TypeOK', SafetyInv, Transfer
  PROVE  BankOK(account, commits)'
<1>2. commits' = commits /\ slot' = slot /\ unix' = unix
  BY TransferWrites
<1>3. \A r \in Receipts :
        /\ account'[r].data = account[r].data
        /\ account'[r].owner = account[r].owner
        /\ account'[r].lamports >= account[r].lamports
  BY TransferWrites
<1>4. \A r \in Receipts : account[r].lamports \in Nat /\ account'[r].lamports \in Nat
  BY DEF TypeOK, Account, Addresses
<1>5. \A c \in commits : c.addr \in Receipts
  BY DEF TypeOK, Commit
<1>6. \A c \in commits' : CommitOK(c)'
  BY <1>2 DEF SafetyInv, BankOK, CommitOK
<1>7. Remembered(account, commits)'
  BY <1>2, <1>3, <1>5 DEF SafetyInv, BankOK, Remembered, Expired
<1>8. Recorded(account, commits)'
  BY <1>2, <1>3, <1>4, ConstantsAssumption DEF SafetyInv, BankOK, Recorded
<1>9. Spaced(commits)'
  BY <1>2 DEF SafetyInv, BankOK, Spaced, RetentionOver
<1> QED
  BY <1>6, <1>7, <1>8, <1>9 DEF BankOK

LEMMA BeginSafe ==
  ASSUME TypeOK, TypeOK', SafetyInv, NEW m \in signed, Begin(m)
  PROVE  SafetyInv'
<1>1. BankOK(account, commits)'
  BY WorkingUnchanged DEF Begin, SafetyInv, bank, TypeOK
<1>2. saved'.account = account' /\ saved'.commits = commits'
  BY DEF Begin, Bank, bank
<1>3. BankOK(saved.account, saved.commits)'
  BY <1>1, <1>2 DEF BankOK, Remembered, Recorded, Spaced, RetentionOver, CommitOK, Expired
<1>4. TxOK'
  BY DEF Begin, SafetyInv, TxOK, Executable, Idle, pool
<1> QED
  BY <1>1, <1>3, <1>4 DEF SafetyInv

LEMMA FinishSafe ==
  ASSUME TypeOK, TypeOK', SafetyInv, Finish
  PROVE  SafetyInv'
<1>1. BankOK(account, commits)'
  BY WorkingUnchanged DEF Finish, SafetyInv, bank, TypeOK
<1>2. saved'.account = account' /\ saved'.commits = commits'
  BY DEF Finish, Bank, bank
<1>3. BankOK(saved.account, saved.commits)'
  BY <1>1, <1>2 DEF BankOK, Remembered, Recorded, Spaced, RetentionOver, CommitOK, Expired
<1>4. TxOK'
  BY DEF Finish, SafetyInv, TxOK, Idle
<1> QED
  BY <1>1, <1>3, <1>4 DEF SafetyInv

\* Between its first and its last instruction a transaction leaves the saved bank.
LEMMA ProceedSafe ==
  ASSUME TypeOK, TypeOK', SafetyInv, Proceed, BankOK(account, commits)'
  PROVE  SafetyInv'
<1>1. BankOK(saved.account, saved.commits)'
  BY SavedUnchanged DEF Proceed, SafetyInv, TypeOK
<1>2. TxOK'
  BY DEF Proceed, SafetyInv, TxOK, Idle, pool
<1> QED
  BY <1>1, <1>2 DEF SafetyInv

LEMMA SafetyStep == TypeOK /\ TypeOK' /\ SafetyInv /\ [Next]_vars => SafetyInv'
<1> SUFFICES ASSUME TypeOK, TypeOK', SafetyInv, [Next]_vars PROVE SafetyInv'
  OBVIOUS
<1>0. slot \in Nat /\ unix \in Nat
  BY DEF TypeOK
<1>1. CASE NextSlot
  <2>1. slot' >= slot /\ unix' >= unix
    BY <1>0, <1>1 DEF NextSlot
  <2>2. TxOK'
    BY <1>1 DEF NextSlot, SafetyInv, TxOK, Idle, pool
  <2> QED
    BY <1>1, <2>1, <2>2, WorkingUnchanged, SavedUnchanged DEF NextSlot, SafetyInv, bank
<1>2. CASE NextSecond
  <2>1. slot' >= slot /\ unix' >= unix
    BY <1>0, <1>2 DEF NextSecond
  <2>2. TxOK'
    BY <1>2 DEF NextSecond, SafetyInv, TxOK, Idle, pool
  <2> QED
    BY <1>2, <2>1, <2>2, WorkingUnchanged, SavedUnchanged DEF NextSecond, SafetyInv, bank
<1>3. ASSUME NEW signer \in Wallets, NEW ixs \in Scripts, NEW durable \in BOOLEAN,
             NEW fee \in Fees, Sign(signer, ixs, durable, fee)
      PROVE  SafetyInv'
  <2>1. slot' >= slot /\ unix' >= unix
    BY <1>0, <1>3 DEF Sign
  <2>2. TxOK'
    BY <1>3 DEF Sign, SafetyInv, TxOK, Idle
  <2> QED
    BY <1>3, <2>1, <2>2, WorkingUnchanged, SavedUnchanged DEF Sign, SafetyInv, bank
<1>4. ASSUME NEW m \in signed, Begin(m) PROVE SafetyInv'
  BY <1>4, BeginSafe
<1>5. CASE Claim
  BY <1>5, ClaimSafe, ProceedSafe DEF Claim
<1>6. CASE ClaimRejected
  BY <1>6, AbortSafe DEF ClaimRejected
<1>7. CASE CreateReceiptFails
  BY <1>7, AbortSafe DEF CreateReceiptFails
<1>8. CASE CloseReceipt
  BY <1>8, CloseSafe, ProceedSafe DEF CloseReceipt
<1>9. CASE CloseRejected
  BY <1>9, AbortSafe DEF CloseRejected
<1>10. CASE Transfer
  BY <1>10, TransferSafe, ProceedSafe DEF Transfer
<1>11. CASE TransferFails
  BY <1>11, AbortSafe DEF TransferFails
<1>12. CASE Business
  <2>1. BankOK(account, commits)'
    BY <1>0, <1>12, WorkingUnchanged DEF Business, Proceed, SafetyInv
  <2> QED
    BY <1>12, <2>1, ProceedSafe DEF Business
<1>13. CASE BusinessFails
  BY <1>13, AbortSafe DEF BusinessFails
<1>14. CASE AdvanceNonce
  <2>1. BankOK(account, commits)'
    BY <1>0, <1>14, WorkingUnchanged DEF AdvanceNonce, Proceed, SafetyInv, bank
  <2> QED
    BY <1>14, <2>1, ProceedSafe DEF AdvanceNonce
<1>15. CASE Finish
  BY <1>15, FinishSafe
<1>16. CASE UNCHANGED vars
  <2>1. slot' >= slot /\ unix' >= unix
    BY <1>0, <1>16 DEF vars
  <2>2. TxOK'
    BY <1>16 DEF vars, SafetyInv, TxOK, Idle
  <2> QED
    BY <1>16, <2>1, <2>2, WorkingUnchanged, SavedUnchanged DEF vars, SafetyInv
<1> QED
  BY <1>1, <1>2, <1>3, <1>4, <1>5, <1>6, <1>7, <1>8, <1>9, <1>10, <1>11, <1>12,
     <1>13, <1>14, <1>15, <1>16 DEF Next, Execute

LEMMA SafetyInit == Init => SafetyInv
<1> SUFFICES ASSUME Init PROVE SafetyInv
  OBVIOUS
<1>1. \A r \in Receipts : account[r].data = NoData
  BY DEF Init, Addresses
<1>2. BankOK(account, commits)
  BY <1>1 DEF Init, BankOK, Remembered, Recorded, Spaced
<1>3. saved.account = account /\ saved.commits = commits
  BY DEF Init, Bank
<1>4. TxOK
  BY DEF Init, TxOK, Idle
<1> QED
  BY <1>2, <1>3, <1>4 DEF SafetyInv

\* The invariant of the program's bookkeeping, before and inside a transaction:
\* commits whose retention is not over have their receipt, receipts record a
\* commit, and commits of one intent are a retention apart.
THEOREM SafetyCorrect == Spec => []SafetyInv
<1> QED
  BY TypeCorrect, SafetyInit, SafetyStep, PTL DEF Spec

-----------------------------------------------------------------------------
(* The safety properties *)

\* An intent commits at most once while a receipt of it is retained.
THEOREM AtMostOnce == Spec => []AtMostOnceWhileRetained
<1>1. SafetyInv => AtMostOnceWhileRetained
  BY DEF SafetyInv, BankOK, AtMostOnceWhileRetained
<1> QED
  BY <1>1, SafetyCorrect, PTL

\* No transaction on a durable nonce, which never expires, commits under a
\* receipt that can be cleaned up.
THEOREM DurableCommitsArePermanent == Spec => []DurableOnlyPermanent
<1>1. SafetyInv => DurableOnlyPermanent
  BY DEF SafetyInv, BankOK, CommitOK, DurableOnlyPermanent
<1> QED
  BY <1>1, SafetyCorrect, PTL

\* A key is only ever consumed by a message that its authority signed.
THEOREM CommitsAreSigned == Spec => []OnlyAuthorityCommits
<1>1. SafetyInv => OnlyAuthorityCommits
  BY DEF SafetyInv, BankOK, CommitOK, OnlyAuthorityCommits
<1> QED
  BY <1>1, SafetyCorrect, PTL

\* A committed receipt is the program's own and records a commit that happened.
THEOREM ReceiptsAreTrue == Spec => []ReceiptRecordsCommit
<1>1. SafetyInv => ReceiptRecordsCommit
  BY DEF SafetyInv, BankOK, Recorded, ReceiptRecordsCommit
<1> QED
  BY <1>1, SafetyCorrect, PTL

\* A receipt holds its rent-exempt deposit whatever was sent to its address.
THEOREM ReceiptsAreRentExempt == Spec => []LiveReceiptIsRentExempt
<1>1. SafetyInv => LiveReceiptIsRentExempt
  BY DEF SafetyInv, BankOK, Recorded, LiveReceiptIsRentExempt
<1> QED
  BY <1>1, SafetyCorrect, PTL

\* A retention, the shortest included, outlasts the validity of a blockhash.
LEMMA RetentionOutlasts ==
  ASSUME NEW r \in Nat, r >= MIN_RETENTION_SECONDS
  PROVE  r * SLOTS_PER_SECOND > MAX_PROCESSING_AGE
<1>1. /\ MIN_RETENTION_SECONDS \in Nat /\ SLOTS_PER_SECOND \in Nat
      /\ MAX_PROCESSING_AGE \in Nat
  BY ConstantsAssumption
<1>2. PICK d \in Nat : r = MIN_RETENTION_SECONDS + d
  BY <1>1, r - MIN_RETENTION_SECONDS \in Nat
<1>3. r * SLOTS_PER_SECOND = MIN_RETENTION_SECONDS * SLOTS_PER_SECOND + d * SLOTS_PER_SECOND
  BY <1>1, <1>2
<1>4. d * SLOTS_PER_SECOND \in Nat /\ MIN_RETENTION_SECONDS * SLOTS_PER_SECOND \in Nat
  BY <1>1, <1>2
<1> QED
  BY <1>1, <1>3, <1>4, RetentionOutlastsBlockhash

\* A duplicate signed on a blockhash before the first commit has expired when
\* the receipt of that commit can be cleaned up.
THEOREM StaleDuplicatesExpire == Spec => []NoStaleDuplicate
<1>1. TypeOK /\ SafetyInv => NoStaleDuplicate
  <2> SUFFICES ASSUME TypeOK, SafetyInv, NEW c \in commits, NEW d \in commits,
                      c.addr = d.addr, c.data.created_slot < d.data.created_slot,
                      ~d.msg.durable
               PROVE  d.msg.recent > c.data.created_slot
    BY DEF NoStaleDuplicate
  <2>1. /\ c.retention \in Nat /\ c.data.created_slot \in Nat
        /\ d.retention \in Nat /\ d.data.created_slot \in Nat /\ d.msg.recent \in Nat
        /\ MAX_PROCESSING_AGE \in Nat
    BY ConstantsAssumption DEF TypeOK, Commit, ReceiptData, Message
  <2>2. c # d
    BY <2>1
  <2>3. RetentionOver(c, d) \/ RetentionOver(d, c)
    BY <2>2 DEF SafetyInv, BankOK, Spaced
  <2>4. c.retention * SLOTS_PER_SECOND \in Nat /\ d.retention * SLOTS_PER_SECOND \in Nat
    BY <2>1, ConstantsAssumption
  <2>5. RetentionOver(c, d)
    <3>1. SUFFICES ASSUME RetentionOver(d, c) PROVE FALSE
      BY <2>3
    <3>2. c.data.created_slot >= d.data.created_slot + d.retention * SLOTS_PER_SECOND
      BY <3>1 DEF RetentionOver
    <3> QED
      BY <2>1, <2>4, <3>2
  <2>6. c.retention >= MIN_RETENTION_SECONDS
    BY <2>5 DEF SafetyInv, BankOK, CommitOK, RetentionOver
  <2>7. c.retention * SLOTS_PER_SECOND > MAX_PROCESSING_AGE
    BY <2>1, <2>6, RetentionOutlasts
  <2>8. d.data.created_slot <= d.msg.recent + MAX_PROCESSING_AGE
    BY DEF SafetyInv, BankOK, CommitOK
  <2>9. d.data.created_slot >= c.data.created_slot + c.retention * SLOTS_PER_SECOND
    BY <2>5 DEF RetentionOver
  <2> QED
    BY <2>1, <2>4, <2>7, <2>8, <2>9
<1> QED
  BY <1>1, TypeCorrect, SafetyCorrect, PTL

HIDE DEF PERMANENT_RETENTION, RECEIPT_VERSION

-----------------------------------------------------------------------------
(* The errors of a claim *)

\* What a claim knows of the receipt it found when it answers.
LEMMA ClaimAnswers ==
  ASSUME NEW ix, ~Passes(ClaimChecks(ix))
  PROVE  LET e == FirstError(ClaimChecks(ix))
             found == account[ix.receipt]
         IN /\ e # "AccountAlreadyInUse"
            /\ e = "AlreadyCommitted" => found.data # NoData /\ SamePayload(found.data, ix)
            /\ e = "IdempotencyConflict" => found.data # NoData /\ ~SamePayload(found.data, ix)
            /\ e = "InvalidReceiptOwner" => found.data # NoData /\ found.owner # "commit_once"
            /\ e = "UnsupportedReceiptVersion" =>
                 found.data # NoData /\ found.data.version # RECEIPT_VERSION
            /\ e = "InvalidReceiptAuthority" =>
                 SeedsMatch(ix) /\ found.data # NoData /\ found.data.authority # ix.authority
            /\ e = "InvalidReceiptData" =>
                 SeedsMatch(ix) /\ found.data # NoData /\ found.data.key # ix.key
<1> DEFINE C == ClaimChecks(ix)
<1>1. DOMAIN C = 1 .. 13
  BY DEF ClaimChecks
<1>2. PICK i \in 1 .. 13 :
        FirstError(C) = C[i][1] /\ ~C[i][2] /\ \A j \in 1 .. i - 1 : C[j][2]
  BY <1>1, FirstErrorIsFirst
<1> DEFINE e == FirstError(C)
           found == account[ix.receipt]
           exists == found.data # NoData
<1>3. \A j \in 1 .. 7 : C[j][1] \in { "AccountNotSigner", "ConstraintSeeds", "InvalidRetention",
        "InvalidRefundDestination", "DurableNonceUnsupported", "InstructionScanInconclusive" }
  BY DEF ClaimChecks
<1>4. /\ C[8][1] = "InvalidReceiptOwner" /\ C[9][1] = "UnsupportedReceiptVersion"
      /\ C[10][1] = "InvalidReceiptAuthority" /\ C[11][1] = "InvalidReceiptData"
      /\ C[12][1] = "AlreadyCommitted" /\ C[13][1] = "IdempotencyConflict"
  BY DEF ClaimChecks
<1>5. C[2][2] <=> SeedsMatch(ix)
  BY DEF ClaimChecks, SeedsMatch
<1>6. /\ C[8][2] <=> (exists => found.owner = "commit_once")
      /\ C[9][2] <=> (exists => found.data.version = RECEIPT_VERSION)
      /\ C[10][2] <=> (exists => found.data.authority = ix.authority)
      /\ C[11][2] <=> (exists => found.data.key = ix.key)
      /\ C[12][2] <=> (exists => ~SamePayload(found.data, ix))
      /\ C[13][2] <=> ~exists
  BY DEF ClaimChecks, SamePayload
<1> HIDE DEF C
<1>7. CASE i \in 1 .. 7
  BY <1>2, <1>3, <1>7 DEF C
<1>8. CASE i = 8
  BY <1>2, <1>4, <1>6, <1>8 DEF C
<1>9. CASE i = 9
  BY <1>2, <1>4, <1>6, <1>9 DEF C
<1>10. CASE i = 10
  BY <1>2, <1>4, <1>5, <1>6, <1>10 DEF C
<1>11. CASE i = 11
  BY <1>2, <1>4, <1>5, <1>6, <1>11 DEF C
<1>12. CASE i = 12
  BY <1>2, <1>4, <1>6, <1>12 DEF C
<1>13. CASE i = 13
  BY <1>2, <1>4, <1>6, <1>13 DEF C
<1> QED
  BY <1>7, <1>8, <1>9, <1>10, <1>11, <1>12, <1>13

\* Creating the receipt fails for want of lamports only.
LEMMA CreateAnswers ==
  ASSUME NEW ix, ~Passes(CreateReceiptChecks(ix))
  PROVE  FirstError(CreateReceiptChecks(ix)) = "InsufficientFunds"
<1> DEFINE C == CreateReceiptChecks(ix)
<1>1. PICK n \in 1 .. 2 : DOMAIN C = 1 .. n
  BY DEF CreateReceiptChecks, CreateAccountChecks
<1>2. n \in 0 .. 13
  OBVIOUS
<1>3. PICK i \in 1 .. n : FirstError(C) = C[i][1] /\ ~C[i][2]
  BY <1>1, <1>2, FirstErrorIsFirst
<1>4. CASE account[ix.receipt].lamports = 0
  <2>1. DOMAIN C = 1 .. 2 /\ C[1][2] /\ C[2][1] = "InsufficientFunds"
    <3>1. C = CreateAccountChecks(ix.authority, ix.receipt)
      BY <1>4 DEF CreateReceiptChecks
    <3>2. DOMAIN C = 1 .. 2 /\ C[2][1] = "InsufficientFunds"
      BY <3>1 DEF CreateAccountChecks
    <3>3. CreateAccountChecks(ix.authority, ix.receipt)[1][2] <=> account[ix.receipt].lamports = 0
      BY DEF CreateAccountChecks
    <3> QED
      BY <1>4, <3>1, <3>2, <3>3
  <2> HIDE DEF C
  <2>2. i = 2
    BY <1>3, <1>1, <2>1
  <2> QED
    BY <1>3, <2>1, <2>2 DEF C
<1>5. CASE account[ix.receipt].lamports # 0
  <2>1. DOMAIN C = {1} /\ C[1][1] = "InsufficientFunds"
    BY <1>5 DEF CreateReceiptChecks
  <2> HIDE DEF C
  <2>2. i = 1
    BY <1>1, <1>3, <2>1
  <2> QED
    BY <1>3, <2>1, <2>2 DEF C
<1> QED
  BY <1>4, <1>5

\* close_receipt has errors of its own.
LEMMA CloseAnswers ==
  ASSUME NEW ix, ~Passes(CloseChecks(ix))
  PROVE  FirstError(CloseChecks(ix)) \in
           {"AccountNotInitialized", "ConstraintAddress", "ReceiptIsPermanent", "ReceiptNotExpired"}
<1> DEFINE C == CloseChecks(ix)
<1>1. DOMAIN C = 1 .. 5
  BY DEF CloseChecks
<1>2. PICK i \in 1 .. 5 : FirstError(C) = C[i][1]
  BY <1>1, FirstErrorIsFirst
<1> QED
  BY <1>2 DEF CloseChecks

\* Only the end of a transaction sets an outcome.
LEMMA OutcomeSteps ==
  ASSUME [Next]_vars
  PROVE  \/ outcome' = outcome
         \/ Finish
         \/ ClaimRejected \/ CreateReceiptFails \/ CloseRejected \/ TransferFails \/ BusinessFails
BY DEF Next, Execute, vars, NextSlot, NextSecond, Sign, Begin, Claim, CloseReceipt, Transfer,
       Business, AdvanceNonce, Proceed

\* The answers that no claim ever gives.
IntegrityErrors ==
  { "InvalidReceiptOwner", "InvalidReceiptData", "InvalidReceiptAuthority",
    "UnsupportedReceiptVersion" }
OutcomeOK == outcome.error \notin IntegrityErrors \cup {"AccountAlreadyInUse"}

LEMMA ClaimErrorsOK ==
  ASSUME TypeOK, SafetyInv, ClaimRejected
  PROVE  FirstError(ClaimChecks(Here)) \notin IntegrityErrors \cup {"AccountAlreadyInUse"}
<1>1. Here.receipt \in Receipts
  BY ClaimHere DEF ClaimRejected, ClaimIx
<1> DEFINE found == account[Here.receipt]
<1>2. found.data # NoData =>
        /\ found.owner = "commit_once"
        /\ found.data.version = RECEIPT_VERSION
        /\ Here.receipt = <<found.data.authority, found.data.key>>
  BY <1>1 DEF SafetyInv, BankOK, Recorded
<1>3. found.data # NoData /\ SeedsMatch(Here) =>
        found.data.authority = Here.authority /\ found.data.key = Here.key
  BY <1>2 DEF SeedsMatch
<1> QED
  BY <1>2, <1>3, ClaimAnswers DEF ClaimRejected, IntegrityErrors

LEMMA OutcomeStep == TypeOK /\ SafetyInv /\ OutcomeOK /\ [Next]_vars => OutcomeOK'
<1> SUFFICES ASSUME TypeOK, SafetyInv, OutcomeOK, [Next]_vars PROVE OutcomeOK'
  OBVIOUS
<1>1. CASE outcome' = outcome
  BY <1>1 DEF OutcomeOK
<1>2. CASE Finish
  BY <1>2 DEF Finish, OutcomeOK, IntegrityErrors
<1>3. CASE ClaimRejected
  BY <1>3, ClaimErrorsOK DEF ClaimRejected, Abort, OutcomeOK
<1>4. CASE CreateReceiptFails
  BY <1>4, CreateAnswers DEF CreateReceiptFails, Abort, OutcomeOK, IntegrityErrors
<1>5. CASE CloseRejected
  BY <1>5, CloseAnswers DEF CloseRejected, Abort, OutcomeOK, IntegrityErrors
<1>6. CASE TransferFails \/ BusinessFails
  BY <1>6 DEF TransferFails, BusinessFails, Abort, OutcomeOK, IntegrityErrors
<1> QED
  BY <1>1, <1>2, <1>3, <1>4, <1>5, <1>6, OutcomeSteps

LEMMA OutcomeCorrect == Spec => []OutcomeOK
<1>1. Init => OutcomeOK
  BY DEF Init, OutcomeOK, IntegrityErrors
<1> QED
  BY <1>1, OutcomeStep, TypeCorrect, SafetyCorrect, PTL DEF Spec

\* claim.rs:193-218. Lamports sent to an address never make its claim fail in account creation.
THEOREM PrefundingNeverBlocks == Spec => []PrefundNeverBlocks
<1>1. OutcomeOK => PrefundNeverBlocks
  BY DEF OutcomeOK, PrefundNeverBlocks
<1> QED
  BY <1>1, OutcomeCorrect, PTL

\* claim.rs:117-139. A receipt at a derived address always passes the integrity checks.
THEOREM IntegrityErrorsNeverFire == Spec => []IntegrityErrorsUnreachable
<1>1. OutcomeOK => IntegrityErrorsUnreachable
  BY DEF OutcomeOK, IntegrityErrors, IntegrityErrorsUnreachable
<1> QED
  BY <1>1, OutcomeCorrect, PTL

-----------------------------------------------------------------------------
(* The progress of a transaction *)

\* One more instruction: what is counted before it, and perhaps itself.
LEMMA OneMore ==
  ASSUME NEW m \in Message, NEW n \in DOMAIN m.ixs
  PROVE  /\ m.ixs[n].op = "claim" =>
              ClaimsBefore(m, n + 1) = ClaimsBefore(m, n) \cup {m.ixs[n].receipt}
         /\ m.ixs[n].op # "claim" => ClaimsBefore(m, n + 1) = ClaimsBefore(m, n)
         /\ m.ixs[n].op = "business" => RunsBefore(m, n + 1) = RunsBefore(m, n) \cup {<<m, n>>}
         /\ m.ixs[n].op # "business" => RunsBefore(m, n + 1) = RunsBefore(m, n)
<1>1. DOMAIN m.ixs = 1 .. Len(m.ixs) /\ Len(m.ixs) \in Nat
  BY DEF Message
<1>2. \A j \in DOMAIN m.ixs : j < n + 1 <=> j < n \/ j = n
  BY <1>1
<1>3. \A op : {j \in IndicesOf(m, op) : j < n + 1} =
        {j \in IndicesOf(m, op) : j < n} \cup (IF m.ixs[n].op = op THEN {n} ELSE {})
  BY <1>2 DEF IndicesOf
<1> QED
  BY <1>3 DEF ClaimsBefore, RunsBefore

LEMMA NoneBefore ==
  ASSUME NEW m \in Message
  PROVE  ClaimsBefore(m, 1) = {} /\ RunsBefore(m, 1) = {}
<1>1. DOMAIN m.ixs = 1 .. Len(m.ixs) /\ Len(m.ixs) \in Nat
  BY DEF Message
<1>2. \A op : {j \in IndicesOf(m, op) : j < 1} = {}
  BY <1>1 DEF IndicesOf
<1> QED
  BY <1>2 DEF ClaimsBefore, RunsBefore

LEMMA AllBefore ==
  ASSUME NEW m \in Message, NEW n \in Nat, n > Len(m.ixs)
  PROVE  /\ ClaimsBefore(m, n) = ClaimsBefore(m, Len(m.ixs) + 1)
         /\ \A i \in IndicesOf(m, "business") : <<m, i>> \in RunsBefore(m, n)
<1>1. DOMAIN m.ixs = 1 .. Len(m.ixs) /\ Len(m.ixs) \in Nat
  BY DEF Message
<1>2. \A op : /\ {j \in IndicesOf(m, op) : j < n} = IndicesOf(m, op)
              /\ {j \in IndicesOf(m, op) : j < Len(m.ixs) + 1} = IndicesOf(m, op)
  BY <1>1 DEF IndicesOf
<1> QED
  BY <1>2 DEF ClaimsBefore, RunsBefore

\* Between transactions the working bank is the saved one.
LEMMA IdleIsSaved ==
  ASSUME TransactionInv, Idle
  PROVE  /\ account = saved.account /\ commits = saved.commits /\ ran = saved.ran
         /\ \A r \in Receipts : Kept(r)
BY DEF TransactionInv, Bank, Kept

\* Steps that leave both banks and the messages that have landed alone.
LEMMA NothingMoves ==
  ASSUME TypeOK, TransactionInv, Idle, UNCHANGED <<bank, saved, processed, tx>>, signed \subseteq signed'
  PROVE  TransactionInv'
<1>1. Idle' /\ saved' = Bank'
  BY DEF Idle, TransactionInv, bank, Bank
<1>2. OnlyProcessedLeftTraces'
  BY DEF TransactionInv, OnlyProcessedLeftTraces
<1>3. AllOrNothing'
  <2> SUFFICES ASSUME NEW m \in signed', m \notin signed
               PROVE  DoneBy(m, saved.ran) = {} /\ ClaimedBy(m, saved.commits) = {}
    BY DEF TransactionInv, AllOrNothing
  <2>1. m \notin processed
    BY DEF TypeOK
  <2> QED
    BY <2>1 DEF TransactionInv, OnlyProcessedLeftTraces, DoneBy, ClaimedBy
<1>4. \A r \in Receipts : Kept(r)'
  BY IdleIsSaved DEF Kept, bank
<1> QED
  BY <1>1, <1>2, <1>3, <1>4 DEF TransactionInv

LEMMA BeginTransaction ==
  ASSUME TypeOK, TransactionInv, NEW m \in signed, Begin(m)
  PROVE  TransactionInv'
<1>1. m \in Message /\ m \notin processed /\ m # NoTx
  BY ConstantsAssumption DEF TypeOK, Begin, Executable
<1>2. saved' = saved /\ saved' = Bank'
  BY DEF Begin, TransactionInv, bank, Bank
<1>3. ~Idle' /\ tx' = m /\ pc' = 1
  BY <1>1 DEF Begin, Idle
<1>4. Progress'
  <2>1. ClaimedBy(m, commits) = {}
    BY <1>1, IdleIsSaved DEF Begin, TransactionInv, OnlyProcessedLeftTraces, ClaimedBy
  <2> QED
    BY <1>1, <1>2, <1>3, <2>1, IdleIsSaved, NoneBefore DEF Begin, Progress, bank, pool
<1>5. OnlyProcessedLeftTraces' /\ AllOrNothing'
  BY <1>2 DEF Begin, TransactionInv, OnlyProcessedLeftTraces, AllOrNothing, pool
<1>6. \A r \in Receipts : Kept(r)'
  BY <1>2, IdleIsSaved DEF Begin, Kept, bank
<1> QED
  BY <1>2, <1>3, <1>4, <1>5, <1>6 DEF TransactionInv

LEMMA AbortTransaction ==
  ASSUME TypeOK, TransactionInv, NEW error, Abort(error)
  PROVE  TransactionInv'
<1>1. Idle' /\ saved' = Bank'
  BY DEF Abort, TypeOK, Idle, Bank
<1>2. OnlyProcessedLeftTraces' /\ AllOrNothing'
  BY DEF Abort, TransactionInv, OnlyProcessedLeftTraces, AllOrNothing
<1>3. \A r \in Receipts : Kept(r)'
  BY DEF Abort, Kept
<1> QED
  BY <1>1, <1>2, <1>3 DEF TransactionInv

LEMMA FinishTransaction ==
  ASSUME TypeOK, TransactionInv, Finish
  PROVE  TransactionInv'
<1>1. Idle' /\ saved' = Bank' /\ saved'.ran = ran /\ saved'.commits = commits
  BY DEF Finish, Idle, bank, Bank
<1>2. Progress /\ tx \in Message /\ tx \in signed
  BY DEF Finish, TransactionInv, TypeOK, Idle
<1>3. pc \in Nat /\ pc > Len(tx.ixs)
  BY DEF Finish, TypeOK
<1>4. OnlyProcessedLeftTraces'
  <2>1. \A e \in ran : e[1] \in processed'
    BY <1>2 DEF Finish, Progress, RunsBefore, TransactionInv, OnlyProcessedLeftTraces
  <2>2. \A c \in commits : c.msg \in processed'
    BY <1>2 DEF Finish, Progress, TransactionInv, OnlyProcessedLeftTraces
  <2> QED
    BY <1>1, <2>1, <2>2 DEF OnlyProcessedLeftTraces
<1>5. AllOrNothing'
  <2> SUFFICES ASSUME NEW m \in signed
      PROVE  \/ /\ DoneBy(m, ran) = IndicesOf(m, "business")
                /\ ClaimedBy(m, commits) = ClaimsBefore(m, Len(m.ixs) + 1)
             \/ DoneBy(m, ran) = {} /\ ClaimedBy(m, commits) = {}
    BY <1>1 DEF Finish, AllOrNothing
  <2>1. CASE m = tx
    BY <1>2, <1>3, <2>1, AllBefore DEF Progress, DoneBy
  <2>2. CASE m # tx
    <3>1. DoneBy(m, ran) = DoneBy(m, saved.ran)
      BY <1>2, <2>2 DEF Progress, RunsBefore, DoneBy
    <3>2. ClaimedBy(m, commits) = ClaimedBy(m, saved.commits)
      BY <1>2, <2>2 DEF Progress, ClaimedBy
    <3> QED
      BY <3>1, <3>2 DEF TransactionInv, AllOrNothing
  <2> QED
    BY <2>1, <2>2
<1>6. \A r \in Receipts : Kept(r)'
  BY <1>1 DEF Finish, Kept, bank, Bank
<1> QED
  BY <1>1, <1>4, <1>5, <1>6 DEF TransactionInv

\* An instruction that succeeds moves the working bank only.
LEMMA ProceedTransaction ==
  ASSUME TypeOK, TransactionInv, ~Idle, Proceed, Progress',
         \A r \in Receipts : Kept(r)' \/ Released(r)' \/ Granted(r)'
  PROVE  TransactionInv'
<1>1. ~Idle'
  BY DEF Proceed, Idle
<1>2. OnlyProcessedLeftTraces' /\ AllOrNothing'
  BY DEF Proceed, TransactionInv, OnlyProcessedLeftTraces, AllOrNothing, pool
<1> QED
  BY <1>1, <1>2 DEF TransactionInv

LEMMA ClaimTransaction ==
  ASSUME TypeOK, TransactionInv, Claim
  PROVE  TransactionInv'
<1>1. tx \in Message /\ pc \in DOMAIN tx.ixs /\ Here.op = "claim" /\ ~Idle /\ Progress
  BY HereType DEF Claim, Running, TransactionInv
<1>2. commits' = commits \cup {NewCommit} /\ NewCommit.msg = tx
      /\ NewCommit.addr = Here.receipt /\ NewCommit.data = NewReceipt(Here)
  BY ClaimWrites DEF NewCommit
<1>3. Progress'
  <2>1. ClaimedBy(tx, commits') = ClaimedBy(tx, commits) \cup {Here.receipt}
    BY <1>2 DEF ClaimedBy
  <2>2. /\ ClaimsBefore(tx, pc + 1) = ClaimsBefore(tx, pc) \cup {Here.receipt}
        /\ RunsBefore(tx, pc + 1) = RunsBefore(tx, pc)
    BY <1>1, OneMore DEF Here
  <2> QED
    BY <1>1, <1>2, <2>1, <2>2 DEF Claim, Proceed, Progress, pool
<1>4. ASSUME NEW r \in Receipts PROVE Kept(r)' \/ Released(r)' \/ Granted(r)'
  <2>1. saved' = saved /\ slot' = slot /\ unix' = unix
    BY DEF Claim, Proceed
  <2>2. CASE r = Here.receipt
    <3>1. Kept(r) \/ Released(r)
      BY <2>2, ClaimWrites DEF TransactionInv, Granted
    <3>2. DataOf(commits', r) = DataOf(commits, r) \cup {NewReceipt(Here)}
      BY <1>2, <2>2 DEF DataOf
    <3>3. /\ account'[r].data = NewReceipt(Here) /\ NewReceipt(Here) # NoData
          /\ account[r].data = NoData
      BY <2>2, ClaimWrites
    <3>4. NewReceipt(Here).created_slot = slot /\ NewReceipt(Here).created_unix_ts = unix
      BY DEF NewReceipt
    <3> QED
      BY <2>1, <3>1, <3>2, <3>3, <3>4 DEF Kept, Released, Granted, Lapsed
  <2>3. CASE r # Here.receipt
    <3>1. account'[r] = account[r]
      BY <2>3, ClaimWrites
    <3>2. DataOf(commits', r) = DataOf(commits, r)
      BY <1>2, <2>3 DEF DataOf
    <3>3. Kept(r) \/ Released(r) \/ Granted(r)
      BY DEF TransactionInv
    <3> QED
      BY <2>1, <3>1, <3>2, <3>3 DEF Kept, Released, Granted, Lapsed
  <2> QED
    BY <2>2, <2>3
<1> QED
  BY <1>1, <1>3, <1>4, ProceedTransaction DEF Claim

\* A receipt claimed in this transaction cannot be closed in it: no time has passed.
LEMMA FreshIsNotLapsed ==
  ASSUME TypeOK, SafetyInv, NEW r \in Receipts, Granted(r)
  PROVE  ~Lapsed(account[r].data)
<1> DEFINE d == account[r].data
<1>1. PICK c \in commits : c.addr = r /\ c.data = d
  BY DEF Granted, SafetyInv, BankOK, Recorded
<1>2. c.retention \in Nat /\ SLOTS_PER_SECOND \in Nat \ {0} /\ slot \in Nat
      /\ MIN_RETENTION_SECONDS \in Nat \ {0}
  BY ConstantsAssumption DEF TypeOK, Commit
<1>3. CommitOK(c)
  BY DEF SafetyInv, BankOK
<1>4. CASE c.retention = PERMANENT_RETENTION
  BY <1>1, <1>3, <1>4 DEF CommitOK, Lapsed, IsPermanent
<1>5. CASE c.retention # PERMANENT_RETENTION
  <2>1. d.expires_at_unix_ts = d.created_unix_ts + c.retention /\ c.retention > 0
    BY <1>1, <1>2, <1>3, <1>5 DEF CommitOK
  <2>2. d.created_unix_ts = unix /\ unix \in Nat
    BY DEF Granted, TypeOK
  <2> QED
    BY <1>2, <2>1, <2>2 DEF Lapsed
<1> QED
  BY <1>4, <1>5

LEMMA CloseTransaction ==
  ASSUME TypeOK, SafetyInv, TransactionInv, CloseReceipt
  PROVE  TransactionInv'
<1>1. tx \in Message /\ pc \in DOMAIN tx.ixs /\ Here.op = "close" /\ ~Idle /\ Progress
  BY HereType DEF CloseReceipt, Running, TransactionInv
<1>2. commits' = commits /\ saved' = saved /\ slot' = slot /\ unix' = unix
  BY DEF CloseReceipt, Proceed
<1>3. Progress'
  <2>1. /\ ClaimsBefore(tx, pc + 1) = ClaimsBefore(tx, pc)
        /\ RunsBefore(tx, pc + 1) = RunsBefore(tx, pc)
    BY <1>1, OneMore DEF Here
  <2> QED
    BY <1>1, <2>1 DEF CloseReceipt, Proceed, Progress, pool
<1>4. ASSUME NEW r \in Receipts PROVE Kept(r)' \/ Released(r)' \/ Granted(r)'
  <2>1. Kept(r) \/ Released(r) \/ Granted(r)
    BY DEF TransactionInv
  <2>2. CASE r = Here.receipt
    <3>1. account[r].data # NoData /\ Lapsed(account[r].data) /\ account'[r].data = NoData
      BY <2>2, CloseWrites DEF Lapsed
    <3>2. Kept(r)
      BY <2>1, <3>1, FreshIsNotLapsed DEF Released
    <3> QED
      BY <1>2, <3>1, <3>2 DEF Kept, Released, Lapsed
  <2>3. CASE r # Here.receipt
    <3>1. account'[r].data = account[r].data
      BY <2>3, CloseWrites
    <3> QED
      BY <1>2, <2>1, <3>1 DEF Kept, Released, Granted, Lapsed
  <2> QED
    BY <2>2, <2>3
<1> QED
  BY <1>1, <1>3, <1>4, ProceedTransaction DEF CloseReceipt

\* The other programs' instructions leave the receipts and the commits alone.
LEMMA OtherTransaction ==
  ASSUME TypeOK, TransactionInv, Transfer \/ Business \/ AdvanceNonce
  PROVE  TransactionInv'
<1>1. PICK op \in {"transfer", "business", "advance_nonce"} : Running(op)
  BY DEF Transfer, Business, AdvanceNonce
<1>2. tx \in Message /\ pc \in DOMAIN tx.ixs /\ Here.op = op /\ ~Idle /\ Progress
  BY <1>1, HereType DEF Running, TransactionInv
<1>3. /\ Proceed /\ commits' = commits /\ saved' = saved /\ slot' = slot /\ unix' = unix
      /\ op = "business" => ran' = ran \cup {<<tx, pc>>}
      /\ op # "business" => ran' = ran
  BY <1>1 DEF Transfer, Business, AdvanceNonce, Running, Proceed, bank
<1>4. Progress'
  <2>1. /\ ClaimsBefore(tx, pc + 1) = ClaimsBefore(tx, pc)
        /\ op = "business" => RunsBefore(tx, pc + 1) = RunsBefore(tx, pc) \cup {<<tx, pc>>}
        /\ op # "business" => RunsBefore(tx, pc + 1) = RunsBefore(tx, pc)
    BY <1>2, OneMore DEF Here
  <2> QED
    BY <1>2, <1>3, <2>1 DEF Proceed, Progress, pool
<1>5. \A r \in Receipts : account'[r].data = account[r].data
  BY TransferWrites DEF Business, AdvanceNonce, bank
<1>6. \A r \in Receipts : Kept(r)' \/ Released(r)' \/ Granted(r)'
  BY <1>3, <1>5 DEF TransactionInv, Kept, Released, Granted, Lapsed
<1> QED
  BY <1>2, <1>3, <1>4, <1>6, ProceedTransaction

LEMMA TransactionStep == TypeOK /\ SafetyInv /\ TransactionInv /\ [Next]_vars => TransactionInv'
<1> SUFFICES ASSUME TypeOK, SafetyInv, TransactionInv, [Next]_vars PROVE TransactionInv'
  OBVIOUS
<1>1. CASE NextSlot
  BY <1>1, NothingMoves DEF NextSlot, pool
<1>2. CASE NextSecond
  BY <1>2, NothingMoves DEF NextSecond, pool
<1>3. ASSUME NEW signer \in Wallets, NEW ixs \in Scripts, NEW durable \in BOOLEAN,
             NEW fee \in Fees, Sign(signer, ixs, durable, fee)
      PROVE  TransactionInv'
  BY <1>3, NothingMoves DEF Sign
<1>4. ASSUME NEW m \in signed, Begin(m) PROVE TransactionInv'
  BY <1>4, BeginTransaction
<1>5. CASE Claim
  BY <1>5, ClaimTransaction
<1>6. CASE CloseReceipt
  BY <1>6, CloseTransaction
<1>7. CASE Transfer \/ Business \/ AdvanceNonce
  BY <1>7, OtherTransaction
<1>8. CASE ClaimRejected \/ CreateReceiptFails \/ CloseRejected \/ TransferFails \/ BusinessFails
  BY <1>8, AbortTransaction
     DEF ClaimRejected, CreateReceiptFails, CloseRejected, TransferFails, BusinessFails
<1>9. CASE Finish
  BY <1>9, FinishTransaction
<1>10. CASE UNCHANGED vars
  BY <1>10 DEF vars, TransactionInv, Idle, Bank, Progress, OnlyProcessedLeftTraces,
               AllOrNothing, Kept, Released, Granted, Lapsed
<1> QED
  BY <1>1, <1>2, <1>3, <1>4, <1>5, <1>6, <1>7, <1>8, <1>9, <1>10 DEF Next, Execute

LEMMA TransactionInit == Init => TransactionInv
<1> SUFFICES ASSUME Init PROVE TransactionInv
  OBVIOUS
<1>1. Idle /\ saved = Bank /\ signed = {} /\ ran = {} /\ commits = {}
  BY DEF Init, Idle
<1>2. OnlyProcessedLeftTraces /\ AllOrNothing
  BY <1>1 DEF Bank, OnlyProcessedLeftTraces, AllOrNothing
<1>3. \A r \in Receipts : Kept(r)
  BY <1>1 DEF Bank, Kept
<1> QED
  BY <1>1, <1>2, <1>3 DEF TransactionInv

\* What a transaction has done so far is a part of what it says, and what it has
\* committed is all of it: the invariant of its progress.
THEOREM TransactionsProgress == Spec => []TransactionInv
<1> QED
  BY TypeCorrect, SafetyCorrect, TransactionInit, TransactionStep, PTL DEF Spec

\* lib.rs:24-31. A receipt is committed with all business instructions of its message or
\* with none of them.
THEOREM GuardAndActionTogether == Spec => []AllOrNothing
<1>1. TransactionInv => AllOrNothing
  BY DEF TransactionInv
<1> QED
  BY <1>1, TransactionsProgress, PTL

-----------------------------------------------------------------------------
(* The answers of claim *)

\* The committed history only grows.
LEMMA SavedGrows ==
  ASSUME TransactionInv, [Next]_vars
  PROVE  saved.commits \subseteq saved'.commits
<1>1. CASE saved' = saved
  BY <1>1
<1>2. ASSUME NEW m \in signed, Begin(m) PROVE saved' = saved
  BY <1>2 DEF Begin, TransactionInv
<1>3. ASSUME Finish PROVE saved'.commits = commits /\ Progress
  BY <1>3 DEF Finish, Bank, TransactionInv
<1>4. saved' = saved \/ (\E m \in signed : Begin(m)) \/ Finish
  BY DEF Next, Execute, vars, NextSlot, NextSecond, Sign, Claim, CloseReceipt, Transfer,
         Business, AdvanceNonce, Proceed, ClaimRejected, CreateReceiptFails, CloseRejected,
         TransferFails, BusinessFails, Abort
<1> QED
  BY <1>1, <1>2, <1>3, <1>4 DEF Progress

\* The receipt that blocks a claim was committed before, unless its own message claimed it.
LEMMA BlockedByCommit ==
  ASSUME TypeOK, SafetyInv, TransactionInv, Running("claim"),
         account[Here.receipt].data # NoData,
         ~ \E i \in 1 .. pc - 1 : tx.ixs[i].op = "claim" /\ tx.ixs[i].receipt = Here.receipt
  PROVE  \E c \in saved.commits : c.addr = Here.receipt /\ c.data = account[Here.receipt].data
<1>1. Here.receipt \in Receipts
  BY ClaimHere DEF ClaimIx
<1>2. PICK c \in commits : c.addr = Here.receipt /\ c.data = account[Here.receipt].data
  BY <1>1 DEF SafetyInv, BankOK, Recorded
<1>3. Progress /\ tx \in Message /\ pc \in DOMAIN tx.ixs
  BY HereType DEF Running, TransactionInv
<1>4. DOMAIN tx.ixs = 1 .. Len(tx.ixs) /\ Len(tx.ixs) \in Nat
  BY <1>3 DEF Message
<1>5. Here.receipt \notin ClaimsBefore(tx, pc)
  BY <1>3, <1>4 DEF ClaimsBefore, IndicesOf
<1>6. c.msg # tx
  BY <1>2, <1>3, <1>5 DEF Progress, ClaimedBy
<1> QED
  BY <1>2, <1>3, <1>6 DEF Progress

LEMMA AnswersStep == TypeOK /\ SafetyInv /\ TransactionInv /\ AnswersInv /\ [Next]_vars => AnswersInv'
<1> SUFFICES ASSUME TypeOK, SafetyInv, TransactionInv, AnswersInv, [Next]_vars PROVE AnswersInv'
  OBVIOUS
<1>1. CASE outcome' = outcome
  BY <1>1, SavedGrows DEF AnswersInv, ClaimedTwiceInMessage, FailedIx
<1>2. CASE Finish
  BY <1>2 DEF Finish, AnswersInv
<1>3. CASE ClaimRejected
  <2> DEFINE e == FirstError(ClaimChecks(Here))
             found == account[Here.receipt]
  <2>1. /\ outcome' = [error |-> e, msg |-> tx, at |-> pc] /\ saved' = saved
        /\ Running("claim") /\ ~Passes(ClaimChecks(Here))
    BY <1>3 DEF ClaimRejected, Abort
  <2>2. FailedIx' = Here
    BY <2>1 DEF FailedIx, Here
  <2>3. ClaimedTwiceInMessage' <=>
          \E i \in 1 .. pc - 1 : tx.ixs[i].op = "claim" /\ tx.ixs[i].receipt = Here.receipt
    BY <2>1, <2>2 DEF ClaimedTwiceInMessage
  <2>4. /\ e = "AlreadyCommitted" => found.data # NoData /\ SamePayload(found.data, Here)
        /\ e = "IdempotencyConflict" => found.data # NoData /\ ~SamePayload(found.data, Here)
    BY <2>1, ClaimAnswers
  <2>5. ASSUME ~ClaimedTwiceInMessage', found.data # NoData
        PROVE  \E c \in saved.commits : c.addr = Here.receipt /\ c.data = found.data
    BY <2>1, <2>3, <2>5, BlockedByCommit
  <2> QED
    BY <2>1, <2>2, <2>4, <2>5 DEF AnswersInv, SamePayload
<1>4. CASE CreateReceiptFails
  BY <1>4, CreateAnswers DEF CreateReceiptFails, Abort, AnswersInv
<1>5. CASE CloseRejected
  BY <1>5, CloseAnswers DEF CloseRejected, Abort, AnswersInv
<1>6. CASE TransferFails \/ BusinessFails
  BY <1>6 DEF TransferFails, BusinessFails, Abort, AnswersInv
<1> QED
  BY <1>1, <1>2, <1>3, <1>4, <1>5, <1>6, OutcomeSteps

\* claim.rs:141-150. Who is told AlreadyCommitted or IdempotencyConflict is told the truth
\* about the history, unless the own message claims the key twice.
THEOREM AnswersHold == Spec => []AnswersAreTrue
<1>1. Init => AnswersInv
  BY DEF Init, AnswersInv
<1>2. TransactionInv /\ AnswersInv => AnswersAreTrue
  <2> SUFFICES ASSUME TransactionInv, AnswersInv PROVE AnswersAreTrue
    OBVIOUS
  <2>1. saved.commits \subseteq commits
    BY IdleIsSaved DEF TransactionInv, Progress
  <2> QED
    BY <2>1 DEF AnswersInv, AnswersAreTrue
<1> QED
  BY <1>1, <1>2, AnswersStep, TypeCorrect, SafetyCorrect, TransactionsProgress, PTL DEF Spec

-----------------------------------------------------------------------------
(* What may happen to a receipt *)

LEMMA ReceiptStep ==
  ASSUME TransactionInv, [Next]_vars, NEW r \in Receipts, saved.account[r].data # NoData,
         saved'.account[r].data # saved.account[r].data
  PROVE  Lapsed(saved.account[r].data)
<1>1. ASSUME NEW m \in signed, Begin(m) PROVE saved' = saved
  BY <1>1 DEF Begin, TransactionInv
<1>2. saved' = saved \/ (\E m \in signed : Begin(m)) \/ Finish
  BY DEF Next, Execute, vars, NextSlot, NextSecond, Sign, Claim, CloseReceipt, Transfer,
         Business, AdvanceNonce, Proceed, ClaimRejected, CreateReceiptFails, CloseRejected,
         TransferFails, BusinessFails, Abort
<1>3. Finish /\ saved'.account = account
  BY <1>1, <1>2 DEF Finish, Bank
<1> QED
  BY <1>3 DEF TransactionInv, Kept, Released, Granted

\* close_receipt.rs:26-42. A committed receipt is never rewritten, and disappears only past
\* both of its deadlines, whatever the transaction that removes it contains.
THEOREM ReceiptsOnlyExpire == Spec => ReceiptOnlyExpires
<1>1. TransactionInv /\ [Next]_vars =>
        \A r \in Receipts :
          LET old == saved.account[r].data
          IN old # NoData /\ saved'.account[r].data # old =>
               /\ old.expires_at_slot # 0
               /\ slot >= old.expires_at_slot
               /\ unix >= old.expires_at_unix_ts
  BY ReceiptStep DEF Lapsed, IsPermanent
<1> QED
  BY <1>1, TransactionsProgress, PTL DEF Spec, ReceiptOnlyExpires

\* Where the lamports of a receipt go in one step of a transaction.
LEMMA DepositStep ==
  ASSUME TypeOK, TypeOK', SafetyInv, [Next]_vars, NEW r \in Receipts, account[r].data # NoData,
         account'[r].lamports < account[r].lamports, tx' # NoTx
  PROVE  /\ account'[r].lamports = 0
         /\ account'[account[r].data.refund_destination].lamports =
              account[account[r].data.refund_destination].lamports + account[r].lamports
<1>1. account[r].lamports \in Nat /\ account'[r].lamports \in Nat
  BY DEF TypeOK, Account, Addresses
<1>2. account' # account
  BY <1>1
<1>3. Claim \/ CloseReceipt \/ Transfer
  BY <1>2 DEF Next, Execute, vars, NextSlot, NextSecond, Sign, Begin, Finish, Business,
              AdvanceNonce, Proceed, ClaimRejected, CreateReceiptFails, CloseRejected,
              TransferFails, BusinessFails, Abort, bank
<1>4. ~Claim
  BY <1>1, ClaimWrites
<1>5. ~Transfer
  BY <1>1, TransferWrites
<1>6. CloseReceipt /\ r = Here.receipt
  BY <1>1, <1>3, <1>4, <1>5, CloseWrites
<1> DEFINE dest == account[r].data.refund_destination
<1>7. Here.refund_destination = dest /\ dest \in Addresses
  BY <1>6, ClosePasses, CloseHere DEF CloseReceipt, CloseIx
<1>8. dest # r
  <2>1. PICK c \in commits : c.addr = r /\ c.data = account[r].data
    BY DEF SafetyInv, BankOK, Recorded
  <2> QED
    BY <2>1 DEF SafetyInv, BankOK, CommitOK
<1>9. account' = [account EXCEPT
         ![dest].lamports = @ + account[r].lamports,
         ![r] = [lamports |-> 0, owner |-> "system", data |-> NoData]]
  BY <1>6, <1>7 DEF CloseReceipt
<1>10. /\ account \in [Addresses -> Account] /\ dest \in Addresses /\ r \in Addresses
       /\ account[dest] \in Account
  BY <1>7 DEF TypeOK, Addresses
<1>11. account'[r] = [lamports |-> 0, owner |-> "system", data |-> NoData]
  BY <1>9, <1>10
<1>12. account'[dest].lamports = account[dest].lamports + account[r].lamports
  BY <1>8, <1>9, <1>10 DEF Account
<1> QED
  BY <1>11, <1>12

\* SECURITY_MODEL T6. Lamports leave a receipt all at once and into the recorded destination.
THEOREM DepositsAreRefunded == Spec => DepositGoesToRefund
<1>1. TypeOK /\ TypeOK' /\ SafetyInv /\ [Next]_vars =>
        \A r \in Receipts :
          LET old == account[r]
          IN old.data # NoData /\ account'[r].lamports < old.lamports /\ tx' # NoTx =>
               /\ account'[r].lamports = 0
               /\ account'[old.data.refund_destination].lamports =
                    account[old.data.refund_destination].lamports + old.lamports
  BY DepositStep
<1> QED
  BY <1>1, TypeCorrect, SafetyCorrect, PTL DEF Spec, DepositGoesToRefund

-----------------------------------------------------------------------------
(* Sums of functions over finite sets (SumFunction of module Functions):   *)
(* how a sum changes with one value, and the sum of a constant.  The       *)
(* recursion over subsets is reasoned about with minimal counterexamples.  *)


Pick(s) == CHOOSE x \in s : TRUE

\* The sums of f over every subset of A.
IsSum(g, f, A) ==
  g = [s \in SUBSET A |-> IF s = {} THEN 0 ELSE f[Pick(s)] + g[s \ {Pick(s)}]]

LEMMA SumIsFold ==
  ASSUME NEW f
  PROVE  SumFunction(f) = (CHOOSE g : IsSum(g, f, DOMAIN f))[DOMAIN f]
BY DEF SumFunction, SumFunctionOnSet, FoldFunctionOnSet, MapThenFoldSet, IsSum, Pick

LEMMA PickIn ==
  ASSUME NEW s, s # {}
  PROVE  Pick(s) \in s
BY DEF Pick

\* A property of some subset of a finite set is one of a least such subset.
LEMMA LeastSubset ==
  ASSUME NEW A, IsFiniteSet(A), NEW Bad \in SUBSET (SUBSET A), Bad # {}
  PROVE  \E s \in Bad : \A t \in SUBSET s : t # s => t \notin Bad
<1>1. Bad \subseteq FiniteSubsetsOf(A)
  BY FS_Subset DEF FiniteSubsetsOf
<1>2. PICK s \in Bad : \A t \in Bad : <<t, s>> \notin StrictSubsetOrdering(A)
  BY <1>1, FS_StrictSubsetOrderingWellFounded, WFMin
<1> QED
  BY <1>2 DEF StrictSubsetOrdering

\* The sum over a subset does not depend on the set it is part of.
LEMMA SumsAgree ==
  ASSUME NEW A, NEW B, IsFiniteSet(B), B \subseteq A, NEW f, NEW g, NEW h,
         IsSum(g, f, A), IsSum(h, f, B)
  PROVE  g[B] = h[B]
<1> DEFINE Bad == {t \in SUBSET B : g[t] # h[t]}
<1>1. SUFFICES ASSUME Bad # {} PROVE FALSE
  OBVIOUS
<1>2. PICK t \in Bad : \A u \in SUBSET t : u # t => u \notin Bad
  <2>1. Bad \in SUBSET (SUBSET B)
    OBVIOUS
  <2> HIDE DEF Bad
  <2> QED
    BY <1>1, <2>1, LeastSubset
<1>3. t # {}
  BY <1>2 DEF IsSum
<1> DEFINE u == t \ {Pick(t)}
<1>4. u \in SUBSET t /\ u # t /\ u \in SUBSET A /\ u \in SUBSET B
  BY <1>2, <1>3, PickIn
<1>5. g[u] = h[u]
  BY <1>2, <1>4
<1>6. g[t] = f[Pick(t)] + g[u] /\ h[t] = f[Pick(t)] + h[u]
  BY <1>2, <1>3 DEF IsSum
<1> QED
  BY <1>2, <1>5, <1>6

\* There is such a function: the recursion is over strict subsets.
LEMMA SumExists ==
  ASSUME NEW A, IsFiniteSet(A), NEW f
  PROVE  \E g : IsSum(g, f, A)
<1> DEFINE HasSum(s) == \E g : IsSum(g, f, s)
           Bad == {s \in SUBSET A : ~HasSum(s)}
<1>1. SUFFICES ASSUME A \in Bad PROVE FALSE
  OBVIOUS
<1> HIDE DEF HasSum
<1>2. PICK T \in Bad : \A t \in SUBSET T : t # T => t \notin Bad
  <2>1. Bad \in SUBSET (SUBSET A) /\ Bad # {}
    BY <1>1
  <2> HIDE DEF Bad
  <2> QED
    BY <2>1, LeastSubset
<1>3. T \in SUBSET A /\ IsFiniteSet(T) /\ ~HasSum(T)
  BY <1>2, FS_Subset
<1>4. \A t \in SUBSET T : t # T => HasSum(t)
  BY <1>2, <1>3
<1> HIDE DEF Bad
\* G[s] is a sum over s, for the strict subsets s of T; w takes one step more.
<1> DEFINE G == [s \in SUBSET T |-> CHOOSE g : IsSum(g, f, s)]
           w == [s \in SUBSET T |->
                  IF s = {} THEN 0 ELSE f[Pick(s)] + G[s \ {Pick(s)}][s \ {Pick(s)}]]
<1>5. ASSUME NEW s \in SUBSET T, s # T PROVE IsSum(G[s], f, s)
  <2>1. \E g : IsSum(g, f, s)
    BY <1>4, <1>5 DEF HasSum
  <2>2. IsSum(CHOOSE g : IsSum(g, f, s), f, s)
    BY <2>1
  <2> QED
    BY <2>2
<1>6. /\ w = [s \in SUBSET T |-> w[s]] /\ w[{}] = 0
      /\ \A s \in SUBSET T : s # {} => w[s] = f[Pick(s)] + G[s \ {Pick(s)}][s \ {Pick(s)}]
  OBVIOUS
<1> HIDE DEF G, w
<1>7. ASSUME NEW s \in SUBSET T, s # T PROVE G[s][s] = w[s]
  <2>1. CASE s = {}
    BY <1>5, <1>6, <1>7, <2>1 DEF IsSum
  <2>2. CASE s # {}
    <3> DEFINE u == s \ {Pick(s)}
    <3>1. u \in SUBSET s /\ u \in SUBSET T /\ u # T /\ u \in SUBSET u /\ s \in SUBSET s
      BY <1>7
    <3>2. IsSum(G[s], f, s) /\ IsSum(G[u], f, u)
      BY <1>5, <1>7, <3>1
    <3>3. G[s][s] = f[Pick(s)] + G[s][u]
      BY <2>2, <3>1, <3>2 DEF IsSum
    <3>4. IsFiniteSet(u) /\ u \subseteq s
      BY <1>3, FS_Subset
    <3> HIDE DEF u
    <3>5. G[s][u] = G[u][u]
      BY <3>1, <3>2, <3>4, SumsAgree
    <3> QED
      BY <1>6, <2>2, <3>3, <3>5 DEF u
  <2> QED
    BY <2>1, <2>2
<1>8. ASSUME NEW s \in SUBSET T, s # {} PROVE w[s] = f[Pick(s)] + w[s \ {Pick(s)}]
  <2>1. Pick(s) \in s
    BY <1>8, PickIn
  <2>2. (s \ {Pick(s)}) \in SUBSET T /\ s \ {Pick(s)} # T
    BY <2>1
  <2>3. G[s \ {Pick(s)}][s \ {Pick(s)}] = w[s \ {Pick(s)}]
    BY <1>7, <2>2
  <2> QED
    BY <1>6, <1>8, <2>3
<1>9. IsSum(w, f, T)
  <2> DEFINE v == [s \in SUBSET T |-> IF s = {} THEN 0 ELSE f[Pick(s)] + w[s \ {Pick(s)}]]
  <2>1. \A s \in SUBSET T : v[s] = w[s]
    BY <1>6, <1>8
  <2>2. v = [s \in SUBSET T |-> v[s]]
    OBVIOUS
  <2> HIDE DEF v
  <2>3. w = v
    BY <1>6, <2>1, <2>2
  <2> QED
    BY <2>3 DEF v, IsSum
<1> QED
  BY <1>3, <1>9 DEF HasSum

\* The sum, without its recursion.
LEMMA SumIs ==
  ASSUME NEW f, IsFiniteSet(DOMAIN f)
  PROVE  \E g : IsSum(g, f, DOMAIN f) /\ SumFunction(f) = g[DOMAIN f]
BY SumExists, SumIsFold

\* A sum of naturals is one, and follows each of its terms.
LEMMA SumOneChange ==
  ASSUME NEW A, IsFiniteSet(A), NEW f \in [A -> Nat], NEW h \in [A -> Nat], NEW a \in A,
         \A x \in A \ {a} : h[x] = f[x]
  PROVE  /\ SumFunction(f) \in Nat /\ SumFunction(h) \in Nat
         /\ SumFunction(h) + f[a] = SumFunction(f) + h[a]
<1>1. DOMAIN f = A /\ DOMAIN h = A
  OBVIOUS
<1>2. PICK g : IsSum(g, f, A) /\ SumFunction(f) = g[A]
  BY <1>1, SumIs
<1>3. PICK k : IsSum(k, h, A) /\ SumFunction(h) = k[A]
  BY <1>1, SumIs
<1> DEFINE OK(s) == /\ g[s] \in Nat /\ k[s] \in Nat
                    /\ IF a \in s THEN k[s] + f[a] = g[s] + h[a] ELSE k[s] = g[s]
           Bad == {s \in SUBSET A : ~OK(s)}
<1>4. SUFFICES ASSUME Bad # {} PROVE FALSE
  BY <1>2, <1>3
<1> HIDE DEF OK
<1>5. PICK s \in Bad : \A t \in SUBSET s : t # s => t \notin Bad
  <2>1. Bad \in SUBSET (SUBSET A)
    OBVIOUS
  <2> HIDE DEF Bad
  <2> QED
    BY <1>4, <2>1, LeastSubset
<1>6. s # {}
  BY <1>2, <1>3, <1>5 DEF IsSum, OK
<1> DEFINE x == Pick(s)
           u == s \ {x}
<1>7. x \in s /\ x \in A /\ u \in SUBSET s /\ u # s /\ u \in SUBSET A
  BY <1>5, <1>6, PickIn
<1>8. OK(u)
  BY <1>5, <1>7
<1>9. g[s] = f[x] + g[u] /\ k[s] = h[x] + k[u]
  BY <1>2, <1>3, <1>5, <1>6 DEF IsSum
<1>10. f[x] \in Nat /\ f[a] \in Nat /\ h[x] \in Nat /\ (x # a => h[x] = f[x])
  BY <1>7
<1>11. a \in s <=> x = a \/ a \in u
  BY <1>7
<1>12. x \notin u
  OBVIOUS
<1> HIDE DEF x, u
<1>13. OK(s)
  BY <1>8, <1>9, <1>10, <1>11, <1>12 DEF OK
<1> QED
  BY <1>5, <1>13

\* Two values change, and what one loses the other gains.
LEMMA SumTransfer ==
  ASSUME NEW A, IsFiniteSet(A), NEW f \in [A -> Nat], NEW h \in [A -> Nat],
         NEW a \in A, NEW b \in A, a # b, h[a] + h[b] = f[a] + f[b],
         \A x \in A \ {a, b} : h[x] = f[x]
  PROVE  SumFunction(h) = SumFunction(f)
<1> DEFINE m == [f EXCEPT ![a] = h[a]]
<1>1. /\ m \in [A -> Nat] /\ m[a] = h[a] /\ m[b] = f[b]
      /\ \A x \in A \ {a} : m[x] = f[x]
      /\ \A x \in A \ {b} : h[x] = m[x]
  OBVIOUS
<1> HIDE DEF m
<1>3. SumFunction(f) \in Nat /\ SumFunction(m) \in Nat /\ SumFunction(m) + f[a] = SumFunction(f) + h[a]
  BY <1>1, SumOneChange
<1>4. SumFunction(h) \in Nat /\ SumFunction(h) + m[b] = SumFunction(m) + h[b]
  BY <1>1, SumOneChange
<1>5. f[a] \in Nat /\ f[b] \in Nat /\ h[a] \in Nat /\ h[b] \in Nat
  OBVIOUS
<1> QED
  BY <1>1, <1>3, <1>4, <1>5

\* A constant on some of the set, nothing on the rest.
LEMMA SumOfConstant ==
  ASSUME NEW A, IsFiniteSet(A), NEW W \in SUBSET A, NEW n \in Nat
  PROVE  SumFunction([a \in A |-> IF a \in W THEN n ELSE 0]) = n * Cardinality(W)
<1> DEFINE f == [a \in A |-> IF a \in W THEN n ELSE 0]
<1>1. DOMAIN f = A
  OBVIOUS
<1>2. PICK g : IsSum(g, f, A) /\ SumFunction(f) = g[A]
  BY <1>1, SumIs
<1> DEFINE Bad == {s \in SUBSET A : g[s] # n * Cardinality(s \cap W)}
<1>3. SUFFICES ASSUME Bad # {} PROVE FALSE
  <2>1. A \cap W = W
    OBVIOUS
  <2> QED
    BY <1>2, <2>1
<1>4. PICK s \in Bad : \A t \in SUBSET s : t # s => t \notin Bad
  BY <1>3, LeastSubset
<1>5. s # {}
  <2>1. g[{}] = 0
    BY <1>2 DEF IsSum
  <2>2. {} \cap W = {} /\ n * Cardinality({}) = 0
    BY FS_EmptySet
  <2>3. g[s] # n * Cardinality(s \cap W)
    BY <1>4
  <2> QED
    BY <2>1, <2>2, <2>3
<1> DEFINE x == Pick(s)
           u == s \ {x}
<1>6. x \in s /\ x \in A /\ u \in SUBSET s /\ u # s /\ u \in SUBSET A
  BY <1>4, <1>5, PickIn
<1>7. g[u] = n * Cardinality(u \cap W)
  BY <1>4, <1>6
<1>8. g[s] = f[x] + g[u]
  BY <1>2, <1>4, <1>5 DEF IsSum
<1>9. IsFiniteSet(s \cap W) /\ u \cap W = (s \cap W) \ {x}
  BY FS_Subset
<1>10. /\ Cardinality(s \cap W) \in Nat
       /\ Cardinality(u \cap W) =
            IF x \in W THEN Cardinality(s \cap W) - 1 ELSE Cardinality(s \cap W)
  <2> DEFINE K == s \cap W
  <2>1. x \in W <=> x \in K
    BY <1>6
  <2>2. IsFiniteSet(K) /\ u \cap W = K \ {x}
    BY <1>9
  <2> HIDE DEF K, x, u
  <2>3. /\ Cardinality(K) \in Nat
        /\ Cardinality(K \ {x}) = IF x \in K THEN Cardinality(K) - 1 ELSE Cardinality(K)
    BY <2>2, FS_RemoveElement, FS_CardinalityType
  <2> QED
    BY <2>1, <2>2, <2>3 DEF K
<1>11. f[x] = IF x \in W THEN n ELSE 0
  BY <1>6
<1>12. g[s] = n * Cardinality(s \cap W)
  <2> DEFINE c == Cardinality(s \cap W)
  <2>1. c \in Nat
    BY <1>10
  <2>2. CASE x \in W
    <3>1. g[s] = n + n * (c - 1)
      BY <1>7, <1>8, <1>10, <1>11, <2>2
    <3> HIDE DEF c
    <3>2. n + n * (c - 1) = n * c
      BY <2>1
    <3> QED
      BY <3>1, <3>2 DEF c
  <2>3. CASE x \notin W
    <3>1. g[s] = 0 + n * c
      BY <1>7, <1>8, <1>10, <1>11, <2>3
    <3> HIDE DEF c
    <3>2. n * c \in Nat
      BY <2>1
    <3> QED
      BY <3>1, <3>2 DEF c
  <2> QED
    BY <2>2, <2>3
<1> QED
  BY <1>4, <1>12

-----------------------------------------------------------------------------
(* Lamports *)

Supply == InitialLamports * Cardinality(Wallets)

\* The working bank and the one a failed transaction returns to hold the same lamports.
LamportsInv ==
  /\ SumFunction(Balances(account)) = Supply
  /\ SumFunction(Balances(saved.account)) = Supply

\* What one account loses another gains.
LEMMA MoveConserves ==
  ASSUME TypeOK, TypeOK', LamportsInv, UNCHANGED saved, NEW a \in Addresses, NEW b \in Addresses,
         \/ /\ a # b
            /\ account'[a].lamports + account'[b].lamports = account[a].lamports + account[b].lamports
            /\ \A x \in Addresses \ {a, b} : account'[x].lamports = account[x].lamports
         \/ \A x \in Addresses : account'[x].lamports = account[x].lamports
  PROVE  LamportsInv'
<1> DEFINE f == Balances(account)
           h == [x \in Addresses |-> account'[x].lamports]
<1>1. f \in [Addresses -> Nat] /\ h \in [Addresses -> Nat]
  BY DEF TypeOK, Account, Balances
<1>2. \A x \in Addresses : f[x] = account[x].lamports /\ h[x] = account'[x].lamports
  BY DEF Balances
<1>3. Balances(account)' = h /\ Supply' = Supply /\ Balances(saved.account)' = Balances(saved.account)
  BY DEF Balances, Supply
<1> HIDE DEF f, h
<1>4. SumFunction(h) = SumFunction(f)
  <2>1. CASE \A x \in Addresses : account'[x].lamports = account[x].lamports
    <3>1. h = f
      BY <1>1, <1>2, <2>1
    <3> QED
      BY <3>1
  <2>2. CASE /\ a # b
             /\ account'[a].lamports + account'[b].lamports = account[a].lamports + account[b].lamports
             /\ \A x \in Addresses \ {a, b} : account'[x].lamports = account[x].lamports
    <3>1. h[a] + h[b] = f[a] + f[b] /\ \A x \in Addresses \ {a, b} : h[x] = f[x]
      BY <1>2, <2>2
    <3> QED
      BY <1>1, <2>2, <3>1, SumTransfer, FiniteAssumption
  <2> QED
    BY <2>1, <2>2
<1> QED
  BY <1>3, <1>4 DEF LamportsInv, f

LEMMA LamportsStep == TypeOK /\ TypeOK' /\ SafetyInv /\ LamportsInv /\ [Next]_vars => LamportsInv'
<1> SUFFICES ASSUME TypeOK, TypeOK', SafetyInv, LamportsInv, [Next]_vars PROVE LamportsInv'
  OBVIOUS
<1>1. \A x \in Addresses : account[x] \in Account /\ account[x].lamports \in Nat
  BY DEF TypeOK, Account
<1>2. account \in [Addresses -> Account]
  BY DEF TypeOK
<1>3. CASE Claim
  <2> DEFINE a == Here.authority
             r == Here.receipt
  <2>1. a \in Addresses /\ r \in Addresses /\ a # r /\ UNCHANGED saved
    BY <1>3, ClaimHere, ConstantsAssumption DEF Claim, ClaimIx, Addresses, Proceed
  <2>2. /\ TopUp(r) \in Nat /\ account[a].lamports - TopUp(r) \in Nat
        /\ account' = [account EXCEPT
             ![a].lamports = @ - TopUp(r),
             ![r] = [lamports |-> @.lamports + TopUp(r), owner |-> "commit_once",
                     data |-> NewReceipt(Here)]]
    BY <1>3, ClaimHere, CreatePasses DEF Claim, CreateReceipt
  <2>3. /\ account'[a].lamports = account[a].lamports - TopUp(r)
        /\ account'[r].lamports = account[r].lamports + TopUp(r)
        /\ \A x \in Addresses \ {a, r} : account'[x].lamports = account[x].lamports
    BY <1>2, <2>1, <2>2 DEF Account
  <2>4. account'[a].lamports + account'[r].lamports = account[a].lamports + account[r].lamports
    <3> HIDE DEF a, r
    <3> QED
      BY <1>1, <2>1, <2>2, <2>3
  <2> QED
    BY <2>1, <2>3, <2>4, MoveConserves
<1>4. CASE CloseReceipt
  <2> DEFINE d == Here.refund_destination
             r == Here.receipt
  <2>1. d \in Addresses /\ r \in Receipts /\ r \in Addresses /\ UNCHANGED saved
    BY <1>4, CloseHere DEF CloseReceipt, CloseIx, Addresses, Proceed
  <2>2. d # r
    <3>1. account[r].data # NoData /\ d = account[r].data.refund_destination
      BY <1>4, ClosePasses DEF CloseReceipt
    <3>2. PICK c \in commits : c.addr = r /\ c.data = account[r].data
      BY <2>1, <3>1 DEF SafetyInv, BankOK, Recorded
    <3> QED
      BY <3>1, <3>2 DEF SafetyInv, BankOK, CommitOK
  <2>3. account' = [account EXCEPT
             ![d].lamports = @ + account[r].lamports,
             ![r] = [lamports |-> 0, owner |-> "system", data |-> NoData]]
    BY <1>4 DEF CloseReceipt
  <2>4. /\ account'[d].lamports = account[d].lamports + account[r].lamports
        /\ account'[r].lamports = 0
        /\ \A x \in Addresses \ {d, r} : account'[x].lamports = account[x].lamports
    BY <1>2, <2>1, <2>2, <2>3 DEF Account
  <2> QED
    BY <1>1, <2>1, <2>2, <2>4, MoveConserves
<1>5. CASE Transfer
  <2> DEFINE a == Here.from
             b == Here.to
             n == Here.amount
  <2>1. /\ a \in Addresses /\ b \in Addresses /\ n \in Nat /\ UNCHANGED saved
        /\ account' = [account EXCEPT ![a].lamports = @ - n, ![b].lamports = @ + n]
    BY <1>5, TransferHere DEF Transfer, TransferIx, Addresses, Proceed
  <2>2. CASE a = b
    <3>1. \A x \in Addresses : account'[x].lamports = account[x].lamports
      BY <1>1, <1>2, <2>1, <2>2 DEF Account
    <3> QED
      BY <2>1, <3>1, MoveConserves
  <2>3. CASE a # b
    <3>1. /\ account'[a].lamports = account[a].lamports - n
          /\ account'[b].lamports = account[b].lamports + n
          /\ \A x \in Addresses \ {a, b} : account'[x].lamports = account[x].lamports
      BY <1>2, <2>1, <2>3 DEF Account
    <3>2. account'[a].lamports + account'[b].lamports = account[a].lamports + account[b].lamports
      <4> HIDE DEF a, b, n
      <4> QED
        BY <1>1, <2>1, <3>1
    <3> QED
      BY <2>1, <2>3, <3>1, <3>2, MoveConserves
  <2> QED
    BY <2>2, <2>3
<1>6. ASSUME account' \in {account, saved.account}, saved'.account \in {account, saved.account}
      PROVE  LamportsInv'
  <2>1. Balances(account)' \in {Balances(account), Balances(saved.account)}
    BY <1>6 DEF Balances
  <2>2. Balances(saved.account)' \in {Balances(account), Balances(saved.account)}
    BY <1>6 DEF Balances
  <2> QED
    BY <2>1, <2>2 DEF LamportsInv, Supply
<1>7. \/ Claim \/ CloseReceipt \/ Transfer
      \/ account' \in {account, saved.account} /\ saved'.account \in {account, saved.account}
  <2>1. CASE \/ UNCHANGED vars \/ NextSlot \/ NextSecond \/ Business \/ AdvanceNonce
             \/ \E signer \in Wallets, ixs \in Scripts, durable \in BOOLEAN, fee \in Fees :
                  Sign(signer, ixs, durable, fee)
    BY <2>1 DEF vars, NextSlot, NextSecond, Sign, Business, AdvanceNonce, Proceed, bank
  <2>2. CASE (\E m \in signed : Begin(m)) \/ Finish
    <3>1. saved' = Bank /\ account' = account
      BY <2>2 DEF Begin, Finish, bank
    <3> QED
      BY <3>1 DEF Bank
  <2>3. CASE ClaimRejected \/ CreateReceiptFails \/ CloseRejected \/ TransferFails \/ BusinessFails
    BY <2>3 DEF ClaimRejected, CreateReceiptFails, CloseRejected, TransferFails, BusinessFails, Abort
  <2> QED
    BY <2>1, <2>2, <2>3 DEF Next, Execute
<1> QED
  BY <1>3, <1>4, <1>5, <1>6, <1>7

\* SECURITY_MODEL 9.6. Over any number of accounts, transactions, failures and cleanups the
\* lamports are those that the wallets started with.
THEOREM LamportsAreConserved == Spec => []LamportsConserved
<1>1. Init => LamportsInv
  <2> SUFFICES ASSUME Init PROVE LamportsInv
    OBVIOUS
  <2>1. Balances(account) = [a \in Addresses |-> IF a \in Wallets THEN InitialLamports ELSE 0]
    BY DEF Init, Balances
  <2>2. SumFunction(Balances(account)) = Supply
    BY <2>1, SumOfConstant, FiniteAssumption, ConstantsAssumption DEF Addresses, Supply
  <2> QED
    BY <2>2 DEF Init, Bank, LamportsInv
<1>2. LamportsInv => LamportsConserved
  BY DEF LamportsInv, LamportsConserved, Supply
<1> QED
  BY <1>1, <1>2, LamportsStep, TypeCorrect, SafetyCorrect, PTL DEF Spec

-----------------------------------------------------------------------------
(* The ledger of intents *)

\* A receipt in the books is a grant of the ledger, over when its deadlines are reached.
LEMMA ReceiptIsGrant ==
  ASSUME TypeOK, NEW accounts, NEW cs \in SUBSET Commit, BankOK(accounts, cs),
         NEW r \in Receipts, accounts[r].data # NoData
  PROVE  /\ GrantOf(accounts[r].data) \in Ledger!Grant
         /\ LiveGrant(accounts, r) = GrantOf(accounts[r].data)
         /\ LiveGrant(accounts, r) # NoData
         /\ Lapsed(accounts[r].data) => Ledger!Over(LiveGrant(accounts, r))
<1> DEFINE d == accounts[r].data
<1>1. PICK c \in cs : c.addr = r /\ c.data = d
  BY DEF BankOK, Recorded
<1>2. /\ CommitOK(c) /\ c.retention \in Nat /\ d \in ReceiptData
      /\ SLOTS_PER_SECOND \in Nat \ {0} /\ MIN_RETENTION_SECONDS \in Nat \ {0}
  BY <1>1, ConstantsAssumption DEF BankOK, Commit
<1>3. /\ d.created_slot \in Nat /\ d.created_unix_ts \in Nat /\ d.payload_hash \in Payloads
      /\ c.retention * SLOTS_PER_SECOND \in Nat
  BY <1>2 DEF ReceiptData
<1>4. c.retention # PERMANENT_RETENTION => c.retention * SLOTS_PER_SECOND > 0
  <2>1. SUFFICES ASSUME c.retention # PERMANENT_RETENTION
                 PROVE  c.retention * SLOTS_PER_SECOND > 0
    OBVIOUS
  <2>2. c.retention >= MIN_RETENTION_SECONDS
    BY <1>2, <2>1 DEF CommitOK
  <2>3. c.retention * SLOTS_PER_SECOND > MAX_PROCESSING_AGE
    BY <1>2, <2>2, RetentionOutlasts
  <2> QED
    BY <1>3, <2>3, ConstantsAssumption
<1>5. IsPermanent(d) <=> c.retention = PERMANENT_RETENTION
  BY <1>1, <1>2, <1>3, <1>4 DEF CommitOK, IsPermanent
<1>6. GrantOf(d) = [payload |-> d.payload_hash, retention |-> c.retention,
                    slot |-> d.created_slot, unix |-> d.created_unix_ts]
  <2>1. CASE c.retention = PERMANENT_RETENTION
    BY <1>5, <2>1 DEF GrantOf
  <2>2. CASE c.retention # PERMANENT_RETENTION
    <3>1. d.expires_at_unix_ts - d.created_unix_ts = c.retention
      BY <1>1, <1>2, <1>3, <2>2 DEF CommitOK
    <3> QED
      BY <1>5, <2>2, <3>1 DEF GrantOf
  <2> QED
    BY <2>1, <2>2
<1>7. GrantOf(d) \in Ledger!Grant
  BY <1>2, <1>3, <1>6 DEF Ledger!Grant
<1>8. LiveGrant(accounts, r) = GrantOf(d)
  BY DEF LiveGrant
<1>9. Lapsed(d) => Ledger!Over(GrantOf(d))
  BY <1>1, <1>2, <1>5, <1>6 DEF Lapsed, CommitOK, Ledger!Over, Ledger!PERMANENT_RETENTION
<1> QED
  BY <1>7, <1>8, <1>9, LedgerAssumption

LEMMA GrantsAreData ==
  ASSUME NEW cs, NEW r
  PROVE  GrantsOf(cs, r) = {GrantOf(d) : d \in DataOf(cs, r)}
BY DEF GrantsOf, DataOf

\* The end of a successful transaction settles every intent at once.
LEMMA FinishSettles ==
  ASSUME TypeOK, SafetyInv, TransactionInv, Finish
  PROVE  Ledger!Settle
<1>1. saved'.account = account /\ saved'.commits = commits /\ slot' = slot /\ unix' = unix
  BY DEF Finish, Bank
<1>2. /\ BankOK(saved.account, saved.commits) /\ saved.commits \in SUBSET Commit
      /\ BankOK(account, commits) /\ commits \in SUBSET Commit
  BY DEF SafetyInv, TypeOK
<1>3. ASSUME NEW r \in Receipts PROVE Ledger!Keep(r) \/ Ledger!Release(r) \/ Ledger!Perform(r)
  <2>1. CASE Kept(r)
    <3>1. LiveGrant(account, r) = LiveGrant(saved.account, r)
      BY <2>1 DEF Kept, LiveGrant
    <3>2. GrantsOf(commits, r) = GrantsOf(saved.commits, r)
      BY <2>1, GrantsAreData DEF Kept
    <3> QED
      BY <1>1, <3>1, <3>2 DEF Ledger!Keep
  <2>2. CASE Released(r)
    <3>1. LiveGrant(account, r) = NoData
      BY <2>2 DEF Released, LiveGrant
    <3>2. GrantsOf(commits, r) = GrantsOf(saved.commits, r)
      BY <2>2, GrantsAreData DEF Released
    <3>3. LiveGrant(saved.account, r) # NoData /\ Ledger!Over(LiveGrant(saved.account, r))
      BY <1>2, <2>2, ReceiptIsGrant DEF Released
    <3> QED
      BY <1>1, <3>1, <3>2, <3>3 DEF Ledger!Release
  <2>3. CASE Granted(r)
    <3> DEFINE new == LiveGrant(account, r)
    <3>1. new = GrantOf(account[r].data) /\ new \in Ledger!Grant
      BY <1>2, <2>3, ReceiptIsGrant DEF Granted
    <3>2. new.slot = slot /\ new.unix = unix
      BY <2>3, <3>1 DEF Granted, GrantOf
    <3>3. GrantsOf(commits, r) = GrantsOf(saved.commits, r) \cup {new}
      BY <2>3, <3>1, GrantsAreData DEF Granted
    <3>4. LiveGrant(saved.account, r) # NoData => Ledger!Over(LiveGrant(saved.account, r))
      BY <1>2, <2>3, ReceiptIsGrant DEF Granted, LiveGrant
    <3> QED
      BY <1>1, <3>1, <3>2, <3>3, <3>4 DEF Ledger!Perform
  <2> QED
    BY <2>1, <2>2, <2>3 DEF TransactionInv
<1> QED
  BY <1>1, <1>3 DEF Ledger!Settle

LEMMA LedgerStep ==
  TypeOK /\ TypeOK' /\ SafetyInv /\ TransactionInv /\ [Next]_vars => [Ledger!Next]_Ledger!vars
<1> SUFFICES ASSUME TypeOK, TypeOK', SafetyInv, TransactionInv, [Next]_vars
             PROVE  [Ledger!Next]_Ledger!vars
  OBVIOUS
<1>1. CASE NextSlot \/ NextSecond
  <2>1. saved' = saved /\ slot' >= slot /\ unix' >= unix /\ slot' \in Nat /\ unix' \in Nat
    BY <1>1 DEF NextSlot, NextSecond, TypeOK
  <2> QED
    BY <2>1 DEF Ledger!Next, Ledger!Tick
<1>2. CASE Finish
  BY <1>2, FinishSettles DEF Ledger!Next
<1>3. CASE saved' = saved /\ slot' = slot /\ unix' = unix
  BY <1>3 DEF Ledger!vars
<1>4. ASSUME NEW m \in signed, Begin(m) PROVE saved' = saved /\ slot' = slot /\ unix' = unix
  BY <1>4 DEF Begin, TransactionInv
<1> QED
  BY <1>1, <1>2, <1>3, <1>4
  DEF Next, Execute, vars, Sign, Claim, CloseReceipt, Transfer, Business, AdvanceNonce, Proceed,
      ClaimRejected, CreateReceiptFails, CloseRejected, TransferFails, BusinessFails, Abort

\* lib.rs:19-35. The program implements the ledger of intents: each step of it, seen through
\* the committed receipts, is a step of the ledger or none.
THEOREM ProgramImplementsLedger == Spec => ImplementsLedger
<1>1. Init => Ledger!Init
  BY DEF Init, Bank, Ledger!Init, LiveGrant, GrantsOf, Addresses
<1> QED
  BY <1>1, LedgerStep, TypeCorrect, SafetyCorrect, TransactionsProgress, PTL
     DEF Spec, ImplementsLedger, Ledger!Spec
=============================================================================
