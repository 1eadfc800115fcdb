\* Two wallets: wrong signers and arguments, prefunded addresses, deposits and refunds, also between receipts.
CONSTANTS
  alice = alice
  bob = bob
  k1 = k1
  k2 = k2
  p = p
  q = q
  NoData = NoData
  NoTx = NoTx
  DefaultPubkey = DefaultPubkey
  Wallets = {alice, bob}
  Keys = {k1}
  Payloads = {p}
  Scripts <- DepositScripts
  Fees = {1}
  Deposit = 2
  InitialLamports = 4
  MIN_RETENTION_SECONDS = 1
  MAX_RETENTION_SECONDS = 1
  SLOTS_PER_SECOND = 1
  MAX_INSTRUCTION_SCAN = 3
  MAX_PROCESSING_AGE = 0
  MaxSlot = 1
  MaxUnix = 1
  MaxMessages = 3
SPECIFICATION Spec
INVARIANTS
  TypeOK
  LiveReceiptIsRentExempt
  PrefundNeverBlocks
  LamportsConserved
  OnlyAuthorityCommits
  IntegrityErrorsUnreachable
PROPERTIES
  DepositGoesToRefund
CHECK_DEADLOCK FALSE
