\* One transaction that claims an intent twice.
CONSTANTS
  alice = alice
  bob = bob
  k1 = k1
  k2 = k2
  p = p
  q = q
  NoData = NoData
  NoTx = NoTx
  DefaultPubkey = DefaultPubkey
  Wallets = {alice}
  Keys = {k1}
  Payloads = {p, q}
  Scripts <- DoubleGuardScripts
  Fees = {1}
  Deposit = 2
  InitialLamports = 4
  MIN_RETENTION_SECONDS = 2
  MAX_RETENTION_SECONDS = 3
  SLOTS_PER_SECOND = 1
  MAX_INSTRUCTION_SCAN = 4
  MAX_PROCESSING_AGE = 1
  MaxSlot = 3
  MaxUnix = 2
  MaxMessages = 3
SPECIFICATION Spec
INVARIANTS
  AlreadyCommittedMeansCommitted
CHECK_DEADLOCK FALSE
