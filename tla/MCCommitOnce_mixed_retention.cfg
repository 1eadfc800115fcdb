\* One intent under a finite retention and under a permanent one with a durable nonce.
CONSTANTS
  alice = alice
  bob = bob
  k1 = k1
  k2 = k2
  p = p
  q = q
  NoData = NoData
  NoTx = NoTx
  DefaultPubkey = DefaultPubkey
  Wallets = {alice}
  Keys = {k1}
  Payloads = {p}
  Scripts <- NonceScripts
  Fees = {1}
  Deposit = 2
  InitialLamports = 4
  MIN_RETENTION_SECONDS = 1
  MAX_RETENTION_SECONDS = 3
  SLOTS_PER_SECOND = 2
  MAX_INSTRUCTION_SCAN = 3
  MAX_PROCESSING_AGE = 1
  MaxSlot = 2
  MaxUnix = 1
  MaxMessages = 3
SPECIFICATION Spec
INVARIANTS
  CleanupNeverOutrunsDuplicate
CHECK_DEADLOCK FALSE
