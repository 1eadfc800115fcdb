\* Retries of one intent on blockhashes and durable nonces, its cleanup, and the
\* ledger of intents as the abstract specification.
CONSTANTS
  alice = alice
  bob = bob
  k1 = k1
  k2 = k2
  p = p
  q = q
  NoData = NoData
  NoTx = NoTx
  DefaultPubkey = DefaultPubkey
  Wallets = {alice}
  Keys = {k1, k2}
  Payloads = {p, q}
  Scripts <- RetryScripts
  Fees = {1}
  Deposit = 2
  InitialLamports = 4
  MIN_RETENTION_SECONDS = 1
  MAX_RETENTION_SECONDS = 3
  SLOTS_PER_SECOND = 2
  MAX_INSTRUCTION_SCAN = 3
  MAX_PROCESSING_AGE = 1
  MaxSlot = 3
  MaxUnix = 1
  MaxMessages = 3
SPECIFICATION Spec
INVARIANTS
  AtMostOnceWhileRetained
  AllOrNothing
  AnswersAreTrue
  DurableOnlyPermanent
  NoStaleDuplicate
PROPERTIES
  ReceiptOnlyExpires
  ImplementsLedger
CHECK_DEADLOCK FALSE
