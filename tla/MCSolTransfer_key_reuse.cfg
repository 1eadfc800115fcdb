\* Two processes use one key for different intents.
CONSTANTS
  c1 = c1
  c2 = c2
  k = k
  p = p
  q = q
  NoReceipt = NoReceipt
  NoMsg = NoMsg
  Clients = {c1, c2}
  KeyOf <- OneKey
  IntentOf <- OtherIntent
  BusinessCodes = {1}
  MAX_ATTEMPTS = 2
  BASE_PRIORITY_FEE = 1
  MAX_PROCESSING_AGE = 1
  MaxSlot = 3
SPECIFICATION Spec
INVARIANTS
  SuccessIsTrue
  ConflictIsTrue
  ReceiptMeansPerformed
CHECK_DEADLOCK FALSE
