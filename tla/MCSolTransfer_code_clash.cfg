\* A business program whose own error has the code 6000.
CONSTANTS
  c1 = c1
  c2 = c2
  k = k
  p = p
  q = q
  NoReceipt = NoReceipt
  NoMsg = NoMsg
  Clients = {c1, c2}
  KeyOf <- OneKey
  IntentOf <- SameIntent
  BusinessCodes = {6000}
  MAX_ATTEMPTS = 2
  BASE_PRIORITY_FEE = 1
  MAX_PROCESSING_AGE = 1
  MaxSlot = 3
SPECIFICATION Spec
INVARIANTS
  SuccessIsTrue
CHECK_DEADLOCK FALSE
