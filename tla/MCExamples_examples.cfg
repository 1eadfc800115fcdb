CONSTANTS
  c1 = c1
  c2 = c2
  k1 = k1
  k2 = k2
  p = p
  NoReceipt = NoReceipt
  NoMsg = NoMsg
  Idle = Idle
  MAX_ATTEMPTS = 2
  BASE_PRIORITY_FEE = 1
  MAX_PROCESSING_AGE = 1
  MaxSlot = 3
  Owners = {c1, c2}
  FormKeys = {k1, k2}
  MaxCount = 2
  MaxInstructions = 2
SPECIFICATION Spec
INVARIANTS
  OncePerKey
  EffectsAreExact
  StaleReadsOnlyFail
  NoFalseConflict
  ComposedWell
CHECK_DEADLOCK FALSE
