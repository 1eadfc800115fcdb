CONSTANTS
  Payloads = {p1, p2}
  Retentions <- MCRetentions
  None = None
  Prefunded = Prefunded
  Lag = 2
  MaxSlot = 8
  MIN_RETENTION_SECONDS = 3600
  MAX_RETENTION_SECONDS = 31536000
  DEFAULT_RETENTION_SECONDS = 86400
  U64 = 67108864
  Digits <- MCDigits
  Numbers <- MCNumbers
  Addresses = {authority, receipt, other}
  Authority = authority
  Receipt = receipt
  Nothing = Nothing
  Codes = {6000, 6001, 6099, 6100, 1}
  Unrelated = {0, 6050, 9000}
  U32 = 70000
  Floor = 6000
  Ceiling = 6100
  NoCode = NoCode
  MaxLines = 4
SPECIFICATION SdkSpec
INVARIANTS
  ExpiredCanBeClosed
  MatchHoldsWhileRetained
  RecordsWhatWasAsked
  CodeIsRead
  ScanIsComplete
  HashesIdentify
PROPERTIES
  SearchesEnd
CHECK_DEADLOCK FALSE
