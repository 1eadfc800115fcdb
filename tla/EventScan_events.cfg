\* A transaction whose log has lines that are not the program's.
CONSTANTS
  MaxLines = 3
SPECIFICATION ScanSpec
INVARIANTS
  OthersAreSkipped
CHECK_DEADLOCK FALSE
