SPECIFICATION Spec
CONSTANTS
  BlockSize = 6
  HeaderSize = 3
  MaxRecords = 3
  MaxLength = 7
INVARIANTS
  ReadsPrefix
  WholeRecordsFound
  DeathIsNotCorruption
CHECK_DEADLOCK FALSE
