SPECIFICATION MCSpec
CONSTANTS
  File = {"big", "small"}
  MAX_ID = 29
  ZONESIZE = 3
  DIRECT = 1
  SINGLE = 2
  DOUBLE = 2
  IDX = 2
  Room = {8, 11, 12, 13, 14, 17, 18, 29}
  Lengths = {3}
  Limit <- LimitOfFile
  Turns = 3
  NONE = NONE
INVARIANTS TypeOK NothingShared UsageExact SizeRight
PROPERTY Implements
CHECK_DEADLOCK FALSE
