SPECIFICATION MCSpec
CONSTANTS
  MAX_ID = 7
  NUM_OF_DENTRY_SUBS = 2
  NUM_OF_DZONE_SUBS = 1
  Path <- SessionPaths
  MAX_PTRS = 2
  NewZones = {0, 1, 2}
  NameWord <- WordOfName
  Leftover = {0}
  Uses = {"crash"}
  NONE = NONE
INVARIANTS TypeOK DiskIsTree UsageExact NoGaps CwdInTree ListedSize
PROPERTY Implements
CHECK_DEADLOCK FALSE
