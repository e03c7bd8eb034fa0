SPECIFICATION MCSpec
CONSTANTS
  MAX_ID = 7
  NUM_OF_DENTRY_SUBS = 2
  NUM_OF_DZONE_SUBS = 1
  Path <- NestedPaths
  MAX_PTRS = 0
  NewZones = {}
  NameWord <- WordOfName
  Leftover = {0}
  Uses = {"deep"}
  NONE = NONE
INVARIANT DiskIsTree
CHECK_DEADLOCK FALSE
