SPECIFICATION MCSpec
CONSTANTS
  MAX_ID = 9
  NUM_OF_DENTRY_SUBS = 2
  NUM_OF_DZONE_SUBS = 2
  Path <- FlatPaths
  MAX_PTRS = 0
  NewZones = {}
  NameWord <- WordOfName
  Leftover = {0}
  Uses = {"overflow"}
  NONE = NONE
INVARIANT FoundByName
CHECK_DEADLOCK FALSE
