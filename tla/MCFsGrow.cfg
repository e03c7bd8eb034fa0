SPECIFICATION MCSpec
CONSTANTS
  MAX_ID = 9
  NUM_OF_DENTRY_SUBS = 1
  NUM_OF_DZONE_SUBS = 1
  Path <- FlatPaths
  MAX_PTRS = 1
  NewZones = {1}
  NameWord <- WordOfName
  Leftover = {0}
  Uses = {"grow", "exit"}
  NONE = NONE
INVARIANTS UsageExact ListedSize
