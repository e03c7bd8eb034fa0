SPECIFICATION Spec
CONSTANTS
  MAX_ID = 4
  MAP_ZONES = 4
  RESERVED = 1
  ZONES_PER_BLOCK = 2
  SECTORS = 2
  CACHE_GRP_NUM = 1
  Cuts = {2, 4}
  Junk = {0, 1}
  Requests = {1}
  Payload = {Blank, Text}
  Blank = Blank
  NULL = NULL
INVARIANTS TypeOK CacheCoherent OneCopy
PROPERTIES StatesSurvive Implements
