SPECIFICATION Spec
CONSTANTS
  NUM_OF_DENTRY_SUBS = 4
  DirSizes <- FourEntries
  FileSizes <- GoodSizes
  Odd = {}
  Long = {TRUE}
  NONE = NONE
INVARIANTS TypeOK InStep OrderlyEnd
PROPERTIES Complete Responsive EndsAfterClient
CHECK_DEADLOCK FALSE
