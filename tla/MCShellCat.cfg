SPECIFICATION Spec
CONSTANTS
  NUM_OF_DENTRY_SUBS = 4
  DirSizes <- FourEntries
  FileSizes = {1, 43}
  Odd = {}
  Long = {}
  NONE = NONE
PROPERTY Responsive
CHECK_DEADLOCK FALSE
