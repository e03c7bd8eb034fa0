SPECIFICATION Spec
CONSTANTS
  BLOCKSIZE = 3
  BUFFER_SIZE = 2
  CYLINDERS = 2
  SECTORS = 2
  Asked <- TwoBlocks
  Value = {Zero, Text}
  Zero = Zero
  Stale = Stale
  Split = FALSE
  NONE = NONE
INVARIANTS TypeOK InStep
PROPERTIES Answered EndsAfterOwner Implements
