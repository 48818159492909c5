\* A path that leads to another file than the one that is open.
CONSTANTS
  Fcb = {f, g}
  Names = {a, b}
  MAX_OPEN_FILES = 2
  Inodes = {i, j, k}
  Val = {0}
  Zero = 0
  MaxRec = 0
  Exclusive = FALSE
SPECIFICATION Spec
PROPERTY SlotRefersToTheFile
