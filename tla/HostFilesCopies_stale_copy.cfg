\* The copy of a closed FCB, once the slot is used again.
CONSTANTS
  Fcb = {f, g}
  Names = {a, b}
  MAX_OPEN_FILES = 2
  Inodes = {i, j, k}
  Val = {0}
  Zero = 0
  MaxRec = 0
  Exclusive = FALSE
SPECIFICATION CopiesSpec
INVARIANT StaleCopiesDoNotMatch
