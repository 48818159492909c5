\* Two FCBs, two slots, whatever the programs do; contents are told apart by length.
CONSTANTS
  Fcb = {f, g}
  Names = {a, b}
  MAX_OPEN_FILES = 2
  Inodes = {i, j}
  Val = {0}
  Zero = 0
  MaxRec = 0
  Exclusive = FALSE
SPECIFICATION Spec
PROPERTIES
  OpenOwnsOneSlot
  RefusedOnlyWhenFull
  TransfersGoByName
SYMMETRY Symmetry
