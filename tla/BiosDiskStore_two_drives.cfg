\* Two drives, no transfer errors; power may fail in the middle of a write-back.
CONSTANTS
  MAXDSK = 2
  Tracks = {0, 1}
  TRKSZ = 2
  PTRKSZ = 2
  Val = {blank, v}
  Blank = blank
  Unknown = unknown
  Faulty = FALSE
SPECIFICATION Spec
PROPERTY ImplementsStore
