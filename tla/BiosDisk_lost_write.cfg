\* A failed eviction and a FLUSH after it.
CONSTANTS
  MAXDSK = 1
  Tracks = {0, 1}
  TRKSZ = 2
  PTRKSZ = 2
  Val = {blank, v}
  Blank = blank
  Unknown = unknown
  Faulty = TRUE
SPECIFICATION Spec
PROPERTY FlushZeroIsDurable
