\* Every transfer may stop at any physical sector, power may fail at any time.
CONSTANTS
  MAXDSK = 1
  Tracks = {0, 1}
  TRKSZ = 2
  PTRKSZ = 2
  Val = {blank, v}
  Blank = blank
  Unknown = unknown
  Faulty = TRUE
SPECIFICATION Spec
INVARIANTS
  TypeOK
  Intact
  CleanBufferIsTheTrack
  ErrorsBelongToTheTrack
PROPERTIES
  ReadReturnsLastWrite
  BarriersSettle
  PowerCutCostsOneTrack
