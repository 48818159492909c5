SPECIFICATION Spec
CONSTANTS
  SegLimit = 128
  XHSIZ = 16
  SGSIZ = 4
  Library <- MCLibrary
  Jobs <- MCJobs
  SEGNO = 6
  PAGE = 8
  ShortLimit = 16
  BPLEN = 8
  DEFSTACK = 8
  SEGS = 16
  SECTOR = 16
  Sources <- MCSources
  Files <- MCFiles
  OBJSIZ = 17
  SECSIZ = 3
  RBMSK = 258
  INSIZ = 3
  SegFlags = {FALSE, TRUE}
  UFlags = {FALSE, TRUE}
  BLK = 8
  NBUF = 3
  NASIDE = 2
  SYTAB = 4
  XREF = 2
  NHASH = 2
  Names = {1, 2, 3}
  MaxLine = 4
  MaxText = 3
INVARIANTS
  PassesAgree
  PlacesAgree
  ReferencesReach
  ObjectsDisjoint
  BasePageIsTrue
  FlatImageIsTheProgram
  CoffKeepsReferences
  AddressesAgree
  ObjectIsTheImage
  SymbolTableIsWhole
