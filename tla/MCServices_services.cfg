SPECIFICATION Spec
CONSTANTS
  Packages = {"m20", "plasmo", "z8002-demo"}
  Chars = {"x", "s"}
  XOFF = "s"
  Nothing = Nothing
  POLLS = 2
  Boards = {"plasmo", "z8002-demo"}
  CHUNK = 3
  BOUNCE = 2
  Lengths = {1, 4, 7}
  Disks = {"m20-hard-disk", "plasmo", "z8002-demo"}
  BootSizes = {100, 7000, 8000}
  ImageSizes = {286720, 524416, 8839168, 33554432, 134217728, 268435456}
  BASE = 59904
  NUM_DRIVES = 3
INVARIANTS
  ReadyMeansNoWait
  CopyIsExact
  CallerDataIsTheProgramsData
  BlocksLieOnTheDisk
  BootIsInPlace
  TablesApart
  GeometryIsUsable
  RecordsLieInTheImage
PROPERTIES
  InputIsNotLost
  OutputReturns
CHECK_DEADLOCK FALSE
