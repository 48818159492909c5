SPECIFICATION ToolSpec
CONSTANTS
  SegLimit = 128
  XHSIZ = 16
  SGSIZ = 4
  Library <- MCLibrary
  Jobs <- OrderJobs
  SEGNO = 6
  PAGE = 8
  ShortLimit = 16
  BPLEN = 8
  DEFSTACK = 8
  SEGS = 16
  SECTOR = 16
INVARIANTS
  PassesAgree
