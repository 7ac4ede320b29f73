SPECIFICATION LawsSpec
CONSTANTS
  WORD = 32
  DIRSIZ = 2
  MAXARGS = 3
  Unopenable <- MCUnopenable
  PIPESIZE = 2
  Width = 4
  Bytes = {x, y}
  NoProc = NoProc
  HEAP = 13
  NALLOC = 4
  HEADER = 8
  Requests = {1, 16, 30}
  Keys <- MCKeys
  MaxPending = 2
  BSIZE = 2
  NDIRECT = 1
  FSSIZE = 20
  LOGSIZE = 2
  BPB = 16
  MAXOPBLOCKS = 6
  UINT = 16
  NINODES = 3
  Images <- MCImages
  Sizes = {1, 5}
  MaxCalls = 6
INVARIANTS
  ConversionLaw WrapLaw ProgramLaw
  HeapSound NoStuckModifier BlocksExact ReadsBack
CHECK_DEADLOCK FALSE
