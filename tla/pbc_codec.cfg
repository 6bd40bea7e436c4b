SPECIFICATION Spec
CONSTANTS
  Type = {"R", "S"}
  Key <- MCKey
  Field <- MCField
  Enum <- MCEnum
  FloatOf <- MCFloatOf
  DoubleOf <- MCDoubleOf
  WMESSAGE_SIZE = 24
  Heap = {0}
  Root = "R"
  Values <- MCValues
  MaxKeys = 2
  MaxMessages = 3
  Patterns <- MCPatterns
  BufSize = 8
  Enough = 1048576
  Wraps = TRUE
  Readers <- MCReaders
INVARIANTS RmessageReads DecodeReads StaysInside
 PatternReads PackEnds
