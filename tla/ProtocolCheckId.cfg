SPECIFICATION CallsSpec
CONSTANTS
  Byte = 16
  MaxTableDeep = 2
  VFD_NULL = 10
  VfdSize = 4
  MAXTONETD = 270
  MaxLoads = 2
  MaxAll = 3
  MaxNet = 1
  MaxTypes = 1
  NumberKeys = {"b"}
  Wraps = TRUE
  Vfds = {9}
  Files <- MCItems
  TypeFiles <- MCBorders
  Samples <- MCSamples
  Spelling <- MCSpelling
  FirstTypes <- BaseTypes
  ReadType <- NewTable
  ReadList <- arglist_proc
  PackArg <- MCPack
  UnpackArg <- MCUnpack
  CutArg <- MCCut
  ValuesOf <- SampleOf
  Dests <- MCDests
  Handlers <- MCHandlers
INVARIANT CheckedLayout
CHECK_DEADLOCK FALSE
