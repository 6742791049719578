SPECIFICATION OneSpec
CONSTANTS
  Byte = 16
  MaxTableDeep = 2
  VFD_NULL = 10
  VfdSize = 4
  MAXTONETD = 270
  MaxLoads = 2
  MaxAll = 3
  MaxNet = 1
  MaxTypes = 1
  NumberKeys = {"b"}
  Wraps = TRUE
  Vfds = {9}
  Files <- MCFiles
  TypeFiles <- MCTypeFiles
  Samples <- MCSamples
  Spelling <- MCSpelling
  FirstTypes <- BaseTypes
  ReadType <- NewTable
  ReadList <- arglist_proc
  PackArg <- MCPack
  UnpackArg <- MCUnpack
  CutArg <- MCCut
  ValuesOf <- SampleOf
  Dests <- MCDests
  Handlers <- MCHandlers
  Block = {b1, b2, b3}
  InitSize = 2
  GrowSize = 2
  UnitSize = 4
  UShort = 13
  Garbage = {0, 7}
  Client = {c, d}
  Missing = Missing
INVARIANT OnlyCallsMade
CHECK_DEADLOCK FALSE
