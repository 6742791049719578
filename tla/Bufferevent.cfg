SPECIFICATION BevSpec
CONSTANTS
  MinLen = 2
  MaxIn = 3
  MaxOut = 4
  Chunk = 2
  SndBuf = 2
  Marks = {0, 2}
INVARIANTS BytesKept Scheduled
PROPERTIES MarkKept WriteEnds
CHECK_DEADLOCK FALSE
