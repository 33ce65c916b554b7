\* CLookToRead2 with lookahead = 0, as the Swift archive creates it.
SPECIFICATION Spec
CONSTANTS
  FileLen = 5
  MaxPos = 6
  MaxRequest = 4
  BufSize = 3
  Lookahead = FALSE
INVARIANTS TypeOK BufferIsFile
PROPERTY ImplementsSeekStream
