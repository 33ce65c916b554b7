\* One call whose writes may fail: is that what it answers?
SPECIFICATION Spec
CONSTANTS
  OutBlockMax = 3
  SmallBlock = 2
  MaxThreads = 2
  InBufSize = 3
  Inputs <- MCOneCall
  MayFail = {"write"}
INVARIANT WriteErrorReported
