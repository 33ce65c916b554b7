\* The same object codes a second input: does SZ_OK still mean it is written?
SPECIFICATION Spec
CONSTANTS
  NumThreads = 2
  NumBlocksMax = 3
  BufsMax = 4
  InputLen = 1
  BlockSize = 1
  Inputs <- MCStream
  MayFail = {}
  MaxCalls = 2
INVARIANT OkMeansAllWritten
