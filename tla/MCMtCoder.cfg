\* A stream of three full blocks and a half and the same input in memory, its
\* size known or not; two threads, every failure.
SPECIFICATION Spec
CONSTANTS
  NumThreads = 2
  NumBlocksMax = 3
  BufsMax = 4
  InputLen = 7
  BlockSize = 2
  Inputs <- MCInputs
  MayFail = {"read", "code", "write", "thread"}
  MaxCalls = 1
INVARIANTS TypeOK OneReader OneWriter SlotsOwnedOnce BufsOwnedOnce ReturnsAfterThreads
PROPERTIES ImplementsOrderedCoder CallReturns
