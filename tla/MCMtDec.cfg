\* Two calls on one handle: the first with any of the streams, whole or up to
\* a size, one to three threads, every failure; the second after whatever the
\* first has left.
SPECIFICATION Spec
CONSTANTS
  OutBlockMax = 3
  SmallBlock = 2
  MaxThreads = 3
  InBufSize = 3
  Inputs <- MCCalls
  MayFail = {"read", "mem", "thread", "write", "progress"}
INVARIANTS
  TypeOK
  TokensUnique
  SwitchKeepsInput
  WritesInOrder
  
PROPERTY
  CallReturns
