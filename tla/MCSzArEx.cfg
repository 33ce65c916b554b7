\* Every small header by itself, and archives opened byte by byte.
SPECIFICATION SpecArEx
CONSTANTS
  MaxFiles = 4
  MaxFolders = 2
  MaxSubStreams = 3
  Sizes <- MCSizes
  Crcs = {TRUE, FALSE}
  SizeMod <- MCSizeMod
  MaskBits = 2
  UInt64Max <- MCUInt64Max
  Num32Max = 67108863
  kBitsPerByte = 2
  HeapLimit = 1000
  Images <- MCImages
CONSTANTS
 kNumTopBits = 16
 kNumBitModelTotalBits = 6
 kNumMoveBits = 3
 kNumPosSlotBits = 4
 kEndPosModelIndex = 6
 kNumAlignBits = 1
 kLenNumLowBits = 1
 kLenNumHighBits = 2
 LZMA_DIC_MIN = 16
 LZMA_REQUIRED_INPUT_MAX = 7
 kChangePairBits = 2
 kNumOpts = 10
 kPackReserve = 10
 kBlockStep = 8
CONSTANTS LZMA2_PACK_SIZE_MAX = 20
 LZMA2_UNPACK_SIZE_MAX = 22
 BRA_BUF_SIZE = 5
INVARIANTS TypeOK SlicesInFolder SlicesRight AcceptsConsistent CountsAgree ReadsInBounds FlagsRight FoldersReadAlike HeapBalanced ExtractsWhatWasPacked
