CONSTANTS
 kNumTopBits = 16
 kNumBitModelTotalBits = 6
 kNumMoveBits = 3
 kNumPosSlotBits = 4
 kEndPosModelIndex = 6
 kNumAlignBits = 1
 kLenNumLowBits = 1
 kLenNumHighBits = 2
 LZMA_DIC_MIN = 16
 LZMA_REQUIRED_INPUT_MAX = 7
 kChangePairBits = 2
 kNumOpts = 10
 kPackReserve = 10
 kBlockStep = 8
CONSTANTS LZMA2_PACK_SIZE_MAX = 20
 LZMA2_UNPACK_SIZE_MAX = 22
 BRA_BUF_SIZE = 5
 CODER_BUF_SIZE = 6
 TEMP_BUF_SIZE = 8
 XZ_STREAM_BACKWARD_READING_PAD_MAX = 12
 Jobs <- MCBadHeader
SPECIFICATION Spec
INVARIANT OkMeansArchive
