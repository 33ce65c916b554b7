------------------------------ MODULE LzmaBase ------------------------------
(* What the LZMA encoder (LzmaEnc.c) and the LZMA decoder (LzmaDec.c) have to  *)
(* agree on: the sizes of the format and the adaptive probabilities.  Bytes   *)
(* keep their 8 bits.  The sizes are constants, so that an instance can have  *)
(* a 24-bit range coder, lengths up to 9 and distances of 8 bits where the    *)
(* program has 32 bits, 273 and 32 bits.                                      *)
(*                                                                            *)
(* A probability is named by a context, a tuple that stands for its place in  *)
(* the array probs, and probs is the function of the contexts in use: every   *)
(* other context still has its initial value.                                 *)
EXTENDS Integers, Sequences, TLC

CONSTANTS
  kNumTopBits,             \* the range coder shifts a byte below 2^kNumTopBits
  kNumBitModelTotalBits, kNumMoveBits,
  kNumPosSlotBits, kEndPosModelIndex, kNumAlignBits,
  kLenNumLowBits, kLenNumHighBits,
  LZMA_DIC_MIN             \* the smallest dictionary

ASSUME LzmaSizesAssumption ==
  /\ kNumTopBits \in {8, 16} /\ kNumBitModelTotalBits \in 1 .. 8
  /\ kNumMoveBits \in 1 .. kNumBitModelTotalBits
  /\ kNumPosSlotBits \in 3 .. 5 /\ kEndPosModelIndex \in 4 .. 2^kNumPosSlotBits
  /\ kNumAlignBits < kEndPosModelIndex \div 2 - 1
  /\ {kNumAlignBits, kLenNumLowBits, kLenNumHighBits} \subseteq 1 .. 4
  /\ LZMA_DIC_MIN \in Nat \ {0}

kTopValue     == 2^kNumTopBits
kRange0       == 256 * kTopValue - 1                 \* 0xFFFFFFFF
kBitModelTotal == 2^kNumBitModelTotalBits
kProbInit     == kBitModelTotal \div 2

kNumStates    == 12
kNumLitStates == 7
kStartPosModelIndex == 4
kNumLenToPosStates  == 4
kEndMarkDistance    == 2^(2^(kNumPosSlotBits - 1)) - 1   \* 0xFFFFFFFF

kLenNumLowSymbols  == 2^kLenNumLowBits
kLenNumHighSymbols == 2^kLenNumHighBits
kMatchMinLen       == 2
kMatchMaxLen       == kMatchMinLen + 2 * kLenNumLowSymbols + kLenNumHighSymbols - 1

(* The value of a context, and its move towards the bit just coded.           *)
Prob(probs, c) == IF c \in DOMAIN probs THEN probs[c] ELSE kProbInit

Moved(ttt, bit) == IF bit = 0 THEN ttt + ((kBitModelTotal - ttt) \div 2^kNumMoveBits)
                              ELSE ttt - (ttt \div 2^kNumMoveBits)

Adapt(probs, c, bit) == (c :> Moved(Prob(probs, c), bit)) @@ probs

NoProbs == [c \in {} |-> kProbInit]

(* The bits of a byte-order number, as the headers of the formats hold it.    *)
RECURSIVE LittleEndian(_)
LittleEndian(bytes) == IF bytes = <<>> THEN 0
                       ELSE Head(bytes) + 256 * LittleEndian(Tail(bytes))

RECURSIVE ToBytes(_, _)
ToBytes(v, n) == IF n = 0 THEN <<>> ELSE <<v % 256>> \o ToBytes(v \div 256, n - 1)

Skipped(s, n) == SubSeq(s, n + 1, Len(s))     \* a pointer moved n bytes on
Taken(s, n)   == SubSeq(s, 1, n)
Smaller(a, b) == IF a < b THEN a ELSE b
=============================================================================
