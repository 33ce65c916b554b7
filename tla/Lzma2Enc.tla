------------------------------ MODULE Lzma2Enc ------------------------------
(* The LZMA2 encoder, Lzma2Enc.c: a block of the data is packed chunk by      *)
(* chunk with one LZMA encoder; a chunk that does not get smaller is stored   *)
(* as it is, and the encoder put back where the decoder will still be.        *)
EXTENDS LzmaEnc

CONSTANTS LZMA2_PACK_SIZE_MAX,   \* packed bytes of a chunk, bytes of a copied chunk
          LZMA2_UNPACK_SIZE_MAX  \* unpacked bytes of a packed chunk

ASSUME Lzma2EncAssumption ==
  /\ LZMA2_PACK_SIZE_MAX \in 1 .. 2^16 /\ LZMA2_UNPACK_SIZE_MAX \in 1 .. 2^21
  /\ kNumOpts > kMatchMaxLen /\ kPackReserve > kNumTopBits \div 8 + 2

LZMA2_CHUNK_SIZE_COMPRESSED_MAX == LZMA2_PACK_SIZE_MAX + 16

(* Lzma2Enc_WriteProperties.                                                  *)
Lzma2WriteProperties(props) ==
  CHOOSE i \in 0 .. 40 : LET Size(k) == (2 + (k % 2)) * (LZMA_DIC_MIN \div 2) * 2^(k \div 2)
                         IN  props.dictSize <= Size(i) /\ \A j \in 0 .. i - 1 : props.dictSize > Size(j)

PropsByte(props) == (props.pb * 5 + props.lp) * 9 + props.lc

(* CLzma2EncInt; Lzma2EncInt_InitBlock.                                       *)
Lzma2InitBlock(props, data) ==
  [enc |-> LzmaEnc_AllocAndInit(LzmaEncNew(props), data), propsByte |-> PropsByte(props),
   srcPos |-> 0, needInitState |-> TRUE, needInitProp |-> TRUE, packed |-> <<>>]

BigEndian16(n) == <<(n \div 256) % 256, n % 256>>

(* The chunks of a piece that is stored: only the first of a block may, and   *)
(* must, reset the dictionary.                                                *)
RECURSIVE CopyChunks(_, _)
CopyChunks(t, bytes) ==
  IF bytes = <<>> THEN t
  ELSE LET Put(u) == CopyChunks([t EXCEPT !.srcPos = @ + u,
                           !.packed = @ \o <<IF t.srcPos = 0 THEN 1 ELSE 2>> \o BigEndian16(u - 1) \o Taken(bytes, u)],
                         Skipped(bytes, u))
       IN  Put(Smaller(Len(bytes), LZMA2_PACK_SIZE_MAX))

LzmaMode(t) == IF t.srcPos = 0 THEN 3 ELSE IF ~t.needInitState THEN 0 ELSE IF t.needInitProp THEN 2 ELSE 1

LzmaHeader(t, unpackSize, packSize) ==
  <<128 + LzmaMode(t) * 32 + (unpackSize - 1) \div 65536>> \o BigEndian16(unpackSize - 1) \o BigEndian16(packSize - 1)
    \o (IF t.needInitProp THEN <<t.propsByte>> ELSE <<>>)

(* Without RestoreState the chunk after a stored one would go on from the     *)
(* encoder's state, which the decoder never saw.                              *)
StoreChunk_NoRestore(t, e, from) == [CopyChunks(t, SubSeq(e.data, from + 1, e.nowPos)) EXCEPT !.enc = e]

StoreChunk(t, e, from) == [CopyChunks(t, SubSeq(e.data, from + 1, e.nowPos)) EXCEPT !.enc = RestoreState(e)]

PackedChunk(t, e, from) ==
  [t EXCEPT !.enc = e, !.srcPos = @ + e.nowPos - from, !.needInitProp = FALSE, !.needInitState = FALSE,
            !.packed = @ \o LzmaHeader(t, e.nowPos - from, Len(e.out)) \o e.out]

(* Lzma2EncInt_EncodeSubblock.                                                *)
EncodeSubblock(t) ==
  LET LzHeaderSize == IF t.needInitProp THEN 6 ELSE 5
      Coded(e, from) ==
        IF e.nowPos = from THEN [t EXCEPT !.enc = e]
        ELSE IF \/ Len(e.out) > LZMA2_CHUNK_SIZE_COMPRESSED_MAX - LzHeaderSize   \* SZ_ERROR_OUTPUT_EOF
                \/ Len(e.out) + 2 >= e.nowPos - from \/ Len(e.out) > LZMA2_PACK_SIZE_MAX
          THEN StoreChunk(t, e, from)
          ELSE PackedChunk(t, e, from)
  IN  Coded(CodeOneMemBlock(SaveState(t.enc), t.needInitState, LZMA2_PACK_SIZE_MAX, LZMA2_UNPACK_SIZE_MAX), t.enc.nowPos)

RECURSIVE EncodeChunks(_)
EncodeChunks(t) == LET Go(u) == IF u.packed = t.packed THEN u ELSE EncodeChunks(u) IN Go(EncodeSubblock(t))

(* Lzma2Enc_EncodeMt1 of data that is read to its end: blocks of blockSize    *)
(* (0: one solid block), the end mark after the last.                         *)
RECURSIVE EncodeBlocks(_, _, _)
EncodeBlocks(props, data, blockSize) ==
  IF data = <<>> THEN <<>>
  ELSE LET Block(n) == EncodeChunks(Lzma2InitBlock(props, Taken(data, n))).packed
                         \o EncodeBlocks(props, Skipped(data, n), blockSize)
       IN  Block(IF blockSize = 0 THEN Len(data) ELSE Smaller(Len(data), blockSize))

Lzma2Encode(props, data, blockSize) == EncodeBlocks(props, data, blockSize) \o <<0>>
=============================================================================
