------------------------------- MODULE XzEnc --------------------------------
(* The XZ encoder, XzEnc.c: blocks of LZMA2, each read through a check and    *)
(* perhaps a filter, between a stream header and the index.  An encoder's     *)
(* properties are a record: lzma (the LZMA properties), checkId, blockSize    *)
(* (0: solid), mt (several block threads), sizes (forceWriteSizesInHeader)    *)
(* and filters, the sequence of the filter to use or <<>>.                    *)
EXTENDS Lzma2Enc, XzFilter

(* CSeqInFilter over all of a block's data: the filter's output, the bytes    *)
(* that it holds back at the end included.                                    *)
Filtered(f, data) == BcCode2(BcCoder(f, TRUE), Len(data), data, TRUE).out

FilteredBy(filters, data) == IF filters = <<>> THEN data ELSE Filtered(filters[1], data)

(* Xz_CompressBlock: the block's bytes and its record in the index.  Its      *)
(* sizes stand in the header when the output is kept in memory first.         *)
Block(header, packed, props, data) ==
  [bytes |-> header \o packed \o Zeroes(Pad(Len(packed)))
               \o Digest(Hashed(HASH_INIT, data), XzFlags_GetCheckSize(props.checkId)),
   record |-> VarInt(Len(header) + Len(packed) + XzFlags_GetCheckSize(props.checkId)) \o VarInt(Len(data))]

Xz_CompressBlock(props, data) ==
  LET Header(packed) ==
        XzBlock_HeaderBytes([packSize |-> IF props.mt \/ props.sizes THEN Len(packed) ELSE NoSize,
                             unpackSize |-> IF props.mt \/ props.sizes THEN Len(data) ELSE NoSize,
                             filters |-> Append(props.filters, [id |-> XZ_ID_LZMA2,
                                                                props |-> <<Lzma2WriteProperties(props.lzma)>>])])
      Packed(packed) == Block(Header(packed), packed, props, data)
  IN  Packed(Lzma2Encode(props.lzma, FilteredBy(props.filters, data), 0))

(* XzEnc_Encode: block by block to the end of the data.  One thread finds the *)
(* end only by a read that gives nothing, so that data that fills its last    *)
(* block is followed by an empty one; several threads leave that one out.     *)
RECURSIVE Blocks(_, _)
Blocks(props, data) ==
  LET Size == IF props.blockSize = 0 THEN Len(data) + 1 ELSE props.blockSize
      Then(block) == IF Len(data) < Size THEN <<block>> ELSE <<block>> \o Blocks(props, Skipped(data, Size))
  IN  IF data = <<>> /\ props.mt THEN <<>> ELSE Then(Xz_CompressBlock(props, Taken(data, Smaller(Size, Len(data)))))

(* XzEncIndex_WriteFooter.                                                    *)
IndexAndFooter(checkId, records, n) ==
  LET Whole(index) == index \o CrcCalc(index) \o Footer(checkId, Len(index) + 4)
      Padded(index) == Whole(index \o Zeroes(Pad(Len(index))))
  IN  Padded(<<0>> \o VarInt(n) \o records)

Xz_Encode(props, data) ==
  LET All(blocks, Part(_)) == Seqs!FlattenSeq([i \in DOMAIN blocks |-> Part(blocks[i])])
      Stream(blocks) == StreamHeader(props.checkId) \o All(blocks, LAMBDA b : b.bytes)
                          \o IndexAndFooter(props.checkId, All(blocks, LAMBDA b : b.record), Len(blocks))
  IN  Stream(Blocks(props, data))

Xz_EncodeEmpty == StreamHeader(XZ_CHECK_NO) \o IndexAndFooter(XZ_CHECK_NO, <<>>, 0)
=============================================================================
