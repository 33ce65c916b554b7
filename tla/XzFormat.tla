------------------------------ MODULE XzFormat ------------------------------
(* What the encoder (XzEnc.c) and the decoders (XzDec.c, XzIn.c) of the XZ    *)
(* container share: Xz.c, Xz.h and the headers.                               *)
EXTENDS LzmaBase

Seqs == INSTANCE SequencesExt

(* The CRC32, CRC64 and SHA-256 of a sequence of bytes, kept as one number    *)
(* that any change of one byte changes; a digest fills its bytes with it.  (h *)
(* is looked at so that TLC computes it byte by byte.)                        *)
RECURSIVE Hashed(_, _)
Hashed(h, bytes) ==
  IF h < 0 \/ bytes = <<>> THEN h ELSE Hashed((h * 31 + Head(bytes) + 1) % 65521, Tail(bytes))

HASH_INIT == 1
Digest(h, size) == [i \in 1 .. size |-> IF i <= 2 THEN (h \div 256^(i - 1)) % 256 ELSE i]
CrcCalc(bytes)  == Digest(Hashed(HASH_INIT, bytes), 4)

XZ_SIG                == <<253, 55, 122, 88, 90, 0>>
XZ_FOOTER_SIG         == <<89, 90>>
XZ_STREAM_HEADER_SIZE == 12
XZ_STREAM_FOOTER_SIZE == 12
XZ_CHECK_NO           == 0
XZ_ID_Delta           == 3
XZ_ID_ARM             == 7
XZ_ID_LZMA2           == 33
XZ_FILTER_PROPS_SIZE_MAX == 20
NoSize                == -1             \* (UInt64)(Int64)-1

XzFlags_IsSupported(f)   == f <= 15
XzFlags_GetCheckSize(f)  == IF f % 16 = 0 THEN 0 ELSE 4 * 2^(((f % 16) - 1) \div 3)

(* XzCheck_Final has a digest only for the checks that XzCheck_Init knows.    *)
HasCheck(f) == f % 16 \in {1, 4, 10}

Pad(n)     == (-n) % 4                  \* XZ_GET_PAD_SIZE
Zeroes(n)  == [i \in 1 .. n |-> 0]
AllZero(s) == \A i \in DOMAIN s : s[i] = 0

(* Xz_WriteVarInt; Xz_ReadVarInt as [size, value], of size 0 when there is no *)
(* number, or not its shortest form.                                          *)
RECURSIVE VarInt(_)
VarInt(v) == IF v < 128 THEN <<v>> ELSE <<128 + (v % 128)>> \o VarInt(v \div 128)

RECURSIVE ReadVarIntFrom(_, _, _, _)
ReadVarIntFrom(s, i, limit, value) ==
  CASE i > limit -> [size |-> 0, value |-> value]
    [] i <= limit /\ s[i] >= 128 -> ReadVarIntFrom(s, i + 1, limit, value + (s[i] % 128) * 128^(i - 1))
    [] i <= limit /\ s[i] < 128 -> [size |-> IF s[i] = 0 /\ i # 1 THEN 0 ELSE i, value |-> value + s[i] * 128^(i - 1)]

Xz_ReadVarInt(s) == ReadVarIntFrom(s, 1, Smaller(9, Len(s)), 0)

-----------------------------------------------------------------------------
(* The stream header and footer.                                              *)

StreamFlags(f) == <<f \div 256, f % 256>>
BigEndian16Of(s) == s[1] * 256 + s[2]

StreamHeader(f) == XZ_SIG \o StreamFlags(f) \o CrcCalc(StreamFlags(f))

(* Xz_ParseHeader: an error, or "OK" and the flags.                           *)
Xz_ParseHeader(buf) ==
  LET Flags(f) == [flags |-> f, res |-> CASE SubSeq(buf, 9, 12) # CrcCalc(SubSeq(buf, 7, 8)) -> "NO_ARCHIVE"
                                          [] SubSeq(buf, 9, 12) = CrcCalc(SubSeq(buf, 7, 8)) ->
                                               IF XzFlags_IsSupported(f) THEN "OK" ELSE "UNSUPPORTED"]
  IN  Flags(BigEndian16Of(SubSeq(buf, 7, 8)))

Footer(f, indexSize) ==
  LET Body(b) == CrcCalc(b) \o b \o XZ_FOOTER_SIG
  IN  Body(ToBytes(indexSize \div 4 - 1, 4) \o StreamFlags(f))

(* Xz_CheckFooter.                                                            *)
Xz_CheckFooter(f, indexSize, buf) == buf = Footer(f, indexSize)

-----------------------------------------------------------------------------
(* The block header: the sizes of the block, NoSize where it does not say     *)
(* them, and its filters, in the order in which data is encoded.              *)

XzBlock_HeaderBytes(block) ==
  LET Filter(f) == VarInt(f.id) \o VarInt(Len(f.props)) \o f.props
      Filters == Seqs!FlattenSeq([i \in DOMAIN block.filters |-> Filter(block.filters[i])])
      Size(n) == IF n = NoSize THEN <<>> ELSE VarInt(n)
      Flags == Len(block.filters) - 1 + (IF block.packSize = NoSize THEN 0 ELSE 64)
                 + (IF block.unpackSize = NoSize THEN 0 ELSE 128)
      Whole(b) == b \o CrcCalc(b)
      Padded(b) == Whole(<<(Len(b) + 1 + Pad(Len(b) + 1)) \div 4>> \o b \o Zeroes(Pad(Len(b) + 1)))
  IN  Padded(<<Flags>> \o Size(block.packSize) \o Size(block.unpackSize) \o Filters)

(* XzBlock_Parse: r is [block, rest, res], rest the header not yet read.      *)
TakeVarInt(r, Use(_, _)) ==
  IF r.res # "OK" THEN r
  ELSE LET Got(v) == IF v.size = 0 THEN [r EXCEPT !.res = "ARCHIVE"]
                     ELSE Use([r EXCEPT !.rest = Skipped(@, v.size)], v.value)
       IN  Got(Xz_ReadVarInt(r.rest))

ParseFilter(r) ==
  LET Props(q, id, size) ==
        IF size > Len(q.rest) \/ size > XZ_FILTER_PROPS_SIZE_MAX THEN [q EXCEPT !.res = "ARCHIVE"]
        ELSE [q EXCEPT !.block.filters = Append(@, [id |-> id, props |-> Taken(q.rest, size)]),
                       !.rest = Skipped(@, size)]
      Id(q, id) == TakeVarInt(q, LAMBDA t, size : Props(t, id, size))
  IN  TakeVarInt(r, Id)

RECURSIVE ParseFilters(_, _)
ParseFilters(r, n) == IF n = 0 \/ r.res # "OK" THEN r ELSE ParseFilters(ParseFilter(r), n - 1)

XzBlock_Parse(header, headerSize) ==
  LET Ends(r, flags) ==
        IF r.res # "OK" THEN r
        ELSE [r EXCEPT !.res = IF (flags \div 4) % 16 # 0 THEN "UNSUPPORTED"
                               ELSE IF AllZero(r.rest) THEN "OK" ELSE "ARCHIVE"]
      PackSize(r, v) == IF v = 0 THEN [r EXCEPT !.res = "ARCHIVE"] ELSE [r EXCEPT !.block.packSize = v]
      UnpackSize(r, v) == [r EXCEPT !.block.unpackSize = v]
      Pack(r, flags) == IF (flags \div 64) % 2 = 1 THEN TakeVarInt(r, PackSize) ELSE r
      Unpack(r, flags) == IF flags >= 128 THEN TakeVarInt(r, UnpackSize) ELSE r
      Body(r, flags) == Ends(ParseFilters(Unpack(Pack(r, flags), flags), (flags % 4) + 1), flags)
      Empty == [packSize |-> NoSize, unpackSize |-> NoSize, filters |-> <<>>]
  IN  IF SubSeq(header, headerSize + 1, headerSize + 4) # CrcCalc(Taken(header, headerSize))
        THEN [block |-> Empty, rest |-> <<>>, res |-> "ARCHIVE"]
        ELSE Body([block |-> Empty, rest |-> SubSeq(header, 3, headerSize), res |-> "OK"], header[2])

(* XzBlock_AreSupportedFilters.                                               *)
XzBlock_AreSupportedFilters(block) ==
  \A i \in DOMAIN block.filters : LET f == block.filters[i] IN
    IF i = Len(block.filters) THEN f.id = XZ_ID_LZMA2 /\ Len(f.props) = 1 /\ f.props[1] <= 40
    ELSE f.id \in XZ_ID_Delta .. 11 /\ Len(f.props) \in (IF f.id = XZ_ID_Delta THEN {1} ELSE {0, 4})
=============================================================================
