-------------------------------- MODULE XzIn --------------------------------
(* Reading an .xz file backwards, XzIn.c: from its end, stream by stream, by  *)
(* the footers and the indexes alone, without decoding a block.               *)
EXTENDS XzFormat

CONSTANTS
  TEMP_BUF_SIZE,                       \* padding is read in pieces of this size
  XZ_STREAM_BACKWARD_READING_PAD_MAX   \* and no more of it than this is skipped

ASSUME BackwardAssumption ==
  TEMP_BUF_SIZE \in Nat \ {0} /\ TEMP_BUF_SIZE % 4 = 0 /\ XZ_STREAM_BACKWARD_READING_PAD_MAX \in Nat

(* LookInStream_SeekTo and LookInStream_Read: n bytes from a position.        *)
Slice(file, pos, n) == SubSeq(file, pos + 1, pos + n)

(* Xz_GetUnpackSize, Xz_GetPackSize.                                          *)
TotalOf(blocks, Size(_)) == Seqs!FoldLeft(LAMBDA total, b : total + Size(b), 0, blocks)
Xz_GetUnpackSize(blocks) == TotalOf(blocks, LAMBDA b : b.unpackSize)
Xz_GetPackSize_NotPadded(blocks) == TotalOf(blocks, LAMBDA b : b.totalSize)
Xz_GetPackSize(blocks)   == TotalOf(blocks, LAMBDA b : b.totalSize + Pad(b.totalSize))

-----------------------------------------------------------------------------
(* Xz_ParseIndex over r = [rest, blocks, res]: a record of the index.         *)
IndexRecord(r) ==
  LET Is(total, unpack) ==
        IF total.size = 0 \/ unpack.size = 0 \/ total.value = 0 THEN [r EXCEPT !.res = "ARCHIVE"]
        ELSE [r EXCEPT !.rest = Skipped(@, total.size + unpack.size),
                       !.blocks = Append(@, [totalSize |-> total.value, unpackSize |-> unpack.value])]
      Second(total) == Is(total, Xz_ReadVarInt(Skipped(r.rest, total.size)))
  IN  IF r.res = "OK" THEN Second(Xz_ReadVarInt(r.rest)) ELSE r

Xz_ParseIndex(buf) ==
  LET Ends(r) == IF r.res = "OK" /\ (Len(r.rest) >= 4 \/ ~AllZero(r.rest)) THEN [r EXCEPT !.res = "ARCHIVE"] ELSE r
      Records(n, rest) ==
        IF n.size = 0 \/ n.value * 2 > Len(rest) - n.size THEN [rest |-> rest, blocks |-> <<>>, res |-> "ARCHIVE"]
        ELSE Ends(Seqs!FoldLeft(LAMBDA r, k : IndexRecord(r), [rest |-> Skipped(rest, n.size), blocks |-> <<>>, res |-> "OK"],
                                [k \in 1 .. n.value |-> k]))
      Body(rest) == Records(Xz_ReadVarInt(rest), rest)
  IN  IF Len(buf) < 5 \/ buf[1] # 0 \/ Slice(buf, Len(buf) - 4, 4) # CrcCalc(Taken(buf, Len(buf) - 4))
        THEN [rest |-> buf, blocks |-> <<>>, res |-> "ARCHIVE"]
        ELSE Body(Slice(buf, 1, Len(buf) - 5))

-----------------------------------------------------------------------------
(* Xz_ReadBackward: the stream that ends at startOffset as [res, flags,       *)
(* blocks, start], start where it begins.                                     *)
NotRead(res) == [res |-> res, flags |-> 0, blocks |-> <<>>, start |-> 0]

HasFooter(file, pos) == pos >= 0 /\ Slice(file, pos + 10, 2) = XZ_FOOTER_SIG

(* Where the zeroes before pos begin, by words of four bytes: -1 when there   *)
(* are too many.  The loop takes it for granted that there is something       *)
(* before the zeroes; what it does at the beginning of the file is undefined. *)
NothingBefore == -2
TooMuch == -1

RECURSIVE SkipPadding(_, _, _)
SkipPadding(file, startOffset, pos) ==
  LET n == Smaller(TEMP_BUF_SIZE, pos)
      Words == {k \in 1 .. n \div 4 : ~AllZero(Slice(file, pos - n + 4 * (k - 1), 4))}
      End == pos - n + 4 * (IF Words = {} THEN 0 ELSE CHOOSE k \in Words : \A j \in Words : j <= k)
  IN  CASE pos = 0 -> NothingBefore
        [] pos > 0 /\ startOffset - End > XZ_STREAM_BACKWARD_READING_PAD_MAX -> TooMuch
        [] OTHER -> IF Words # {} THEN End ELSE SkipPadding(file, startOffset, End)

(* Xz_ReadHeader, at the start that the index has given.                      *)
Xz_ReadHeader(file, pos) ==
  IF Slice(file, pos, 6) # XZ_SIG THEN [flags |-> 0, res |-> "NO_ARCHIVE"]
  ELSE Xz_ParseHeader(Slice(file, pos, XZ_STREAM_HEADER_SIZE))

IndexOf(file, pos, flags, index) ==
  LET Start == pos - Xz_GetPackSize(index.blocks) - XZ_STREAM_HEADER_SIZE
      Headed(header) == [NotRead(IF header.res = "OK" /\ header.flags # flags THEN "ARCHIVE" ELSE header.res)
                           EXCEPT !.flags = flags, !.blocks = index.blocks, !.start = Start]
  IN  CASE index.res # "OK" -> NotRead(index.res)
        [] index.res = "OK" /\ Start < 0 -> NotRead("ARCHIVE")
        [] OTHER -> Headed(Xz_ReadHeader(file, Start))

FooterOf(file, pos, footer) ==
  LET Flags == BigEndian16Of(Slice(footer, 8, 2))
      Size == (LittleEndian(Slice(footer, 4, 4)) + 1) * 4
  IN  CASE ~XzFlags_IsSupported(Flags) -> NotRead("UNSUPPORTED")
        [] XzFlags_IsSupported(Flags) /\ (Taken(footer, 4) # CrcCalc(Slice(footer, 4, 6)) \/ pos < Size) -> NotRead("ARCHIVE")
        [] OTHER -> IndexOf(file, pos - Size, Flags, Xz_ParseIndex(Slice(file, pos - Size, Size)))

Xz_ReadBackward(file, startOffset) ==
  LET Footed(pos) == FooterOf(file, pos, Slice(file, pos, XZ_STREAM_FOOTER_SIZE))
      Before(pos) == CASE pos = NothingBefore -> NotRead("UNDEFINED")
                       [] pos # NothingBefore /\ ~HasFooter(file, pos - XZ_STREAM_FOOTER_SIZE) -> NotRead("NO_ARCHIVE")
                       [] OTHER -> Footed(pos - XZ_STREAM_FOOTER_SIZE)
  IN  CASE startOffset % 4 # 0 \/ startOffset < XZ_STREAM_FOOTER_SIZE -> NotRead("NO_ARCHIVE")
        [] startOffset % 4 = 0 /\ HasFooter(file, startOffset - XZ_STREAM_FOOTER_SIZE) ->
             Footed(startOffset - XZ_STREAM_FOOTER_SIZE)
        [] OTHER -> Before(SkipPadding(file, startOffset, startOffset))

(* Xzs_ReadBackward: the streams from the last to the first.                  *)
RECURSIVE StreamsBefore(_, _, _)
StreamsBefore(file, startOffset, streams) ==
  LET Next(s) == CASE s.res # "OK" -> [res |-> s.res, streams |-> streams]
                   [] s.res = "OK" /\ s.start = 0 -> [res |-> "OK", streams |-> Append(streams, s)]
                   [] OTHER -> StreamsBefore(file, s.start, Append(streams, s))
  IN  Next(Xz_ReadBackward(file, startOffset))

Xzs_ReadBackward(file) == StreamsBefore(file, Len(file), <<>>)

Xzs_GetNumBlocks(streams)  == TotalOf(streams, LAMBDA s : Len(s.blocks))
Xzs_GetUnpackSize(streams) == TotalOf(streams, LAMBDA s : Xz_GetUnpackSize(s.blocks))

(* XzBlock_ReadHeader: a block's header, or the index, by its first byte.     *)
XzBlock_ReadHeader(file, pos) ==
  LET Size == file[pos + 1] * 4 + 4
      Parsed(r) == [isIndex |-> FALSE, headerSize |-> Size, block |-> r.block, res |-> r.res]
  IN  CASE file[pos + 1] = 0 -> [isIndex |-> TRUE, headerSize |-> 1, block |-> [unpackSize |-> NoSize], res |-> "OK"]
        [] file[pos + 1] # 0 /\ pos + Size > Len(file) ->
             [isIndex |-> FALSE, headerSize |-> Size, block |-> [unpackSize |-> NoSize], res |-> "INPUT_EOF"]
        [] OTHER -> Parsed(XzBlock_Parse(Slice(file, pos, Size), Size - 4))
=============================================================================
