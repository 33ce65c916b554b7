------------------------------- MODULE XzDec --------------------------------
(* The XZ decoder, XzDec.c: CMixCoder, the coders of one block in a row, and  *)
(* CXzUnpacker, which takes the container apart byte by byte, however the     *)
(* bytes come and the output is asked for.                                    *)
EXTENDS Lzma2Dec, XzFilter

CONSTANT CODER_BUF_SIZE

ASSUME XzDecAssumption == CODER_BUF_SIZE \in 1 .. 2^17

-----------------------------------------------------------------------------
(* CMixCoder: coders[1] is LZMA2, the rest are filters, bufs what one has     *)
(* made and the next not taken.  In single mode (outBuf given) LZMA2 decodes  *)
(* into the output buffer, its dictionary, and the filters work there.        *)

NoBuf == [i \in {} |-> Unset]

MixCoder_Construct ==
  [ids |-> <<>>, coders |-> <<>>, single |-> FALSE, bufs |-> <<>>, finished |-> <<>>, results |-> <<>>,
   outWritten |-> 0, wasFinished |-> FALSE, res |-> "OK", status |-> "NOT_SPECIFIED"]

(* Lzma2State_SetProps and _Init.                                             *)
SizeOf(outBuf) == IF DOMAIN outBuf = {} THEN 0 ELSE CHOOSE n \in 1 .. 2^16 : DOMAIN outBuf = 0 .. n - 1

Lzma2Coder(z, f, outBuf) ==
  [id |-> XZ_ID_LZMA2,
   z |-> Lzma2DecInit(IF outBuf = NoBuf THEN Lzma2DecAllocate(z, f.props[1])
                      ELSE [z EXCEPT !.decoder.prop = Lzma2Prop(f.props[1]), !.decoder.dic = outBuf,
                                     !.decoder.dicBufSize = SizeOf(outBuf)])]

(* XzDecMix_Init: coders of the same kinds are used again, and with them the  *)
(* dictionary of the block before.                                            *)
XzDecMix_Init(m, block, outBuf) ==
  LET N == Len(block.filters)
      Filt(i) == block.filters[N + 1 - i]
      Ids == [i \in 1 .. N |-> Filt(i).id]
      Keep == m.ids = Ids /\ m.single = (outBuf # NoBuf)
  IN  [m EXCEPT !.ids = Ids, !.single = (outBuf # NoBuf),
         !.coders = [i \in 1 .. N |-> IF i = 1 THEN Lzma2Coder(IF Keep THEN m.coders[1].z ELSE Lzma2DecNew, Filt(1), outBuf)
                                      ELSE BcCoder(Filt(i), FALSE)],
         !.bufs = [i \in 1 .. N - 1 |-> <<>>], !.finished = [i \in 1 .. N - 1 |-> FALSE],
         !.results = [i \in 1 .. N |-> "OK"], !.outWritten = 0, !.wasFinished = FALSE, !.res = "OK",
         !.status = "NOT_SPECIFIED"]

MixPropsOk(block) == \A i \in 1 .. Len(block.filters) - 1 : BcPropsOk(block.filters[i])

(* What a call of the coders returns: the decoder afterwards, the bytes put   *)
(* out (or in single mode finished in the output buffer), and those read.     *)
Mixed(m, out, size, used, res) == [m |-> m, out |-> out, size |-> size, used |-> used, res |-> res]

RECURSIVE FilterAll(_, _, _, _, _)
FilterAll(m, i, data, processed, all) ==
  IF i > Len(m.coders) THEN [m |-> m, data |-> data, size |-> processed]
  ELSE LET Filtered(r) == FilterAll([m EXCEPT !.coders[i] = r.c], i + 1, r.data \o Skipped(data, processed),
                                    IF all THEN Len(data) ELSE r.size, all)
       IN  Filtered(Filter(m.coders[i], Taken(data, processed)))

MixSingleDone(m, r, room, destFinish, srcFinished) ==
  LET Made == r.p.decoder.dicPos - m.coders[1].z.decoder.dicPos
      Ended == r.status = "FINISHED_WITH_MARK"
      Done == [m EXCEPT !.coders[1].z = r.p, !.status = r.status, !.res = r.res, !.outWritten = @ + Made,
                        !.wasFinished = r.res # "OK" \/ srcFinished \/ Ended]
      Put(d) == Mixed([d.m EXCEPT !.coders[1].z.decoder.dic =
                         [i \in DOMAIN @ |-> IF i < Len(d.data) THEN d.data[i + 1] ELSE @[i]]], <<>>, d.size, r.used, r.res)
  IN  IF Len(m.coders) = 1 THEN Mixed(Done, <<>>, Made, r.used, r.res)
      ELSE IF ~Done.wasFinished THEN Mixed(Done, <<>>, 0, r.used, r.res)
      ELSE Put(FilterAll(Done, 2, DicOut(r.p.decoder.dic, 0, Done.outWritten), Done.outWritten,
                         Ended \/ (destFinish /\ Done.outWritten = room)))

MixSingle(m, room, destFinish, src, srcFinished, finish) ==
  LET Room == IF Len(m.coders) = 1 THEN room ELSE room - m.outWritten
  IN  IF Room < 0 THEN Mixed(m, <<>>, 0, 0, "FAIL")
      ELSE MixSingleDone(m, Lzma2DecodeToDic(m.coders[1].z, m.coders[1].z.decoder.dicPos + Room, src, finish),
                         room, destFinish, srcFinished)

(* One coder's turn; w holds the variables of MixCoder_Code.                  *)
Code2(c, room, src, srcFinished, finish) ==
  LET Lzma(r) == [c |-> [c EXCEPT !.z = r.p], out |-> r.out, used |-> r.used, status |-> r.status, res |-> r.res]
  IN  IF c.id = XZ_ID_LZMA2 THEN Lzma(Lzma2DecodeToBuf(c.z, room, src, finish)) ELSE BcCode2(c, room, src, srcFinished)

FirstError(resMain, res) == IF resMain = "OK" THEN res ELSE resMain

TurnDone(w, i, r) ==
  LET N == Len(w.m.coders)
      Ended == r.status = "FINISHED_WITH_MARK"
      Taking(v) == IF i = 1 THEN [v EXCEPT !.used = @ + r.used] ELSE [v EXCEPT !.m.bufs[i - 1] = Skipped(@, r.used)]
      Giving(v) == IF i = N THEN [v EXCEPT !.out = @ \o r.out]
                   ELSE [v EXCEPT !.m.bufs[i] = r.out, !.m.finished[i] = Ended]
  IN  Giving(Taking([w EXCEPT !.m.coders[i] = r.c, !.m.results[i] = r.res, !.resMain = FirstError(@, r.res),
                       !.allFinished = @ /\ Ended, !.m.status = IF ~Ended /\ N = 1 /\ r.res = "OK" THEN r.status ELSE @,
                       !.processed = @ \/ r.out # <<>> \/ r.used # 0]))

Turn(w, i) ==
  LET N == Len(w.m.coders)
  IN  CASE i < N /\ w.m.bufs[i] # <<>> -> w
        [] (i = N \/ w.m.bufs[i] = <<>>) /\ w.m.results[i] # "OK" -> [w EXCEPT !.resMain = FirstError(@, w.m.results[i])]
        [] OTHER -> TurnDone(w, i, Code2(w.m.coders[i], IF i = N THEN w.room - Len(w.out) ELSE CODER_BUF_SIZE,
                                         IF i = 1 THEN Skipped(w.src, w.used) ELSE w.m.bufs[i - 1],
                                         IF i = 1 THEN w.srcFinished ELSE w.m.finished[i - 1], w.finish))

RECURSIVE Turns(_, _)
Turns(w, i) == IF i > Len(w.m.coders) THEN w ELSE Turns(Turn(w, i), i + 1)

(* Round after round, until one in which nothing moves.                       *)
RECURSIVE Rounds(_)
Rounds(w) ==
  LET After(v) ==
        IF v.processed THEN Rounds(v)
        ELSE Mixed([v.m EXCEPT !.status = IF v.allFinished THEN "FINISHED_WITH_MARK" ELSE @],
                   v.out, Len(v.out), v.used, v.resMain)
  IN  After(Turns([w EXCEPT !.m.status = "NOT_FINISHED", !.processed = FALSE, !.allFinished = TRUE, !.resMain = "OK"], 1))

MixCoder_Code(m, room, destFinish, src, srcFinished, finish) ==
  IF m.wasFinished THEN Mixed(m, <<>>, 0, 0, m.res)
  ELSE IF m.single THEN MixSingle([m EXCEPT !.status = "NOT_FINISHED"], room, destFinish, src, srcFinished, finish)
  ELSE Rounds([m |-> m, src |-> src, room |-> room, srcFinished |-> srcFinished, used |-> 0, out |-> <<>>,
               finish |-> IF Len(m.coders) = 1 THEN finish ELSE "ANY",
               processed |-> TRUE, allFinished |-> FALSE, resMain |-> "OK"])

-----------------------------------------------------------------------------
(* CXzUnpacker.                                                               *)

NoBlock == [packSize |-> NoSize, unpackSize |-> NoSize, filters |-> <<>>]

XzUnpacker_Construct ==
  [state |-> "STREAM_HEADER", pos |-> 0, alignPos |-> 0, indexPreSize |-> 0, streamFlags |-> 0,
   blockHeaderSize |-> 0, packSize |-> 0, unpackSize |-> 0, numBlocks |-> 0, indexSize |-> 0, indexPos |-> 0,
   padSize |-> 0, numStartedStreams |-> 0, numFinishedStreams |-> 0, numTotalBlocks |-> 0, crc |-> HASH_INIT,
   decoder |-> MixCoder_Construct, block |-> NoBlock, check |-> HASH_INIT, sha |-> HASH_INIT, shaDigest |-> HASH_INIT,
   parseMode |-> FALSE, headerParsedOk |-> FALSE, decodeToStreamSignature |-> FALSE, decodeOnlyOneBlock |-> FALSE,
   outBuf |-> NoBuf, outDataWritten |-> 0, buf |-> <<>>]

XzUnpacker_Init(u) ==
  [u EXCEPT !.state = "STREAM_HEADER", !.pos = 0, !.numStartedStreams = 0, !.numFinishedStreams = 0,
            !.numTotalBlocks = 0, !.padSize = 0, !.decodeOnlyOneBlock = FALSE, !.parseMode = FALSE,
            !.decodeToStreamSignature = FALSE, !.outDataWritten = 0, !.buf = <<>>]

XzUnpacker_SetOutBuf(u, outBuf) == [u EXCEPT !.outBuf = outBuf]

XzUnpacker_PrepareToRandomBlockDecoding(u) ==
  [u EXCEPT !.indexSize = 0, !.numBlocks = 0, !.sha = HASH_INIT, !.state = "BLOCK_HEADER", !.pos = 0,
            !.decodeOnlyOneBlock = TRUE, !.buf = <<>>]

XzUnpacker_UpdateIndex(u, packSize, unpackSize) ==
  LET Add(b) == [u EXCEPT !.sha = Hashed(@, b), !.indexSize = @ + Len(b), !.numBlocks = @ + 1]
  IN  Add(VarInt(packSize) \o VarInt(unpackSize))

XzUnpacker_IsBlockFinished(u)     == u.state = "BLOCK_HEADER" /\ u.pos = 0
XzUnpacker_IsStreamWasFinished_AtBlock(u) == u.state \in {"STREAM_PADDING", "BLOCK_HEADER"} /\ u.padSize % 4 = 0
XzUnpacker_IsStreamWasFinished(u) == u.state = "STREAM_PADDING" /\ u.padSize % 4 = 0
XzUnpacker_GetExtraSize(u) ==
  CASE u.state = "STREAM_PADDING" -> u.padSize
    [] u.state = "STREAM_HEADER" -> u.padSize + u.pos
    [] u.state \notin {"STREAM_PADDING", "STREAM_HEADER"} -> 0

(* XzUnpacker_Code; x holds its variables, and ends tells that it returns.    *)
XzEnd(x, status, res) == [x EXCEPT !.ends = TRUE, !.status = status, !.res = res]
XzError(x, res)       == XzEnd(x, "NOT_SPECIFIED", res)
NextByte(x)           == x.src[x.used + 1]
SrcRem(x)             == Len(x.src) - x.used
Eat(x, n)             == [x EXCEPT !.used = @ + n]

(* n bytes of the source into buf.                                            *)
Buffered(x, n) == [Eat(x, n) EXCEPT !.u.buf = @ \o SubSeq(x.src, x.used + 1, x.used + n), !.u.pos = @ + n]

(* XZ_STATE_BLOCK.                                                            *)
BlockEnded(x) ==
  LET Ends(y) ==
        IF \/ y.u.block.packSize # NoSize /\ y.u.block.packSize # y.u.packSize
           \/ y.u.block.unpackSize # NoSize /\ y.u.block.unpackSize # y.u.unpackSize
          THEN XzError(y, "DATA") ELSE y
      Index(u) == XzUnpacker_UpdateIndex(u, u.packSize + u.blockHeaderSize + XzFlags_GetCheckSize(u.streamFlags), u.unpackSize)
  IN  Ends([x EXCEPT !.u = [Index(x.u) EXCEPT !.state = "BLOCK_FOOTER", !.pos = 0, !.alignPos = 0, !.buf = <<>>]])

BlockCoded(x, r) ==
  CASE r.res # "OK" -> XzEnd(x, r.m.status, r.res)
    [] r.res = "OK" /\ r.m.status = "FINISHED_WITH_MARK" -> BlockEnded(x)
    [] r.res = "OK" /\ r.m.status # "FINISHED_WITH_MARK" ->
         IF x.u.block.packSize = x.u.packSize /\ r.m.status = "NEEDS_MORE_INPUT" THEN XzError(x, "DATA")
         ELSE XzEnd(x, r.m.status, "OK")

BlockStep(x) ==
  LET PackRem == x.u.block.packSize - x.u.packSize
      UnpackRem == x.u.block.unpackSize - x.u.unpackSize
      PackEnds == x.u.block.packSize # NoSize /\ SrcRem(x) >= PackRem
      DestFinish == x.u.block.unpackSize # NoSize /\ x.room - x.size >= UnpackRem
      Bytes(r) == IF x.u.outBuf = NoBuf THEN r.out
                  ELSE DicOut(r.m.coders[1].z.decoder.dic, x.u.outDataWritten, x.u.outDataWritten + r.size)
      Done(r) == BlockCoded([Eat(x, r.used) EXCEPT !.out = @ \o r.out, !.size = @ + r.size,
                     !.u.decoder = r.m, !.u.check = Hashed(@, Bytes(r)), !.u.outDataWritten = @ + r.size,
                     !.u.packSize = @ + r.used, !.u.unpackSize = @ + r.size,
                     !.u.outBuf = IF @ = NoBuf THEN @ ELSE r.m.coders[1].z.decoder.dic], r)
  IN  IF x.u.block.packSize # NoSize /\ PackRem = 0 /\ UnpackRem = 0 THEN XzError(x, "DATA")
      ELSE Done(MixCoder_Code(x.u.decoder, IF DestFinish THEN UnpackRem ELSE x.room - x.size, DestFinish,
                              Taken(Skipped(x.src, x.used), IF PackEnds THEN PackRem ELSE SrcRem(x)),
                              PackEnds \/ x.srcFinished, IF DestFinish THEN "END" ELSE x.finish))

(* XZ_STATE_STREAM_HEADER.                                                    *)
StreamHeaderStep(x) ==
  LET Parsed(h) ==
        IF h.res # "OK" THEN XzError([x EXCEPT !.u.streamFlags = h.flags], h.res)
        ELSE [x EXCEPT !.u.streamFlags = h.flags, !.u.numStartedStreams = @ + 1, !.u.indexSize = 0, !.u.numBlocks = 0,
                       !.u.sha = HASH_INIT, !.u.state = "BLOCK_HEADER", !.u.pos = 0, !.u.buf = <<>>]
  IN  IF x.u.pos = XZ_STREAM_HEADER_SIZE THEN Parsed(Xz_ParseHeader(x.u.buf))
      ELSE IF x.u.pos < Len(XZ_SIG) /\ NextByte(x) # XZ_SIG[x.u.pos + 1] THEN XzError(x, "NO_ARCHIVE")
      ELSE IF x.u.decodeToStreamSignature THEN XzError(x, "OK")
      ELSE Buffered(x, 1)

(* XZ_STATE_BLOCK_HEADER: a size of zero is the index.                        *)
IndexBegins(x) ==
  LET Pre(b) == [x EXCEPT !.u.buf = b, !.u.indexPreSize = Len(b), !.u.indexPos = Len(b), !.u.indexSize = @ + Len(b),
                          !.u.shaDigest = x.u.sha, !.u.sha = HASH_INIT, !.u.crc = Hashed(HASH_INIT, b),
                          !.u.state = "STREAM_INDEX"]
  IN  IF x.u.decodeOnlyOneBlock THEN XzError(x, "DATA") ELSE Pre(<<0>> \o VarInt(x.u.numBlocks))

BlockHeaderParsed(x, b) ==
  LET Started(y) ==
        CASE y.u.parseMode -> XzError([y EXCEPT !.u.headerParsedOk = TRUE], "OK")
          [] ~y.u.parseMode /\ ~MixPropsOk(b.block) -> XzError(y, "UNSUPPORTED")
          [] ~y.u.parseMode /\ MixPropsOk(b.block) ->
               [y EXCEPT !.u.decoder = XzDecMix_Init(@, b.block, y.u.outBuf)]
  IN  CASE b.res # "OK" -> XzError([x EXCEPT !.u.block = b.block], b.res)
        [] b.res = "OK" /\ ~XzBlock_AreSupportedFilters(b.block) -> XzError([x EXCEPT !.u.block = b.block], "UNSUPPORTED")
        [] OTHER -> Started([x EXCEPT !.u.block = b.block, !.u.numTotalBlocks = @ + 1, !.u.state = "BLOCK",
                                      !.u.packSize = 0, !.u.unpackSize = 0, !.u.check = HASH_INIT])

BlockHeaderStep(x) ==
  CASE x.u.pos = 0 -> IF NextByte(x) = 0 THEN IndexBegins(Buffered(x, 1))
                      ELSE [Buffered(x, 1) EXCEPT !.u.blockHeaderSize = NextByte(x) * 4 + 4]
    [] x.u.pos # 0 /\ x.u.pos # x.u.blockHeaderSize -> Buffered(x, Smaller(x.u.blockHeaderSize - x.u.pos, SrcRem(x)))
    [] x.u.pos # 0 /\ x.u.pos = x.u.blockHeaderSize -> BlockHeaderParsed(x, XzBlock_Parse(x.u.buf, x.u.blockHeaderSize - 4))

(* XZ_STATE_BLOCK_FOOTER: zeroes up to a multiple of four, then the check.    *)
BlockFooterStep(x) ==
  LET CheckSize == XzFlags_GetCheckSize(x.u.streamFlags)
      Final(y) ==
        IF HasCheck(y.u.streamFlags) /\ x.u.buf # Digest(y.u.check, CheckSize) THEN XzError(y, "CRC")
        ELSE IF x.u.decodeOnlyOneBlock THEN XzEnd(y, "FINISHED_WITH_MARK", "OK")
        ELSE y
  IN  CASE (x.u.packSize + x.u.alignPos) % 4 # 0 ->
             IF SrcRem(x) = 0 THEN XzEnd(x, "NEEDS_MORE_INPUT", "OK")
             ELSE IF NextByte(x) # 0 THEN XzError([Eat(x, 1) EXCEPT !.u.alignPos = @ + 1], "CRC")
             ELSE [Eat(x, 1) EXCEPT !.u.alignPos = @ + 1]
        [] (x.u.packSize + x.u.alignPos) % 4 = 0 /\ x.u.pos # CheckSize ->
             IF SrcRem(x) = 0 THEN XzEnd(x, "NEEDS_MORE_INPUT", "OK")
             ELSE Buffered(x, Smaller(CheckSize - x.u.pos, SrcRem(x)))
        [] OTHER -> Final([x EXCEPT !.u.state = "BLOCK_HEADER", !.u.pos = 0, !.u.buf = <<>>])

(* XZ_STATE_STREAM_INDEX: the index must be the one the blocks amount to.     *)
IndexRead(x, n) ==
  LET Read(b) == [Eat(x, n) EXCEPT !.u.crc = Hashed(@, b), !.u.sha = Hashed(@, b), !.u.indexPos = @ + n]
  IN  Read(SubSeq(x.src, x.used + 1, x.used + n))

IndexStep(x) ==
  CASE x.u.pos < x.u.indexPreSize ->
         IF NextByte(x) # x.u.buf[x.u.pos + 1] THEN XzError([Eat(x, 1) EXCEPT !.u.pos = @ + 1], "CRC")
         ELSE [Eat(x, 1) EXCEPT !.u.pos = @ + 1]
    [] x.u.pos >= x.u.indexPreSize /\ x.u.indexPos < x.u.indexSize ->
         IndexRead(x, Smaller(x.u.indexSize - x.u.indexPos, SrcRem(x)))
    [] x.u.pos >= x.u.indexPreSize /\ x.u.indexPos >= x.u.indexSize /\ x.u.indexPos % 4 # 0 ->
         LET Padding(y) == IF NextByte(x) # 0 THEN XzError(y, "CRC") ELSE y
         IN  Padding([Eat(x, 1) EXCEPT !.u.crc = Hashed(@, <<NextByte(x)>>), !.u.indexPos = @ + 1, !.u.indexSize = @ + 1])
    [] OTHER ->
         LET Ends(y) == IF x.u.sha # x.u.shaDigest THEN XzError(y, "CRC") ELSE y
         IN  Ends([x EXCEPT !.u.state = "STREAM_INDEX_CRC", !.u.indexSize = @ + 4, !.u.pos = 0, !.u.buf = <<>>])

IndexCrcStep(x) ==
  LET Ends(y) == IF x.u.buf # Digest(y.u.crc, 4) THEN XzError(y, "CRC") ELSE y
  IN  IF x.u.pos < 4 THEN Buffered(x, 1)
      ELSE Ends([x EXCEPT !.u.state = "STREAM_FOOTER", !.u.pos = 0, !.u.buf = <<>>])

FooterStep(x) ==
  LET Ends(y) == IF Xz_CheckFooter(y.u.streamFlags, y.u.indexSize, y.u.buf) THEN y ELSE XzError(y, "CRC")
      Read(y) == IF y.u.pos < XZ_STREAM_FOOTER_SIZE THEN y
                 ELSE Ends([y EXCEPT !.u.state = "STREAM_PADDING", !.u.numFinishedStreams = @ + 1, !.u.padSize = 0])
  IN  Read(Buffered(x, Smaller(XZ_STREAM_FOOTER_SIZE - x.u.pos, SrcRem(x))))

PaddingStep(x) ==
  CASE NextByte(x) = 0 -> [Eat(x, 1) EXCEPT !.u.padSize = @ + 1]
    [] NextByte(x) # 0 /\ x.u.padSize % 4 # 0 -> XzError(x, "NO_ARCHIVE")
    [] NextByte(x) # 0 /\ x.u.padSize % 4 = 0 -> [x EXCEPT !.u.pos = 0, !.u.buf = <<>>, !.u.state = "STREAM_HEADER"]

XzStep(x) ==
  CASE x.u.state = "BLOCK" -> BlockStep(x)
    [] x.u.state = "BLOCK_FOOTER" -> BlockFooterStep(x)
    [] x.u.state \notin {"BLOCK", "BLOCK_FOOTER"} /\ SrcRem(x) = 0 -> XzEnd(x, "NEEDS_MORE_INPUT", "OK")
    [] x.u.state = "STREAM_HEADER" /\ SrcRem(x) # 0 -> StreamHeaderStep(x)
    [] x.u.state = "BLOCK_HEADER" /\ SrcRem(x) # 0 -> BlockHeaderStep(x)
    [] x.u.state = "STREAM_INDEX" /\ SrcRem(x) # 0 -> IndexStep(x)
    [] x.u.state = "STREAM_INDEX_CRC" /\ SrcRem(x) # 0 -> IndexCrcStep(x)
    [] x.u.state = "STREAM_FOOTER" /\ SrcRem(x) # 0 -> FooterStep(x)
    [] x.u.state = "STREAM_PADDING" /\ SrcRem(x) # 0 -> PaddingStep(x)

RECURSIVE XzLoop(_)
XzLoop(x) == LET Next(y) == IF y.ends THEN y ELSE XzLoop(y) IN Next(XzStep(x))

XzUnpacker_Code(u, room, src, srcFinished, finish) ==
  XzLoop([u |-> u, src |-> src, room |-> room, srcFinished |-> srcFinished, finish |-> finish,
          used |-> 0, out |-> <<>>, size |-> 0, ends |-> FALSE, status |-> "NOT_SPECIFIED", res |-> "OK"])

(* An output buffer of n bytes; an empty one still has an address.            *)
OutBuf(n) == [i \in 0 .. (IF n = 0 THEN 0 ELSE n - 1) |-> Unset]

(* XzUnpacker_CodeFull: all the input in one call, into a buffer of n bytes.  *)
XzUnpacker_CodeFull(n, src, finish) ==
  XzUnpacker_Code(XzUnpacker_SetOutBuf(XzUnpacker_Init(XzUnpacker_Construct), OutBuf(n)), n, src, TRUE, finish)
=============================================================================
