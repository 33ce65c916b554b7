------------------------------ MODULE Lzma2Dec ------------------------------
(* The LZMA2 decoder, Lzma2Dec.c: chunks with a header each, copied or packed *)
(* with LZMA, of which every one says how much of the decoder it resets.      *)
EXTENDS LzmaDec

LZMA2_LCLP_MAX == 4
LZMA2_CONTROL_COPY_RESET_DIC == 1

(* LZMA2_DIC_SIZE_FROM_PROP: 2^n or 3 * 2^n, from the smallest one up.        *)
DicSizeFromProp(prop) == (2 + (prop % 2)) * (LZMA_DIC_MIN \div 2) * 2^(prop \div 2)

(* Lzma2Dec_Construct, Lzma2Dec_Allocate (Lzma2Dec_GetOldProps: lc and lp     *)
(* come with the chunks), Lzma2Dec_Init.                                      *)
Lzma2DecNew == [decoder |-> LzmaDecNew, state |-> "CONTROL", control |-> 0, needInitLevel |-> 0,
                unpackSize |-> 0, packSize |-> 0]

Lzma2PropOk(prop) == prop <= 40

Lzma2Prop(prop) == [lc |-> LZMA2_LCLP_MAX, lp |-> 0, pb |-> 0, dicSize |-> DicSizeFromProp(prop)]

Lzma2DecAllocate(z, prop) == [z EXCEPT !.decoder = LzmaDecAllocate(@, Lzma2Prop(prop))]

Lzma2DecInit(z) == [z EXCEPT !.state = "CONTROL", !.needInitLevel = 224, !.unpackSize = 0, !.decoder = LzmaDecInit(@)]

IsUncompressed(z) == z.control < 128

(* Lzma2Dec_UpdateState: one byte of a chunk's header.                        *)
ControlByte(z, b) ==
  CASE b = 0 -> [z EXCEPT !.control = b, !.state = "FINISHED"]
    [] b = LZMA2_CONTROL_COPY_RESET_DIC -> [z EXCEPT !.control = b, !.needInitLevel = 192, !.state = "UNPACK0"]
    [] b \in 2 .. 127 -> [z EXCEPT !.control = b, !.state = IF b > 2 \/ z.needInitLevel = 224 THEN "ERROR" ELSE "UNPACK0"]
    [] b >= 128 -> IF b < z.needInitLevel THEN [z EXCEPT !.control = b, !.state = "ERROR"]
                   ELSE [z EXCEPT !.control = b, !.needInitLevel = 0, !.unpackSize = (b % 32) * 65536, !.state = "UNPACK0"]

PropByte(z, b) ==
  IF b >= 9 * 5 * 5 \/ (b % 9) + ((b \div 9) % 5) > LZMA2_LCLP_MAX
    THEN [z EXCEPT !.state = "ERROR", !.decoder.prop.pb = IF b >= 9 * 5 * 5 THEN @ ELSE b \div 45]
    ELSE [z EXCEPT !.state = "DATA", !.decoder.prop.lc = b % 9, !.decoder.prop.lp = (b \div 9) % 5,
                   !.decoder.prop.pb = b \div 45]

UpdateState(z, b) ==
  CASE z.state = "CONTROL" -> ControlByte(z, b)
    [] z.state = "UNPACK0" -> [z EXCEPT !.unpackSize = @ + b * 256, !.state = "UNPACK1"]
    [] z.state = "UNPACK1" -> [z EXCEPT !.unpackSize = @ + b + 1, !.state = IF IsUncompressed(z) THEN "DATA" ELSE "PACK0"]
    [] z.state = "PACK0" -> [z EXCEPT !.packSize = b * 256, !.state = "PACK1"]
    [] z.state = "PACK1" -> [z EXCEPT !.packSize = @ + b + 1, !.state = IF (z.control \div 64) % 2 = 1 THEN "PROP" ELSE "DATA"]
    [] z.state = "PROP" -> PropByte(z, b)

(* LzmaDec_UpdateWithUncompressed: copied bytes go through the dictionary too *)
RECURSIVE PutBytes(_, _)
PutBytes(p, bytes) == IF bytes = <<>> THEN p ELSE PutBytes(PutByte(p, Head(bytes)), Tail(bytes))

UpdateWithUncompressed(p, bytes) ==
  [PutBytes(p, bytes) EXCEPT !.processedPos = @ + Len(bytes),
       !.checkDicSize = IF @ = 0 /\ p.prop.dicSize - p.processedPos <= Len(bytes) THEN p.prop.dicSize ELSE @]

-----------------------------------------------------------------------------
(* Lzma2Dec_DecodeToDic.                                                      *)

Lzma2Error(z, used) == Ret([z EXCEPT !.state = "ERROR"], used, "NOT_SPECIFIED", "DATA")

(* What a step of the loop makes of z, with the status CONTINUE to go on.     *)
OnWith(z, used) == Ret(z, used, "CONTINUE", "OK")

CopyChunk(z, limit, src, used) ==
  LET Copy(y, n) ==
        IF n = 0 THEN Lzma2Error(y, used)
        ELSE OnWith([y EXCEPT !.decoder = UpdateWithUncompressed(@, Taken(Skipped(src, used), n)),
                              !.unpackSize = @ - n, !.state = IF y.unpackSize = n THEN "CONTROL" ELSE "DATA_CONT"], used + n)
      Init0 == IF z.state = "DATA"
                 THEN [z EXCEPT !.decoder = LzmaInitDicAndState(@, z.control = LZMA2_CONTROL_COPY_RESET_DIC, FALSE)] ELSE z
  IN  IF used = Len(src) THEN Ret(z, used, "NEEDS_MORE_INPUT", "OK")
      ELSE Copy(Init0, Smaller(Len(src) - used, Smaller(limit - z.decoder.dicPos, z.unpackSize)))

(* After the LZMA decoder has had its part of a packed chunk.  A call that    *)
(* changes nothing must be the one that finds the chunk complete.             *)
LzmaChunkDone(z, r, used) ==
  LET OutCur == r.p.dicPos - z.decoder.dicPos
      Done == [z EXCEPT !.decoder = r.p, !.packSize = @ - r.used, !.unpackSize = @ - OutCur]
      Full == r.status = "MAYBE_FINISHED_WITHOUT_MARK" /\ Done.unpackSize = 0 /\ Done.packSize = 0
  IN  CASE r.res # "OK" -> Lzma2Error(Done, used + r.used)
        [] r.res = "OK" /\ r.status = "NEEDS_MORE_INPUT" ->
             IF Done.packSize = 0 THEN Lzma2Error(Done, used + r.used)
             ELSE Ret(Done, used + r.used, "NEEDS_MORE_INPUT", "OK")
        [] r.res = "OK" /\ r.status # "NEEDS_MORE_INPUT" /\ r.used = 0 /\ OutCur = 0 ->
             IF Full THEN OnWith([Done EXCEPT !.state = "CONTROL"], used) ELSE Lzma2Error(Done, used)
        [] OTHER -> OnWith(Done, used + r.used)

LzmaChunkCall(z, limit, src, used) ==
  LET Room == limit - z.decoder.dicPos
  IN  LzmaChunkDone(z, DecodeToDic(z.decoder, z.decoder.dicPos + Smaller(Room, z.unpackSize),
                                   Taken(Skipped(src, used), Smaller(Len(src) - used, z.packSize)),
                                   IF Room >= z.unpackSize THEN "END" ELSE "ANY"), used)

LzmaChunk(z, limit, src, used) ==
  LzmaChunkCall(IF z.state # "DATA" THEN z
                ELSE [z EXCEPT !.state = "DATA_CONT", !.decoder = LzmaInitDicAndState(@, z.control >= 224, z.control >= 160)],
                limit, src, used)

Chunk(z, limit, src, used, finish) ==
  CASE z.state = "ERROR" -> Lzma2Error(z, used)
    [] z.state = "FINISHED" -> Ret(z, used, "FINISHED_WITH_MARK", "OK")
    [] z.state \notin {"ERROR", "FINISHED"} /\ z.decoder.dicPos = limit /\ finish = "ANY" ->
         Ret(z, used, "NOT_FINISHED", "OK")
    [] z.state \in {"DATA", "DATA_CONT"} /\ ~(z.decoder.dicPos = limit /\ finish = "ANY") ->
         IF IsUncompressed(z) THEN CopyChunk(z, limit, src, used) ELSE LzmaChunk(z, limit, src, used)
    [] OTHER -> LET Header(y) == IF y.decoder.dicPos = limit /\ y.state # "FINISHED" THEN Lzma2Error(y, used + 1)
                                 ELSE OnWith(y, used + 1)
                IN  IF used = Len(src) THEN Ret(z, used, "NEEDS_MORE_INPUT", "OK")
                    ELSE Header(UpdateState(z, src[used + 1]))

RECURSIVE Chunks(_, _, _, _, _)
Chunks(z, limit, src, used, finish) ==
  LET Next(r) == IF r.status = "CONTINUE" THEN Chunks(r.p, limit, src, r.used, finish) ELSE r
  IN  Next(Chunk(z, limit, src, used, finish))

Lzma2DecodeToDic(z, limit, src, finish) == Chunks(z, limit, src, 0, finish)

(* Lzma2Dec_DecodeToBuf.                                                      *)
Lzma2Part(z, outSize, src, finish) ==
  LET Room == z.decoder.dicBufSize - z.decoder.dicPos
      Out(r) == [r |-> r, got |-> DicOut(r.p.decoder.dic, z.decoder.dicPos, r.p.decoder.dicPos)]
  IN  Out(Lzma2DecodeToDic(z, z.decoder.dicPos + Smaller(Room, outSize), src, IF Room >= outSize THEN finish ELSE "ANY"))

RECURSIVE Lzma2ToBufFrom(_, _, _, _, _, _)
Lzma2ToBufFrom(z, outSize, src, finish, out, used) ==
  LET After(r, got) ==
        IF r.res # "OK" \/ got = <<>> \/ Len(got) = outSize
          THEN [p |-> r.p, out |-> out \o got, used |-> used + r.used, status |-> r.status, res |-> r.res]
          ELSE Lzma2ToBufFrom(r.p, outSize - Len(got), Skipped(src, r.used), finish, out \o got, used + r.used)
      Part(d) == After(d.r, d.got)
  IN  Part(Lzma2Part([z EXCEPT !.decoder = AtRingStart(@)], outSize, src, finish))

Lzma2DecodeToBuf(z, outSize, src, finish) == Lzma2ToBufFrom(z, outSize, src, finish, <<>>, 0)
=============================================================================
