-------------------------------- MODULE Bcj2 --------------------------------
(* The BCJ2 filter for x86 code, Bcj2.c and Bcj2Enc.c: the addresses of CALLs *)
(* (E8) and of jumps (E9, 0F 8x) are taken out of the code, made absolute and *)
(* kept in streams of their own; a range coder says of every such opcode      *)
(* whether it was converted.                                                  *)
(*                                                                            *)
(* Both are called again and again with what input and room there is, and go  *)
(* on where they stopped.  The range coder is that of LzmaBase: its sizes are *)
(* the constants.  An address is four bytes, the lowest first.                *)
EXTENDS LzmaBase

LOCAL INSTANCE FiniteSetsExt

kRcStartSize    == kNumTopBits \div 8 + 2      \* 5
kRelatLimitTop  == 15                          \* BCJ2_ENC_RELAT_LIMIT_DEFAULT, its highest byte

IsMarker(prev, b) == b \in {232, 233} \/ (prev = 15 /\ b \in 128 .. 143)
StreamOf(b)       == IF b = 232 THEN "CALL" ELSE "JUMP"
ContextOf(prev, b) == <<"Bcj2", CASE b = 232 -> prev + 2 [] b = 233 -> 1 [] b < 232 -> 0>>

(* UInt32 arithmetic on four bytes, a small number added.                     *)
Plus32(v, n) ==
  LET Low == v[1] + 256 * v[2] + n
      High == v[3] + 256 * v[4] + (Low \div 65536)
  IN  ToBytes(Low % 65536, 2) \o ToBytes(High % 65536, 2)

BigEndianOrder(v) == <<v[4], v[3], v[2], v[1]>>

(* The first opcode among the first n bytes of src, 0 without one.            *)
FirstMarker(ctx, src, n) ==
  Min({j \in 1 .. n : IsMarker(IF j = 1 THEN ctx ELSE src[j - 1], src[j])} \cup {n + 1}) % (n + 1)

-----------------------------------------------------------------------------
(* The decoder.  ctx is the last byte written, prev the one before it, pend   *)
(* what is left to write of an address (BCJ2_DEC_STATE_ORIG_0 .. 3).          *)
Bcj2Dec_Init(bufs, room) ==
  [bufs |-> bufs, out |-> <<>>, room |-> room, state |-> "RC", ip |-> 0, ctx |-> 0, prev |-> 0, pend |-> <<>>,
   range |-> 0, code |-> 0, probs |-> NoProbs, stop |-> FALSE, res |-> "OK"]

StopIn(d, state) == [d EXCEPT !.stop = TRUE, !.state = state]
BadStart(d)      == [StopIn(d, "ERROR") EXCEPT !.res = "DATA"]

StartByte(d) ==
  CASE d.range = kRcStartSize -> IF d.code = kRange0 THEN BadStart(d) ELSE [d EXCEPT !.range = kRange0]
    [] d.range # kRcStartSize /\ d.range = 1 /\ d.code # 0 -> BadStart(d)
    [] OTHER -> IF d.bufs.RC = <<>> THEN StopIn(d, "RC")
                ELSE [d EXCEPT !.code = 256 * @ + Head(d.bufs.RC), !.bufs.RC = Tail(@), !.range = @ + 1]

RECURSIVE StartRange(_)
StartRange(d) == IF d.stop \/ d.range > kRcStartSize THEN d ELSE StartRange(StartByte(d))

TakeAddress(d, cj) ==
  [d EXCEPT !.bufs[cj] = Skipped(@, 4), !.ip = @ + 4, !.pend = Plus32(BigEndianOrder(Taken(d.bufs[cj], 4)), -(d.ip + 4))]

WriteAddress(d, n) ==
  [d EXCEPT !.out = @ \o Taken(d.pend, n), !.room = @ - n, !.pend = Skipped(@, n),
            !.ctx = IF n = Len(d.pend) THEN d.pend[n] ELSE @, !.stop = n # Len(d.pend),
            !.state = IF n # Len(d.pend) THEN "ORIG_0" ELSE @]

PendingAddress(d) == IF d.stop \/ d.pend = <<>> THEN d ELSE WriteAddress(d, Smaller(Len(d.pend), d.room))

(* An address that was not there, or not written, when the last call ended.   *)
ResumeAddress(d) ==
  IF d.stop \/ d.state \notin {"CALL", "JUMP"} THEN d
  ELSE IF d.bufs[d.state] = <<>> THEN StopIn(d, d.state)
  ELSE [TakeAddress(d, d.state) EXCEPT !.state = "ORIG_0"]

RcByte(d) == [d EXCEPT !.range = 256 * @, !.code = 256 * @ + Head(d.bufs.RC), !.bufs.RC = Tail(@)]

NextRcByte(d) ==
  IF d.stop \/ d.range >= kTopValue THEN d
  ELSE IF d.bufs.RC = <<>> THEN StopIn(d, "RC") ELSE RcByte(d)

CopyCode(d, n) ==
  IF n = 0 THEN d
  ELSE [d EXCEPT !.out = @ \o Taken(d.bufs.MAIN, n), !.room = @ - n, !.ip = @ + n, !.bufs.MAIN = Skipped(@, n),
                 !.ctx = d.bufs.MAIN[n], !.prev = IF n = 1 THEN d.ctx ELSE d.bufs.MAIN[n - 1]]

(* The code up to the next opcode, or all there is of it, or room for.        *)
ScanCode(d, n, marker) ==
  IF marker # 0 THEN CopyCode(d, marker)
  ELSE StopIn(CopyCode(d, n), IF n = Len(d.bufs.MAIN) THEN "MAIN" ELSE "ORIG")

NextOpcode(d) ==
  LET Room == Smaller(Len(d.bufs.MAIN), d.room)
  IN  IF d.stop THEN d ELSE ScanCode(d, Room, FirstMarker(d.ctx, d.bufs.MAIN, Room))

ConvertedBit(d, c, bound) ==
  IF d.code < bound
    THEN [d EXCEPT !.range = bound, !.probs = Adapt(@, c, 0)]
    ELSE [d EXCEPT !.range = @ - bound, !.code = @ - bound, !.probs = Adapt(@, c, 1)]

(* Before it returns to wait for an address, or for room for it, the decoder  *)
(* moves the range coder on if it can.                                        *)
MoveOn(d) == IF d.stop /\ d.range < kTopValue /\ d.bufs.RC # <<>> THEN RcByte(d) ELSE d

ConvertAddress(d, cj) ==
  IF d.bufs[cj] = <<>> THEN MoveOn(StopIn(d, cj)) ELSE MoveOn(PendingAddress(TakeAddress(d, cj)))

OpcodeBound(d) == (d.range \div kBitModelTotal) * Prob(d.probs, ContextOf(d.prev, d.ctx))

DecodeOpcode(d) ==
  CASE d.stop -> d
    [] ~d.stop /\ d.code < OpcodeBound(d) -> ConvertedBit(d, ContextOf(d.prev, d.ctx), OpcodeBound(d))
    [] ~d.stop /\ d.code >= OpcodeBound(d) ->
         ConvertAddress(ConvertedBit(d, ContextOf(d.prev, d.ctx), OpcodeBound(d)), StreamOf(d.ctx))

RECURSIVE DecodeOpcodes(_)
DecodeOpcodes(d) == IF d.stop THEN d ELSE DecodeOpcodes(DecodeOpcode(NextOpcode(NextRcByte(d))))

Bcj2Dec_Decode(d) ==
  DecodeOpcodes(PendingAddress(ResumeAddress(StartRange([d EXCEPT !.stop = FALSE, !.res = "OK"]))))

Bcj2Dec_IsMaybeFinished(d) == d.state = "MAIN" /\ d.code = 0

-----------------------------------------------------------------------------
(* The encoder.  outs are the four streams, room what their buffers still     *)
(* hold of them, temp the bytes it could not decide about yet.                *)
Bcj2Enc_Init ==
  [src |-> <<>>, state |-> "ORIG", finishMode |-> "CONTINUE", ctx |-> 0, prev |-> 0, flushRem |-> kRcStartSize,
   isFlushState |-> FALSE, cache |-> 0, range |-> kRange0, low |-> 0, cacheSize |-> 1, ip |-> 0, tempTarget |-> <<>>,
   temp |-> <<>>, extra |-> 0, rest |-> <<>>, probs |-> NoProbs, stop |-> FALSE,
   outs |-> [MAIN |-> <<>>, CALL |-> <<>>, JUMP |-> <<>>, RC |-> <<>>],
   room |-> [MAIN |-> 0, CALL |-> 0, JUMP |-> 0, RC |-> 0]]

Put(e, stream, bytes) == [e EXCEPT !.outs[stream] = @ \o bytes, !.room[stream] = @ - Len(bytes)]

(* Bcj2_RangeEnc_ShiftLow: the byte held back and the 0xFFs after it get the  *)
(* carry; a full buffer stops it between two of them.                         *)
HeldBytes(e, n) == [j \in 1 .. n |-> ((IF j = 1 THEN e.cache ELSE 255) + e.low \div (256 * kTopValue)) % 256]

Shifted(e) == [e EXCEPT !.cacheSize = @ + 1, !.low = 256 * (@ % kTopValue)]

GiveHeld(e, n) ==
  IF n < e.cacheSize
    THEN StopIn([Put(e, "RC", HeldBytes(e, n)) EXCEPT !.cacheSize = @ - n, !.cache = IF n = 0 THEN @ ELSE 255], "RC")
    ELSE Shifted([Put(e, "RC", HeldBytes(e, n)) EXCEPT !.cacheSize = 0, !.cache = (e.low \div kTopValue) % 256])

Bcj2_RangeEnc_ShiftLow(e) ==
  IF e.low < 255 * kTopValue \/ e.low >= 256 * kTopValue THEN GiveHeld(e, Smaller(e.cacheSize, e.room.RC)) ELSE Shifted(e)

(* Bcj2Enc_Encode_2.                                                          *)
WaitingAddress(e) ==
  IF e.isFlushState THEN e
  ELSE IF e.state \notin {"CALL", "JUMP"} THEN [e EXCEPT !.state = "ORIG"]
  ELSE IF e.room[e.state] < 4 THEN StopIn(e, e.state)
  ELSE [Put(e, e.state, e.tempTarget) EXCEPT !.state = "ORIG"]

GrowRange(e) == IF e.stop THEN e ELSE [e EXCEPT !.range = 256 * @]
ReadyRange(e) == IF e.stop \/ e.range >= kTopValue THEN e ELSE GrowRange(Bcj2_RangeEnc_ShiftLow(e))

EncCopy(e, n) ==
  IF n = 0 THEN e
  ELSE [Put(e, "MAIN", Taken(e.src, n)) EXCEPT !.ip = @ + n, !.src = Skipped(@, n), !.ctx = e.src[n],
                                               !.prev = IF n = 1 THEN e.ctx ELSE e.src[n - 1]]

AllCopied(e) ==
  CASE e.src # <<>> -> StopIn(e, "MAIN")
    [] e.src = <<>> /\ e.finishMode # "END_STREAM" -> StopIn(e, "ORIG")
    [] e.src = <<>> /\ e.finishMode = "END_STREAM" -> [e EXCEPT !.isFlushState = TRUE, !.stop = TRUE]

(* Of the last bytes of the input an opcode is given back, unless they are    *)
(* the last of all: its address has not come yet.                             *)
GiveBack(e) ==
  StopIn([e EXCEPT !.ip = @ - 1, !.outs.MAIN = Taken(@, Len(@) - 1), !.room.MAIN = @ + 1, !.src = <<e.ctx>> \o @,
                   !.ctx = e.prev], "ORIG")

NeedsConvert(e) ==
  Len(e.src) >= 4 /\ e.ip > (IF e.ctx \in {232, 233} THEN 0 ELSE 1) /\ (e.src[4] + kRelatLimitTop) % 256 < 2 * kRelatLimitTop

PutAddress(e, cj, absol) ==
  IF e.room[cj] < 4 THEN StopIn([e EXCEPT !.tempTarget = absol], cj) ELSE Put(e, cj, absol)

EncAddress(e) ==
  PutAddress([e EXCEPT !.src = Skipped(@, 4), !.ip = @ + 4, !.ctx = e.src[4]], StreamOf(e.ctx),
             BigEndianOrder(Plus32(Taken(e.src, 4), e.ip + 4)))

EncodeBound(e) == (e.range \div kBitModelTotal) * Prob(e.probs, ContextOf(e.prev, e.ctx))

EncodeOpcode(e) ==
  CASE Len(e.src) < 4 /\ e.finishMode = "CONTINUE" -> GiveBack(e)
    [] ~(Len(e.src) < 4 /\ e.finishMode = "CONTINUE") /\ ~NeedsConvert(e) ->
         [e EXCEPT !.range = EncodeBound(e), !.probs = Adapt(@, ContextOf(e.prev, e.ctx), 0)]
    [] ~(Len(e.src) < 4 /\ e.finishMode = "CONTINUE") /\ NeedsConvert(e) ->
         EncAddress([e EXCEPT !.low = @ + EncodeBound(e), !.range = @ - EncodeBound(e),
                              !.probs = Adapt(@, ContextOf(e.prev, e.ctx), 1)])

EncScan(e, n, marker) == IF marker = 0 THEN AllCopied(EncCopy(e, n)) ELSE EncodeOpcode(EncCopy(e, marker))

EncNext(e) ==
  LET Room == Smaller(Len(e.src), e.room.MAIN)
  IN  IF e.stop THEN e ELSE EncScan(e, Room, FirstMarker(e.ctx, e.src, Room))

RECURSIVE EncLoop(_)
EncLoop(e) == IF e.stop \/ e.isFlushState THEN e ELSE EncLoop(EncNext(ReadyRange(e)))

RECURSIVE FlushLow(_)
FlushLow(e) ==
  IF e.stop THEN e
  ELSE IF e.flushRem = 0 THEN [e EXCEPT !.state = "FINISHED"]
  ELSE LET Less(f) == IF f.stop THEN f ELSE [f EXCEPT !.flushRem = @ - 1] IN FlushLow(Less(Bcj2_RangeEnc_ShiftLow(e)))

Flushed(e) == IF e.isFlushState THEN FlushLow([e EXCEPT !.stop = FALSE]) ELSE e

Bcj2Enc_Encode_2(e) == Flushed(EncLoop(WaitingAddress([e EXCEPT !.stop = FALSE])))

(* Bcj2Enc_Encode: the bytes held in temp first, one byte of the input more   *)
(* to them at a time, until the rest of the input can do without them.        *)
TempCall(e) ==
  Bcj2Enc_Encode_2([e EXCEPT !.rest = e.src, !.src = e.temp, !.finishMode = IF e.src # <<>> THEN "CONTINUE" ELSE @])

RollBack(e, n) ==
  [e EXCEPT !.src = Skipped(e.temp, Len(e.temp) - n) \o @, !.temp = Taken(@, Len(@) - n)]

AfterTemp(e) ==
  CASE e.state # "ORIG" -> [RollBack(e, Smaller(e.extra, Len(e.temp))) EXCEPT !.extra = -1]
    [] e.state = "ORIG" /\ e.src = <<>> -> [e EXCEPT !.extra = -1]
    [] e.state = "ORIG" /\ e.src # <<>> /\ e.extra >= Len(e.temp) -> RollBack(e, Len(e.temp))
    [] e.state = "ORIG" /\ e.src # <<>> /\ e.extra < Len(e.temp) ->
         [e EXCEPT !.temp = Append(@, Head(e.src)), !.src = Tail(@), !.extra = @ + 1]

TempReturn(e, mode) == AfterTemp([e EXCEPT !.temp = e.src, !.src = e.rest, !.finishMode = mode])

RECURSIVE TempLoop(_)
TempLoop(e) == IF e.temp = <<>> \/ e.extra < 0 THEN e ELSE TempLoop(TempReturn(TempCall(e), e.finishMode))

KeepTemp(e) == IF e.state = "ORIG" THEN [e EXCEPT !.temp = e.src, !.src = <<>>] ELSE e

WithoutTemp(e) == IF e.extra < 0 THEN e ELSE KeepTemp(Bcj2Enc_Encode_2(e))

Bcj2Enc_Encode(e) == WithoutTemp(TempLoop([e EXCEPT !.extra = 0]))
=============================================================================
