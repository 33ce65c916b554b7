------------------------------ MODULE LzmaDec -------------------------------
(* The LZMA decoder, LzmaDec.c: CLzmaDec as a record, its functions as        *)
(* operators from that record to the next one.  The decoder is fed any number *)
(* of bytes at a time and stops at any output limit, so it has two symbol     *)
(* decoders: LZMA_DECODE_REAL, which needs a whole symbol's input, and        *)
(* TryDummy, which only asks whether the input holds one.                     *)
EXTENDS LzmaBase

CONSTANT LZMA_REQUIRED_INPUT_MAX   \* bytes that always hold one more symbol

RC_INIT_SIZE == kNumTopBits \div 8 + 2
kMatchSpecLenStart == kMatchMaxLen + 1
kMatchSpecLen_Error_Data == 512
kMatchSpecLen_Error_Fail == kMatchSpecLen_Error_Data - 1

kBound0 == (kRange0 \div kBitModelTotal) * kProbInit
kBadRepCode == kBound0 + ((kRange0 - kBound0) \div kBitModelTotal) * kProbInit

Unset == -1                        \* a byte of the dictionary never written

-----------------------------------------------------------------------------
(* Contexts.                                                                  *)

PosState(p, pos) == pos % 2^p.prop.pb

(* dic[dicPos - back]: the dictionary is a ring of dicBufSize bytes.          *)
DicByte(d, back) == d.dic[IF d.dicPos < back THEN d.dicPos - back + d.dicBufSize
                                             ELSE d.dicPos - back]

PrevByte(d) == d.dic[(IF d.dicPos = 0 THEN d.dicBufSize ELSE d.dicPos) - 1]

LitProbs(p, d) ==
  IF d.processedPos = 0 /\ p.checkDicSize = 0 THEN 0
  ELSE (d.processedPos % 2^p.prop.lp) * 2^p.prop.lc + PrevByte(d) \div 2^(8 - p.prop.lc)

LenState(len) == IF len < kNumLenToPosStates THEN len ELSE kNumLenToPosStates - 1

-----------------------------------------------------------------------------
(* LZMA_DECODE_REAL.  d holds the function's registers: its copies of the     *)
(* decoder's fields, and the result of the last bit or tree decoded.          *)

Normalize(d) ==
  IF d.range >= kTopValue THEN d
  ELSE [d EXCEPT !.range = @ * 256, !.buf = @ + 1,
                 !.code = (@ % kTopValue) * 256 + d.in[d.buf + 1]]

DecideBit(d, c, bound) ==
  IF d.code < bound
    THEN [d EXCEPT !.bit = 0, !.range = bound, !.probs = Adapt(@, c, 0)]
    ELSE [d EXCEPT !.bit = 1, !.range = @ - bound, !.code = @ - bound, !.probs = Adapt(@, c, 1)]

BitOf(d, c) == DecideBit(d, c, (d.range \div kBitModelTotal) * Prob(d.probs, c))
GetBit(d, c) == BitOf(Normalize(d), c)

(* TREE_DECODE: the most significant bit first, the contexts a binary tree.   *)
RECURSIVE TreeFrom(_, _, _, _)
TreeFrom(d, tree, i, limit) ==
  IF i >= limit THEN [d EXCEPT !.sym = i - limit]
  ELSE LET Go(e) == TreeFrom(e, tree, 2 * i + e.bit, limit)
       IN  Go(GetBit(d, Append(tree, i)))
Tree(d, tree, limit) == TreeFrom(d, tree, 1, limit)

(* MATCHED_LITER_DEC: as long as the literal agrees with the byte at rep0,    *)
(* that byte selects the contexts.                                            *)
RECURSIVE MatchedLiteral(_, _, _, _, _)
MatchedLiteral(d, lit, matchByte, offs, symbol) ==
  IF symbol >= 256 THEN [d EXCEPT !.sym = symbol - 256]
  ELSE LET Go(e, mask) == MatchedLiteral(e, lit, 2 * matchByte, IF e.bit = 0 THEN offs - mask ELSE mask,
                                           2 * symbol + e.bit)
           With(mask) == Go(GetBit(d, <<"Literal", lit, mask + offs + symbol>>), mask)
       IN  With(IF (matchByte \div 128) % 2 = 1 THEN offs ELSE 0)

PutByte(d, b) == [d EXCEPT !.dic[d.dicPos] = b, !.dicPos = @ + 1]

LiteralDone(d) ==
  [PutByte(d, d.sym) EXCEPT !.processedPos = @ + 1,
       !.state = IF @ < kNumLitStates THEN (IF @ < 4 THEN 0 ELSE @ - 3) ELSE (IF @ < 10 THEN @ - 3 ELSE @ - 6)]

Literal(p, d) ==
  LiteralDone(IF d.state < kNumLitStates
                THEN Tree(d, <<"Literal", LitProbs(p, d)>>, 256)
                ELSE MatchedLiteral(d, LitProbs(p, d), DicByte(d, d.reps[1]), 256, 1))

ShortRep(d) ==
  [PutByte(d, DicByte(d, d.reps[1])) EXCEPT !.processedPos = @ + 1,
       !.state = IF @ < kNumLitStates THEN 9 ELSE 11]

(* The length, 0 .. kMatchMaxLen - kMatchMinLen, into d.len.                  *)
LenDone(d, offset) == [d EXCEPT !.len = d.sym + offset]

Length2(d, coder, posState) ==
  IF d.bit = 0
    THEN LenDone(Tree(d, <<coder, "mid", posState>>, kLenNumLowSymbols), kLenNumLowSymbols)
    ELSE LenDone(Tree(d, <<coder, "high", 0>>, kLenNumHighSymbols), 2 * kLenNumLowSymbols)

Length1(d, coder, posState) ==
  IF d.bit = 0 THEN LenDone(Tree(d, <<coder, "low", posState>>, kLenNumLowSymbols), 0)
  ELSE Length2(GetBit(d, <<coder, "choice", 2>>), coder, posState)

Length(d, coder, posState) == Length1(GetBit(d, <<coder, "choice", 1>>), coder, posState)

(* REV_BIT_VAR: the low bits of a short distance, least significant first.    *)
RECURSIVE ReverseVar(_, _, _, _)
ReverseVar(d, i, mm, n) ==
  IF n = 0 THEN [d EXCEPT !.dist = i - mm]
  ELSE LET Go(e) == ReverseVar(e, i + (1 + e.bit) * mm, 2 * mm, n - 1)
       IN  Go(GetBit(d, <<"SpecPos", i>>))

(* REV_BIT_CONST, REV_BIT_LAST: the kNumAlignBits lowest bits of a long one.  *)
RECURSIVE ReverseAlign(_, _, _, _)
ReverseAlign(d, i, mm, n) ==
  LET Go(e) == IF n > 1 THEN ReverseAlign(e, i + (1 + e.bit) * mm, 2 * mm, n - 1)
                 ELSE [e EXCEPT !.dist = @ * 2^kNumAlignBits + (IF e.bit = 0 THEN i - mm ELSE i)]
  IN  Go(GetBit(d, <<"Align", i>>))

(* The n direct bits in between: half the range each, told by the sign of     *)
(* code - range.                                                              *)
HalfBit(d, half) ==
  IF ((d.code - half) % (kRange0 + 1)) > kRange0 \div 2
    THEN [d EXCEPT !.range = half, !.dist = @ * 2]
    ELSE [d EXCEPT !.range = half, !.code = @ - half, !.dist = @ * 2 + 1]

RECURSIVE DirectBits(_, _)
DirectBits(d, n) == IF n = 0 THEN d
                    ELSE LET Half(e) == HalfBit(e, e.range \div 2) IN DirectBits(Half(Normalize(d)), n - 1)

DistanceOf(d, slot) ==
  IF slot < kStartPosModelIndex THEN [d EXCEPT !.dist = slot]
  ELSE IF slot < kEndPosModelIndex
    THEN ReverseVar(d, (2 + (slot % 2)) * 2^(slot \div 2 - 1) + 1, 1, slot \div 2 - 1)
    ELSE ReverseAlign(DirectBits([d EXCEPT !.dist = 2 + (slot % 2)], slot \div 2 - 1 - kNumAlignBits),
                      1, 1, kNumAlignBits)

(* The copy of a match: as much of it as fits below limit; the rest stays in  *)
(* len for LzmaDec_WriteRem.                                                  *)
RECURSIVE CopyMatch(_, _)
CopyMatch(d, n) == IF n = 0 THEN d ELSE CopyMatch(PutByte(d, DicByte(d, d.reps[1])), n - 1)

CopyNow(d, n) == [CopyMatch(d, n) EXCEPT !.processedPos = @ + n, !.len = @ - n]

Match(d, limit) ==
  IF d.dicPos = limit THEN [d EXCEPT !.stop = TRUE]
  ELSE CopyNow(d, Smaller(limit - d.dicPos, d.len))

WithMinLen(d) == [d EXCEPT !.len = @ + kMatchMinLen]

NewDistance(p, d, limit) ==
  IF d.dist = kEndMarkDistance
    THEN [d EXCEPT !.len = kMatchSpecLenStart, !.state = @ - kNumStates, !.stop = TRUE]
    ELSE LET Far(e) == IF d.dist >= (IF p.checkDicSize = 0 THEN d.processedPos ELSE p.checkDicSize)
                         THEN [e EXCEPT !.len = @ + kMatchSpecLen_Error_Data + kMatchMinLen, !.stop = TRUE]
                         ELSE Match(WithMinLen(e), limit)
         IN  Far([d EXCEPT !.reps = <<d.dist + 1, @[1], @[2], @[3]>>,
                           !.state = IF @ < kNumStates + kNumLitStates THEN 7 ELSE 10])

AfterSlot(p, d, limit) == NewDistance(p, DistanceOf(d, d.sym), limit)

AfterLength(p, d, limit) ==
  IF d.state >= kNumStates
    THEN AfterSlot(p, Tree(d, <<"PosSlot", LenState(d.len)>>, 2^kNumPosSlotBits), limit)
    ELSE Match(WithMinLen(d), limit)

(* Which match it is, told by bit after bit: coder says where its length is,  *)
(* none for a short rep; a rep moves to the front.                            *)
RepMatch(d) == [d EXCEPT !.coder = "RepLen", !.state = IF @ < kNumLitStates THEN 8 ELSE 11]

AfterRepG2(d) ==
  RepMatch([d EXCEPT !.reps = IF d.bit = 0 THEN <<@[3], @[1], @[2], @[4]>> ELSE <<@[4], @[1], @[2], @[3]>>])

AfterRepG1(d) ==
  IF d.bit = 0 THEN RepMatch([d EXCEPT !.reps = <<@[2], @[1], @[3], @[4]>>])
  ELSE AfterRepG2(GetBit(d, <<"IsRepG2", d.state>>))

AfterRep0Long(d) == IF d.bit = 0 THEN [d EXCEPT !.coder = "none"] ELSE RepMatch(d)

AfterRepG0(d, s) ==
  IF d.bit = 0 THEN AfterRep0Long(GetBit(d, <<"IsRep0Long", d.state, s>>))
  ELSE AfterRepG1(GetBit(d, <<"IsRepG1", d.state>>))

AfterIsRep(d, s) ==
  IF d.bit = 0 THEN [d EXCEPT !.coder = "Len", !.state = @ + kNumStates]
  ELSE AfterRepG0(GetBit(d, <<"IsRepG0", d.state>>), s)

MatchOf(p, d, limit, s) == IF d.coder = "none" THEN ShortRep(d) ELSE AfterLength(p, Length(d, d.coder, s), limit)

AfterIsMatch(p, d, limit, s) ==
  IF d.bit = 0 THEN Literal(p, d) ELSE MatchOf(p, AfterIsRep(GetBit(d, <<"IsRep", d.state>>), s), limit, s)

OneSymbol(p, d, limit, s) == AfterIsMatch(p, GetBit(d, <<"IsMatch", d.state, s>>), limit, s)

(* The main loop: at least one symbol, more while dicPos < limit and          *)
(* buf < bufLimit.                                                            *)
RECURSIVE RealLoop(_, _, _, _)
RealLoop(p, d, limit, bufLimit) ==
  LET Go(e) == IF ~e.stop /\ e.dicPos < limit /\ e.buf < bufLimit
                   THEN RealLoop(p, e, limit, bufLimit) ELSE Normalize(e)
  IN  Go(OneSymbol(p, d, limit, PosState(p, d.processedPos)))

Registers(p, src) ==
  [in |-> src, buf |-> 0, range |-> p.range, code |-> p.code, probs |-> p.probs, state |-> p.state,
   reps |-> p.reps, dic |-> p.dic, dicBufSize |-> p.dicBufSize, dicPos |-> p.dicPos,
   processedPos |-> p.processedPos, len |-> 0, sym |-> 0, dist |-> 0, bit |-> 0, coder |-> "none", stop |-> FALSE]

Stored(p, d) ==
  [p EXCEPT !.range = d.range, !.code = d.code, !.probs = d.probs, !.state = d.state, !.reps = d.reps,
            !.dic = d.dic, !.dicPos = d.dicPos, !.processedPos = d.processedPos, !.remainLen = d.len]

Checked(p) == IF p.checkDicSize = 0 /\ p.processedPos >= p.prop.dicSize
                THEN [p EXCEPT !.checkDicSize = p.prop.dicSize] ELSE p

(* LzmaDec_DecodeReal2: the decoder, what it read of src, and its verdict.    *)
DecodeReal2(p, limit, src, bufLimit) ==
  LET Limit == IF p.checkDicSize = 0 THEN Smaller(limit, p.dicPos + p.prop.dicSize - p.processedPos) ELSE limit
      Out(d) == [p |-> Checked(Stored(p, d)), read |-> d.buf, ok |-> d.len < kMatchSpecLen_Error_Data]
  IN  Out(RealLoop(p, Registers(p, src), Limit, bufLimit))

-----------------------------------------------------------------------------
(* LzmaDec_TryDummy: the same symbol decoded without storing anything, to     *)
(* learn whether the input holds all of it.  It normalises before each bit    *)
(* and once at the end, and gives up (eof) when the input is used up.         *)

CheckNormalize(e) ==
  IF e.eof \/ e.range >= kTopValue THEN e
  ELSE IF e.buf >= Len(e.in) THEN [e EXCEPT !.eof = TRUE]
  ELSE [e EXCEPT !.range = @ * 256, !.buf = @ + 1, !.code = (@ % kTopValue) * 256 + e.in[e.buf + 1]]

CheckDecide(e, bound) ==
  IF e.eof THEN e
  ELSE IF e.code < bound THEN [e EXCEPT !.bit = 0, !.range = bound]
  ELSE [e EXCEPT !.bit = 1, !.range = @ - bound, !.code = @ - bound]

CheckBit(p, e, c) ==
  LET Decide(f) == CheckDecide(f, (f.range \div kBitModelTotal) * Prob(p.probs, c))
  IN  Decide(CheckNormalize(e))

RECURSIVE CheckTreeFrom(_, _, _, _, _)
CheckTreeFrom(p, e, tree, i, limit) ==
  IF e.eof \/ i >= limit THEN [e EXCEPT !.sym = i - limit]
  ELSE LET Go(f) == CheckTreeFrom(p, f, tree, 2 * i + f.bit, limit)
       IN  Go(CheckBit(p, e, Append(tree, i)))

RECURSIVE CheckMatched(_, _, _, _, _, _)
CheckMatched(p, e, lit, matchByte, offs, symbol) ==
  IF e.eof \/ symbol >= 256 THEN e
  ELSE LET Go(f, mask) == CheckMatched(p, f, lit, 2 * matchByte, IF f.bit = 0 THEN offs - mask ELSE mask,
                                       2 * symbol + f.bit)
           With(mask) == Go(CheckBit(p, e, <<"Literal", lit, mask + offs + symbol>>), mask)
       IN  With(IF (matchByte \div 128) % 2 = 1 THEN offs ELSE 0)

CheckLiteral(p, e) ==
  IF p.state < kNumLitStates THEN CheckTreeFrom(p, e, <<"Literal", LitProbs(p, p)>>, 1, 256)
  ELSE CheckMatched(p, e, LitProbs(p, p), DicByte(p, p.reps[1]), 256, 1)

(* The choice bits and the tree of a length; its value comes back in sym.     *)
CheckLenTree(p, e, tree, limit, offset) ==
  LET Add(f) == [f EXCEPT !.sym = @ + offset] IN Add(CheckTreeFrom(p, e, tree, 1, limit))

CheckLength2(p, e, coder, s) ==
  IF e.eof THEN e
  ELSE IF e.bit = 0 THEN CheckLenTree(p, e, <<coder, "mid", s>>, kLenNumLowSymbols, kLenNumLowSymbols)
  ELSE CheckLenTree(p, e, <<coder, "high", 0>>, kLenNumHighSymbols, 2 * kLenNumLowSymbols)

CheckLength(p, e, coder, s) ==
  LET Go(f) == IF f.eof THEN f
               ELSE IF f.bit = 0 THEN CheckLenTree(p, f, <<coder, "low", s>>, kLenNumLowSymbols, 0)
               ELSE CheckLength2(p, CheckBit(p, f, <<coder, "choice", 2>>), coder, s)
  IN  Go(CheckBit(p, e, <<coder, "choice", 1>>))

(* The bits after the slot: direct bits first, then the reverse tree.         *)
RECURSIVE CheckDirect(_, _)
CheckDirect(e, n) ==
  IF e.eof \/ n = 0 THEN e
  ELSE LET Half(f, half) ==
             IF f.eof THEN f
             ELSE IF ((f.code - half) % (kRange0 + 1)) > kRange0 \div 2 THEN [f EXCEPT !.range = half]
             ELSE [f EXCEPT !.range = half, !.code = @ - half]
           Go(f) == CheckDirect(Half(f, f.range \div 2), n - 1)
       IN  Go(CheckNormalize(e))

RECURSIVE CheckReverse(_, _, _, _, _, _)
CheckReverse(p, e, name, i, mm, n) ==
  IF e.eof \/ n = 0 THEN e
  ELSE LET Go(f) == CheckReverse(p, f, name, i + (1 + f.bit) * mm, 2 * mm, n - 1)
       IN  Go(CheckBit(p, e, <<name, i>>))

CheckDistance(p, e, slot) ==
  IF e.eof \/ slot < kStartPosModelIndex THEN e
  ELSE IF slot < kEndPosModelIndex
    THEN CheckReverse(p, e, "SpecPos", (2 + (slot % 2)) * 2^(slot \div 2 - 1) + 1, 1, slot \div 2 - 1)
    ELSE CheckReverse(p, CheckDirect(e, slot \div 2 - 1 - kNumAlignBits), "Align", 1, 1, kNumAlignBits)

CheckMatch(p, e, s) ==
  LET Slot(f) == IF f.eof THEN f
                 ELSE CheckTreeFrom(p, f, <<"PosSlot", LenState(f.sym)>>, 1, 2^kNumPosSlotBits)
      Distance(f) == CheckDistance(p, f, f.sym)
  IN  Distance(Slot(CheckLength(p, e, "Len", s)))

CheckRep(p, e, s) ==
  LET G1(f) == IF f.eof \/ f.bit = 0 THEN f ELSE CheckBit(p, f, <<"IsRepG2", p.state>>)
      Long(f) == IF f.eof THEN f ELSE CheckLength(p, f, "RepLen", s)
      Rep0(f) == IF f.bit = 0 THEN f ELSE Long(f)
      G0(f) == IF f.eof THEN f
               ELSE IF f.bit = 0 THEN Rep0(CheckBit(p, f, <<"IsRep0Long", p.state, s>>))
               ELSE Long(G1(CheckBit(p, f, <<"IsRepG1", p.state>>)))
  IN  G0(CheckBit(p, e, <<"IsRepG0", p.state>>))

Dummy(e, kind) == [kind |-> IF e.eof THEN "EOF" ELSE kind, read |-> e.buf]

DummyMatch(p, e, s) ==
  IF e.eof THEN Dummy(e, "EOF")
  ELSE IF e.bit = 0 THEN Dummy(CheckNormalize(CheckMatch(p, e, s)), "MATCH")
  ELSE Dummy(CheckNormalize(CheckRep(p, e, s)), "REP")

DummySymbol(p, e, s) ==
  IF e.eof THEN Dummy(e, "EOF")
  ELSE IF e.bit = 0 THEN Dummy(CheckNormalize(CheckLiteral(p, e)), "LIT")
  ELSE DummyMatch(p, CheckBit(p, e, <<"IsRep", p.state>>), s)

TryDummy(p, src) ==
  LET S == PosState(p, p.processedPos)
  IN  DummySymbol(p, CheckBit(p, [in |-> src, buf |-> 0, range |-> p.range, code |-> p.code, bit |-> 0, sym |-> 0,
                                  eof |-> FALSE], <<"IsMatch", p.state, S>>), S)

-----------------------------------------------------------------------------
(* LzmaDec_DecodeToDic.  remainLen tells what the decoder is in: below        *)
(* kMatchSpecLenStart the rest of a match to copy, then: stream ended by its  *)
(* end mark, range coder to be initialised, also the state, failed.           *)

Ret(p, used, status, res) == [p |-> p, used |-> used, status |-> status, res |-> res]

(* LzmaDec_WriteRem.                                                          *)
WriteRem(p, limit) ==
  IF p.remainLen = 0 \/ limit = p.dicPos THEN p
  ELSE LET Enter(q, n) == IF q.checkDicSize = 0 /\ q.prop.dicSize - q.processedPos <= n
                            THEN [q EXCEPT !.checkDicSize = q.prop.dicSize] ELSE q
           Write(q, n) == [CopyMatch(q, n) EXCEPT !.processedPos = @ + n, !.remainLen = @ - n]
           Go(n) == Write(Enter(p, n), n)
       IN  Go(Smaller(p.remainLen, limit - p.dicPos))

RECURSIVE DecodeSymbols(_, _, _, _, _)

Failed(p, used) == Ret([p EXCEPT !.remainLen = kMatchSpecLen_Error_Fail], used, "NOT_SPECIFIED", "FAIL")

(* After DecodeReal2: taken is what the call consumes of src, fits tells that *)
(* TryDummy and the decoder agree on the symbol's size.                       *)
Decoded(q, limit, src, used, finish, taken, fits) ==
  IF ~fits THEN Failed(q.p, used)
  ELSE IF ~q.ok THEN Ret([q.p EXCEPT !.remainLen = kMatchSpecLen_Error_Data, !.tempBuf = <<>>],
                         used + taken, "NOT_SPECIFIED", "DATA")
  ELSE DecodeSymbols([q.p EXCEPT !.tempBuf = <<>>], limit, src, used + taken, finish)

NotEndMark(check, y) == check /\ y.kind # "MATCH"

(* One symbol that TryDummy has seen whole, or straight from the input many   *)
(* at once while there is plenty of it.  temp is the input not taken yet; the *)
(* first had bytes of it are of an earlier call, kept in tempBuf for a symbol *)
(* that had begun.                                                            *)
Real(sizes, bufLimit) == [go |-> TRUE, sizes |-> sizes, bufLimit |-> bufLimit]

Tried(p, used, check, temp, had, y) ==
  LET Kept(n, status, res) == [go |-> FALSE, ret |-> Ret([p EXCEPT !.tempBuf = Taken(temp, n)], used + n - had, status, res)]
      Refused == [go |-> FALSE, ret |-> Failed(p, used)]
  IN  CASE y.kind = "EOF" -> IF Len(temp) >= LZMA_REQUIRED_INPUT_MAX THEN Refused ELSE Kept(Len(temp), "NEEDS_MORE_INPUT", "OK")
        [] y.kind # "EOF" /\ y.read \notin had .. LZMA_REQUIRED_INPUT_MAX -> Refused
        [] y.kind # "EOF" /\ y.read \in had .. LZMA_REQUIRED_INPUT_MAX /\ NotEndMark(check, y) ->
             Kept(y.read, "NOT_FINISHED", "DATA")
        [] OTHER -> Real({y.read}, 0)

Many(temp, had) ==
  IF had = 0 THEN Real(0 .. Len(temp), Len(temp) - LZMA_REQUIRED_INPUT_MAX) ELSE Real(had .. LZMA_REQUIRED_INPUT_MAX, 0)

DecodeTried(p, limit, src, used, finish, temp, had, t) ==
  LET Done(q) == Decoded(q, limit, src, used, finish, q.read - had, q.read \in t.sizes)
  IN  IF t.go THEN Done(DecodeReal2(p, limit, temp, t.bufLimit)) ELSE t.ret

NextSymbol(p, limit, src, used, finish, check, temp, had) ==
  DecodeTried(p, limit, src, used, finish, temp, had,
    IF Len(temp) >= LZMA_REQUIRED_INPUT_MAX /\ ~check THEN Many(temp, had)
    ELSE Tried(p, used, check, temp, had, TryDummy(p, temp)))

Symbols(p, limit, src, used, finish, check) ==
  LET Had == Len(p.tempBuf)
      Temp == p.tempBuf \o Skipped(src, used)
  IN  NextSymbol(p, limit, src, used, finish, check,
                 IF Had = 0 THEN Temp ELSE Taken(Temp, Smaller(LZMA_REQUIRED_INPUT_MAX, Len(Temp))), Had)

AtLimit(p, limit, src, used, finish) ==
  CASE p.dicPos >= limit /\ p.remainLen = 0 /\ p.code = 0 -> Ret(p, used, "MAYBE_FINISHED_WITHOUT_MARK", "OK")
    [] p.dicPos >= limit /\ ~(p.remainLen = 0 /\ p.code = 0) /\ finish = "ANY" -> Ret(p, used, "NOT_FINISHED", "OK")
    [] p.dicPos >= limit /\ p.remainLen # 0 /\ finish # "ANY" -> Ret(p, used, "NOT_FINISHED", "DATA")
    [] OTHER -> Symbols(p, limit, src, used, finish, p.dicPos >= limit)

DecodeSymbols(p, limit, src, used, finish) ==
  IF p.remainLen # kMatchSpecLenStart THEN AtLimit(WriteRem(p, limit), limit, src, used, finish)
  ELSE IF p.code # 0 THEN Ret(p, used, "NOT_SPECIFIED", "DATA")
  ELSE Ret(p, used, "FINISHED_WITH_MARK", "OK")

(* The first RC_INIT_SIZE bytes: a zero and the first value of code.          *)
RECURSIVE BigEndian(_)
BigEndian(bytes) == IF bytes = <<>> THEN 0 ELSE BigEndian(Taken(bytes, Len(bytes) - 1)) * 256 + bytes[Len(bytes)]

StartState(p) ==
  IF p.remainLen = kMatchSpecLenStart + 1 THEN [p EXCEPT !.remainLen = 0]
  ELSE [p EXCEPT !.remainLen = 0, !.probs = NoProbs, !.reps = <<1, 1, 1, 1>>, !.state = 0]

StartRc(p, src, used) ==
  LET Coded(q) ==
        IF q.checkDicSize = 0 /\ q.processedPos = 0 /\ q.code >= kBadRepCode
          THEN Ret(q, used, "NOT_SPECIFIED", "DATA")
          ELSE Ret(StartState([q EXCEPT !.range = kRange0, !.tempBuf = <<>>]), used, "STARTED", "OK")
      Filled(q) ==
        IF q.tempBuf # <<>> /\ q.tempBuf[1] # 0 THEN Ret(q, used, "NOT_SPECIFIED", "DATA")
        ELSE IF Len(q.tempBuf) < RC_INIT_SIZE THEN Ret(q, used, "NEEDS_MORE_INPUT", "OK")
        ELSE Coded([q EXCEPT !.code = BigEndian(Tail(q.tempBuf))])
  IN  Filled([p EXCEPT !.tempBuf = @ \o Taken(src, used)])

RcStarted(p, src) ==
  CASE p.remainLen <= kMatchSpecLenStart -> Ret(p, 0, "STARTED", "OK")
    [] p.remainLen > kMatchSpecLenStart + 2 ->
         Ret(p, 0, "NOT_SPECIFIED", IF p.remainLen = kMatchSpecLen_Error_Fail THEN "FAIL" ELSE "DATA")
    [] OTHER -> StartRc(p, src, Smaller(Len(src), RC_INIT_SIZE - Len(p.tempBuf)))

DecodeFrom(r, limit, src, finish) == IF r.status = "STARTED" THEN DecodeSymbols(r.p, limit, src, r.used, finish) ELSE r

DecodeToDic(p, limit, src, finish) == DecodeFrom(RcStarted(p, src), limit, src, finish)

(* LzmaDec_DecodeToBuf: outSize bytes through the ring; a call that reaches   *)
(* its end only asks for the stream's end in its last part.                   *)
DicOut(d, from, to) == [i \in 1 .. to - from |-> d[from + i - 1]]

AtRingStart(p) == IF p.dicPos = p.dicBufSize THEN [p EXCEPT !.dicPos = 0] ELSE p

DecodePart(p, outSize, src, finish) ==
  LET Fits == outSize <= p.dicBufSize - p.dicPos
      Out(r) == [r |-> r, got |-> DicOut(r.p.dic, p.dicPos, r.p.dicPos)]
  IN  Out(DecodeToDic(p, IF Fits THEN p.dicPos + outSize ELSE p.dicBufSize, src, IF Fits THEN finish ELSE "ANY"))

RECURSIVE DecodeToBufFrom(_, _, _, _, _, _)
DecodeToBufFrom(p, outSize, src, finish, out, used) ==
  LET After(r, got) ==
        IF r.res # "OK" \/ got = <<>> \/ Len(got) = outSize
          THEN [p |-> r.p, out |-> out \o got, used |-> used + r.used, status |-> r.status, res |-> r.res]
          ELSE DecodeToBufFrom(r.p, outSize - Len(got), Skipped(src, r.used), finish, out \o got, used + r.used)
      Part(d) == After(d.r, d.got)
  IN  Part(DecodePart(AtRingStart(p), outSize, src, finish))

DecodeToBuf(p, outSize, src, finish) == DecodeToBufFrom(p, outSize, src, finish, <<>>, 0)

-----------------------------------------------------------------------------
(* Construction.                                                              *)

NoProp == [lc |-> 0, lp |-> 0, pb |-> 0, dicSize |-> 0]

(* LzmaProps_Decode; NoProp for properties it does not support.               *)
LzmaPropsDecode(data) ==
  IF Len(data) < 5 \/ data[1] >= 9 * 5 * 5 THEN NoProp
  ELSE [lc |-> data[1] % 9, lp |-> (data[1] \div 9) % 5, pb |-> data[1] \div 45,
        dicSize |-> IF LittleEndian(SubSeq(data, 2, 5)) < LZMA_DIC_MIN THEN LZMA_DIC_MIN
                    ELSE LittleEndian(SubSeq(data, 2, 5))]

(* LzmaDec_Construct: no probs, no dictionary.                                *)
LzmaDecNew ==
  [prop |-> NoProp, dic |-> [i \in {} |-> Unset], dicBufSize |-> 0, dicPos |-> 0,
   range |-> 0, code |-> 0, probs |-> NoProbs, reps |-> <<0, 0, 0, 0>>, state |-> 0, remainLen |-> 0,
   processedPos |-> 0, checkDicSize |-> 0, tempBuf |-> <<>>]

(* LzmaDec_Allocate: the dictionary is the size asked for, rounded up; one of *)
(* that size is kept with its bytes.                                          *)
RoundedUp(n) == ((n + LZMA_DIC_MIN - 1) \div LZMA_DIC_MIN) * LZMA_DIC_MIN

LzmaDecAllocate(p, prop) ==
  LET Sized(n) == [p EXCEPT !.prop = prop, !.dicBufSize = n,
                            !.dic = IF p.dicBufSize = n THEN @ ELSE [i \in 0 .. n - 1 |-> Unset]]
  IN  Sized(RoundedUp(prop.dicSize))

(* LzmaDec_InitDicAndState, LzmaDec_Init.                                     *)
LzmaInitDicAndState(p, initDic, initState) ==
  [p EXCEPT !.remainLen = kMatchSpecLenStart + (IF initDic \/ initState THEN 2 ELSE 1), !.tempBuf = <<>>,
            !.processedPos = IF initDic THEN 0 ELSE @, !.checkDicSize = IF initDic THEN 0 ELSE @]

LzmaDecInit(p) == LzmaInitDicAndState([p EXCEPT !.dicPos = 0], TRUE, TRUE)

(* LzmaDecode: one call with all the input, the output buffer its dictionary. *)
LzmaDecode(destSize, src, props, finish) ==
  LET None(res) == [out |-> <<>>, used |-> 0, status |-> "NOT_SPECIFIED", res |-> res]
      Out(r) == [out |-> DicOut(r.p.dic, 0, r.p.dicPos), used |-> r.used, status |-> r.status,
                 res |-> IF r.res = "OK" /\ r.status = "NEEDS_MORE_INPUT" THEN "INPUT_EOF" ELSE r.res]
      With(prop) == IF prop = NoProp THEN None("UNSUPPORTED")
                    ELSE Out(DecodeToDic(LzmaDecInit([LzmaDecNew EXCEPT !.prop = prop, !.dicBufSize = destSize,
                                           !.dic = [i \in 0 .. destSize - 1 |-> Unset]]), destSize, src, finish))
  IN  IF Len(src) < RC_INIT_SIZE THEN None("INPUT_EOF") ELSE With(LzmaPropsDecode(props))
=============================================================================
