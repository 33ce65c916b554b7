------------------------------ MODULE LzmaEnc -------------------------------
(* The LZMA encoder, LzmaEnc.c, in its fast mode (algo = 0): the range coder, *)
(* the choice of the next literal or match, the coding of one and the block   *)
(* calls that LZMA2 is built on.  e stands for CLzmaEnc.  The matches are     *)
(* those of an exhaustive search (LzFind describes the finder itself); the    *)
(* normal mode, which chooses by prices, writes the same format by the same   *)
(* functions.                                                                 *)
EXTENDS LzmaBase

CONSTANTS
  kChangePairBits,         \* a distance is worth 2^kChangePairBits times less
  kNumOpts, kPackReserve,  \* how far a block stays below its limits
  kBlockStep               \* bytes of one LzmaEnc_CodeOneBlock of a stream

ASSUME LzmaEncAssumption == {kChangePairBits, kNumOpts, kPackReserve, kBlockStep} \subseteq Nat \ {0}

kNumFullDistances == 2^(kEndPosModelIndex \div 2)
LZMA_NUM_REPS == 4
MARK_LIT == -1

kLiteralNextStates == <<0, 0, 0, 0, 1, 2, 3, 4, 5, 6, 4, 5>>
kMatchNextStates   == <<7, 7, 7, 7, 7, 7, 7, 10, 10, 10, 10, 10>>
kRepNextStates     == <<8, 8, 8, 8, 8, 8, 8, 11, 11, 11, 11, 11>>
kShortRepNextStates == <<9, 9, 9, 9, 9, 9, 9, 11, 11, 11, 11, 11>>

(* GetPosSlot: twice the place of the highest bit, and the bit below it.      *)
RECURSIVE PosSlotFrom(_, _)
PosSlotFrom(dist, n) == IF dist < 4 THEN 2 * n + dist ELSE PosSlotFrom(dist \div 2, n + 1)
GetPosSlot(dist) == PosSlotFrom(dist, 0)

GetLenToPosState(len) == IF len < kNumLenToPosStates + 1 THEN len - 2 ELSE kNumLenToPosStates - 1

-----------------------------------------------------------------------------
(* CRangeEnc.  The last byte (cache) and the 0xFF bytes after it (cacheSize)  *)
(* are held back as long as a carry out of low can still change them.         *)

RangeEncInit(e) == [e EXCEPT !.range = kRange0, !.cache = 0, !.low = 0, !.cacheSize = 0, !.out = <<>>]

RangeEnc_GetProcessed(e) == Len(e.out) + e.cacheSize

ShiftLow(e) ==
  LET Low == e.low % (kRange0 + 1)
      High == e.low \div (kRange0 + 1)
      Settled == Low < 255 * kTopValue \/ High # 0
  IN  [e EXCEPT !.low = (Low % kTopValue) * 256,
                !.out = IF Settled THEN @ \o <<(e.cache + High) % 256>>
                                        \o [i \in 1 .. e.cacheSize |-> (255 + High) % 256] ELSE @,
                !.cache = IF Settled THEN Low \div kTopValue ELSE @,
                !.cacheSize = IF Settled THEN 0 ELSE @ + 1]

RECURSIVE FlushDataFrom(_, _)
FlushDataFrom(e, n) == IF n = 0 THEN e ELSE FlushDataFrom(ShiftLow(e), n - 1)
RangeEnc_FlushData(e) == FlushDataFrom(e, kNumTopBits \div 8 + 2)

RcNorm(e) == IF e.range < kTopValue THEN ShiftLow([e EXCEPT !.range = @ * 256]) ELSE e

EncodeBitAt(e, c, bit, bound) ==
  RcNorm([e EXCEPT !.range = IF bit = 0 THEN bound ELSE @ - bound,
                   !.low = IF bit = 0 THEN @ ELSE @ + bound, !.probs = Adapt(@, c, bit)])

EncodeBit(e, c, bit) == EncodeBitAt(e, c, bit, (e.range \div kBitModelTotal) * Prob(e.probs, c))

(* LitEnc_Encode and every other tree: bits of sym from the highest down.     *)
RECURSIVE EncodeTreeFrom(_, _, _, _, _)
EncodeTreeFrom(e, tree, node, sym, n) ==
  IF n = 0 THEN e
  ELSE LET Go(bit) == EncodeTreeFrom(EncodeBit(e, Append(tree, node), bit), tree, 2 * node + bit, sym, n - 1)
       IN  Go((sym \div 2^(n - 1)) % 2)
EncodeTree(e, tree, sym, n) == EncodeTreeFrom(e, tree, 1, sym, n)

(* LitEnc_EncodeMatched: offs is 0x100 while sym agrees with the match byte.  *)
RECURSIVE EncodeMatchedFrom(_, _, _, _, _, _)
EncodeMatchedFrom(e, lit, sym, matchByte, offs, n) ==
  IF n = 0 THEN e
  ELSE LET MBit == (matchByte \div 2^(n - 1)) % 2
           Bit == (sym \div 2^(n - 1)) % 2
       IN  EncodeMatchedFrom(EncodeBit(e, <<"Literal", lit, offs + offs * MBit + (sym + 256) \div 2^n>>, Bit),
                             lit, sym, matchByte, IF MBit = Bit THEN offs ELSE 0, n - 1)
LitEnc_EncodeMatched(e, lit, sym, matchByte) == EncodeMatchedFrom(e, lit, sym, matchByte, 256, 8)

(* RcTree_ReverseEncode: n bits from the lowest up.                           *)
RECURSIVE ReverseEncode(_, _, _, _, _, _)
ReverseEncode(e, name, base, node, sym, n) ==
  IF n = 0 THEN e
  ELSE ReverseEncode(EncodeBit(e, <<name, base + node>>, sym % 2), name, base, 2 * node + (sym % 2), sym \div 2, n - 1)

RECURSIVE EncodeDirectBits(_, _, _)
EncodeDirectBits(e, sym, n) ==
  IF n = 0 THEN e
  ELSE LET Half(half) == [e EXCEPT !.range = half, !.low = @ + half * ((sym \div 2^(n - 1)) % 2)]
       IN  EncodeDirectBits(RcNorm(Half(e.range \div 2)), sym, n - 1)

LenEnc_Encode(e, coder, sym, posState) ==
  LET Choice == <<coder, "choice", 1>>
      Choice2 == <<coder, "choice", 2>>
  IN  IF sym < kLenNumLowSymbols
        THEN EncodeTree(EncodeBit(e, Choice, 0), <<coder, "low", posState>>, sym, kLenNumLowBits)
      ELSE IF sym < 2 * kLenNumLowSymbols
        THEN EncodeTree(EncodeBit(EncodeBit(e, Choice, 1), Choice2, 0), <<coder, "mid", posState>>,
                        sym - kLenNumLowSymbols, kLenNumLowBits)
      ELSE EncodeTree(EncodeBit(EncodeBit(e, Choice, 1), Choice2, 1), <<coder, "high", 0>>,
                      sym - 2 * kLenNumLowSymbols, kLenNumHighBits)

-----------------------------------------------------------------------------
(* Matches.  The finder is additionalOffset bytes ahead of the coder (nowPos) *)

MfPos(e) == e.nowPos + e.additionalOffset
NumAvailable(e) == Len(e.data) - MfPos(e)

RECURSIVE CommonFrom(_, _, _, _, _)
CommonFrom(e, at, dist, n, max) ==
  IF n >= max \/ e.data[at + n + 1] # e.data[at + n + 1 - dist] THEN n ELSE CommonFrom(e, at, dist, n + 1, max)

(* Pairs <<len, distance - 1>>, longer and longer, the nearest for each.      *)
RECURSIVE GetMatchesFrom(_, _, _, _, _)
GetMatchesFrom(e, at, dist, best, max) ==
  IF dist > Smaller(at, e.dictSize) \/ best >= max THEN <<>>
  ELSE LET With(n) == IF n <= best THEN GetMatchesFrom(e, at, dist + 1, best, max)
                      ELSE <<<<n, dist - 1>>>> \o GetMatchesFrom(e, at, dist + 1, n, max)
       IN  With(CommonFrom(e, at, dist, 0, max))
GetMatches(e, at, max) == IF max < 2 THEN <<>> ELSE GetMatchesFrom(e, at, 1, 1, max)

(* ReadMatchDistances: the matches at the finder's position, which it moves;  *)
(* a longest match of numFastBytes is extended by comparing further.          *)
ReadMatchDistances(e) ==
  LET At == MfPos(e)
      Avail == NumAvailable(e)
      Longest(pairs) ==
        IF pairs = <<>> THEN 0
        ELSE IF pairs[Len(pairs)][1] # e.numFastBytes THEN pairs[Len(pairs)][1]
        ELSE CommonFrom(e, At, pairs[Len(pairs)][2] + 1, e.numFastBytes, Smaller(Avail, kMatchMaxLen))
      Read(pairs) == [e EXCEPT !.additionalOffset = @ + 1, !.numAvail = Avail, !.matches = pairs,
                               !.longestMatchLen = Longest(pairs)]
  IN  Read(GetMatches(e, At, Smaller(e.numFastBytes, Avail)))

MovePos(e, n) == [e EXCEPT !.additionalOffset = @ + n]

ChangePair(smallDist, bigDist) == bigDist \div 2^kChangePairBits > smallDist

-----------------------------------------------------------------------------
(* GetOptimumFast: the next literal (length 1, MARK_LIT), repeated match or   *)
(* new match, into backRes and optLen.                                        *)

Chosen(e, back, len) == [e EXCEPT !.backRes = back, !.optLen = len]

(* The length at rep i of what follows the finder's last position.            *)
RepLenAt(e, i, max) ==
  LET With(n) == IF n < 2 THEN 0 ELSE n IN With(CommonFrom(e, MfPos(e) - 1, e.reps[i], 0, max))

(* A shorter match is preferred to one a byte longer and much further away.   *)
RECURSIVE Shortened(_, _)
Shortened(pairs, mainLen) ==
  LET n == Len(pairs)
  IN  IF n > 1 /\ mainLen = pairs[n - 1][1] + 1 /\ ChangePair(pairs[n - 1][2], pairs[n][2])
        THEN Shortened(Taken(pairs, n - 1), mainLen - 1)
        ELSE <<IF mainLen = 2 /\ pairs[n][2] >= 2^kChangePairBits THEN 1 ELSE mainLen, pairs[n][2]>>

RepWins(repLen, mainLen, mainDist) ==
  /\ repLen >= 2
  /\ \/ repLen + 1 >= mainLen
     \/ repLen + 2 >= mainLen /\ mainDist >= 2^(kChangePairBits + 2)
     \/ repLen + 3 >= mainLen /\ mainDist >= 2^(kChangePairBits + 8)

(* The match one byte on is better: a literal now.                            *)
NextBetter(e, mainLen, mainDist) ==
  /\ e.longestMatchLen >= 2
  /\ LET newDist == e.matches[Len(e.matches)][2]
         len1 == e.longestMatchLen
     IN  \/ len1 >= mainLen /\ newDist < mainDist
         \/ len1 = mainLen + 1 /\ ~ChangePair(mainDist, newDist)
         \/ len1 > mainLen + 1
         \/ len1 + 1 >= mainLen /\ mainLen >= 3 /\ ChangePair(newDist, mainDist)

LookedAhead(e, mainLen, mainDist) ==
  LET Limit == IF mainLen - 1 < 2 THEN 2 ELSE mainLen - 1
  IN  IF NextBetter(e, mainLen, mainDist)
         \/ \E i \in 1 .. LZMA_NUM_REPS : RepLenAt(e, i, Limit) = Limit
        THEN Chosen(e, MARK_LIT, 1)
        ELSE Chosen(MovePos(e, mainLen - 2), mainDist + LZMA_NUM_REPS, mainLen)

MainMatch(e, repLen, repIndex, avail, main) ==
  IF RepWins(repLen, main[1], main[2]) THEN Chosen(MovePos(e, repLen - 1), repIndex - 1, repLen)
  ELSE IF main[1] < 2 \/ avail <= 2 THEN Chosen(e, MARK_LIT, 1)
  ELSE LookedAhead(ReadMatchDistances(e), main[1], main[2])

FastChoice(e, avail) ==
  LET Reps == [i \in 1 .. LZMA_NUM_REPS |-> RepLenAt(e, i, avail)]
      Choose(reps) ==
        LET FirstOf(S) == CHOOSE i \in S : \A j \in S : i <= j
            Best == FirstOf({i \in DOMAIN reps : \A j \in DOMAIN reps : reps[j] <= reps[i]})
            Fast == {i \in DOMAIN reps : reps[i] >= e.numFastBytes}
            Pairs == e.matches
        IN  IF Fast # {} THEN Chosen(MovePos(e, reps[FirstOf(Fast)] - 1), FirstOf(Fast) - 1, reps[FirstOf(Fast)])
            ELSE IF e.longestMatchLen >= e.numFastBytes
              THEN Chosen(MovePos(e, e.longestMatchLen - 1), Pairs[Len(Pairs)][2] + LZMA_NUM_REPS, e.longestMatchLen)
            ELSE MainMatch(e, reps[Best], Best, avail,
                           IF e.longestMatchLen >= 2 THEN Shortened(Pairs, e.longestMatchLen)
                           ELSE <<e.longestMatchLen, 0>>)
  IN  Choose(Reps)

GetOptimumFast(e) ==
  LET Known(f) == IF f.numAvail < 2 THEN Chosen(f, MARK_LIT, 1)
                  ELSE FastChoice(f, Smaller(f.numAvail, kMatchMaxLen))
  IN  Known(IF e.additionalOffset = 0 THEN ReadMatchDistances(e) ELSE e)

-----------------------------------------------------------------------------
(* LzmaEnc_CodeOneBlock.                                                      *)

EncPosState(e) == e.nowPos % 2^e.pb

LIT_PROBS(e) == (e.nowPos % 2^e.lp) * 2^e.lc + e.data[e.nowPos] \div 2^(8 - e.lc)

CodeLiteral(e) ==
  LET Coded(f) == IF e.state < kNumLitStates
                    THEN EncodeTree(f, <<"Literal", LIT_PROBS(e)>>, e.data[e.nowPos + 1], 8)
                    ELSE LitEnc_EncodeMatched(f, LIT_PROBS(e), e.data[e.nowPos + 1], e.data[e.nowPos + 1 - e.reps[1]])
  IN  [Coded(EncodeBit(e, <<"IsMatch", e.state, EncPosState(e)>>, 0)) EXCEPT !.state = kLiteralNextStates[@ + 1]]

CodeRepLen(e) == [LenEnc_Encode(e, "RepLen", e.optLen - kMatchMinLen, EncPosState(e))
                    EXCEPT !.state = kRepNextStates[@ + 1]]

CodeRep0(e) ==
  LET C == <<"IsRep0Long", e.state, EncPosState(e)>>
  IN  IF e.optLen = 1 THEN [EncodeBit(e, C, 0) EXCEPT !.state = kShortRepNextStates[@ + 1]]
      ELSE CodeRepLen(EncodeBit(e, C, 1))

CodeRep(e) ==
  LET G0(b) == EncodeBit(e, <<"IsRepG0", e.state>>, b)
      G1(b) == EncodeBit(G0(1), <<"IsRepG1", e.state>>, b)
      G2(b) == EncodeBit(G1(1), <<"IsRepG2", e.state>>, b)
  IN  CASE e.backRes = 0 -> CodeRep0(G0(0))
        [] e.backRes = 1 -> CodeRepLen([G1(0) EXCEPT !.reps = <<@[2], @[1], @[3], @[4]>>])
        [] e.backRes = 2 -> CodeRepLen([G2(0) EXCEPT !.reps = <<@[3], @[1], @[2], @[4]>>])
        [] e.backRes = 3 -> CodeRepLen([G2(1) EXCEPT !.reps = <<@[4], @[1], @[2], @[3]>>])

(* The distance of a new match: its slot, then the bits below it.             *)
CodeDistance(e, dist, slot) ==
  LET Slotted == EncodeTree(e, <<"PosSlot", GetLenToPosState(e.optLen)>>, slot, kNumPosSlotBits)
      FooterBits == slot \div 2 - 1
  IN  IF dist < kStartPosModelIndex THEN Slotted
      ELSE IF dist < kNumFullDistances
        THEN ReverseEncode(Slotted, "SpecPos", (2 + (slot % 2)) * 2^FooterBits, 1, dist, FooterBits)
        ELSE ReverseEncode(EncodeDirectBits(Slotted, dist \div 2^kNumAlignBits, FooterBits - kNumAlignBits),
                           "Align", 0, 1, dist, kNumAlignBits)

CodeMatch(e) ==
  LET Dist == e.backRes - LZMA_NUM_REPS
      Lengthed(f) == LenEnc_Encode(f, "Len", e.optLen - kMatchMinLen, EncPosState(e))
  IN  [CodeDistance(Lengthed(EncodeBit(e, <<"IsRep", e.state>>, 0)), Dist, GetPosSlot(Dist))
         EXCEPT !.state = kMatchNextStates[@ + 1], !.reps = <<Dist + 1, @[1], @[2], @[3]>>]

CodeSymbol(e) ==
  IF e.backRes = MARK_LIT THEN CodeLiteral(e)
  ELSE LET Matched == EncodeBit(e, <<"IsMatch", e.state, EncPosState(e)>>, 1)
       IN  IF e.backRes < LZMA_NUM_REPS THEN CodeRep(EncodeBit(Matched, <<"IsRep", e.state>>, 1))
           ELSE CodeMatch(Matched)

(* WriteEndMarker: a match of the longest distance, all its bits set.         *)
WriteEndMarker(e) ==
  LET Begun == EncodeBit(EncodeBit(e, <<"IsMatch", e.state, EncPosState(e)>>, 1), <<"IsRep", e.state>>, 0)
      Slotted == EncodeTree(LenEnc_Encode(Begun, "Len", 0, EncPosState(e)), <<"PosSlot", 0>>,
                            2^kNumPosSlotBits - 1, kNumPosSlotBits)
      DirectBits0 == 2^(kNumPosSlotBits - 1) - 2 - kNumAlignBits
  IN  [ReverseEncode(EncodeDirectBits(Slotted, 2^DirectBits0 - 1, DirectBits0), "Align", 0, 1,
                     2^kNumAlignBits - 1, kNumAlignBits) EXCEPT !.state = kMatchNextStates[@ + 1]]

FlushBlock(e) == [RangeEnc_FlushData(IF e.writeEndMark THEN WriteEndMarker(e) ELSE e) EXCEPT !.finished = TRUE]

(* The first byte of the stream: always a literal, without a byte before it.  *)
FirstByte(e) ==
  LET Begun(f) == EncodeTree(EncodeBit(f, <<"IsMatch", 0, 0>>, 0), <<"Literal", 0>>, f.data[1], 8)
  IN  [Begun(ReadMatchDistances(e)) EXCEPT !.additionalOffset = @ - 1, !.nowPos = @ + 1]

(* A block ends with the data, when it comes near its limits, or (no limits,  *)
(* a stream) after kBlockStep bytes: then the coder is not flushed.           *)
BlockFull(e, start, maxPackSize, maxUnpackSize) ==
  IF maxPackSize = 0 THEN e.nowPos - start >= kBlockStep
  ELSE \/ e.nowPos - start + kNumOpts >= maxUnpackSize
       \/ RangeEnc_GetProcessed(e) + kPackReserve >= maxPackSize

RECURSIVE CodeSymbols(_, _, _, _)
CodeSymbols(e, start, maxPackSize, maxUnpackSize) ==
  LET Advance(f) == [CodeSymbol(f) EXCEPT !.nowPos = @ + f.optLen, !.additionalOffset = @ - f.optLen]
      Go(f) == IF f.additionalOffset # 0 THEN CodeSymbols(f, start, maxPackSize, maxUnpackSize)
               ELSE IF NumAvailable(f) = 0 THEN FlushBlock(f)
               ELSE IF ~BlockFull(f, start, maxPackSize, maxUnpackSize)
                 THEN CodeSymbols(f, start, maxPackSize, maxUnpackSize)
               ELSE IF maxPackSize = 0 THEN f ELSE FlushBlock(f)
  IN  Go(Advance(GetOptimumFast(e)))

CodeOneBlock(e, maxPackSize, maxUnpackSize) ==
  LET Body(f) == IF NumAvailable(f) = 0 THEN FlushBlock(f) ELSE CodeSymbols(f, e.nowPos, maxPackSize, maxUnpackSize)
  IN  IF e.finished THEN e
      ELSE IF e.nowPos = 0 /\ NumAvailable(e) = 0 THEN FlushBlock(e)
      ELSE Body(IF e.nowPos = 0 THEN FirstByte(e) ELSE e)

-----------------------------------------------------------------------------
(* Properties, preparation, and the calls of the encoder's clients.           *)

(* LzmaEnc_SetProps: numFastBytes is brought into its range.                  *)
LzmaEncNew(props) ==
  [dictSize |-> props.dictSize, lc |-> props.lc, lp |-> props.lp, pb |-> props.pb,
   numFastBytes |-> IF props.fb < 5 THEN 5 ELSE Smaller(props.fb, kMatchMaxLen),
   writeEndMark |-> FALSE, data |-> <<>>, state |-> 0, reps |-> <<1, 1, 1, 1>>, probs |-> NoProbs,
   saved |-> <<>>, range |-> 0, low |-> 0, cache |-> 0, cacheSize |-> 0, out |-> <<>>,
   additionalOffset |-> 0, longestMatchLen |-> 0, numAvail |-> 0, matches |-> <<>>, nowPos |-> 0,
   backRes |-> MARK_LIT, optLen |-> 0, finished |-> FALSE]

(* LzmaEnc_WriteProperties: lc, lp, pb in one byte, the dictionary rounded up *)
(* to 2^n or 3 * 2^(n - 1).                                                   *)
RECURSIVE AlignedDict(_, _)
AlignedDict(dictSize, v) == IF v >= dictSize THEN v
                            ELSE IF \E n \in 0 .. 30 : v = 2^n THEN AlignedDict(dictSize, v + v \div 2)
                            ELSE AlignedDict(dictSize, v + v \div 3)

WriteProperties(props) ==
  <<(props.pb * 5 + props.lp) * 9 + props.lc>> \o ToBytes(AlignedDict(props.dictSize, LZMA_DIC_MIN), 4)

LzmaEncInit(e) ==
  [RangeEncInit(e) EXCEPT !.state = 0, !.reps = <<1, 1, 1, 1>>, !.probs = NoProbs, !.additionalOffset = 0]

LzmaEnc_AllocAndInit(e, data) == LzmaEncInit([e EXCEPT !.data = data, !.finished = FALSE, !.nowPos = 0])

(* LzmaEnc_SaveState, LzmaEnc_RestoreState: all that the decoder mirrors.     *)
SaveState(e) == [e EXCEPT !.saved = [state |-> e.state, reps |-> e.reps, probs |-> e.probs]]
RestoreState(e) == [e EXCEPT !.state = e.saved.state, !.reps = e.saved.reps, !.probs = e.saved.probs]

(* LzmaEnc_CodeOneMemBlock: one block into at most destLen bytes; the bytes   *)
(* it wrote are in out, the bytes it took are those nowPos has moved over.    *)
CodeOneMemBlock(e, reInit, desiredPackSize, unpackSize) ==
  LET Begin(f) == RangeEncInit([f EXCEPT !.writeEndMark = FALSE, !.finished = FALSE])
  IN  CodeOneBlock(Begin(IF reInit THEN LzmaEncInit(e) ELSE e), desiredPackSize, unpackSize)

(* LzmaEnc_Encode2.                                                           *)
RECURSIVE LzmaEnc_Encode2(_)
LzmaEnc_Encode2(e) ==
  LET Go(f) == IF f.finished THEN f ELSE LzmaEnc_Encode2(f) IN Go(CodeOneBlock(e, 0, 0))

(* LzmaEncode: properties and packed data of a whole memory block.            *)
LzmaEncode(props, data, writeEndMark) ==
  LzmaEnc_Encode2(LzmaEnc_AllocAndInit([LzmaEncNew(props) EXCEPT !.writeEndMark = writeEndMark], data)).out
=============================================================================
