------------------------------- MODULE LzFind -------------------------------
(***************************************************************************)
(* LzFind.c: the window over the input, the hash tables, and the binary    *)
(* trees or hash chains that find, for each position, the earlier places   *)
(* its bytes repeat.  A match finder is a record of the fields of          *)
(* CMatchFinder; each operator is a function of the code on it.  Bytes are *)
(* 0 and 1.  Of bufBase the record keeps which input byte its first cell   *)
(* holds (base): a cell outside what was kept or read is Junk.             *)
(***************************************************************************)
EXTENDS Integers, Sequences, FiniteSets

CONSTANTS
  HistorySize,   (* the dictionary: how far back a match may be            *)
  Word,          (* 2^w: pos and streamPos are counted modulo Word         *)
  MoveAlign,     (* kBlockMoveAlign                                        *)
  BlockReserve   (* what GetBlockSize adds                                 *)

ASSUME LzFindAssumption ==
  /\ HistorySize \in Nat \ {0}
  /\ Word \in Nat \ {0} /\ MoveAlign \in Nat \ {0} /\ BlockReserve \in Nat

Junk == 2
NoRef == Word - 1             (* what uninitialised cells of son hold      *)
CyclicBufferSize == HistorySize + 1
Smaller(a, b) == IF a < b THEN a ELSE b
Larger(a, b) == IF a < b THEN b ELSE a
Wrap(x) == x % Word

(* x after n steps of a loop.                                              *)
Repeated(Step(_), x, n) ==
  LET After[k \in 0 .. n] == IF k = 0 THEN x ELSE Step(After[k - 1])
  IN After[n]

-----------------------------------------------------------------------------
(* The input: its bytes; how many a call of ISeqInStream.Read returns at   *)
(* most; after how many it fails (later than the end: never); and whether  *)
(* it is a buffer in memory, directInput.                                  *)
Input(data, most, fail, direct) == [data |-> data, most |-> most, fail |-> fail, direct |-> direct]

ReadableBytes(s) == Smaller(Len(s.data), s.fail)

GetBlockSize(before, after) == before + after + BlockReserve

(* MatchFinder_Create.  addBefore and addAfter are keepAddBufferBefore and *)
(* keepAddBufferAfter.                                                     *)
MatchFinder_Create(n, btMode, cutValue, matchMaxLen, addBefore, addAfter, s) ==
  LET before == HistorySize + addBefore + 1
      after == Larger(addAfter + matchMaxLen, n)
  IN [numHashBytes |-> n, btMode |-> btMode, cutValue |-> cutValue, matchMaxLen |-> matchMaxLen,
      keepSizeBefore |-> before, keepSizeAfter |-> after, directInput |-> s.direct,
      blockSize |-> GetBlockSize(before, after),
      base |-> 0, buffer |-> 0, taken |-> 0, pos |-> 1, streamPos |-> 1,
      streamEndWasReached |-> FALSE, result |-> "OK",
      cyclicBufferPos |-> 1, lenLimit |-> 0, posLimit |-> 0,
      hash2 |-> << >>, hash3 |-> << >>, hash |-> << >>,
      son |-> [i \in 0 .. 2 * CyclicBufferSize - 1 |-> NoRef]]

GetAvailBytes(p) == Wrap(p.streamPos - p.pos)

(* The byte of the window d cells from the current position.               *)
Cur(p, s, d) ==
  IF p.buffer + d >= 0 /\ p.base + p.buffer + d < p.taken THEN s.data[p.base + p.buffer + d + 1] ELSE Junk

Received(p, size) == [p EXCEPT !.taken = @ + size, !.streamPos = Wrap(@ + size)]

(* The reads of MatchFinder_ReadBlock, until the window is full or holds   *)
(* more than keepSizeAfter, or the input ends or fails.                    *)
ReadLoop(p, s) ==
  LET Read[got \in Nat] ==
        LET q == Received(p, got)
            room == q.blockSize - (q.buffer + GetAvailBytes(q))
            After(size) ==
              CASE room = 0 -> q
                [] room > 0 /\ size = 0 ->
                     IF q.taken < Len(s.data) THEN [q EXCEPT !.result = "ERROR_READ"]
                     ELSE [q EXCEPT !.streamEndWasReached = TRUE]
                [] OTHER -> IF GetAvailBytes(q) + size > q.keepSizeAfter THEN Received(q, size)
                            ELSE Read[got + size]
        IN After(Smaller(Smaller(room, s.most), ReadableBytes(s) - q.taken))
  IN Read[0]

MatchFinder_ReadBlock(p, s) ==
  IF p.streamEndWasReached \/ p.result # "OK" THEN p
  ELSE IF p.directInput
       THEN LET All(size) == [Received(p, size) EXCEPT !.streamEndWasReached = p.taken + size = Len(s.data)]
            IN All(Smaller(Word - 1 - GetAvailBytes(p), Len(s.data) - p.taken))
       ELSE ReadLoop(p, s)

MatchFinder_ReadIfRequired(p, s) ==
  IF p.keepSizeAfter >= GetAvailBytes(p) THEN MatchFinder_ReadBlock(p, s) ELSE p

MatchFinder_NeedMove(p) ==
  /\ ~p.directInput /\ ~p.streamEndWasReached /\ p.result = "OK"
  /\ p.blockSize - p.buffer <= p.keepSizeAfter

MatchFinder_MoveBlock(p) ==
  LET offset == p.buffer - p.keepSizeBefore
  IN [p EXCEPT !.buffer = (offset % MoveAlign) + p.keepSizeBefore,
               !.base = @ + offset - (offset % MoveAlign)]

-----------------------------------------------------------------------------
(* References to earlier positions: 0 is none (kEmptyHashValue).           *)
Normalized(subValue, refs) ==
  [i \in DOMAIN refs |-> IF refs[i] < subValue THEN 0 ELSE refs[i] - subValue]

Keys(n) == 0 .. 2^n - 1
EmptyHash(n) == [k \in Keys(n) |-> 0]

(* The hashes as LzHash.h and LzFind.c build them: a[0] is mixed into the  *)
(* others one-to-one, so strings that differ in a[0] may share a key, and  *)
(* those that agree in a[0] and in the key are equal in the bytes hashed   *)
(* (h2 covers two, h3 three).                                              *)
Xor(a, b) == (a + b) % 2
H2(b) == Xor(b[1], b[2])
H3(b) == 2 * Xor(b[1], b[2]) + Xor(b[1], b[3])
HV(n, b) ==
  CASE n = 2 -> 2 * b[1] + b[2]
    [] n = 3 -> H3(b)
    [] n = 4 -> 2 * H3(b) + b[4]
    [] n = 5 -> 4 * H3(b) + 2 * b[4] + b[5]

CurBytes(p, s, n) == [i \in 1 .. n |-> Cur(p, s, i - 1)]

(* The length of the match at distance delta, of which the first "from"    *)
(* bytes are known equal, up to lim.                                       *)
MatchLen(p, s, delta, from, lim) ==
  CHOOSE len \in from .. lim :
    /\ \A i \in from .. len - 1 : Cur(p, s, i - delta) = Cur(p, s, i)
    /\ len < lim => Cur(p, s, len - delta) # Cur(p, s, len)

(* The pair of son of the record delta before the one at cyclicBufferPos.  *)
PairIndex(cycPos, delta) ==
  2 * (cycPos - delta + IF cycPos < delta THEN CyclicBufferSize ELSE 0)

(* One descent of GetMatchesSpec1: the old tree is split into the strings  *)
(* below and above the current one; d collects longer and longer matches.  *)
(* failure is what only GetMatchesSpecN_2 looks for.  A step compares the  *)
(* string at curMatch and turns to one of its two subtrees.                *)
Compared(p, t, delta, len) ==
  [t EXCEPT !.pair = PairIndex(p.cyclicBufferPos, delta), !.len = len, !.maxLen = Larger(@, len),
            !.d = IF t.maxLen < len THEN Append(@, <<len, delta - 1>>) ELSE @]

Subtree(t, next) == [t EXCEPT !.curMatch = next, !.cut = @ - 1, !.failure = next >= t.curMatch]

GoAbove(t) ==
  Subtree([t EXCEPT !.son[t.ptr1] = t.curMatch, !.ptr1 = t.pair + 1, !.len1 = t.len],
          [t.son EXCEPT ![t.ptr1] = t.curMatch][t.pair + 1])
GoBelow(t) ==
  Subtree([t EXCEPT !.son[t.ptr0] = t.curMatch, !.ptr0 = t.pair, !.len0 = t.len],
          [t.son EXCEPT ![t.ptr0] = t.curMatch][t.pair])

Turn(p, s, t, delta) ==
  IF Cur(p, s, t.len - delta) < Cur(p, s, t.len) THEN GoAbove(t) ELSE GoBelow(t)

Compare(p, s, lim, t) ==
  LET delta == Wrap(p.pos - t.curMatch)
      Split(u) ==
        IF u.failure \/ u.cut = 0 \/ u.curMatch <= u.cmCheck
        THEN [u EXCEPT !.son[u.ptr0] = 0, !.son[u.ptr1] = 0, !.done = TRUE] ELSE u
      Follow(u) ==
        IF u.len = lim
        THEN [u EXCEPT !.son[u.ptr1] = u.son[u.pair], !.son[u.ptr0] = u.son[u.pair + 1], !.done = TRUE]
        ELSE Split(Turn(p, s, u, delta))
  IN IF t.done THEN t
     ELSE Follow(Compared(p, t, delta, MatchLen(p, s, delta, Smaller(t.len0, t.len1), lim)))

Descend(p, s, lim, t) == Repeated(LAMBDA u : Compare(p, s, lim, u), t, t.cut)

CmCheck_Full(p) == IF p.pos <= CyclicBufferSize THEN 0 ELSE p.pos - CyclicBufferSize - 1

CmCheck(p) == IF p.pos < CyclicBufferSize THEN 0 ELSE p.pos - CyclicBufferSize

GetMatchesSpec1(p, s, lim, curMatch, maxLen) ==
  LET here == 2 * p.cyclicBufferPos
      t == [son |-> p.son, ptr0 |-> here + 1, ptr1 |-> here, len0 |-> 0, len1 |-> 0,
            cut |-> p.cutValue, cmCheck |-> CmCheck(p), curMatch |-> curMatch,
            maxLen |-> maxLen, d |-> << >>, failure |-> FALSE, pair |-> 0, len |-> 0,
            done |-> FALSE]
  IN IF CmCheck(p) < curMatch THEN Descend(p, s, lim, t)
     ELSE [t EXCEPT !.son = [p.son EXCEPT ![here] = 0, ![here + 1] = 0]]

(* Hc_GetMatchesSpec: the chain of positions with the same hash.           *)
FollowChain(p, s, lim, t) ==
  LET delta == Wrap(p.pos - t.curMatch)
      Link(u) == [u EXCEPT !.curMatch = p.son[PairIndex(p.cyclicBufferPos, delta) \div 2]]
      Measured(len) ==
        IF Cur(p, s, t.maxLen - delta) = Cur(p, s, t.maxLen) /\ len > t.maxLen
        THEN [t EXCEPT !.maxLen = len, !.d = Append(@, <<len, delta - 1>>)] ELSE t
  IN IF t.curMatch = 0 \/ delta >= CyclicBufferSize \/ t.maxLen = lim THEN t
     ELSE Link(Measured(MatchLen(p, s, delta, 0, lim)))

Chained(p, curMatch) == [p EXCEPT !.son[p.cyclicBufferPos] = curMatch]

Hc_GetMatchesSpec(p, s, lim, curMatch, maxLen) ==
  [son |-> Chained(p, curMatch).son,
   d |-> Repeated(LAMBDA t : FollowChain(Chained(p, curMatch), s, lim, t),
                  [curMatch |-> curMatch, maxLen |-> maxLen, d |-> << >>], p.cutValue).d]

-----------------------------------------------------------------------------
(* What Bt3, Bt4, Bt5, Hc4 and Hc5_MatchFinder_GetMatches find with the    *)
(* hashes of two and three bytes before they search: pairs, and the length *)
(* already known.                                                          *)
FixedMatches(p, s, d2, d3) ==
  LET n == p.numHashBytes
      mmm == Smaller(CyclicBufferSize, p.pos)
      near2 == n >= 3 /\ d2 < mmm /\ Cur(p, s, -d2) = Cur(p, s, 0)
      near3 == n >= 4 /\ d3 < mmm /\ Cur(p, s, -d3) = Cur(p, s, 0)
      third == n = 3 \/ Cur(p, s, 2 - d2) = Cur(p, s, 2)
      Measured(d) == IF n = 5 /\ Cur(p, s, 3 - d) # Cur(p, s, 3) THEN 3
                     ELSE MatchLen(p, s, d, n - 1, p.lenLimit)
      Known(first, len, d) == [d |-> Append(first, <<len, d - 1>>), maxLen |-> Larger(len, n - 1)]
      Longer(first) == IF near3 THEN Known(first, Measured(d3), d3) ELSE [d |-> first, maxLen |-> n - 1]
  IN CASE near2 /\ third -> Known(<< >>, Measured(d2), d2)
       [] near2 /\ ~third -> Longer(<< <<2, d2 - 1>> >>)
       [] OTHER -> Longer(<< >>)

MatchFinder_SetLimits(p) ==
  LET avail == GetAvailBytes(p)
      n == Wrap(0 - p.pos)
      toEnd == IF n = 0 THEN Word - 1 ELSE n
      k == CASE avail > p.keepSizeAfter -> avail - p.keepSizeAfter
             [] avail <= p.keepSizeAfter /\ avail >= p.matchMaxLen -> avail - p.matchMaxLen + 1
             [] OTHER -> Smaller(avail, 1)
  IN [p EXCEPT !.lenLimit = Smaller(p.matchMaxLen, avail),
               !.posLimit = Wrap(p.pos + Smaller(Smaller(toEnd, CyclicBufferSize - p.cyclicBufferPos), k))]

MatchFinder_Init_HighHash(p) == [p EXCEPT !.hash = EmptyHash(p.numHashBytes)]

MatchFinder_Init_LowHash(p) ==
  [p EXCEPT !.hash2 = IF p.numHashBytes > 2 THEN EmptyHash(1) ELSE << >>,
            !.hash3 = IF p.numHashBytes > 3 THEN EmptyHash(2) ELSE << >>]

MatchFinder_Init_4(p) ==
  [p EXCEPT !.buffer = 0, !.base = 0, !.taken = 0, !.pos = 1, !.streamPos = 1,
            !.result = "OK", !.streamEndWasReached = FALSE]

Started(q) == MatchFinder_SetLimits([q EXCEPT !.cyclicBufferPos = q.pos])

MatchFinder_Init(p, s) ==
  Started(MatchFinder_ReadBlock(
    MatchFinder_Init_4(MatchFinder_Init_LowHash(MatchFinder_Init_HighHash(p))), s))

(* MatchFinder_CheckLimits, called when pos has reached posLimit: reads    *)
(* (and moves) when the lookahead is short, renumbers when pos has wrapped.*)
Refilled(p, s) ==
  IF p.keepSizeAfter # GetAvailBytes(p) THEN p
  ELSE MatchFinder_ReadBlock(IF MatchFinder_NeedMove(p) THEN MatchFinder_MoveBlock(p) ELSE p, s)

Renumbered(p, subValue) ==
  IF p.pos = 0 /\ GetAvailBytes(p) >= p.numHashBytes
  THEN [p EXCEPT !.pos = Wrap(@ - subValue), !.streamPos = Wrap(@ - subValue),
                 !.hash2 = Normalized(subValue, @), !.hash3 = Normalized(subValue, @),
                 !.hash = Normalized(subValue, @), !.son = Normalized(subValue, @)]
  ELSE p

MatchFinder_Normalize3(p) == Renumbered(p, Wrap(p.pos - HistorySize - 1))
Cycled(p) == [p EXCEPT !.cyclicBufferPos = IF @ = CyclicBufferSize THEN 0 ELSE @]

MatchFinder_CheckLimits(p, s) == MatchFinder_SetLimits(Cycled(MatchFinder_Normalize3(Refilled(p, s))))

(* MOVE_POS *)
Checked(q, s) == IF q.pos = q.posLimit THEN MatchFinder_CheckLimits(q, s) ELSE q
MovePos(p, s) ==
  Checked([p EXCEPT !.cyclicBufferPos = @ + 1, !.buffer = @ + 1, !.pos = Wrap(@ + 1)], s)

(* The hash tables with the current position entered; b is CurBytes.       *)
Enter(p, b) ==
  [p EXCEPT !.hash2 = IF p.numHashBytes > 2 THEN [@ EXCEPT ![H2(b)] = p.pos] ELSE @,
            !.hash3 = IF p.numHashBytes > 3 THEN [@ EXCEPT ![H3(b)] = p.pos] ELSE @,
            !.hash[HV(p.numHashBytes, b)] = p.pos]

Search(p, s, curMatch, maxLen) ==
  IF p.btMode THEN GetMatchesSpec1(p, s, p.lenLimit, curMatch, maxLen)
  ELSE Hc_GetMatchesSpec(p, s, p.lenLimit, curMatch, maxLen)

(* Bt_SkipMatchesSpec, and what the Hc finders do instead.                 *)
Skipped(p, s, curMatch) ==
  IF p.btMode THEN GetMatchesSpec1(p, s, p.lenLimit, curMatch, 0).son ELSE Chained(p, curMatch).son

Head2(p, b) == Wrap(p.pos - IF p.numHashBytes > 2 THEN p.hash2[H2(b)] ELSE 0)
Head3(p, b) == Wrap(p.pos - IF p.numHashBytes > 3 THEN p.hash3[H3(b)] ELSE 0)

(* xxx_MatchFinder_GetMatches: the pairs found and the new son.  No search *)
(* is made when the hashes of two and three bytes gave the longest match.  *)
Found(p, s, curMatch, fixed) ==
  LET Both(search) == [d |-> fixed.d \o search.d, son |-> search.son]
  IN IF fixed.maxLen = p.lenLimit /\ fixed.d # << >>
     THEN [d |-> fixed.d, son |-> Skipped(p, s, curMatch)]
     ELSE Both(Search(p, s, curMatch, fixed.maxLen))

Matches(p, s) ==
  LET At(b) == Found(p, s, p.hash[HV(p.numHashBytes, b)], FixedMatches(p, s, Head2(p, b), Head3(p, b)))
  IN IF p.lenLimit < p.numHashBytes THEN [d |-> << >>, son |-> p.son]
     ELSE At(CurBytes(p, s, p.numHashBytes))

Entered(p, s) ==
  IF p.lenLimit < p.numHashBytes THEN p ELSE Enter(p, CurBytes(p, s, p.numHashBytes))

MatchFinder_GetMatches(p, s) == MovePos([Entered(p, s) EXCEPT !.son = Matches(p, s).son], s)

(* xxx_MatchFinder_Skip *)
SkipOne(p, s) ==
  IF p.lenLimit < p.numHashBytes THEN MovePos(p, s)
  ELSE MovePos([Entered(p, s) EXCEPT
         !.son = Skipped(p, s, p.hash[HV(p.numHashBytes, CurBytes(p, s, p.numHashBytes))])], s)

MatchFinder_Skip(p, s, num) == Repeated(LAMBDA q : SkipOne(q, s), p, num)
=============================================================================
