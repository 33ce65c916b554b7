------------------------------ MODULE SzFolder ------------------------------
(* A folder of a .7z archive: its coders and bonds as the header describes    *)
(* them (SzGetNextFolderItem, 7zArcIn.c) and its decoding (7zDec.c), which    *)
(* reads the packed streams through the look-ahead buffer of 7zStream.c.      *)
(*                                                                            *)
(* Operators take the record of SzData and give the next one: f is the folder *)
(* read from the section sd, c the coder at work, out the buffer decoded to,  *)
(* in the stream.  Of the methods, PPMd and the branch converters other than  *)
(* ARM are left out.                                                          *)
EXTENDS SzData, Lzma2Dec, XzFilter, Bcj2

SZ_NUM_CODERS_IN_FOLDER_MAX       == 4
SZ_NUM_PACK_STREAMS_IN_FOLDER_MAX == 4
k_NumCodersStreams_in_Folder_MAX  == 7

k_Copy  == <<>>
k_LZMA2 == <<33>>
k_LZMA  == <<3, 1, 1>>
k_BCJ2  == <<3, 3, 1, 27>>
k_Delta == <<3>>
k_ARM   == <<3, 3, 5, 1>>

-----------------------------------------------------------------------------
(* What the two readers of a folder share, the one here and the scan of       *)
(* ReadUnpackInfo: a coder's first bytes, the bonds, the pack streams.        *)
EmptyFolder == [numCoders |-> 0, numIn |-> 0, main |-> 0, streams |-> 1, coders |-> <<>>, bonds |-> <<>>,
                packStreams |-> <<>>, unpackStream |-> 0, index |-> 0, streamUsed |-> {}, coderUsed |-> {}]

HasStreams(r) == (r.f.main \div 16) % 2 = 1
HasProps(r)   == (r.f.main \div 32) % 2 = 1
IdSize(r)     == r.f.main % 16

KeepMain(r)  == IF Ok(r) THEN [r EXCEPT !.f.main = r.val, !.f.streams = 1] ELSE r
CheckMain(r) == Refuse(r, r.f.main >= 64 \/ IdSize(r) > 8, "UNSUPPORTED")
TakeId(r)    == TakeBytes(Refuse(r, IdSize(r) > Len(r.sd), "ARCHIVE"), IdSize(r))
ReadId(r)    == TakeId(CheckMain(KeepMain(ReadByte(r))))

KeepStreams(r)  == IF Ok(r) THEN [r EXCEPT !.f.streams = r.val] ELSE r
CountStreams(r) == IF Ok(r) THEN [r EXCEPT !.f.numIn = @ + r.f.streams] ELSE r

TakeIndex(r)  == IF Ok(r) THEN [r EXCEPT !.f.streamUsed = @ \cup {r.val}, !.f.index = r.val] ELSE r
StreamIndex(r) == TakeIndex(Refuse(r, r.val >= r.f.numIn \/ r.val \in r.f.streamUsed, "ARCHIVE"))
ReadIndex(r)   == StreamIndex(SzReadNumber32(r))

TakeBond(r)    == IF Ok(r) THEN [r EXCEPT !.f.coderUsed = @ \cup {r.val}, !.f.bonds = Append(@, <<r.f.index, r.val>>)] ELSE r
CoderIndex(r)  == TakeBond(Refuse(r, r.val >= r.f.numCoders \/ r.val \in r.f.coderUsed, "ARCHIVE"))
ReadBond(r)    == CoderIndex(SzReadNumber32(ReadIndex(r)))

RECURSIVE ReadBonds(_, _)
ReadBonds(r, n) == IF ~Ok(r) \/ n = 0 THEN r ELSE ReadBonds(ReadBond(r), n - 1)

TakePackStream(r) == IF Ok(r) THEN [r EXCEPT !.f.packStreams = Append(@, r.f.index)] ELSE r
RECURSIVE ReadPackStreams(_, _)
ReadPackStreams(r, n) == IF ~Ok(r) \/ n = 0 THEN r ELSE ReadPackStreams(TakePackStream(ReadIndex(r)), n - 1)

(* The first number below n that is not used, n without one.                  *)
FirstFree(used, n) == CHOOSE j \in 0 .. n : j \notin used /\ 0 .. j - 1 \subseteq used

MainCoder(r) ==
  LET Unused == FirstFree(r.f.coderUsed, r.f.numCoders)
  IN  IF ~Ok(r) THEN r ELSE IF Unused = r.f.numCoders THEN Error(r, "ARCHIVE") ELSE [r EXCEPT !.f.unpackStream = Unused]

-----------------------------------------------------------------------------
(* SzGetNextFolderItem.                                                       *)
RECURSIVE Significant(_)
Significant(id) == IF id # <<>> /\ Head(id) = 0 THEN Significant(Tail(id)) ELSE id

AddCoder(r) ==
  IF Ok(r) THEN [r EXCEPT !.f.coders = Append(@, [method |-> Significant(r.val), numStreams |-> 1, props |-> <<>>])]
  ELSE r

LastCoder(r) == r.f.coders[Len(r.f.coders)]
ShortId(r) == Refuse(r, Len(LastCoder(r).method) > 4, "UNSUPPORTED")
ItemId(r)  == ShortId(AddCoder(ReadId(r)))

OneOutStream(r) == Refuse(r, r.val # 1, "UNSUPPORTED")
FewStreams(r)   == Refuse(r, r.val > k_NumCodersStreams_in_Folder_MAX, "UNSUPPORTED")
SetStreams(r)   == IF Ok(r) THEN [r EXCEPT !.f.coders[Len(r.f.coders)].numStreams = r.f.streams] ELSE r

ItemStreams(r) ==
  IF Ok(r) /\ HasStreams(r) THEN OneOutStream(SzReadNumber32(SetStreams(KeepStreams(FewStreams(SzReadNumber32(r)))))) ELSE r

ItemCount(r) == Refuse(r, r.f.numIn > k_NumCodersStreams_in_Folder_MAX, "UNSUPPORTED")

SetProps(r)  == IF Ok(r) THEN [r EXCEPT !.f.coders[Len(r.f.coders)].props = r.val] ELSE r
PropsSize(r) == Refuse(Refuse(r, r.val > Len(r.sd), "ARCHIVE"), r.val >= 128, "UNSUPPORTED")
ItemPropsOf(r) == SetProps(TakeBytes(r, r.val))
ItemProps(r) == IF Ok(r) /\ HasProps(r) THEN ItemPropsOf(PropsSize(SzReadNumber32(r))) ELSE r

ItemCoder(r) == ItemProps(ItemCount(CountStreams(ItemStreams(ItemId(r)))))

RECURSIVE ItemCoders(_, _)
ItemCoders(r, n) == IF ~Ok(r) \/ n = 0 THEN r ELSE ItemCoders(ItemCoder(r), n - 1)

NumPackStreams(f) == f.numIn - (f.numCoders - 1)

ItemSizes(r) ==
  Refuse(Refuse(r, r.f.numIn < r.f.numCoders - 1, "ARCHIVE"),
         NumPackStreams(r.f) > SZ_NUM_PACK_STREAMS_IN_FOLDER_MAX, "UNSUPPORTED")

(* Mutant: UnpackStream is left as it was.                                    *)
ItemBonds_NoUnpackStream(r) == IF Ok(r) /\ r.f.numCoders > 1 THEN ReadBonds(r, r.f.numCoders - 1) ELSE r

ItemBonds(r) == IF Ok(r) /\ r.f.numCoders > 1 THEN MainCoder(ReadBonds(r, r.f.numCoders - 1)) ELSE r

OnlyPackStream(r) ==
  LET Unused == FirstFree(r.f.streamUsed, r.f.numIn)
  IN  IF Unused = r.f.numIn THEN Error(r, "ARCHIVE") ELSE [r EXCEPT !.f.packStreams = <<Unused>>]

ItemPackStreams(r) ==
  IF Ok(r) /\ NumPackStreams(r.f) = 1 THEN OnlyPackStream(r) ELSE ReadPackStreams(r, NumPackStreams(r.f))

ItemNum(r) ==
  IF ~Ok(r) THEN r
  ELSE Refuse([r EXCEPT !.f.numCoders = r.val], r.val \notin 1 .. SZ_NUM_CODERS_IN_FOLDER_MAX, "UNSUPPORTED")

ItemParts(r) == ItemPackStreams(ItemBonds(ItemSizes(ItemCoders(r, r.f.numCoders))))

SzGetNextFolderItem(r) == ItemParts(ItemNum(SzReadNumber32([r EXCEPT !.f = EmptyFolder])))

-----------------------------------------------------------------------------
(* The stream: LookToRead2 over a file in which the reads numbered in bad     *)
(* fail.  have is what the buffer holds past its position; a new buffer is    *)
(* not filled, whatever have says.                                            *)
StreamOver(bytes, bufSize, bad) ==
  [file |-> bytes, bufSize |-> bufSize, bad |-> bad, reads |-> 0, at |-> 0, have |-> <<>>]

RealRead(r, n) ==
  LET Upto == Smaller(r.in.at + n, Len(r.in.file))
  IN  IF ~Ok(r) THEN r
      ELSE IF r.in.reads + 1 \in r.in.bad THEN [Error(r, "READ") EXCEPT !.in.reads = Counted(@, r.in.bad)]
      ELSE [r EXCEPT !.in.reads = Counted(@, r.in.bad), !.in.at = IF @ < Upto THEN Upto ELSE @,
                     !.val = SubSeq(r.in.file, r.in.at + 1, Upto)]

Buffered(r)  == IF Ok(r) THEN [r EXCEPT !.in.have = r.val] ELSE r
FillBuffer(r, n) == IF Ok(r) /\ r.in.have = <<>> /\ n # 0 THEN Buffered(RealRead(r, Smaller(n, r.in.bufSize))) ELSE r
ShowBuffer(r, n) == Value(r, Taken(r.in.have, Smaller(n, Len(r.in.have))))

Look(r, n)   == ShowBuffer(FillBuffer(r, n), n)
Skip(r, n)   == IF Ok(r) THEN [r EXCEPT !.in.have = Skipped(@, n)] ELSE r
SeekTo(r, pos) == IF Ok(r) THEN [r EXCEPT !.in.have = <<>>, !.in.at = pos] ELSE r
NewBuffer(r, bufSize) == [r EXCEPT !.in.bufSize = bufSize, !.in.have = [j \in DOMAIN @ |-> Unset]]

LookToRead2_Read(r, n) ==
  IF r.in.have = <<>> THEN RealRead(r, n) ELSE Skip(ShowBuffer(r, n), Smaller(n, Len(r.in.have)))

RECURSIVE ReadAll(_, _, _, _)
ReadMore(r, got, n, e) ==
  IF ~Ok(r) THEN r ELSE IF r.val = <<>> THEN Error(r, e) ELSE ReadAll(r, got \o r.val, n - Len(r.val), e)
ReadAll(r, got, n, e) == IF ~Ok(r) \/ n = 0 THEN Value(r, got) ELSE ReadMore(LookToRead2_Read(r, n), got, n, e)
LookInStream_Read2(r, n, e) == ReadAll(r, <<>>, n, e)

-----------------------------------------------------------------------------
(* One coder: c says what it reads, and where out of its output of outSize    *)
(* bytes it is.                                                               *)
kLookahead == 2^18
Blank(n)   == [j \in 1 .. n |-> Unset]
Padded(s, n) == s \o Blank(n - Len(s))

RECURSIVE CopyLoop(_)
CopyPart(r) ==
  IF ~Ok(r) THEN r
  ELSE IF r.val = <<>> THEN Error(r, "INPUT_EOF")
  ELSE CopyLoop(Skip([r EXCEPT !.c.got = @ \o r.val, !.c.inSize = @ - Len(r.val)], Len(r.val)))
CopyLoop(r) == IF ~Ok(r) \/ r.c.inSize = 0 THEN r ELSE CopyPart(Look(r, Smaller(kLookahead, r.c.inSize)))

SzDecodeCopy(r) == CopyLoop(r)

DecoderOf(c) == IF c.method = k_LZMA2 THEN c.z.decoder ELSE c.z

(* What SzDecodeLzma and SzDecodeLzma2 make of a call that left the coder c,  *)
(* after it was at position before: END is their break with SZ_OK.            *)
AfterMark(c) == IF DecoderOf(c).dicPos # c.outSize \/ c.inSize # 0 THEN "DATA" ELSE "END"

Verdict(c, q, before) ==
  CASE q.res # "OK" -> q.res
    [] q.res = "OK" /\ q.status = "FINISHED_WITH_MARK" -> AfterMark(c)
    [] q.res = "OK" /\ q.status # "FINISHED_WITH_MARK" ->
         CASE c.method = k_LZMA /\ q.status = "MAYBE_FINISHED_WITHOUT_MARK" /\ AfterMark(c) = "END" -> "END"
           [] ~(c.method = k_LZMA /\ q.status = "MAYBE_FINISHED_WITHOUT_MARK" /\ AfterMark(c) = "END") ->
                IF q.used = 0 /\ DecoderOf(c).dicPos = before THEN "DATA" ELSE "MORE"

RECURSIVE LzmaLoop(_)
Judged(r, used, v) ==
  CASE v = "END" -> r
    [] v = "MORE" -> LzmaLoop(Skip(r, used))
    [] v \notin {"END", "MORE"} -> Error(r, v)

Stepped(r, q) == [r EXCEPT !.c.z = q.p, !.c.inSize = @ - q.used]
AfterCall(r, q, before) == LET S == Stepped(r, q) IN Judged(S, q.used, Verdict(S.c, q, before))

LzmaCall(r) ==
  IF ~Ok(r) THEN r
  ELSE AfterCall(r, IF r.c.method = k_LZMA2 THEN Lzma2DecodeToDic(r.c.z, r.c.outSize, r.val, "END")
                    ELSE DecodeToDic(r.c.z, r.c.outSize, r.val, "END"), DecoderOf(r.c).dicPos)

LzmaLoop(r) == IF Ok(r) THEN LzmaCall(Look(r, Smaller(kLookahead, r.c.inSize))) ELSE r

Collected(r) == [r EXCEPT !.c.got = DicOut(DecoderOf(r.c).dic, 0, r.c.outSize)]

(* The dictionary is the output itself.  (Dictionary sizes past 2^30 count as *)
(* that much.)                                                                *)
OwnDic(d, r) == [d EXCEPT !.dicBufSize = r.c.outSize, !.dic = [j \in 0 .. r.c.outSize - 1 |-> Unset]]
LzmaPropOf(props) == LzmaPropsDecode(IF Len(props) < 5 THEN props ELSE [props EXCEPT ![5] = Smaller(@, 63)])

StartLzma(r)  ==
  IF Ok(r) THEN [r EXCEPT !.c.z = LzmaDecInit(OwnDic([LzmaDecNew EXCEPT !.prop = LzmaPropOf(r.c.props)], r))] ELSE r
StartLzma2(r) ==
  LET Decoder == OwnDic([LzmaDecNew EXCEPT !.prop = Lzma2Prop(r.c.props[1])], r)
  IN  IF Ok(r) THEN [r EXCEPT !.c.z = Lzma2DecInit([Lzma2DecNew EXCEPT !.decoder = Decoder])] ELSE r

LzmaProbs(r) ==
  StartLzma(Alloc(Refuse(r, LzmaPropOf(r.c.props) = NoProp, "UNSUPPORTED"), <<"probs">>, 1))
Lzma2Probs(r) ==
  StartLzma2(Alloc(Refuse(Refuse(r, Len(r.c.props) # 1, "DATA"), ~Lzma2PropOk(r.c.props[1]), "UNSUPPORTED"), <<"probs">>, 1))

FreeProbs(r) == IF <<"probs">> \in r.mem.live THEN Free(Collected(r), {<<"probs">>}) ELSE r
LzmaFamily(r) == FreeProbs(LzmaLoop(IF r.c.method = k_LZMA THEN LzmaProbs(r) ELSE Lzma2Probs(r)))

DecodeCoder(r) ==
  CASE ~Ok(r) -> r
    [] Ok(r) /\ r.c.method = k_Copy -> IF r.c.inSize # r.c.outSize THEN Error(r, "DATA") ELSE SzDecodeCopy(r)
    [] Ok(r) /\ r.c.method # k_Copy -> LzmaFamily(r)

-----------------------------------------------------------------------------
(* SzFolder_Decode2.                                                          *)
SupportedCoder(c) == c.numStreams = 1 /\ c.method \in {k_Copy, k_LZMA, k_LZMA2}

CheckSupportedFolder(f) ==
  /\ SupportedCoder(f.coders[1])
  /\ \/ f.numCoders = 1 /\ f.packStreams = <<0>>
     \/ /\ f.numCoders = 2 /\ f.packStreams = <<0>> /\ f.bonds = << <<1, 0>> >>
        /\ f.coders[2].numStreams = 1 /\ f.coders[2].method \in {k_Delta, k_ARM}
     \/ /\ f.numCoders = 4 /\ f.packStreams = <<2, 6, 1, 0>> /\ f.bonds = << <<5, 0>>, <<4, 1>>, <<3, 2>> >>
        /\ SupportedCoder(f.coders[2]) /\ SupportedCoder(f.coders[3])
        /\ f.coders[4].method = k_BCJ2 /\ f.coders[4].numStreams = 4

(* The folder's part of the archive's tables.                                 *)
FolderSizes(p, fo) == Skipped(p.coderUnpackSizes, p.toCoderUnpackSizes[fo + 1])
FolderPacks(p, fo) == Skipped(p.packPositions, p.startPackStreamIndex[fo + 1])
PackSize(r, si)    == Sub64(r.packs[si + 2], r.packs[si + 1])

(* The input of the coder from the packed stream si.                          *)
FromPack(r, si) ==
  SeekTo(IF Ok(r) THEN [r EXCEPT !.c.inSize = PackSize(r, si)] ELSE r, Add64(r.startPos, r.packs[si + 1]))

CoderOf(r, ci) == [method |-> r.f.coders[ci + 1].method, props |-> r.f.coders[ci + 1].props, inSize |-> 0,
                   outSize |-> r.outSize, got |-> <<>>, z |-> 0]
OfSize(r, n)   == [r EXCEPT !.c.outSize = n]

(* Where a coder's output goes: the whole buffer, or in a folder with BCJ2 a  *)
(* buffer of its own for the addresses and the end of the whole for the code. *)
CoderRoom(r, ci) ==
  CASE r.f.numCoders # 4 -> r
    [] r.f.numCoders = 4 /\ ci < 2 -> AllocZE(OfSize(r, r.sizes[ci + 1]), <<"tempBuf", 1 - ci>>, r.sizes[ci + 1])
    [] r.f.numCoders = 4 /\ ci = 2 -> OfSize(Refuse(r, r.sizes[3] > r.outSize, "PARAM"), r.sizes[3])

Delivered(r, ci) ==
  CASE r.f.numCoders = 4 /\ ci < 2 -> [r EXCEPT !.temp[2 - ci] = r.c.got]
    [] r.f.numCoders = 4 /\ ci = 2 /\ r.res # "PARAM" ->
         [r EXCEPT !.out = Taken(@, r.outSize - r.c.outSize) \o Padded(r.c.got, r.c.outSize), !.temp3 = r.c.got]
    [] r.f.numCoders = 4 /\ ci = 2 /\ r.res = "PARAM" -> r
    [] r.f.numCoders # 4 -> [r EXCEPT !.out = Padded(r.c.got, r.outSize)]

StreamIndexOf(r, ci) == IF r.f.numCoders = 4 THEN CASE ci = 0 -> 3 [] ci = 1 -> 2 [] ci = 2 -> 0 ELSE 0

MainCoderStep(r, ci) ==
  Delivered(DecodeCoder(FromPack(CoderRoom([r EXCEPT !.c = CoderOf(r, ci)], ci), StreamIndexOf(r, ci))), ci)

(* BCJ2: the range coder's stream is copied, then all four are put together.  *)
RcStream(r) ==
  SzDecodeCopy(FromPack(AllocZE([r EXCEPT !.c = CoderOf(r, 3)], <<"tempBuf", 2>>, PackSize(r, 1)), 1))

Bcj2Sizes(r) ==
  Refuse(r, \/ Len(r.temp[1]) % 4 # 0 \/ Len(r.temp[2]) % 4 # 0
            \/ Len(r.temp3) + Len(r.temp[1]) + Len(r.temp[2]) # r.outSize, "DATA")

Bcj2Over(r) == Bcj2Dec_Decode(Bcj2Dec_Init([MAIN |-> r.temp3, CALL |-> r.temp[1], JUMP |-> r.temp[2], RC |-> r.c.got], r.outSize))

Bcj2Result(r, d) ==
  Refuse([r EXCEPT !.out = d.out \o Skipped(@, Len(d.out))],
         \/ d.res # "OK" \/ d.room # 0 \/ ~Bcj2Dec_IsMaybeFinished(d)
         \/ \E s \in DOMAIN d.bufs : d.bufs[s] # <<>>, "DATA")

Bcj2Join(r) == IF Ok(r) THEN Bcj2Result(r, Bcj2Over(r)) ELSE r

(* A filter converts the buffer in place.                                     *)
DeltaFilter(r, props) ==
  IF Len(props) # 1 THEN Error(r, "UNSUPPORTED")
  ELSE [r EXCEPT !.out = DeltaConv(FALSE, Zeroes(props[1] + 1), @, <<>>).data]
ArmFilter(r, props) ==
  IF props # <<>> THEN Error(r, "UNSUPPORTED") ELSE [r EXCEPT !.out = ArmConv(FALSE, @, 0)]

FilterStep(r, coder) == IF coder.method = k_Delta THEN DeltaFilter(r, coder.props) ELSE ArmFilter(r, coder.props)

CoderStep(r, ci) ==
  CASE SupportedCoder(r.f.coders[ci + 1]) -> MainCoderStep(r, ci)
    [] r.f.coders[ci + 1].method = k_BCJ2 -> Bcj2Join(Bcj2Sizes(RcStream(r)))
    [] r.f.coders[ci + 1].method \in {k_Delta, k_ARM} -> FilterStep(r, r.f.coders[ci + 1])

RECURSIVE CoderSteps(_, _)
CoderSteps(r, ci) == IF ~Ok(r) \/ ci = r.f.numCoders THEN r ELSE CoderSteps(CoderStep(r, ci), ci + 1)

SzFolder_Decode2(r) == CoderSteps(Refuse(r, ~CheckSupportedFolder(r.f), "UNSUPPORTED"), 0)

-----------------------------------------------------------------------------
(* SzAr_DecodeFolder: the folder fo of the archive p into a buffer of outSize *)
(* bytes, from the packed streams at startPos on.                             *)
SzAr_GetFolderUnpackSize(p, fo) == FolderSizes(p, fo)[p.toMainUnpackSizeIndex[fo + 1] + 1]

FolderSection(p, fo) == SubSeq(p.codersData, p.codersOffsets[fo + 1] + 1, p.codersOffsets[fo + 2])

ForFolder(r, fo, startPos, outSize) ==
  [r EXCEPT !.sd = FolderSection(r.p, fo), !.saved = r.sd, !.out = Blank(outSize), !.outSize = outSize,
            !.startPos = startPos, !.sizes = FolderSizes(r.p, fo), !.packs = FolderPacks(r.p, fo),
            !.temp = <<<<>>, <<>>>>, !.temp3 = <<>>]

SameFolder(r, fo) ==
  Refuse(r, \/ r.sd # <<>> \/ r.f.unpackStream # r.p.toMainUnpackSizeIndex[fo + 1]
            \/ r.outSize # SzAr_GetFolderUnpackSize(r.p, fo), "FAIL")

(* Mutant: the loop over tempBuf stops one short.                             *)
FreeTemps_ButLast(r) == Free(r, {<<"tempBuf", j>> : j \in 0 .. 1})

FreeTemps(r) == Free(r, {<<"tempBuf", j>> : j \in 0 .. 2})

FolderCrc(r, fo) ==
  Refuse(r, SzBitWithVals_Check(r.p.folderCRCs, fo) /\ CrcCalc(r.out) # r.p.folderCRCs.vals[fo + 1], "CRC")

SzAr_DecodeFolder(r, fo, startPos, outSize) ==
  LET Decoded0(q) == [FolderCrc(FreeTemps(SzFolder_Decode2(SameFolder(q, fo))), fo) EXCEPT !.sd = q.saved]
  IN  Decoded0(SzGetNextFolderItem(ForFolder(r, fo, startPos, outSize)))
=============================================================================
