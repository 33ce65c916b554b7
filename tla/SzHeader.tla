------------------------------ MODULE SzHeader ------------------------------
(* The sections of the .7z header, 7zArcIn.c: streams (ReadPackInfo,          *)
(* ReadUnpackInfo, ReadSubStreamsInfo) and files (SzReadHeader2), read into   *)
(* the archive p = CSzAr, the substreams ssi and the files' properties.       *)
(* Operators take the record of SzData and give the next one.                 *)
(*                                                                            *)
(* UInt32 is 0 .. UInt32Max; a section that another part of the code reads    *)
(* again is kept as its bytes.                                                *)
EXTENDS SzFolder

k7zIdEnd                   == 0
k7zIdHeader                == 1
k7zIdArchiveProperties     == 2
k7zIdAdditionalStreamsInfo == 3
k7zIdMainStreamsInfo       == 4
k7zIdFilesInfo             == 5
k7zIdPackInfo              == 6
k7zIdUnpackInfo            == 7
k7zIdSubStreamsInfo        == 8
k7zIdSize                  == 9
k7zIdCRC                   == 10
k7zIdFolder                == 11
k7zIdCodersUnpackSize      == 12
k7zIdNumUnpackStream       == 13
k7zIdEmptyStream           == 14
k7zIdEmptyFile             == 15
k7zIdName                  == 17
k7zIdCTime                 == 18
k7zIdMTime                 == 20
k7zIdWinAttrib             == 21
k7zIdEncodedHeader         == 23

UInt32Max == 2 * Num32Max + 1
k_Scan_NumCoders_MAX == 64
k_Scan_NumCodersStreams_in_Folder_MAX == 64
NUM_ADDITIONAL_STREAMS_MAX == 8

(* The largest number of folders, by what the streams are read for: the       *)
(* header itself, the additional streams, the files.                          *)
NumFoldersMax(use) == [encoded |-> 1, additional |-> NUM_ADDITIONAL_STREAMS_MAX, main |-> Num32Max \div 2][use]

-----------------------------------------------------------------------------
(* SzAr_Init, SzAr_Free; name tells which of the archives' pointers these are *)
SzAr_Init(name, rangeLimit) ==
  [name |-> name, numPackStreams |-> 0, packPositions |-> <<>>, numFolders |-> 0, codersOffsets |-> <<>>,
   startPackStreamIndex |-> <<>>, toCoderUnpackSizes |-> <<>>, toMainUnpackSizeIndex |-> <<>>, codersData |-> <<>>,
   coderUnpackSizes |-> <<>>, folderCRCs |-> NoVals, rangeLimit |-> rangeLimit]

SzAr_Pointers(name) ==
  {<<name, q>> : q \in {"PackPositions", "FoCodersOffsets", "FoStartPackStreamIndex", "FoToCoderUnpackSizes",
                        "FoToMainUnpackSizeIndex", "CoderUnpackSizes", "CodersData"}}
  \cup {<<name, "FolderCRCs", "Defs">>, <<name, "FolderCRCs", "Vals">>}

SzAr_Free(r) == [Free(r, SzAr_Pointers(r.p.name)) EXCEPT !.p = SzAr_Init(r.p.name, 0)]

-----------------------------------------------------------------------------
(* ReadPackInfo.                                                              *)
KeepNumPack(r) == IF Ok(r) THEN [r EXCEPT !.p.numPackStreams = r.val] ELSE r
FirstPosition(r) == IF Ok(r) THEN [r EXCEPT !.p.packPositions = <<0>>] ELSE r
AllocPositions(r) == FirstPosition(Alloc(r, <<r.p.name, "PackPositions">>, 8 * (r.p.numPackStreams + 1)))

LastPosition(p) == p.packPositions[Len(p.packPositions)]
AddPackSize(r) ==
  LET Sum == Add64(LastPosition(r.p), r.val)
  IN  IF ~Ok(r) THEN r ELSE IF Sum < r.val THEN Error(r, "ARCHIVE") ELSE [r EXCEPT !.p.packPositions = Append(@, Sum)]

RECURSIVE PackSizes(_, _)
PackSizes(r, n) == IF ~Ok(r) \/ n = 0 THEN r ELSE PackSizes(AddPackSize(ReadNumber(r)), n - 1)

RECURSIVE PackAttributes(_)
PackAttributes(r) ==
  IF ~Ok(r) \/ r.val = k7zIdEnd THEN r
  ELSE PackAttributes(ReadID(IF r.val = k7zIdCRC THEN SkipBitUi32s(r, r.p.numPackStreams) ELSE SkipData(r)))

PackPositions(r) == PackSizes(AllocPositions(r), r.p.numPackStreams)
ReadPackInfo(r)  == PackAttributes(ReadID(PackPositions(WaitId(KeepNumPack(SzReadNumber32(r)), k7zIdSize))))

-----------------------------------------------------------------------------
(* ReadUnpackInfo: the folders are scanned, to be read again one by one when  *)
(* they are decoded.  They may be in a buffer of the additional streams.      *)
KeepNumFolders(r) == IF Ok(r) THEN [r EXCEPT !.p.numFolders = r.val] ELSE r

TempBuf(r)  == IF Ok(r) THEN [r EXCEPT !.outer = r.sd, !.sd = r.tempBufs[r.val + 1], !.external = TRUE] ELSE r
FromTemp(r) == TempBuf(Refuse(r, r.val >= Len(r.tempBufs), "ARCHIVE"))
FoldersWhere(r) == IF Ok(r) /\ r.val # 0 THEN FromTemp(SzReadNumber32(r)) ELSE r
FoldersStart(r) == IF Ok(r) THEN [r EXCEPT !.start = r.sd, !.packIndex = 0, !.numOut = 0] ELSE r

AllocFolders(r) ==
  LET n == r.p.numFolders
  IN  AllocZE(Alloc(Alloc(Alloc(r, <<r.p.name, "FoCodersOffsets">>, 8 * (n + 1)),
                          <<r.p.name, "FoStartPackStreamIndex">>, 4 * (n + 1)),
                    <<r.p.name, "FoToCoderUnpackSizes">>, 4 * (n + 1)),
              <<r.p.name, "FoToMainUnpackSizeIndex">>, n)

ScanOffset(r) == [r EXCEPT !.p.codersOffsets = Append(@, Len(r.start) - Len(r.sd)), !.f = EmptyFolder]

ScanNum(r) ==
  IF ~Ok(r) THEN r ELSE Refuse([r EXCEPT !.f.numCoders = r.val], r.val \notin 1 .. k_Scan_NumCoders_MAX, "UNSUPPORTED")

ScanOutStreams(r) == Refuse(r, r.f.streams > k_Scan_NumCodersStreams_in_Folder_MAX \/ r.val # 1, "UNSUPPORTED")
ScanStreams(r) ==
  IF Ok(r) /\ HasStreams(r) THEN ScanOutStreams(SzReadNumber32(KeepStreams(SzReadNumber32(r)))) ELSE r
ScanProps(r) == IF Ok(r) /\ HasProps(r) THEN SkipSized(SzReadNumber32(r)) ELSE r

RECURSIVE ScanCoders(_, _)
ScanCoders(r, n) == IF ~Ok(r) \/ n = 0 THEN r ELSE ScanCoders(ScanProps(CountStreams(ScanStreams(ReadId(r)))), n - 1)

ScanSizes(r) ==
  Refuse(Refuse(r, r.f.numIn < r.f.numCoders - 1, "ARCHIVE"), r.f.numIn > k_Scan_NumCodersStreams_in_Folder_MAX, "UNSUPPORTED")
ScanPackStreams(r) ==
  IF Ok(r) /\ NumPackStreams(r.f) # 1 THEN ReadPackStreams(r, NumPackStreams(r.f)) ELSE r
ScanBonds(r) ==
  IF ~Ok(r) \/ (r.f.numCoders = 1 /\ r.f.numIn = 1) THEN r
  ELSE MainCoder(ScanPackStreams(ReadBonds(ScanSizes(r), r.f.numCoders - 1)))

ScanKept(r) ==
  IF ~Ok(r) THEN r
  ELSE [r EXCEPT !.p.startPackStreamIndex = Append(@, r.packIndex), !.p.toCoderUnpackSizes = Append(@, r.numOut),
                 !.p.toMainUnpackSizeIndex = Append(@, r.f.unpackStream), !.numOut = @ + r.f.numCoders,
                 !.packIndex = @ + NumPackStreams(r.f)]

ScanEnd(r) ==
  ScanKept(Refuse(Refuse(r, r.numOut + r.f.numCoders > UInt32Max, "UNSUPPORTED"),
                  NumPackStreams(r.f) > r.p.numPackStreams - r.packIndex, "ARCHIVE"))

ScanParts(r)  == ScanEnd(ScanBonds(ScanCoders(r, r.f.numCoders)))
ScanFolder(r) == ScanParts(ScanNum(SzReadNumber32(ScanOffset(r))))

RECURSIVE ScanFolders(_, _)
ScanFolders(r, n) == IF ~Ok(r) \/ n = 0 THEN r ELSE ScanFolders(ScanFolder(r), n - 1)

ScannedSize(r) == Len(r.start) - Len(r.sd)
KeepFolders(r) ==
  IF ~Ok(r) THEN r
  ELSE [r EXCEPT !.p.toCoderUnpackSizes = Append(@, r.numOut), !.p.startPackStreamIndex = Append(@, r.packIndex),
                 !.p.codersOffsets = Append(@, ScannedSize(r)), !.p.codersData = Taken(r.start, ScannedSize(r))]
CodersData(r) == KeepFolders(AllocZE(r, <<r.p.name, "CodersData">>, ScannedSize(r)))

BackFromTemp(r) == IF Ok(r) /\ r.external THEN [r EXCEPT !.sd = r.outer, !.external = FALSE] ELSE r
AfterFolders(r) == BackFromTemp(Refuse(r, r.external /\ r.sd # <<>>, "ARCHIVE"))

AddUnpackSize(r) == IF Ok(r) THEN [r EXCEPT !.p.coderUnpackSizes = Append(@, r.val)] ELSE r
RECURSIVE UnpackSizes(_, _)
UnpackSizes(r, n) == IF ~Ok(r) \/ n = 0 THEN r ELSE UnpackSizes(AddUnpackSize(ReadNumber(r)), n - 1)
CodersUnpackSize(r) == UnpackSizes(AllocZE(r, <<r.p.name, "CoderUnpackSizes">>, 8 * r.numOut), r.numOut)

KeepFolderCRCs(r) == IF Ok(r) THEN [r EXCEPT !.p.folderCRCs = r.val] ELSE r
FolderCRCs(r) == KeepFolderCRCs(ReadBitUi32s(r, r.p.folderCRCs, r.p.numFolders, <<r.p.name, "FolderCRCs">>))

RECURSIVE UnpackAttributes(_)
UnpackAttributes(r) ==
  IF ~Ok(r) \/ r.val = k7zIdEnd THEN r
  ELSE UnpackAttributes(ReadID(IF r.val = k7zIdCRC THEN FolderCRCs(r) ELSE SkipData(r)))

NumFoldersFit(r)  == KeepNumFolders(Refuse(r, r.val > NumFoldersMax(r.use), "UNSUPPORTED"))
FoldersPlaced(r)  == FoldersStart(AllocFolders(FoldersWhere(ReadByte(NumFoldersFit(SzReadNumber32(r))))))
FoldersScanned(r) == AfterFolders(CodersData(ScanFolders(r, r.p.numFolders)))
ReadUnpackInfo(r) ==
  UnpackAttributes(ReadID(CodersUnpackSize(WaitId(FoldersScanned(FoldersPlaced(WaitId(r, k7zIdFolder))), k7zIdCodersUnpackSize))))

-----------------------------------------------------------------------------
(* ReadSubStreamsInfo.                                                        *)
NoSubStreams == [total |-> 0, digests |-> 0, inData |-> 0, hasNums |-> FALSE, nums |-> <<>>, hasSizes |-> FALSE,
                 sizes |-> <<>>, hasCrcs |-> FALSE, crcs |-> <<>>]

StartSubStreams(r) == [r EXCEPT !.ssi.total = r.p.numFolders, !.ssi.digests = r.p.numFolders]

CountSubStreams(r, fo) ==
  LET n == r.val
      Total == (r.ssi.total + n) % (UInt32Max + 1)
  IN  IF ~Ok(r) THEN r
      ELSE Refuse([r EXCEPT !.ssi.nums = Append(@, n), !.ssi.total = Total, !.ssi.inData = @ + (IF n = 0 THEN 0 ELSE n - 1),
                            !.ssi.digests = @ + (IF n # 1 \/ ~SzBitWithVals_Check(r.p.folderCRCs, fo) THEN n ELSE 0)],
                  Total < n, "UNSUPPORTED")

RECURSIVE SubStreamNums(_, _)
SubStreamNums(r, fo) ==
  IF ~Ok(r) \/ fo = r.p.numFolders THEN r ELSE SubStreamNums(CountSubStreams(SzReadNumber32(r), fo), fo + 1)

NoNums(r) == IF Ok(r) THEN [r EXCEPT !.ssi.hasNums = TRUE, !.ssi.total = 0, !.ssi.digests = 0] ELSE r
NumSubStreams(r) == SubStreamNums(NoNums(Refuse(r, r.ssi.hasNums, "UNSUPPORTED")), 0)

RECURSIVE SubStreamsBefore(_)
SubStreamsBefore(r) ==
  IF ~Ok(r) \/ r.val \in {k7zIdCRC, k7zIdSize, k7zIdEnd} THEN r
  ELSE SubStreamsBefore(ReadID(IF r.val = k7zIdNumUnpackStream THEN NumSubStreams(r) ELSE SkipData(r)))

OwnDigests(r) ==
  IF Ok(r) /\ ~r.ssi.hasNums /\ r.p.folderCRCs.defs # <<>>
    THEN [r EXCEPT !.ssi.digests = r.p.numFolders - CountDefinedBits(r.p.folderCRCs.defs, r.p.numFolders)] ELSE r

(* What a reader has taken of the section since before.                       *)
TakenOf(r, before) == Taken(before, Len(before) - Len(r.sd))

KeepSizes(r, before) == IF Ok(r) THEN [r EXCEPT !.ssi.hasSizes = TRUE, !.ssi.sizes = TakenOf(r, before)] ELSE r
SubStreamSizes(r) ==
  IF Ok(r) /\ r.val = k7zIdSize THEN ReadID(KeepSizes(SkipNumbers(r, r.ssi.inData), r.sd)) ELSE r

KeepCrcs(r, before) == IF Ok(r) THEN [r EXCEPT !.ssi.hasCrcs = TRUE, !.ssi.crcs = TakenOf(r, before)] ELSE r
SubStreamCrcs(r) == KeepCrcs(SkipBitUi32s(Refuse(r, r.ssi.hasCrcs, "UNSUPPORTED"), r.ssi.digests), r.sd)

RECURSIVE SubStreamsAfter(_)
SubStreamsAfter(r) ==
  IF ~Ok(r) \/ r.val = k7zIdEnd THEN r
  ELSE SubStreamsAfter(ReadID(IF r.val = k7zIdCRC THEN SubStreamCrcs(r) ELSE SkipData(r)))

ReadSubStreamsInfo(r) == SubStreamsAfter(SubStreamSizes(OwnDigests(SubStreamsBefore(ReadID(StartSubStreams(r))))))

-----------------------------------------------------------------------------
(* SzReadStreamsInfo.                                                         *)
KeepOffset(r) == IF Ok(r) THEN [r EXCEPT !.dataOffset = r.val] ELSE r
OffsetFits(r) == Refuse(r, r.dataOffset > r.p.rangeLimit, "ARCHIVE")
PacksFit(r)   == Refuse(r, LastPosition(r.p) > r.p.rangeLimit - r.dataOffset, "ARCHIVE")

PackInfoPart(r) ==
  IF Ok(r) /\ r.val = k7zIdPackInfo THEN ReadID(PacksFit(ReadPackInfo(OffsetFits(KeepOffset(ReadNumber(r)))))) ELSE r
UnpackInfoPart(r) == IF Ok(r) /\ r.val = k7zIdUnpackInfo THEN ReadID(ReadUnpackInfo(r)) ELSE r
SubStreamsPart(r) ==
  CASE ~Ok(r) -> r
    [] Ok(r) /\ r.val = k7zIdSubStreamsInfo -> ReadID(ReadSubStreamsInfo(r))
    [] Ok(r) /\ r.val # k7zIdSubStreamsInfo -> [r EXCEPT !.ssi.total = r.p.numFolders]
StreamsEnd(r) == Refuse(r, r.val # k7zIdEnd, "UNSUPPORTED")

SzReadStreamsInfo(r) ==
  StreamsEnd(SubStreamsPart(UnpackInfoPart(PackInfoPart(ReadID([r EXCEPT !.dataOffset = 0, !.ssi = NoSubStreams])))))

-----------------------------------------------------------------------------
(* The properties of the files.                                               *)
NoProperties == [numFiles |-> 0, hasEmpty |-> FALSE, empty |-> <<>>, numEmpty |-> 0, hasEmptyFiles |-> FALSE, emptyFiles |-> <<>>,
                 hasNames |-> FALSE, names |-> <<>>, attribs |-> NoVals, mtime |-> NoVals, ctime |-> NoVals]

EmptyStreams(r) ==
  LET Bad == r.files.hasEmpty \/ r.files.hasEmptyFiles \/ BytesFor(r.files.numFiles) # Len(r.sd)
  IN  IF Bad THEN Error(r, "ARCHIVE")
      ELSE [r EXCEPT !.files.hasEmpty = TRUE, !.files.empty = r.sd,
                     !.files.numEmpty = CountDefinedBits(r.sd, r.files.numFiles)]

EmptyFiles(r) ==
  LET Bad == r.files.hasEmptyFiles \/ BytesFor(r.files.numEmpty) # Len(r.sd)
  IN  IF Bad THEN Error(r, "ARCHIVE") ELSE [r EXCEPT !.files.hasEmptyFiles = TRUE, !.files.emptyFiles = r.sd]

(* The values of a property, where they are or in a buffer.                   *)
UseBuf(r)   == IF Ok(r) THEN [r EXCEPT !.sd = r.tempBufs[r.val + 1]] ELSE r
OnlyIndex(r) == UseBuf(Refuse(r, r.val >= Len(r.tempBufs) \/ r.sd # <<>>, "ARCHIVE"))
ExternalIf(r) == IF Ok(r) /\ r.val # 0 THEN OnlyIndex(SzReadNumber32(r)) ELSE r
External(r) == ExternalIf(ReadByte(r))
UsedUp(r)   == Refuse(r, r.sd # <<>>, "ARCHIVE")

(* SzReadFileNames: numFiles names, each with a zero at its end.              *)
Units(bytes) == [j \in 1 .. Len(bytes) \div 2 |-> bytes[2 * j - 1] + 256 * bytes[2 * j]]
Ends(units)  == {j \in DOMAIN units : units[j] = 0}

NamesFit(bytes, n) ==
  IF n = 0 THEN bytes = <<>> ELSE bytes # <<>> /\ Len(bytes) \div 2 \in Ends(Units(bytes)) /\ Cardinality(Ends(Units(bytes))) = n

AllocNames(r) ==
  AllocZE(Alloc(r, <<"db", "FileNameOffsets">>, 8 * (r.files.numFiles + 1)), <<"db", "FileNames">>, Len(r.sd))
KeepNames(r) == IF Ok(r) THEN [r EXCEPT !.files.hasNames = TRUE, !.files.names = Units(r.sd)] ELSE r
NamesRead(r) == KeepNames(Refuse(AllocNames(Refuse(r, Len(r.sd) % 2 # 0, "ARCHIVE")), ~NamesFit(r.sd, r.files.numFiles), "ARCHIVE"))
FileNames(r) == NamesRead(External(Refuse(r, r.files.hasNames, "ARCHIVE")))

(* An array of values of size bytes: the bits, then the values.               *)
ArrayVals(r, defs, size, owner) ==
  UsedUp(ReadVals(AllocZE(r, Append(owner, "Vals"), size * r.files.numFiles), defs, r.files.numFiles, size))
ArrayAfterDefs(r, size, owner) == IF Ok(r) THEN ArrayVals(External(r), r.val, size, owner) ELSE r
ReadArray(r, old, size, owner) ==
  ArrayAfterDefs(ReadBitVector(Refuse(r, old.defs # <<>>, "ARCHIVE"), r.files.numFiles, Append(owner, "Defs")), size, owner)

WinAttrib(r) ==
  LET Keep(q) == IF Ok(q) THEN [q EXCEPT !.files.attribs = q.val] ELSE q
  IN  Keep(ReadArray(r, r.files.attribs, 4, <<"db", "Attribs">>))

(* ReadTime.                                                                  *)
ReadTime(r, id) ==
  LET Keep(q) == CASE ~Ok(q) -> q [] Ok(q) /\ id = k7zIdMTime -> [q EXCEPT !.files.mtime = q.val]
                   [] Ok(q) /\ id # k7zIdMTime -> [q EXCEPT !.files.ctime = q.val]
  IN  IF id = k7zIdMTime THEN Keep(ReadArray(r, r.files.mtime, 8, <<"db", "MTime">>))
      ELSE Keep(ReadArray(r, r.files.ctime, 8, <<"db", "CTime">>))

Property(r, id) ==
  CASE id = k7zIdEmptyStream -> EmptyStreams(r)
    [] id = k7zIdEmptyFile -> EmptyFiles(r)
    [] id = k7zIdName -> FileNames(r)
    [] id = k7zIdWinAttrib -> WinAttrib(r)
    [] id \in {k7zIdMTime, k7zIdCTime} -> ReadTime(r, id)
    [] OTHER -> r

(* A property has a section of its own; what it leaves of it is skipped.      *)
EnterSection(r) ==
  IF Ok(r) THEN [r EXCEPT !.outer = Skipped(r.sd, r.val), !.sd = Taken(r.sd, r.val)] ELSE r
LeaveSection(r) == IF Ok(r) THEN [r EXCEPT !.sd = r.outer] ELSE r
SectionFits(r)  == EnterSection(Refuse(r, r.val > Len(r.sd), "ARCHIVE"))
SizedSection(r) == SectionFits(ReadNumber(r))
FileProperty(r, id) == LET In(q) == IF Ok(q) THEN Property(q, id) ELSE q IN LeaveSection(In(SizedSection(r)))
=============================================================================
