------------------------------- MODULE SzArEx -------------------------------
(* An archive as the Swift class keeps it (Archive.swift): opened with        *)
(* SzArEx_Open (7zArcIn.c), whose header's sections are read one after the    *)
(* other from the buffer of the header, then extracted file by file with      *)
(* SzArEx_Extract until it is closed.  The pass over the files is FileTable,  *)
(* here over the headers that files hold.                                     *)
(*                                                                            *)
(* ar is the archive at work: the record of SzData, with its stage.  A step   *)
(* is a section of the header, a property of the files, a folder decoded, or  *)
(* a call of the user.  Reads and allocations may fail; seeks do not.         *)
EXTENDS FileTable, SzHeader

CONSTANT Images   (* the files to open, with what was written into them and    *)
                  (* what fails; extracts bounds how often they are read       *)

ASSUME SzArExAssumption == SizeMod = UInt64Max + 1 /\ MaskBits = kBitsPerByte

VARIABLE ar

NoArchive == [stage |-> "none"]

NoAnswer == [file |-> -1, error |-> "none", data |-> <<>>, whole |-> TRUE]

(* Archive.init: the file is open, and the stream has its buffer.             *)
NewArchive(image) ==
  Alloc([stage |-> "start", image |-> image, res |-> "OK", val |-> 0, sd |-> <<>>,
         mem |-> HeapWith(image.allocFails), in |-> StreamOver(image.file, image.bufSize, image.readFails),
         p |-> SzAr_Init("db", 0), use |-> "encoded", next |-> [offset |-> 0, size |-> 0, crc |-> <<>>],
         bufs |-> <<>>, tempBufs |-> <<>>, fo |-> 0, ssi |-> NoSubStreams, dataOffset |-> 0, dataPos |-> 0,
         files |-> NoProperties, outer |-> <<>>, external |-> FALSE, start |-> <<>>, packIndex |-> 0, numOut |-> 0,
         f |-> EmptyFolder, c |-> 0, saved |-> <<>>, out |-> <<>>, outSize |-> 0, startPos |-> 0, sizes |-> <<>>,
         packs |-> <<>>, temp |-> <<>>, temp3 |-> <<>>,
         blockIndex |-> NoFolder, outBuffer |-> <<>>, outBufferSize |-> 0, entries |-> <<>>,
         extracts |-> 0, wanted |-> 0, broken |-> FALSE, last |-> NoAnswer],
        <<"look">>, image.bufSize)

(* To the stage s, or to the end of an open that failed.                      *)
To(r, s) == [r EXCEPT !.stage = IF Ok(r) THEN s ELSE "failing"]

-----------------------------------------------------------------------------
(* SzArEx_Open2: the start header, and the next header it points to.          *)
k7zSignature       == <<55, 122, 188, 175, 39, 28>>
k7zStartHeaderSize == 32

StartHeader(r) == LookInStream_Read2(r, k7zStartHeaderSize, "NO_ARCHIVE")
AfterHeader(r) == SeekTo(r, r.in.at - Len(r.in.have))

Signature(r)   == Refuse(Refuse(r, Taken(r.val, 6) # k7zSignature, "NO_ARCHIVE"), r.val[7] # 0, "UNSUPPORTED")
StartCrc(r)    == Refuse(r, CrcCalc(Skipped(r.val, 12)) # SubSeq(r.val, 9, 12), "CRC")

NextHeader(r) ==
  LET New == [offset |-> CappedNumber(SubSeq(r.val, 13, 20), 0), size |-> CappedNumber(SubSeq(r.val, 21, 28), 0),
               crc |-> SubSeq(r.val, 29, 32)]
  IN  IF Ok(r) THEN [r EXCEPT !.next = New, !.p.rangeLimit = New.offset] ELSE r

NextFits(r) == Refuse(r, r.next.offset >= SizeMod \div 4 \/ r.next.size >= SizeMod \div 2^16, "NO_ARCHIVE")
NextThere(r) ==
  IF r.next.size = 0 THEN Refuse(r, r.next.offset # 0 \/ r.next.crc # Zeroes(4), "NO_ARCHIVE")
  ELSE Refuse(r, Len(r.in.file) - k7zStartHeaderSize < r.next.offset + r.next.size, "INPUT_EOF")

BufCrc(r) == Refuse(r, CrcCalc(r.val) # r.next.crc, "ARCHIVE")
Section(r) == IF Ok(r) THEN [r EXCEPT !.sd = r.val] ELSE r

ReadBuf(r) ==
  LookInStream_Read2(Alloc(SeekTo(r, k7zStartHeaderSize + r.next.offset), <<"buf">>, r.next.size), r.next.size, "INPUT_EOF")

Opened(r) ==
  IF ~Ok(r) \/ r.next.size = 0 THEN To(r, "opened") ELSE To(ReadID(Section(BufCrc(ReadBuf(r)))), "header")

Open2(r) == Opened(NextThere(NextFits(NextHeader(StartCrc(Signature(AfterHeader(StartHeader(r))))))))

-----------------------------------------------------------------------------
(* SzReadAndDecodePackedStreams and SzReadStreamsInfo.                        *)
BeginStreams(r, use) ==
  To([r EXCEPT !.use = use, !.p = SzAr_Init(IF use = "main" THEN "db" ELSE "tempAr", r.next.offset)], "streams")

BufOf(r, fo) == <<"buf", r.use, fo>>

RECURSIVE CreateBufs(_, _)
CreateBufs(r, fo) ==
  IF ~Ok(r) \/ fo = r.p.numFolders THEN r
  ELSE CreateBufs(AllocZE(r, BufOf(r, fo), SzAr_GetFolderUnpackSize(r.p, fo)), fo + 1)

FreeTempAr(r) == [SzAr_Free(r) EXCEPT !.p = SzAr_Init("db", r.next.offset), !.ssi = NoSubStreams]

(* The header the encoded one unpacks to takes its place.                     *)
Unpacked(r) ==
  LET Free1 == Free(r, {<<"buf">>, <<"buf", "encoded", 0>>})
  IN  [Free1 EXCEPT !.sd = r.bufs[1],
                    !.mem.live = IF <<"buf", "encoded", 0>> \in r.mem.live THEN @ \cup {<<"buf">>} ELSE @]

(* Without its buffers when it fails; those of additional streams are kept.   *)
EndTemp(r) ==
  CASE ~Ok(r) -> Free(FreeTempAr(r), {<<"buf", "encoded", 0>>})
    [] Ok(r) /\ r.use = "encoded" -> ReadID(Unpacked(FreeTempAr(r)))
    [] Ok(r) /\ r.use = "additional" -> ReadID([FreeTempAr(r) EXCEPT !.tempBufs = r.bufs])

TempDone(r) == To(EndTemp(r), IF r.use = "encoded" THEN "header" ELSE "section")

TempStreams(r) == CreateBufs(Refuse(r, r.p.numFolders = 0, "ARCHIVE"), 0)
StartDecode(r) == IF Ok(r) THEN To([r EXCEPT !.bufs = <<>>, !.fo = 0], "decode") ELSE TempDone(r)

DataPos(r) == Add64(r.dataOffset, k7zStartHeaderSize)
MainStreams(r) == IF Ok(r) THEN ReadID([r EXCEPT !.dataPos = DataPos(r)]) ELSE r

AfterStreams(r) == IF r.use = "main" THEN To(MainStreams(r), "section") ELSE StartDecode(TempStreams(r))

KeepBuf(r) == IF Ok(r) THEN [r EXCEPT !.bufs = Append(@, r.out), !.fo = @ + 1] ELSE r
AfterBuf(r) == IF Ok(r) /\ r.fo < r.p.numFolders THEN r ELSE TempDone(r)

(* The stream before the folder fo is decoded, and where its streams start.   *)
BeforeFolder(r) == IF r.use = "extract" THEN r ELSE SeekTo(r, DataPos(r))
StreamsFrom(r)  == IF r.use = "extract" THEN r.dataPos ELSE DataPos(r)

-----------------------------------------------------------------------------
(* SzReadHeader2: which section comes next.                                   *)
RECURSIVE SkipProperties(_)
SkipProperties(r) == IF ~Ok(r) \/ r.val = k7zIdEnd THEN r ELSE SkipProperties(ReadID(SkipData(r)))

ArchiveProperties(r) ==
  IF Ok(r) /\ r.val = k7zIdArchiveProperties THEN ReadID(SkipProperties(ReadID(r))) ELSE r

Header(r) == ArchiveProperties(ReadID(Refuse(r, r.val # k7zIdHeader, "UNSUPPORTED")))

HeaderType(r) ==
  IF r.val = k7zIdEncodedHeader /\ r.use = "encoded" /\ r.bufs = <<>> THEN BeginStreams(r, "encoded")
  ELSE To(Header(r), "section")

NumFiles(r)  == IF Ok(r) THEN [r EXCEPT !.files.numFiles = r.val] ELSE r

NextSection(r) ==
  CASE r.val = k7zIdAdditionalStreamsInfo /\ r.use = "encoded" -> BeginStreams(r, "additional")
    [] r.val = k7zIdMainStreamsInfo /\ r.use # "main" -> BeginStreams(r, "main")
    [] r.val = k7zIdEnd -> To(r, "ended")
    [] r.val = k7zIdFilesInfo -> To(NumFiles(SzReadNumber32(r)), "files")
    [] OTHER -> To(Error(r, "ARCHIVE"), "failing")

-----------------------------------------------------------------------------
(* What FileTable passes over: the header as it was read.                     *)
RECURSIVE NumbersOf(_)
NumbersOf(r) == IF r.sd = <<>> THEN <<>> ELSE LET Go(q) == <<q.val>> \o NumbersOf(q) IN Go(ReadNumber(r))
NumbersIn(bytes) == NumbersOf([sd |-> bytes, val |-> 0, res |-> "OK"])

(* The digests of the substreams: which are defined, and their values.        *)
DigestsDefined(ssi) ==
  CASE ssi.crcs = <<>> -> {}
    [] ssi.crcs # <<>> /\ ssi.crcs[1] # 0 -> 0 .. ssi.digests - 1
    [] ssi.crcs # <<>> /\ ssi.crcs[1] = 0 -> DefinedBits(Tail(ssi.crcs), ssi.digests)
DigestVal(ssi, n) ==
  LET Vals == Skipped(ssi.crcs, IF ssi.crcs[1] # 0 THEN 1 ELSE 1 + BytesFor(ssi.digests)) IN SubSeq(Vals, 4 * n + 1, 4 * n + 4)

BitsOf(bytes, n) == IF bytes = <<>> THEN {} ELSE DefinedBits(bytes, n)

TableHeader(r) ==
  [numFiles |-> r.files.numFiles, numFolders |-> r.p.numFolders, empty |-> BitsOf(r.files.empty, r.files.numFiles),
   hasNums |-> r.ssi.hasNums, nums |-> r.ssi.nums,
   folderSize |-> [fo \in 0 .. r.p.numFolders - 1 |-> SzAr_GetFolderUnpackSize(r.p, fo)],
   folderCrcs |-> BitsOf(r.p.folderCRCs.defs, r.p.numFolders), sizes |-> NumbersIn(r.ssi.sizes),
   digests |-> DigestsDefined(r.ssi), hasDigests |-> r.ssi.crcs # <<>>,
   emptyFiles |-> BitsOf(r.files.emptyFiles, r.files.numEmpty)]

(* The variables of FileTable before its pass over the header h.              *)
TableStart(h) ==
  [hdr |-> h, UnpackPositions |-> [k \in 0 .. h.numFiles |-> 0], FolderToFile |-> [fo \in 0 .. h.numFolders |-> 0],
   FileToFolder |-> [k \in 0 .. h.numFiles - 1 |-> 0], IsDirs |-> [b \in Bytes(h) |-> 0 .. MaskBits - 1],
   CrcVals |-> [k \in 0 .. h.numFiles - 1 |-> NoCrc]]

(* The tables of the pass, which their allocator gives as they are.           *)
BitUi32sAlloc(r, owner, n) == AllocZE(AllocZE(r, Append(owner, "Defs"), BytesFor(n)), Append(owner, "Vals"), 4 * n)

AllocTables(r) ==
  BitUi32sAlloc(
    AllocZE(Alloc(AllocZE(Alloc(r, <<"db", "FolderToFile">>, 4 * (r.p.numFolders + 1)),
                          <<"db", "FileToFolder">>, 4 * r.files.numFiles),
                  <<"db", "UnpackPositions">>, 8 * (r.files.numFiles + 1)),
            <<"db", "IsDirs">>, BytesFor(r.files.numFiles)),
    <<"db", "CRCs">>, r.files.numFiles)

Tables(r) == To(AllocTables(SkipProperties(ReadID(r))), "table")

-----------------------------------------------------------------------------
(* The ends of an open: SzReadHeader, SzArEx_Open2, SzArEx_Open, Archive.init *)
TempBufs == {<<"buf", "additional", fo>> : fo \in 0 .. NUM_ADDITIONAL_STREAMS_MAX - 1}

SzArEx_Pointers ==
  SzAr_Pointers("db")
  \cup {<<"db", q>> : q \in {"UnpackPositions", "FolderToFile", "FileToFolder", "FileNameOffsets", "FileNames", "IsDirs"}}
  \cup {<<"db", q, v>> : q \in {"CRCs", "Attribs", "MTime", "CTime"}, v \in {"Defs", "Vals"}}

SzArEx_Free(r) == Free(r, SzArEx_Pointers)

FreeHeader(r) == Free([r EXCEPT !.tempBufs = <<>>, !.bufs = <<>>, !.sd = <<>>], TempBufs \cup {<<"buf">>})
EndHeader(r)  == To(FreeHeader(Refuse(r, r.sd # <<>>, "ARCHIVE")), "opened")

Deinit(r) == SzArEx_Free(Free(r, {<<"outBuffer">>}))

(* The entries of the archive, each named by way of a buffer.                 *)
NameEnds(r) == {0} \cup Ends(r.files.names)
NameOf(r, k) ==
  LET Before(e) == Cardinality({d \in NameEnds(r) : d < e})
      End(n) == CHOOSE e \in NameEnds(r) : Before(e) = n
  IN  IF r.files.hasNames THEN SubSeq(r.files.names, End(k) + 1, End(k + 1) - 1) ELSE <<>>

ValueOf(p, k) == IF SzBitWithVals_Check(p, k) THEN p.vals[k + 1] ELSE <<>>

EntryOf(r, k) ==
  [index |-> k, path |-> NameOf(r, k), uncompressedSize |-> Size(k), directory |-> BitSet(IsDirs, k),
   modified |-> ValueOf(r.files.mtime, k)]

AddEntry(r, k) == IF Ok(r) THEN Free([r EXCEPT !.entries = Append(@, EntryOf(r, k))], {<<"name">>}) ELSE r

RECURSIVE AddEntries(_, _)
AddEntries(r, k) ==
  IF ~Ok(r) \/ k = r.files.numFiles THEN r
  ELSE AddEntries(AddEntry(Alloc(r, <<"name">>, 2 * (Len(NameOf(r, k)) + 1)), k), k + 1)

Entries(r) == Free(To(AddEntries(r, 0), "open"), {<<"look">>})
-----------------------------------------------------------------------------
(* Archive.extract and SzArEx_Extract.  broken says that the block in         *)
(* outBuffer was not decoded to its end.                                      *)
Answer(r, error, data) ==
  Free([r EXCEPT !.stage = "open", !.res = "OK",
                 !.last = [file |-> r.wanted, error |-> error, data |-> data, whole |-> ~r.broken]], {<<"look">>})

Judge(r, s, error) == IF Ok(r) THEN To(r, s) ELSE Answer(r, error, <<>>)

Trivial(entry) == entry.uncompressedSize = 0 \/ entry.directory
(* Mutant: a block is there, of whichever folder.                             *)
Cached_AnyBlock(r, fo) == <<"outBuffer">> \in r.mem.live

Cached(r, fo)  == <<"outBuffer">> \in r.mem.live /\ r.blockIndex = fo

Block(r, fo, size) ==
  AllocZE([Free(r, {<<"outBuffer">>}) EXCEPT !.blockIndex = fo, !.outBuffer = Blank(size), !.outBufferSize = size,
                                             !.broken = TRUE, !.use = "extract", !.fo = fo],
          <<"outBuffer">>, size)

FindBlock(r, fo) ==
  CASE ~Ok(r) -> Answer(r, "noMemory", <<>>)
    [] Ok(r) /\ fo = NoFolder ->
         Answer([Free(r, {<<"outBuffer">>}) EXCEPT !.blockIndex = fo, !.outBufferSize = 0], "badFile", <<>>)
    [] Ok(r) /\ fo # NoFolder /\ Cached(r, fo) -> To(r, "slice")
    [] Ok(r) /\ fo # NoFolder /\ ~Cached(r, fo) ->
         Judge(Block(r, fo, SzAr_GetFolderUnpackSize(r.p, fo)), "decode", "badFile")

LookBuf(r) == LET New == Alloc(r, <<"look">>, r.image.extractBuf) IN IF Ok(New) THEN NewBuffer(New, r.image.extractBuf) ELSE New

StartExtract(r, k) ==
  LET Asked == [r EXCEPT !.wanted = k, !.extracts = @ + 1]
  IN  IF Trivial(r.entries[k + 1]) THEN Answer(Asked, "none", <<>>) ELSE FindBlock(LookBuf(Asked), FileToFolder[k])

AfterBlock(r) == Judge([r EXCEPT !.outBuffer = r.out, !.broken = ~Ok(r)], "slice", "badFile")

FileCrc(r, k) ==
  IF CrcVals[k][1] = "folder" THEN r.p.folderCRCs.vals[CrcVals[k][2] + 1] ELSE DigestVal(r.ssi, CrcVals[k][2])

SliceOf(r, k) == SubSeq(r.outBuffer, Offset(k) + 1, Offset(k) + Size(k))
SliceFits(r, k) == Refuse(r, Offset(k) + Size(k) > r.outBufferSize, "FAIL")
SliceCrc(r, k)  == Refuse(r, BitSet(CrcDefs, k) /\ CrcCalc(SliceOf(r, k)) # FileCrc(r, k), "CRC")

AfterSlice(r, k) ==
  IF ~Ok(r) \/ <<"outBuffer">> \notin r.mem.live THEN Answer(r, "badFile", <<>>) ELSE Answer(r, "none", SliceOf(r, k))

-----------------------------------------------------------------------------
arVars == <<vars, ar>>

NoTable == TableStart([numFiles |-> 0, numFolders |-> 0, empty |-> {}, hasNums |-> FALSE, nums |-> <<>>, folderSize |-> [fo \in {} |-> 0],
                       folderCrcs |-> {}, sizes |-> <<>>, digests |-> {}, hasDigests |-> FALSE, emptyFiles |-> {}])

(* Either a header of FileTable by itself, or a file to be opened.            *)
InitArchive ==
  /\ \E image \in Images : ar = NewArchive(image)
  /\ hdr = NoTable.hdr /\ sdNumSubStreams = <<>> /\ sdSizes = <<>>
  /\ UnpackPositions = NoTable.UnpackPositions /\ FolderToFile = NoTable.FolderToFile
  /\ FileToFolder = NoTable.FileToFolder /\ CrcVals = NoTable.CrcVals
  /\ IsDirs = NoTable.IsDirs /\ CrcDefs = NoTable.IsDirs
  /\ i = 0 /\ folderIndex = 0 /\ remSubStreams = 0 /\ numSubStreams = 0 /\ unpackPos = 0
  /\ emptyFileIndex = 0 /\ digestIndex = 0 /\ digestsVals = 0
  /\ mask = 0 /\ isDirMask = {} /\ crcMask = {}
  /\ pc = "counts" /\ res = "none"

InitArEx == (Init /\ ar = NoArchive) \/ InitArchive

Open ==
  /\ ar.stage = "start"
  /\ ar' = Open2(ar)
  /\ UNCHANGED vars

ReadHeader ==
  /\ ar.stage = "header"
  /\ ar' = HeaderType(ar)
  /\ UNCHANGED vars

ReadSection ==
  /\ ar.stage = "section"
  /\ ar' = NextSection(ar)
  /\ UNCHANGED vars

ReadStreams ==
  /\ ar.stage = "streams"
  /\ ar' = AfterStreams(SzReadStreamsInfo(ar))
  /\ UNCHANGED vars

Decode ==
  /\ ar.stage = "decode"
  /\ \E r \in {SzAr_DecodeFolder(BeforeFolder(ar), ar.fo, StreamsFrom(ar), SzAr_GetFolderUnpackSize(ar.p, ar.fo))} :
       ar' = IF ar.use = "extract" THEN AfterBlock(r) ELSE AfterBuf(KeepBuf(r))
  /\ UNCHANGED vars

(* A property of the files, or the end of them: the header is whole.          *)
ReadProperty ==
  /\ ar.stage = "files"
  /\ \E r \in {ReadID(ar)} :
       /\ Ok(r) => r.val # k7zIdEnd
       /\ ar' = To(IF Ok(r) THEN FileProperty(r, r.val) ELSE r, "files")
  /\ UNCHANGED vars

EndProperties ==
  /\ ar.stage = "files"
  /\ \E r \in {ReadID(ar)} :
       /\ Ok(r) /\ r.val = k7zIdEnd
       /\ ar' = To(r, "counts")
  /\ hdr' = TableHeader(ar)
  /\ sdNumSubStreams' = hdr'.nums /\ sdSizes' = hdr'.sizes
  /\ \E t \in {TableStart(hdr')} :
       /\ UnpackPositions' = t.UnpackPositions /\ FolderToFile' = t.FolderToFile
       /\ FileToFolder' = t.FileToFolder /\ CrcVals' = t.CrcVals
       /\ IsDirs' = t.IsDirs /\ CrcDefs' = t.IsDirs
  /\ UNCHANGED <<i, folderIndex, remSubStreams, numSubStreams, unpackPos, emptyFileIndex, digestIndex, digestsVals,
                 mask, isDirMask, crcMask, pc, res>>

AllocateTables ==
  /\ ar.stage = "counts" /\ pc = "file"
  /\ ar' = Tables(ar)
  /\ UNCHANGED vars

(* The steps of FileTable.                                                    *)
CheckTable == ar.stage \in {"none", "counts"} /\ CheckCounts /\ UNCHANGED ar
PassTable ==
  /\ ar.stage \in {"none", "table"}
  /\ StartFile \/ OpenFolder \/ TakeSubStream \/ EndFiles \/ RestOfFolders
  /\ UNCHANGED ar
EndTable == ar.stage = "none" /\ Done /\ UNCHANGED ar

EndOpen ==
  /\ \/ ar.stage = "ended"
     \/ ar.stage \in {"counts", "table"} /\ pc = "done"
  /\ ar' = EndHeader(Refuse(ar, res = "ARCHIVE", "ARCHIVE"))
  /\ UNCHANGED vars

FailOpen ==
  /\ ar.stage = "failing"
  /\ ar' = [Free(Deinit(FreeHeader(ar)), {<<"look">>}) EXCEPT !.stage = "failed"]
  /\ UNCHANGED vars

ListEntries ==
  /\ ar.stage = "opened"
  /\ ar' = Entries(ar)
  /\ UNCHANGED vars

Extract(k) ==
  /\ ar.stage = "open" /\ ar.extracts < ar.image.extracts
  /\ ar' = StartExtract(ar, k)
  /\ UNCHANGED vars

TakeSlice ==
  /\ ar.stage = "slice"
  /\ ar' = AfterSlice(SliceCrc(SliceFits(ar, ar.wanted), ar.wanted), ar.wanted)
  /\ UNCHANGED vars

Close ==
  /\ ar.stage = "open"
  /\ ar' = [Deinit(ar) EXCEPT !.stage = "closed"]
  /\ UNCHANGED vars

Closed == ar.stage \in {"closed", "failed"} /\ UNCHANGED arVars

NextArEx ==
  \/ Open \/ ReadHeader \/ ReadSection \/ ReadStreams \/ Decode \/ ReadProperty \/ EndProperties
  \/ CheckTable \/ AllocateTables \/ PassTable \/ EndTable \/ EndOpen \/ FailOpen \/ ListEntries
  \/ \E k \in Files : Extract(k)
  \/ TakeSlice \/ Close \/ Closed

SpecArEx == InitArEx /\ [][NextArEx]_arVars
-----------------------------------------------------------------------------
(* A folder the scan of ReadUnpackInfo accepts is one SzGetNextFolderItem     *)
(* reads to its end when it is decoded, and they agree on its output, or it   *)
(* has more coders and streams than the decoder takes: SzAr_DecodeFolder's    *)
(* SZ_ERROR_FAIL and the errors of a header that ends early never occur.      *)
ReadAgain(fo) ==
  SzGetNextFolderItem([sd |-> FolderSection(ar.p, fo), val |-> 0, res |-> "OK", f |-> EmptyFolder])

FoldersReadAlike ==
  ar.stage \in {"decode", "section"} /\ ar.p.numFolders > 0 =>
       \A fo \in 0 .. ar.p.numFolders - 1 : \E r \in {ReadAgain(fo)} :
         \/ r.res = "UNSUPPORTED"
         \/ Ok(r) /\ r.sd = <<>> /\ r.f.unpackStream = ar.p.toMainUnpackSizeIndex[fo + 1]

(* Nothing of the heap is lost whatever fails: while the archive is open only *)
(* its tables, the block and the buffer of a call are held, afterwards        *)
(* nothing is.                                                                *)
HeapBalanced ==
  \/ ar.stage = "none"
  \/ /\ ~ar.mem.lost
     /\ ar.stage = "open" => ar.mem.live \subseteq SzArEx_Pointers \cup {<<"outBuffer">>}
     /\ ar.stage \in {"closed", "failed"} => ar.mem.live = {}

(* An archive opens with the names, sizes and times written into it, and      *)
(* every file comes out as it went in, in whatever order, however the stream  *)
(* is buffered and with whatever earlier calls failed; unless a call fails,   *)
(* as it does only when something it needs does.  The exception is a file     *)
(* without a CRC whose packed bytes changed, or in a block of which an        *)
(* earlier call left but a part.                                              *)
Faultless(image) == image.allocFails = {} /\ image.readFails = {} /\ ~image.damaged

EntryRight(entry, file) ==
  /\ entry.path = file.name /\ entry.uncompressedSize = Len(file.data)
  /\ entry.directory = file.dir /\ entry.modified = file.mtime

Whole(answer) == answer.whole /\ ~ar.image.damaged

ExtractsWhatWasPacked ==
  ar.stage # "none" /\ ar.image.intact =>
    /\ ar.stage \in {"open", "decode", "slice", "closed"} /\ ar.entries # <<>> =>
         /\ Len(ar.entries) = Len(ar.image.files)
         /\ \A k \in DOMAIN ar.entries : EntryRight(ar.entries[k], ar.image.files[k])
    /\ ar.last.file >= 0 /\ ar.last.error = "none" /\ (Whole(ar.last) \/ BitSet(CrcDefs, ar.last.file)) =>
         ar.last.data = ar.image.files[ar.last.file + 1].data
    /\ Faultless(ar.image) => ar.stage \notin {"failing", "failed"} /\ ar.last.error = "none"
=============================================================================
