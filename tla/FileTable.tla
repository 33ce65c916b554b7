----------------------------- MODULE FileTable -----------------------------
(***************************************************************************)
(* The file table of SzReadHeader2 (7zArcIn.c:1258-1436): one pass over    *)
(* the files of an archive that gives every file its folder, its slice of  *)
(* the folder's unpacked stream (UnpackPositions), its CRC and its         *)
(* directory bit.  SzArEx_Extract and the Swift archive read nothing else  *)
(* about the files.                                                        *)
(*                                                                         *)
(* What the sections of the header said is the record hdr; it is checked   *)
(* by the pass itself, so that it may contradict itself wherever the       *)
(* readers before the pass let it.  A step is one file, folder or          *)
(* substream of the loop.                                                  *)
(***************************************************************************)
EXTENDS Integers, Sequences, FiniteSets, Functions

CONSTANTS
  MaxFiles, MaxFolders, MaxSubStreams, (* bounds on the headers enumerated *)
  Sizes,      (* the folder and substream sizes enumerated                 *)
  Crcs,       (* TRUE: headers with CRCs and empty-file bits, all sizes 0; *)
              (* FALSE: headers without, of any sizes                      *)
  SizeMod,    (* 2^64: sizes and positions are UInt64                      *)
  MaskBits    (* 8: bits of isDirMask and crcMask                          *)

ASSUME FileTableAssumption ==
  /\ MaxFiles \in Nat /\ MaxFolders \in Nat /\ MaxSubStreams \in Nat
  /\ SizeMod \in Nat /\ Sizes \subseteq 0 .. SizeMod - 1 /\ 0 \in Sizes
  /\ Crcs \subseteq BOOLEAN
  /\ MaskBits \in Nat \ {0}

VARIABLES
  hdr,              (* the header's sections, never changed                *)
  UnpackPositions, FolderToFile, FileToFolder,
  IsDirs, CrcDefs,  (* the bit arrays, a set of bits per byte              *)
  CrcVals,
  i, folderIndex, remSubStreams, numSubStreams, unpackPos,
  sdNumSubStreams, sdSizes,       (* what is left to read of them          *)
  emptyFileIndex, digestIndex, digestsVals,
  mask, isDirMask, crcMask,
  pc, res

positions == <<UnpackPositions, FolderToFile, FileToFolder>>
cursors == <<folderIndex, remSubStreams, numSubStreams, unpackPos, sdNumSubStreams, sdSizes>>
bits == <<IsDirs, CrcDefs, CrcVals, emptyFileIndex, digestIndex, digestsVals, mask,
          isDirMask, crcMask>>
vars == <<hdr, positions, cursors, bits, i, pc, res>>

NoFolder == -1          (* (UInt32)-1                                      *)
NoCrc == <<"none", 0>>

(* UInt64 addition and subtraction. *)
Plus64(a, b) == IF a + b < SizeMod THEN a + b ELSE a + b - SizeMod
Minus64(a, b) == IF b <= a THEN a - b ELSE a - b + SizeMod

-----------------------------------------------------------------------------
(* The header: counts, the bit vectors of the files section, and the       *)
(* substreams section, each part of which may be missing.                  *)
Range0(n) == 0 .. n - 1

(* ReadSubStreamsInfo: what the numbers of substreams call for. *)
NumStreamsOf(h, f) == IF h.hasNums THEN h.nums[f + 1] ELSE 1

NumTotalSubStreams(h) ==
  SumFunctionOnSet([f \in Range0(h.numFolders) |-> NumStreamsOf(h, f)], Range0(h.numFolders))

NumSizesInData(h) ==
  SumFunctionOnSet([f \in Range0(h.numFolders) |->
                      IF NumStreamsOf(h, f) = 0 THEN 0 ELSE NumStreamsOf(h, f) - 1],
                   Range0(h.numFolders))

(* Not counted: folders of one file whose CRC is the folder's. *)
NumSubDigests(h) ==
  SumFunctionOnSet([f \in Range0(h.numFolders) |->
                      IF NumStreamsOf(h, f) = 1 /\ f \in h.folderCrcs
                      THEN 0 ELSE NumStreamsOf(h, f)],
                   Range0(h.numFolders))

Bytes(h) == Range0((h.numFiles + MaskBits - 1) \div MaskBits)

SeqsOf(S, n) == [1 .. n -> S]

(* Without the numbers of substreams hasNums is FALSE and nums is empty.   *)
SizesWith(crcs) == IF crcs THEN {0} ELSE Sizes

Headers(n, m, crcs) ==
  LET with(has, nums) ==
        [numFiles : {n}, numFolders : {m}, empty : SUBSET Range0(n), hasNums : {has},
         nums : nums, folderSize : [Range0(m) -> SizesWith(crcs)],
         folderCrcs : IF crcs THEN SUBSET Range0(m) ELSE {{}}]
  IN  with(TRUE, SeqsOf(0 .. MaxSubStreams, m)) \cup with(FALSE, {<< >>})

(* The two bit arrays come from the allocator as they are. *)
Init ==
  /\ \E crcs \in Crcs, nf \in 0 .. MaxFiles, m \in 0 .. MaxFolders :
     \E h \in Headers(nf, m, crcs) :
     \E n \in 0 .. MaxFolders * MaxSubStreams : n \in {0, NumSizesInData(h)} /\
     \E sizes \in SeqsOf(SizesWith(crcs), n) :
     \E digests \in IF crcs THEN SUBSET Range0(NumSubDigests(h)) ELSE {{}} :
     \E files \in IF crcs THEN SUBSET Range0(Cardinality(h.empty)) ELSE {{}} :
       /\ hdr = [numFiles |-> h.numFiles, numFolders |-> h.numFolders, empty |-> h.empty,
                 hasNums |-> h.hasNums, nums |-> h.nums, folderSize |-> h.folderSize,
                 folderCrcs |-> h.folderCrcs, sizes |-> sizes, digests |-> digests,
                 hasDigests |-> crcs /\ NumSubDigests(h) > 0, emptyFiles |-> files]
       /\ sdNumSubStreams = h.nums /\ sdSizes = sizes
       /\ UnpackPositions = [k \in 0 .. h.numFiles |-> 0]
       /\ FolderToFile = [f \in 0 .. h.numFolders |-> 0]
       /\ FileToFolder = [k \in Range0(h.numFiles) |-> 0]
       /\ \E garbage \in IF crcs THEN {{}, Range0(MaskBits)} ELSE {{}} :
            /\ IsDirs = [b \in Bytes(h) |-> garbage]
            /\ CrcDefs = [b \in Bytes(h) |-> garbage]
       /\ CrcVals = [k \in Range0(h.numFiles) |-> NoCrc]
  /\ i = 0 /\ folderIndex = 0 /\ remSubStreams = 0 /\ numSubStreams = 0 /\ unpackPos = 0
  /\ emptyFileIndex = 0 /\ digestIndex = 0 /\ digestsVals = 0
  /\ mask = 0 /\ isDirMask = {} /\ crcMask = {}
  /\ pc = "counts" /\ res = "none"

-----------------------------------------------------------------------------
numFiles == hdr.numFiles
NumFolders == hdr.numFolders
FolderUnpackSize == hdr.folderSize[folderIndex]

Return(r) == pc' = "done" /\ res' = r
Goto(label) == pc' = label /\ res' = res

(* SZ_ERROR_ARCHIVE; whatever the table holds is freed by the caller. *)
Fail ==
  /\ Return("ARCHIVE")
  /\ UNCHANGED <<hdr, positions, cursors, bits, i>>

(* The files with data are as many as the substreams. *)
CheckCounts_None ==
  /\ pc = "counts"
  /\ Goto("file")
  /\ UNCHANGED <<hdr, positions, cursors, bits, i>>

CheckCounts ==
  /\ pc = "counts"
  /\ \/ /\ numFiles - Cardinality(hdr.empty) # NumTotalSubStreams(hdr)
        /\ Fail
     \/ /\ numFiles - Cardinality(hdr.empty) = NumTotalSubStreams(hdr)
        /\ Goto("file")
        /\ UNCHANGED <<hdr, positions, cursors, bits, i>>

(* i++, mask >>= 1: the end of the loop's body. *)
NextFile(m) == i' = i + 1 /\ mask' = m + 1

(* A full mask byte is stored before the first file of the next one. *)
StoredDirs == [IsDirs EXCEPT ![(i - 1) \div MaskBits] = isDirMask]
StoredCrcs == [CrcDefs EXCEPT ![(i - 1) \div MaskBits] = crcMask]

FlushMasks ==
  IF mask = MaskBits
  THEN /\ IsDirs' = StoredDirs
       /\ CrcDefs' = StoredCrcs
       /\ crcMask' = {}
  ELSE UNCHANGED <<IsDirs, CrcDefs, crcMask>>

MaskBit_NoReset == mask

MaskBit == IF mask = MaskBits THEN 0 ELSE mask
DirMask == IF mask = MaskBits THEN {} ELSE isDirMask

(* The position of file i, and a file without data: it belongs to no       *)
(* folder, or to the folder whose substreams are not all used.             *)
StartFile ==
  /\ pc = "file" /\ i < numFiles
  /\ UnpackPositions' = [UnpackPositions EXCEPT ![i] = unpackPos]
  /\ CrcVals' = [CrcVals EXCEPT ![i] = NoCrc]
  /\ FlushMasks
  /\ \/ /\ i \in hdr.empty
        /\ isDirMask' = IF emptyFileIndex \in hdr.emptyFiles THEN DirMask
                        ELSE DirMask \cup {MaskBit}
        /\ emptyFileIndex' = emptyFileIndex + 1
        /\ FileToFolder' = [FileToFolder EXCEPT ![i] =
                              IF remSubStreams = 0 THEN NoFolder ELSE folderIndex]
        /\ NextFile(MaskBit)
        /\ Goto("file")
     \/ /\ i \notin hdr.empty
        /\ isDirMask' = DirMask
        /\ mask' = MaskBit
        /\ Goto(IF remSubStreams = 0 THEN "folder" ELSE "substream")
        /\ UNCHANGED <<FileToFolder, emptyFileIndex, i>>
  /\ UNCHANGED <<hdr, FolderToFile, cursors, digestIndex, digestsVals>>

(* The next folder's number of substreams; a folder without any is passed  *)
(* over, and so is its unpacked stream.                                    *)
NumsMissing == hdr.hasNums /\ sdNumSubStreams = << >>
NextNum == IF hdr.hasNums THEN Head(sdNumSubStreams) ELSE 1
ReadNum == sdNumSubStreams' = IF hdr.hasNums THEN Tail(sdNumSubStreams) ELSE sdNumSubStreams

OpenFolder ==
  /\ pc = "folder"
  /\ IF \/ folderIndex >= NumFolders
        \/ NumsMissing
        \/ NextNum = 0 /\ Plus64(unpackPos, FolderUnpackSize) < FolderUnpackSize
     THEN Fail
     ELSE /\ FolderToFile' = [FolderToFile EXCEPT ![folderIndex] = i]
          /\ ReadNum
          /\ numSubStreams' = NextNum /\ remSubStreams' = NextNum
          /\ \/ /\ NextNum # 0
                /\ Goto("substream")
                /\ UNCHANGED <<unpackPos, folderIndex>>
             \/ /\ NextNum = 0
                /\ unpackPos' = Plus64(unpackPos, FolderUnpackSize)
                /\ folderIndex' = folderIndex + 1
                /\ Goto("folder")
          /\ UNCHANGED <<hdr, UnpackPositions, FileToFolder, sdSizes, bits, i>>

(* Where file i ends: the folder's last substream gets what is left of it, *)
(* any other has its size in the header.                                   *)
StartFolderUnpackPos == UnpackPositions[FolderToFile[folderIndex]]

SubStreamEnd_FromLast ==
  IF remSubStreams = 1 THEN Plus64(unpackPos, FolderUnpackSize)
  ELSE Plus64(unpackPos, Head(sdSizes))

SubStreamEnd ==
  IF remSubStreams = 1 THEN Plus64(StartFolderUnpackPos, FolderUnpackSize)
  ELSE Plus64(unpackPos, Head(sdSizes))

SubStreamFits_NoWrapCheck ==
  IF remSubStreams = 1
  THEN Minus64(unpackPos, StartFolderUnpackPos) <= FolderUnpackSize
  ELSE sdSizes # << >>

SubStreamFits_NoSizeCheck ==
  IF remSubStreams = 1
  THEN FolderUnpackSize <= SubStreamEnd
  ELSE sdSizes # << >> /\ Head(sdSizes) <= SubStreamEnd

SubStreamFits ==
  IF remSubStreams = 1
  THEN /\ Minus64(unpackPos, StartFolderUnpackPos) <= FolderUnpackSize
       /\ FolderUnpackSize <= SubStreamEnd
  ELSE sdSizes # << >> /\ Head(sdSizes) <= SubStreamEnd

(* The CRC of file i: the folder's, of a folder of one file, or the next   *)
(* of the digests.                                                         *)
FolderCrcIsFiles == remSubStreams = 1 /\ numSubStreams = 1 /\ folderIndex \in hdr.folderCrcs

SetCrc_AlwaysDigest ==
  LET own == FolderCrcIsFiles
      digest == hdr.hasDigests /\ digestIndex \in hdr.digests
  IN  /\ CrcVals' = [CrcVals EXCEPT ![i] = IF digest THEN <<"digest", digestsVals>>
                       ELSE IF own THEN <<"folder", folderIndex>> ELSE @]
      /\ crcMask' = IF own \/ digest THEN crcMask \cup {mask} ELSE crcMask
      /\ digestIndex' = IF hdr.hasDigests THEN digestIndex + 1 ELSE digestIndex
      /\ digestsVals' = IF digest THEN digestsVals + 1 ELSE digestsVals

SetCrc ==
  \/ /\ FolderCrcIsFiles
     /\ CrcVals' = [CrcVals EXCEPT ![i] = <<"folder", folderIndex>>]
     /\ crcMask' = crcMask \cup {mask}
     /\ UNCHANGED <<digestIndex, digestsVals>>
  \/ /\ ~ FolderCrcIsFiles /\ hdr.hasDigests
     /\ digestIndex' = digestIndex + 1
     /\ IF digestIndex \in hdr.digests
        THEN /\ CrcVals' = [CrcVals EXCEPT ![i] = <<"digest", digestsVals>>]
             /\ digestsVals' = digestsVals + 1
             /\ crcMask' = crcMask \cup {mask}
        ELSE UNCHANGED <<CrcVals, digestsVals, crcMask>>
  \/ /\ ~ FolderCrcIsFiles /\ ~ hdr.hasDigests
     /\ UNCHANGED <<CrcVals, crcMask, digestIndex, digestsVals>>

(* File i takes the folder's next substream. *)
TakeSubStream ==
  /\ pc = "substream"
  /\ IF ~ SubStreamFits
     THEN Fail
     ELSE /\ FileToFolder' = [FileToFolder EXCEPT ![i] = folderIndex]
          /\ remSubStreams' = remSubStreams - 1
          /\ unpackPos' = SubStreamEnd
          /\ IF remSubStreams = 1
             THEN folderIndex' = folderIndex + 1 /\ UNCHANGED sdSizes
             ELSE sdSizes' = Tail(sdSizes) /\ UNCHANGED folderIndex
          /\ SetCrc
          /\ NextFile(mask)
          /\ Goto("file")
          /\ UNCHANGED <<hdr, UnpackPositions, FolderToFile, numSubStreams, sdNumSubStreams,
                         IsDirs, CrcDefs, emptyFileIndex, isDirMask>>

(* After the last file: the masks not yet stored, and the end of the last  *)
(* file.                                                                   *)
EndFiles_NoStore ==
  /\ pc = "file" /\ i = numFiles
  /\ UnpackPositions' = [UnpackPositions EXCEPT ![i] = unpackPos]
  /\ IF remSubStreams # 0 THEN Return("ARCHIVE") ELSE Goto("rest")
  /\ UNCHANGED <<hdr, FolderToFile, FileToFolder, cursors, bits, i>>

EndFiles ==
  /\ pc = "file" /\ i = numFiles
  /\ UnpackPositions' = [UnpackPositions EXCEPT ![i] = unpackPos]
  /\ IF remSubStreams # 0 THEN Return("ARCHIVE") ELSE Goto("rest")
  /\ IF mask # 0
     THEN IsDirs' = StoredDirs /\ CrcDefs' = StoredCrcs
     ELSE UNCHANGED <<IsDirs, CrcDefs>>
  /\ UNCHANGED <<hdr, FolderToFile, FileToFolder, cursors, CrcVals, emptyFileIndex,
                 digestIndex, digestsVals, mask, isDirMask, crcMask, i>>

(* The folders left must be without substreams; FolderToFile gets one      *)
(* entry more than there are folders.                                      *)
RestOfFolders ==
  /\ pc = "rest"
  /\ FolderToFile' = [FolderToFile EXCEPT ![folderIndex] = i]
  /\ IF folderIndex >= NumFolders
     THEN /\ Return(IF sdNumSubStreams # << >> THEN "ARCHIVE" ELSE "OK")
          /\ UNCHANGED cursors
     ELSE IF ~ hdr.hasNums \/ NumsMissing \/ NextNum # 0
     THEN /\ Return("ARCHIVE")
          /\ UNCHANGED cursors
     ELSE /\ ReadNum
          /\ numSubStreams' = 0
          /\ folderIndex' = folderIndex + 1
          /\ Goto("rest")
          /\ UNCHANGED <<remSubStreams, unpackPos, sdSizes>>
  /\ UNCHANGED <<hdr, UnpackPositions, FileToFolder, bits, i>>

Done == pc = "done" /\ UNCHANGED vars

Next == CheckCounts \/ StartFile \/ OpenFolder \/ TakeSubStream \/ EndFiles \/ RestOfFolders \/ Done

Spec == Init /\ [][Next]_vars

-----------------------------------------------------------------------------
(* What SzArEx_Extract makes of the table. *)
Folders == Range0(NumFolders)
Files == Range0(numFiles)
Position == 0 .. SizeMod - 1

Offset(k) == Minus64(UnpackPositions[k], UnpackPositions[FolderToFile[FileToFolder[k]]])
Size(k) == Minus64(UnpackPositions[k + 1], UnpackPositions[k])
InFolder(k) == FileToFolder[k] # NoFolder

(* The types of the table and of the loop's variables. *)
TypeOK ==
  /\ UnpackPositions \in [0 .. numFiles -> Position]
  /\ FolderToFile \in [0 .. NumFolders -> 0 .. numFiles]
  /\ FileToFolder \in [Files -> Folders \cup {0, NoFolder}]
  /\ IsDirs \in [Bytes(hdr) -> SUBSET Range0(MaskBits)]
  /\ CrcDefs \in [Bytes(hdr) -> SUBSET Range0(MaskBits)]
  /\ CrcVals \in [Files -> {"none", "folder", "digest"} \X Nat]
  /\ i \in 0 .. numFiles /\ folderIndex \in 0 .. NumFolders
  /\ remSubStreams \in Nat /\ numSubStreams \in Nat /\ remSubStreams <= numSubStreams
  /\ unpackPos \in Position
  /\ emptyFileIndex \in Nat /\ digestIndex \in Nat /\ digestsVals \in Nat
  /\ mask \in 0 .. MaskBits
  /\ isDirMask \subseteq Range0(MaskBits) /\ crcMask \subseteq Range0(MaskBits)
  /\ pc \in {"counts", "file", "folder", "substream", "rest", "done"}
  /\ res \in {"none", "OK", "ARCHIVE"}

(* Once the table is accepted, the slice of every file lies within the     *)
(* unpacked stream of its folder, without a wrap of the UInt64 positions:  *)
(* the test of SzArEx_Extract that returns SZ_ERROR_FAIL is never true.    *)
SlicesInFolder ==
  res = "OK" => \A k \in Files : InFolder(k) =>
    /\ UnpackPositions[FolderToFile[FileToFolder[k]]] <= UnpackPositions[k]
    /\ UnpackPositions[k] <= UnpackPositions[k + 1]
    /\ Offset(k) + Size(k) <= hdr.folderSize[FileToFolder[k]]

(* The reference: the n-th file with data is the n-th substream, folder by *)
(* folder; the sizes of all but a folder's last come from the header.      *)
DataFiles == Files \ hdr.empty
Nth(k) == Cardinality({l \in DataFiles : l < k})
StreamsBefore(f) == SumFunctionOnSet([g \in Folders |-> NumStreamsOf(hdr, g)], Range0(f))
FolderOf(k) == CHOOSE f \in Folders :
                 StreamsBefore(f) <= Nth(k) /\ Nth(k) < StreamsBefore(f) + NumStreamsOf(hdr, f)
SizesBefore(f) ==
  SumFunctionOnSet([g \in Folders |-> IF NumStreamsOf(hdr, g) = 0 THEN 0
                                      ELSE NumStreamsOf(hdr, g) - 1], Range0(f))
SumOfSizes(f, n) == SumFunctionOnSet(hdr.sizes, SizesBefore(f) + 1 .. SizesBefore(f) + n)

SubStreamOffset(k) == SumOfSizes(FolderOf(k), Nth(k) - StreamsBefore(FolderOf(k)))
SubStreamSize(k) ==
  LET f == FolderOf(k)
      j == Nth(k) - StreamsBefore(f)
  IN  IF j = NumStreamsOf(hdr, f) - 1
      THEN hdr.folderSize[f] - SumOfSizes(f, j)
      ELSE hdr.sizes[SizesBefore(f) + j + 1]

SliceIsSubStream(k) ==
  FileToFolder[k] = FolderOf(k) /\ Offset(k) = SubStreamOffset(k) /\ Size(k) = SubStreamSize(k)

(* A folder without substreams that unpacks to something. *)
SkipsData == \E f \in Folders : NumStreamsOf(hdr, f) = 0 /\ hdr.folderSize[f] # 0

(* 7z.h:182-183: offset is the "offset of stream for required file in      *)
(* *outBuffer" and outSizeProcessed the "size of file in *outBuffer".      *)
SlicesAreSubStreams == res = "OK" => \A k \in DataFiles : SliceIsSubStream(k)

(* So it is in every archive that passes over no data; a file without data *)
(* takes nothing from its neighbours, and the table ends where it should.  *)
SlicesRight ==
  res = "OK" =>
    /\ ~ SkipsData => SlicesAreSubStreams
    /\ \A k \in hdr.empty : InFolder(k) => Size(k) = 0
    /\ FolderToFile[NumFolders] = numFiles

(* The header is accepted exactly when it agrees with itself: its counts,  *)
(* and the sizes of every folder's substreams and of the whole archive.    *)
Consistent ==
  /\ Cardinality(DataFiles) = NumTotalSubStreams(hdr)
  /\ Len(hdr.sizes) = NumSizesInData(hdr)
  /\ \A f \in Folders : SumOfSizes(f, IF NumStreamsOf(hdr, f) = 0 THEN 0
                                      ELSE NumStreamsOf(hdr, f) - 1) <= hdr.folderSize[f]
  /\ SumFunctionOnSet(hdr.folderSize, Folders) < SizeMod

AcceptsConsistent == pc = "done" /\ ~ SkipsData => (res = "OK" <=> Consistent)

(* The counts summed up while the section was skimmed are those the loop   *)
(* meets: it never lacks a folder or a number, nor is left with one.       *)
CountsAgree ==
  /\ pc = "folder" => folderIndex < NumFolders /\ ~ NumsMissing
  /\ pc = "rest" /\ folderIndex < NumFolders => hdr.hasNums /\ NextNum = 0
  /\ pc = "rest" => remSubStreams = 0

(* The unchecked reads of the digests and of the empty-file bits stay in   *)
(* the bytes that were measured when the header was skimmed.               *)
ReadsInBounds ==
  /\ digestIndex <= NumSubDigests(hdr)
  /\ digestsVals = Cardinality({d \in hdr.digests : d < digestIndex})
  /\ emptyFileIndex <= Cardinality(hdr.empty)

(* Every bit of every byte of the two bit arrays is the file's own: it is  *)
(* a directory, it has a CRC; and its CRC is the one the header gave it.   *)
BitSet(array, k) == k % MaskBits \in array[k \div MaskBits]
OwnFolderCrc(k) == NumStreamsOf(hdr, FolderOf(k)) = 1 /\ FolderOf(k) \in hdr.folderCrcs
DigestOf(k) == Cardinality({l \in DataFiles : l < k /\ ~ OwnFolderCrc(l)})
CrcOf(k) ==
  IF k \in hdr.empty THEN NoCrc
  ELSE IF OwnFolderCrc(k) THEN <<"folder", FolderOf(k)>>
  ELSE IF hdr.hasDigests /\ DigestOf(k) \in hdr.digests
       THEN <<"digest", Cardinality({d \in hdr.digests : d < DigestOf(k)})>>
  ELSE NoCrc

FlagsRight ==
  res = "OK" => \A k \in Files :
    /\ BitSet(IsDirs, k) <=> /\ k \in hdr.empty
                             /\ Cardinality({l \in hdr.empty : l < k}) \notin hdr.emptyFiles
    /\ BitSet(CrcDefs, k) <=> CrcOf(k) # NoCrc
    /\ CrcVals[k] = CrcOf(k)
=============================================================================
