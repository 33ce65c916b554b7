------------------------------ MODULE MCSzArEx ------------------------------
(* Archives for SzArEx, written here part by part, then changed, cut, or read *)
(* with failing reads and allocations.                                        *)
EXTENDS SzArEx, Lzma2Enc

RECURSIVE Flat(_)
Flat(seqs) == IF seqs = <<>> THEN <<>> ELSE Head(seqs) \o Flat(Tail(seqs))

(* Numbers, bit vectors and arrays of values as the header has them.          *)
Num(n) ==
  CASE n < 128 -> <<n>>
    [] n \in 128 .. 2^14 - 1 -> <<128 + n \div 256, n % 256>>
    [] OTHER -> <<192 + n \div 2^16, n % 256, (n \div 256) % 256>>
Nums(seq) == Flat([j \in DOMAIN seq |-> Num(seq[j])])

BitByte(set, b) == (IF 2 * b \in set THEN 128 ELSE 0) + (IF 2 * b + 1 \in set THEN 64 ELSE 0)
Bits(set, n) == [b \in 1 .. BytesFor(n) |-> BitByte(set, b - 1)]

(* vals[j] is <<>> or what item j has.                                        *)
Has(vals) == {j - 1 : j \in {k \in DOMAIN vals : vals[k] # <<>>}}
Vector(vals) == IF Cardinality(Has(vals)) = Len(vals) THEN <<1>> ELSE <<0>> \o Bits(Has(vals), Len(vals))
Values(vals) == Vector(vals) \o Flat(vals)

(* A folder: what is coded, its coders, the packed streams.                   *)
Lzma == [dictSize |-> 16, lc |-> 1, lp |-> 0, pb |-> 1, fb |-> 7]
Main(method, data) ==
  CASE method = k_Copy -> [id |-> k_Copy, props |-> <<>>, packed |-> data]
    [] method = k_LZMA -> [id |-> k_LZMA, props |-> <<46, 16, 0, 0, 0>>, packed |-> LzmaEncode(Lzma, data, FALSE)]
    [] method = k_LZMA2 -> [id |-> k_LZMA2, props |-> <<0>>, packed |-> Lzma2Encode(Lzma, data, 100)]

Coder(id, props, numIn) ==
  <<Len(id) + (IF numIn = 1 THEN 0 ELSE 16) + (IF props = <<>> THEN 0 ELSE 32)>> \o id
  \o (IF numIn = 1 THEN <<>> ELSE <<numIn, 1>>) \o (IF props = <<>> THEN <<>> ELSE Num(Len(props)) \o props)

(* spec says what data is coded, with which method, after which filter.       *)
Spec1(method, filter, data) == [method |-> method, filter |-> filter, data |-> data]
Plain(method, data) == Spec1(method, k_Copy, data)

Converted(spec) ==
  CASE spec.filter = k_Delta -> DeltaConv(TRUE, Zeroes(2), spec.data, <<>>).data
    [] spec.filter = k_ARM -> ArmConv(TRUE, spec.data, 0)
    [] spec.filter = k_Copy -> spec.data
FilterProps(spec) == IF spec.filter = k_Delta THEN <<1>> ELSE <<>>

CodersOf(spec, main) ==
  IF spec.filter = k_Copy THEN <<1>> \o Coder(main.id, main.props, 1)
  ELSE <<2>> \o Coder(main.id, main.props, 1) \o Coder(spec.filter, FilterProps(spec), 1) \o <<1, 0>>
FolderWith(spec, main) ==
  [bytes |-> CodersOf(spec, main), sizes |-> [j \in 1 .. (IF spec.filter = k_Copy THEN 1 ELSE 2) |-> Len(spec.data)],
   streams |-> <<main.packed>>, data |-> spec.data, main |-> main]
Coded(specs) == [n \in DOMAIN specs |-> FolderWith(specs[n], Main(specs[n].method, Converted(specs[n])))]

(* The four coders of a folder with BCJ2, from the folders of its streams.    *)
CoderIn(folder) == Coder(folder.main.id, folder.main.props, 1)
Bcj2Of(f, rc, data) ==
  [bytes |-> <<4>> \o CoderIn(f.JUMP) \o CoderIn(f.CALL) \o CoderIn(f.MAIN) \o Coder(k_BCJ2, <<>>, 4)
             \o <<5, 0, 4, 1, 3, 2>> \o <<2, 6, 1, 0>>,
   sizes |-> f.JUMP.sizes \o f.CALL.sizes \o f.MAIN.sizes \o <<Len(data)>>,
   streams |-> f.MAIN.streams \o <<rc>> \o f.CALL.streams \o f.JUMP.streams, data |-> data]
Split(data) ==
  Bcj2Enc_Encode([Bcj2Enc_Init EXCEPT !.src = data, !.finishMode = "END_STREAM", !.room = [s \in DOMAIN @ |-> 1000]]).outs

(* The sections of the streams.                                               *)
Streams(folders) == Flat([j \in DOMAIN folders |-> folders[j].streams])
PackInfo(at, folders) ==
  LET S == Streams(folders)
  IN  <<6>> \o Num(at) \o Num(Len(S)) \o <<9>> \o Nums([j \in DOMAIN S |-> Len(S[j])]) \o <<0>>
FolderBytes(folders) == Flat([j \in DOMAIN folders |-> folders[j].bytes])
Crcs1(crcs) == IF Has(crcs) = {} THEN <<>> ELSE <<10>> \o Values(crcs)
UnpackInfo(folders, where, crcs) ==
  <<7, 11>> \o Num(Len(folders)) \o where \o <<12>> \o Flat([j \in DOMAIN folders |-> Nums(folders[j].sizes)]) \o Crcs1(crcs) \o <<0>>
Inline(folders) == <<0>> \o FolderBytes(folders)
FolderCrcsOf(folders) == [j \in DOMAIN folders |-> CrcCalc(folders[j].data)]
PackedInfo(at, folders) == PackInfo(at, folders) \o UnpackInfo(folders, Inline(folders), FolderCrcsOf(folders)) \o <<0>>
Packed(folders) == Flat(Streams(folders))

(* What is written: the folders, each with its files, of which those without  *)
(* data belong to none; crcs says which have their CRCs.                      *)
File(name, data) == [name |-> name, data |-> data, dir |-> FALSE, mtime |-> <<>>, attrib |-> <<>>]
Dir(name) == [File(name, <<>>) EXCEPT !.dir = TRUE]
DataFilesOf(files) == SelectSeq(files, LAMBDA g : g.data # <<>>)
EmptyFilesOf(files) == SelectSeq(files, LAMBDA g : g.data = <<>>)

(* counts[j] files are in folder j.                                           *)
RECURSIVE Parted(_, _)
Parted(files, counts) ==
  IF counts = <<>> THEN <<>> ELSE <<Taken(files, Head(counts))>> \o Parted(Skipped(files, Head(counts)), Tail(counts))
DataOf(files) == Flat([j \in DOMAIN files |-> files[j].data])

SubStreams(parts, crcs) ==
  LET Sizes1(part) == Nums([j \in 1 .. Len(part) - 1 |-> Len(part[j].data)])
  IN  <<8>> \o <<13>> \o Nums([j \in DOMAIN parts |-> Len(parts[j])])
      \o <<9>> \o Flat([j \in DOMAIN parts |-> Sizes1(parts[j])]) \o Crcs1(crcs) \o <<0>>

NameBytes(files) == Flat([j \in DOMAIN files |-> Flat([k \in DOMAIN files[j].name |-> <<files[j].name[k], 0>>]) \o <<0, 0>>])
Property1(id, bytes) == IF bytes = <<>> THEN <<>> ELSE <<id>> \o Num(Len(bytes)) \o bytes
Array(vals) == IF Has(vals) = {} THEN <<>> ELSE Vector(vals) \o <<0>> \o Flat(vals)
FilesInfo(files, names) ==
  LET Empty == {j - 1 : j \in {k \in DOMAIN files : files[k].data = <<>>}}
      E == EmptyFilesOf(files)
      PlainFiles == {j - 1 : j \in {k \in DOMAIN E : ~E[k].dir}}
  IN  <<5>> \o Num(Len(files))
      \o (IF E = <<>> THEN <<>> ELSE Property1(14, Bits(Empty, Len(files))))
      \o (IF PlainFiles = {} THEN <<>> ELSE Property1(15, Bits(PlainFiles, Len(E))))
      \o Property1(17, names) \o Property1(20, Array([j \in DOMAIN files |-> files[j].mtime]))
      \o Property1(21, Array([j \in DOMAIN files |-> files[j].attrib])) \o Property1(25, <<0, 0>>) \o <<0>>

(* Archives.                                                                  *)
Word64(n) == ToBytes(n, 8)
NextHeaderOf(at, header) == Word64(at) \o Word64(Len(header)) \o CrcCalc(header)
Archive(packed, header) ==
  k7zSignature \o <<0, 4>> \o CrcCalc(NextHeaderOf(Len(packed), header)) \o NextHeaderOf(Len(packed), header) \o packed \o header

Recipe(folders, counts, files, own, digests) ==
  [folders |-> folders, counts |-> counts, files |-> files, own |-> own, digests |-> digests]

OwnCrcs(x) == [j \in DOMAIN x.folders |-> IF j \in x.own THEN CrcCalc(x.folders[j].data) ELSE <<>>]
Digested(x) ==
  LET P == Parted(DataFilesOf(x.files), x.counts)
  IN  Flat([j \in DOMAIN P |-> IF j \in x.own /\ Len(P[j]) = 1 THEN <<>> ELSE P[j]])
DigestsOf(x) == LET D == Digested(x) IN [j \in DOMAIN D |-> IF j \in x.digests THEN CrcCalc(D[j].data) ELSE <<>>]

MainStreamsOf(x, where) ==
  <<4>> \o PackInfo(0, x.folders) \o UnpackInfo(x.folders, where, OwnCrcs(x))
  \o SubStreams(Parted(DataFilesOf(x.files), x.counts), DigestsOf(x)) \o <<0>>

PlainHeader(x) ==
  <<1>> \o MainStreamsOf(x, Inline(x.folders)) \o FilesInfo(x.files, <<0>> \o NameBytes(x.files)) \o <<0>>

(* With the names and the folders in the additional streams extra.            *)
ExternalHeader(x, extra) ==
  <<1, 2, 7, 1, 9, 0>> \o <<3>> \o PackedInfo(Len(Packed(x.folders)), extra)
  \o MainStreamsOf(x, <<1, 1>>) \o FilesInfo(x.files, <<1, 0>>) \o <<0>>

EncodedHeader(at, folders) == <<23>> \o PackedInfo(at, folders)

Image(file, files) ==
  [file |-> file, files |-> files, allocFails |-> {}, readFails |-> {}, bufSize |-> 64, extractBuf |-> 64, extracts |-> 1,
   intact |-> TRUE, damaged |-> FALSE]

-----------------------------------------------------------------------------
(* What is in them.                                                           *)
Text(n) == [j \in 1 .. n |-> (((j * j) \div 7) % 3) + 60]
Code(n) == [j \in 1 .. n |-> IF j % 4 = 0 THEN 235 ELSE j % 8]
Jumps   == <<7, 232, 1, 0, 0, 0, 5, 233, 2, 0, 0, 0, 232, 9, 0, 0, 0, 3, 15, 132, 1, 1, 0, 0, 9>>

A == [File(<<97>>, Text(9)) EXCEPT !.mtime = <<1, 2, 3, 4, 5, 6, 7, 8>>, !.attrib = <<32, 0, 0, 0>>]
B == File(<<98, 98>>, <<5>> \o Text(6))
C == File(<<99>>, Code(12))
D == File(<<100>>, Jumps)
Nothing == File(<<101>>, <<>>)

Recipes(f) ==
  [mixed |-> Recipe(<<f.ab, f.c>>, <<2, 1>>, <<A, Dir(<<47>>), B, C, Nothing>>, {2}, {1, 2}),
   loose |-> Recipe(<<f.b, f.ac>>, <<1, 2>>, <<B, A, C>>, {}, {3}),
   jumps |-> Recipe(<<f.jumps>>, <<1>>, <<D>>, {}, {1}),
   small |-> Recipe(<<f.copy>>, <<1>>, <<B>>, {1}, {})]
HeadersOf(x) == [n \in DOMAIN x |-> PlainHeader(x[n])]

(* The folders of the files, and after them those of headers.                 *)
FirstSpecs(outs) ==
  [ab |-> Plain(k_LZMA, DataOf(<<A, B>>)), c |-> Spec1(k_LZMA2, k_ARM, C.data), b |-> Spec1(k_LZMA, k_Delta, B.data),
   ac |-> Plain(k_Copy, DataOf(<<A, C>>)), copy |-> Plain(k_Copy, B.data),
   MAIN |-> Plain(k_LZMA, outs.MAIN), CALL |-> Plain(k_Copy, outs.CALL), JUMP |-> Plain(k_LZMA2, outs.JUMP)]
ExtraSpecs(x, h) ==
  [names |-> Plain(k_Copy, NameBytes(x.mixed.files)), bytes |-> Plain(k_LZMA, FolderBytes(x.mixed.folders)),
   outer |-> Plain(k_LZMA, h.loose), header |-> Plain(k_Copy, h.small)]
SpecsAfter(x) == ExtraSpecs(x, HeadersOf(x))

RECURSIVE Rounds(_, _)
Round(f, outs) ==
  IF "outer" \in DOMAIN f THEN f ELSE Rounds([jumps |-> Bcj2Of(f, outs.RC, D.data)] @@ f, outs)
Rounds(f, outs) ==
  Round(Coded(IF "jumps" \in DOMAIN f THEN SpecsAfter(Recipes(f)) ELSE FirstSpecs(outs)) @@ f, outs)

(* The parts of archives: what comes before the header, and the header.       *)
Parts(x, h, f) ==
  [mixed |-> [packed |-> Packed(x.mixed.folders), header |-> h.mixed, files |-> x.mixed.files],
   loose |-> [packed |-> Packed(x.loose.folders), header |-> h.loose, files |-> x.loose.files],
   jumps |-> [packed |-> Packed(x.jumps.folders), header |-> h.jumps, files |-> x.jumps.files],
   aside |-> [packed |-> Packed(x.mixed.folders \o <<f.names, f.bytes>>), header |-> ExternalHeader(x.mixed, <<f.names, f.bytes>>),
              files |-> x.mixed.files],
   twice |-> [packed |-> Packed(x.loose.folders \o <<f.outer>>),
              header |-> EncodedHeader(Len(Packed(x.loose.folders)), <<f.outer>>), files |-> x.loose.files],
   small |-> [packed |-> Packed(x.small.folders \o <<f.header>>),
              header |-> EncodedHeader(Len(Packed(x.small.folders)), <<f.header>>), files |-> x.small.files]]

(* And no files at all.                                                       *)
None == Image(k7zSignature \o <<0, 4>> \o CrcCalc(Zeroes(20)) \o Zeroes(20), <<>>)
ImagesOf(parts) == [n \in DOMAIN parts |-> Image(Archive(parts[n].packed, parts[n].header), parts[n].files)]

Often(image, n, bufSize, extractBuf) == [image EXCEPT !.extracts = n, !.bufSize = bufSize, !.extractBuf = extractBuf]
Sound(image) == {Often(image, 3, 64, 64), Often(image, 2, 3, 64), Often(image, 2, 64, 3)}

NoMemory(image, n) == {[Often(image, 2, 64, 64) EXCEPT !.allocFails = {k}] : k \in 1 .. n}
NoRead(image, n) == {[Often(image, 3, 64, b) EXCEPT !.readFails = {k}] : k \in 1 .. n, b \in {3, 64}}

Cut(image) == {[image EXCEPT !.file = Taken(@, n), !.damaged = TRUE] : n \in 0 .. Len(image.file) - 1}
Changed(image, upto) ==
  {[image EXCEPT !.file[n] = (@ + 1) % 256, !.damaged = TRUE] : n \in 1 .. Smaller(upto, Len(image.file))}

(* Any byte b of the header, with the CRCs of what it became.                 *)
Others(b) == {0, 1, 255, (b + 1) % 256} \ {b}
WithHeader(part, header) == [Image(Archive(part.packed, header), <<>>) EXCEPT !.intact = FALSE]
Altered(parts) ==
  UNION UNION {{{WithHeader(part, [part.header EXCEPT ![n] = c]) : c \in Others(part.header[n])} : n \in DOMAIN part.header} :
               part \in parts}
Cropped(part) == {WithHeader(part, Taken(part.header, n)) : n \in 1 .. Len(part.header) - 1}
AlteredNext(image) ==
  LET Again(next) == [image EXCEPT !.file = Taken(@, 8) \o CrcCalc(next) \o next \o Skipped(@, 32), !.intact = FALSE]
      Next0 == SubSeq(image.file, 13, 32)
  IN  {Again([Next0 EXCEPT ![n] = (@ + 1) % 256]) : n \in DOMAIN Next0}

Good(images) == UNION {Sound(image) : image \in images}
Failing(g) ==
  NoMemory(g.aside, 45) \cup NoMemory(g.loose, 20) \cup NoMemory(g.jumps, 30) \cup NoMemory(g.twice, 30)
  \cup NoRead(g.loose, 8) \cup NoRead(g.mixed, 8)
Damaged(g) == Changed(g.mixed, 100) \cup Changed(g.jumps, 70) \cup Cut(g.loose) \cup Changed([g.twice EXCEPT !.extracts = 2], 200)

AllImages(parts, g) ==
  Good({g.mixed, g.loose, g.jumps, g.aside, g.twice, None}) \cup Failing(g) \cup Damaged(g)
  \cup Altered({parts.mixed, parts.jumps, parts.aside, parts.small}) \cup Cropped(parts.loose) \cup AlteredNext(g.loose)

FromParts(parts) == AllImages(parts, ImagesOf(parts))
FromHeaders(x, h, f) == FromParts(Parts(x, h, f))
FromRecipes(x, f) == FromHeaders(x, HeadersOf(x), f)
FromFolders(f) == FromRecipes(Recipes(f), f)
MCImages == FromFolders(Rounds(<<>>, Split(D.data)))

MCSizeMod   == 5 * 2^27
MCUInt64Max == MCSizeMod - 1
MCSizes     == {0, 2^27, 3 * 2^27}
=============================================================================
