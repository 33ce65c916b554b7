# A verification development for SevenZip.swift

This directory models the C code of the LZMA SDK (v26.05) that `SevenZip.swift`
vendors in `Sources/CsevenZip`, and the Swift wrapper in `Sources/SevenZip`, in
TLA+.  TLC checks each model on small instances, among them whole `.7z` and `.xz`
files of some hundred bytes that are decoded byte by byte; TLAPS proves the most
important properties of the components for every value of the constants.  `PROJECT.json` is the index: it
names, for every definition that models code, the lines it stands for, the
runs, the mutants that show each property can fail, the hazards and the theorems.

Paths below are relative to `Sources/CsevenZip` unless they start with `Sources`.


## 1. Inventory of the system

The Swift package builds the 7z *decoder*.  The rest of the SDK (encoders,
multi-threaded coders, XZ, command-line samples) lies beside it in the same
directory and shares its files; it is part of the inventory.

| component | files | state it keeps | operations |
|---|---|---|---|
| Swift archive | `Sources/SevenZip/Archive.swift`, `Entry.swift` | the C database, the look-ahead stream, three cache variables `blockIndex`, `outBuffer`, `outBufferSize` | `init`, `extract`, `deinit` |
| Buffered input stream | `7zStream.c`, `7zFile.c` | `buf`, `pos`, `size`, and the position of the file descriptor | `Look`, `Skip`, `Read`, `Seek`; `LookInStream_*` helpers |
| Header parsing | `7zArcIn.c` 1-1255, 1440-1600 | `CSzArEx`, `CSzData` cursors | `SzArEx_Open` and its section readers |
| File table | `7zArcIn.c` 1258-1436 | `UnpackPositions`, `FolderToFile`, `FileToFolder`, bit arrays, CRCs | the last pass of `SzReadHeader2` |
| Extraction and solid-block cache | `7zArcIn.c` 1600-1701 | none of its own: the client's three variables | `SzArEx_Extract` |
| Folder decoder | `7zDec.c`, `Bra*.c`, `Delta.c`, `Bcj2.c` | per-call buffers and decoder states | `SzAr_DecodeFolder` |
| LZMA, LZMA2, PPMd decoders | `LzmaDec.c`, `Lzma2Dec.c`, `Ppmd7*.c` | dictionary, range coder, chunk state, memory manager | `*_DecodeToDic`, `*_DecodeToBuf`, ... |
| Multi-threaded coder | `MtCoder.c` | ring of blocks, buffer list, threads, events | `MtCoder_Code` (used by `Lzma2Enc.c`, `XzEnc.c`) |
| Multi-threaded decoder | `MtDec.c`, `Lzma2DecMt.c`, `XzDec.c` | ring of threads, cross block, interrupt index | `MtDec_Code`, `MtDec_Read`, `Lzma2DecMt_Decode` |
| Multi-threaded match finder | `LzFindMt.c`, `LzFind.c`, `LzFindOpt.c` | two rings of blocks, window, hash and tree arrays | `MatchFinderMt_*` |
| XZ container | `Xz*.c` | stream / block / index state machine | `XzUnpacker_Code`, `Xz_ReadIndex`, `XzEnc_*` |
| Encoders | `LzmaEnc.c`, `Lzma2Enc.c`, `Bcj2Enc.c`, `Ppmd7Enc.c` | optimum tables, range coder, chunk sizes | `*_Encode` |
| Threads | `Threads.c` | events, semaphores, threads over pthreads | `Event_*`, `Semaphore_*`, `Thread_*` |
| Checksums, ciphers, sorting | `7zCrc*.c`, `Sha256*.c`, `Aes*.c`, `Sort.c`, `SwapBytes.c` | block buffers | `*_Update`, `HeapSort` |
| Platform support | `Alloc.c`, `CpuArch.c`, `DllSecur.c` | - | allocation, CPU detection |
| Command-line samples | `Util/*` | - | `main` |

How they interact.  `Archive.init` opens a file, wraps it in a `CLookToRead2`
and calls `SzArEx_Open`, which reads the headers through the buffer and runs the
file-table pass.  `Archive.extract` calls `SzArEx_Extract`, which uses the table
to find the folder, decodes the whole folder through the buffer unless the
client's variables say that it is cached, and returns a slice of it.  The
multi-threaded parts are driven by callbacks: `MtCoder` calls its client's
`Code` and `Write`, `MtDec` calls `Parse`, `PreCode`, `Code` and `Write`, and
both read an `ISeqInStream`, write an `ISeqOutStream` and report progress.
Threads share the coder object, hand over rights through auto-reset events and a
semaphore, and guard little state with critical sections.

What is hard, and what makes each part correct:

* **buffered stream**: a cached copy of part of the file must stay that part of
  the file through skips, seeks and failing reads; a client must see one stream
  with one position.
* **file table**: three tables and two bit arrays are filled along different
  paths of one loop whose counts come from an earlier pass by other formulas;
  positions are UInt64 and wrap.  Every accepted table must cut each file out of
  its own folder, and a consistent header must be accepted.
* **cache**: three variables owned by the client describe one block; every early
  return must leave them agreeing, and a hit must be the file.
* **multi-threaded coder and decoder**: order of output, one reader and one
  writer, no buffer with two owners, errors of any thread at any moment, return
  only after all threads, nothing waiting forever; for the decoder also the
  switch to one thread, which must get every byte of input once.
* **header and folders**: the same bytes are read twice by different readers
  (a folder is scanned when the archive is opened and parsed when it is decoded),
  counts of one section size the arrays of another, and every reader may stop in
  the middle with buffers allocated.  Two readers of the same bytes must agree,
  nothing may leak, and what was packed must come out.
* **match finder**: three threads number the same positions differently, and one
  of them moves the window the other two point into.  Every match must be a real
  repetition and no block may be lost when a stream is dropped.
* **decoders and container formats**: partial input and output at any boundary,
  a decoder that is kept for the next block, end marks, limits.  However the input
  comes and however many threads work, the answer must be that of one decoder
  with the whole file, and `SZ_OK` must mean that the data is what was packed.

`PROJECT.json` lists the hazards of these parts at the lines where they
bite, with the properties that cover them.


## 2. Modules

| module | models | kind |
|---|---|---|
| `SeekStream` | what `ILookInStream` promises (`7zTypes.h`) | abstract specification |
| `LookToRead2` | `CLookToRead2` over `CFileInStream` | component |
| `LookToRead2Proofs` | | proofs |
| `SolidCache` | `SzArEx_Extract` and its client's cache | component |
| `MCSolidCache` | an archive with every kind of file | instance |
| `SolidCacheProofs` | | proofs |
| `FileTable` | the file pass of `SzReadHeader2` | component (algorithm as a state machine) |
| `FileTableProofs` | lemmas about sums; slices, types and counts; the table against the reference | proofs |
| `OrderedCoder` | what a multi-threaded coder promises | abstract specification |
| `MtCoder` | `MtCoder.c` | component |
| `MCMtCoder` | kinds of input | instance |
| `MtCoderProofs` | types and rights, the end of a call, the ring of slots and the list of buffers; the refinement of `OrderedCoder` | proofs |
| `Lzma2Blocks` | the two passes over LZMA2 data: `Lzma2Dec_Parse` (with the Parse callback) and `Lzma2Dec_DecodeToDic` | pure operators |
| `MtDec` | `MtDec.c` with `Lzma2DecMt.c` as its client | component |
| `MCMtDec` | streams and calls | instance |
| `MtDecProofs` | the two rights and the types, in any sequence of calls | proofs |
| `MtDecSwitchProofs` | where every byte of the input is, up to the switch to one thread and after it, and what was written | proofs |
| `MtDecAnswerProofs` | what the call answers | proofs |
| `LzFind` | `LzFind.c`: window, hash tables, binary trees, hash chains | pure operators on a record |
| `LzFindMt` | `LzFindMt.c`, `LzFindOpt.c`: three threads and two rings over `LzFind`, as `LzmaEnc.c` calls them | component |
| `MCLzFindMt` | finders and inputs | instance |
| `LzFindMtProofs` | blocks, locks, starts and stops of the three threads | proofs |
| `LzmaBase` | what encoder and decoder share: sizes, contexts, adaptive probabilities | pure operators |
| `LzmaDec`, `Lzma2Dec` | `LzmaDec.c` and `Lzma2Dec.c`: symbols, look-ahead, kept input, chunks and their resets | pure operators |
| `LzmaEnc`, `Lzma2Enc` | the fast mode of `LzmaEnc.c`, the chunks of `Lzma2Enc.c` | pure operators |
| `XzFormat`, `XzFilter` | the parts of the XZ container; Delta and ARM | pure operators |
| `XzDec` | `CMixCoder` and `CXzUnpacker` of `XzDec.c` | pure operators |
| `XzEnc` | `XzEnc.c`: blocks, index, stream header and footer | pure operators |
| `XzIn` | `XzIn.c`: reading an `.xz` file backwards by its indexes | pure operators |
| `XzDecMt` | `XzDecMt_Decode`: several threads, the switch to one, the statistics | component |
| `MCXzDecMt` | files, made by `XzEnc`, then cut, changed, joined, padded | instance |
| `SzData` | the byte readers of `7zArcIn.c`, and the heap they allocate from | pure operators |
| `Bcj2` | `Bcj2.c`, `Bcj2Enc.c` | pure operators |
| `SzFolder` | a folder: `SzGetNextFolderItem` and all of `7zDec.c`, over the look-ahead stream | pure operators |
| `SzHeader` | the sections of the header: `ReadPackInfo`, `ReadUnpackInfo`, `ReadSubStreamsInfo`, the file properties | pure operators |
| `SzArEx` | `SzArEx_Open2`, `SzArEx_Extract` and the Swift class around them | composition with `FileTable` |
| `MCSzArEx` | archives, written part by part, then altered, cut, or read with failures | instance |

How they are put together: `XzDecMt` uses `XzDec` (`Lzma2Dec` (`LzmaDec`), `XzFilter`,
`XzFormat`), and `MCXzDecMt` makes its files with `XzEnc` (`Lzma2Enc` (`LzmaEnc`)).
`SzArEx` extends `FileTable`, whose pass runs over the header that `SzHeader` read,
and `SzFolder` (`Bcj2`, `Lzma2Dec`, `XzFilter`).  `MtCoder` is the
engine of `Lzma2Enc.c` and `XzEnc.c`, `MtDec` that of `Lzma2DecMt.c` (its client
here) and `XzDec.c`; they are checked by themselves, with every interleaving of
their events, and `XzDecMt` keeps of `MtDec.c` the order of the callbacks.

Mutated operators (`Publish_AlwaysWrites`, `Recorded_Decoding`, ...) stand just
before the definition they change.  They are never used by a specification; each
is a plausible mistake in the code that makes one property fail.

### LookToRead2 refines SeekStream

State: `filePos` is the descriptor's offset, `buf`, `pos` and `size` are the
object's fields.  A byte of the file is named by its offset, so that "the right
bytes" is a statement about numbers.  One action per method of the vtable;
`File_Read` (POSIX) may return fewer bytes and an error, `File_Seek` may fail.
The refinement mapping is `at = filePos - (size - pos)`: what the client sees as
its position.  `Skip` is only called with what the last `Look` has shown, as
every caller in the SDK does.

### SolidCache

State: the client's three variables and the heap, in which a block knows which
folder was decoded into it, at which offsets it holds that folder's bytes and
whether the decoder succeeded.  `SzAr_DecodeFolder` is a choice among what it
may leave behind: all of the folder, or part of it and an error.  Each early
return of `SzArEx_Extract` is an action.  `Flush` is the Swift `deinit` and the
`freeing` every C client does at the end.

### FileTable

The header's sections are a record chosen in `Init`, consistent or not, and
the pass goes over it one file, folder or substream a step, with the program's
own cursors.  `SizeMod` stands for 2^64, `MaskBits` for the 8 bits of a mask, so
that wrap-around and byte boundaries happen in small instances.

### MtCoder refines OrderedCoder

A step is what a thread does between two waits, critical sections or callbacks.
`blocks`, `ReadyBlocks`, `writeIndex`, `freeBlocks`, the events and the
semaphore are the fields of `CMtCoder`; `th[t]` holds a thread's locals.  The
increment and the comparison of `numFinishedThreads` are two steps, as in the
code.  The refinement maps to the sequence of blocks written, whether anything
failed, and the answer.

### MtDec

`rd`, `wr` and `sync` group the fields of `CMtDec` by who may change them: the
thread that holds the right to read, the one that holds the right to write, and
whoever is in the critical section of `mtProgress`.  A byte of the LZMA2 stream
is abstracted to what parser and decoder tell apart (a block start, a chunk, a
damaged chunk, an invalid byte, the end mark), and what it decodes to is named
by its offset.  Links of input buffers, their reuse, the `crossBlock`, the cut
sizes, the interrupt index, the Write callback's `needContinue` and `canRecode`,
the switch to `Lzma2Dec_Decode_ST` and its reading from the leftovers
(`MtDec_PrepareRead`, `MtDec_Read`) and then from the stream are modelled as they
are.  `SwitchKeepsInput` needs to know what the single-threaded decoder was
given: `st.expect` and `st.inOrder` record it.

A thread that is interrupted between `Parse` and `PreCode` (MtDec.c:528) skips
`PreCode` (line 533) but not `Code` (line 603): it decodes with whatever its coder
holds, and the first time with an uninitialised `needInit`.  `CodeUnprepared`
models it as any outcome; the run shows that its output is never written.

### LzFind and LzFindMt

A match finder is a record with the fields of `CMatchFinder`; bytes are 0 and 1,
so that repetitions are frequent.  Of the window the record keeps which input byte
its first cell holds (`base`), so that a cell that was moved away or never read is
`Junk` and a pointer into the wrong place shows.  `Word` stands for 2^32: `pos`
wraps and is renumbered (`MatchFinder_Normalize`) several times in a run.

`LzFindMt` has the hash thread (`hs`), the tree thread (`bt`) and the encoder (`lz`);
`sync` holds the two `CMtSync` with their semaphores, events and the two critical
sections.  A step is what a thread does between two waits.  The encoder is
`LzmaEnc.c`'s use of the finder: `GetMatches`, `Skip` of some positions, and dropping
the stream at `RestartAt` to begin another with the same finder.

### LZMA, LZMA2, XZ

The decoders are operators from a record (`CLzmaDec`, `CLzma2Dec`, `CMixCoder`,
`CXzUnpacker`) to the next one; bytes keep their 8 bits, the format's sizes are
constants of `LzmaBase` (a 24-bit range coder, 6-bit probabilities, lengths up to 9,
distances of 8 bits), so that files of a few dozen bytes contain every kind of
symbol.  A probability is named by a context, and `probs` is the function of those
in use.  The encoder modules are there to make the files: a wrong byte in either
direction shows as an answer that is not the data.

`XzDecMt` lets the threads of `MtDec` take turns: the blocks are in the order of
reading, `Parse`, `PreCode`, `Code` and `Write` are steps of the thread that has
the block, and reading and writing are exclusive, as `MtDec`'s runs show.  Everything
`XzDec.c` does in these callbacks is modelled, and the single-threaded loop that
takes over after them.  CRC32, CRC64 and SHA-256 are one number that any change of
one byte changes (`Hashed`).

### Archives

`SzArEx` is the Swift class with the C database: `Open` reads the start header,
`ReadHeader` what kind of header follows, `ReadSection` and `ReadStreams` one
section each, `ReadProperty` one property of the files, `AllocateTables` and
`PassTable` the pass of `FileTable` over what was read, `ListEntries` builds the
Swift entries, `Extract(k)`, `Decode` and `TakeSlice` are `Archive.extract`, `Close`
and `FailOpen` the `deinit`.  Additional streams, an encoded header and a file's
folder are all decoded by the same action `Decode`.

The heap is the set of pointers that are allocated, each named by the field that
holds it; overwriting a live pointer sets `mem.lost`.  The n-th allocation or the
n-th read fails where the image says so.  Sizes are scaled: a number of the header
is below 5*2^27 (`UInt64Max`) where the program has 2^64, 2^26 - 1 stands for
0x7FFFFFFF, 2 bits of a byte are used in bit vectors, and an allocation larger than
`HeapLimit` fails; the limits 2^62 and 2^48 of the start header are the same
fractions of `SizeMod`.


## 3. Runs

| run | instance | shows |
|---|---|---|
| `look_to_read2` | file of 5 bytes, buffer of 3, requests up to 4 | buffer invariant, refinement of `SeekStream` |
| `solid_cache` | 6 files, 4 folders (shared, damaged, too big, empty), 2 heap blocks | no leak or dangling pointer, the variables agree, `SZ_OK` is the file when its CRC is known or its folder is sound |
| `solid_cache_stale` | the same | **violation**: finding A |
| `file_table` | 4 files, 2 folders, 3 substreams, sizes {0, 1, 3}/5 of the word, 2-bit masks; and some 2000 archives of up to 240 bytes | the table is accepted exactly when consistent; right slices, CRCs, directory bits; reads in bounds; folders decode as they were scanned; nothing leaks; what was packed is extracted |
| `file_table_skipped` | 2 folders without wrap | **violation**: finding C |
| `mt_coder` | 2 threads, 3 slots, 4 blocks, stream or memory input, every failure | exclusivity, ownership, order, refinement of `OrderedCoder`, termination |
| `mt_coder_twice` | 2 calls, no failure | **violation**: finding B |
| `mt_dec` | 1 to 3 threads, links of 3 bytes, blocks of up to 3, nine streams, every failure, then a second call | the output is a prefix of what one thread writes, answers, input kept at the switch, termination |
| `mt_dec_write` | 2 threads, a failing write | **violation**: finding D |
| `match_finder` | dictionary of 4, rings of 2 blocks, numbers modulo 72, inputs of 90 bytes, 2 streams | matches are real and the longest is found, availability, no block is lost, calls return |
| `xz_decode` | 1 to 3 threads, some 1400 jobs over files of up to 240 bytes | the answer does not depend on threads and buffers; `SZ_OK` means intact data; output in order; the backward reader finds the same streams and blocks |
| `xz_bad_header` | 2 threads, one byte changed | **violation**: finding E |

Why the bounds are enough.  `look_to_read2`: requests are shorter than, equal to
and longer than the buffer, and seeks go past the file.  `file_table`: two
folders are enough for "a skipped folder before a used one", three substreams
for first, middle and last, four files for two full masks; the sum of three
sizes passes `SizeMod`.  `mt_coder`: with 4 blocks and 3 slots the ring wraps and
the semaphore blocks; `th` of either thread reads, writes, and starts the other.
`mt_dec`: there are more blocks than threads, so the ring wraps; blocks end
inside links and at their ends, so the `crossBlock` is used both in place and
filled anew; there are blocks that are put together (`SmallBlock`), too large
(`OutBlockMax`), damaged, cut off, and data behind the end mark; the size asked
for ends inside a block.  Counters that would grow are bounded by the input.
`match_finder`: the window moves every few bytes, each of the three numberings
wraps within a stream, the ring of either thread fills and empties, the stream may
be dropped in any state of the other threads, and the input ends at any phase of a
block.  `xz_decode`: the files have one block or several, with and without sizes in
their headers, packed and stored chunks, both filters, no check and every check,
stream padding, empty streams; each is read in pieces of 1, 5 and 64 bytes, cut at
every byte, changed at every byte and followed by padding or garbage; memory
limits, failing allocations, reads and writes fall on every block.  `file_table`:
the archives have solid and single folders, folders with 1, 2 and 4 coders (BCJ2),
CRCs of folders, of files and none, empty files and directories, names and folders
in additional streams, encoded headers; every byte of the headers is set to 0, 1,
255 and one more (with the CRC made right), headers are cropped at every byte,
every single allocation and each of the first reads fails, packed bytes are changed
and files are cut; extracts come in any order, several times, with look-ahead
buffers of 64 and of 3 bytes.

Fairness.  `MtCoder`, `MtDec` (`CallReturns`) and `LzFindMt` (`CallsReturn`) state
liveness.  Each
thread and the caller's thread are weakly fair: they are operating-system
threads that keep running unless they wait, and callbacks are assumed to return.
Events are auto-reset and level-like (a set event stays set until a wait takes
it), so weak fairness of the waiting step is what a wait gives.  In `MtDec` weak
fairness of `Thread(t)` is written out with `CanStep(t)`, which is
`ENABLED Thread(t)` for all but the cost of evaluating it; in `LzFindMt` likewise,
for the hash thread, the tree thread and a call the encoder is inside of.  Nothing
else is fair: neither failures nor new calls have to happen, and the encoder may
stop calling.  That is also why `match_finder` alone does not check deadlock: an
encoder that asks for nothing more leaves all threads waiting.


## 4. Proofs

All theorems hold for every value of the constants that the modules' `ASSUME`s
allow, i.e. any file, buffer, archive, header, number of threads, slots and
blocks.

* **LookToRead2Proofs.**  `TypeCorrect`.  `BufferInvariant`: the unread part of the
  buffer is the part of the file that ends at the descriptor.  It is inductive
  together with `TypeOK` and the fact that what a `Look` returned is still unread (so
  that a `Skip` stays inside).  `Implements`: the refinement of `SeekStream`, step by
  step, from that invariant.
* **SolidCacheProofs.**  `TypeCorrect`, `NoLeak`, `CacheConsistent` and `OkIsTheFile`
  follow from one inductive invariant: the heap holds exactly the client's block,
  that block is the folder `blockIndex` and `outBufferSize` long, and what was
  returned lies in it.
* **FileTableProofs.**  `TypeCorrect`.  `SlicesSafe`: every file's slice lies in its
  folder for every header and every `SizeMod`, so `SZ_ERROR_FAIL` at 7zArcIn.c:1669
  cannot be reached.  The inductive invariant has the parts `HdrOK`, `TableOK` (entries
  written so far), `LoopOK` (cursors), `OpenOK` (the folder being filled: positions
  rise from its start and its remaining size is what is left) and `SliceOK`; the
  step that needs the code's own overflow test is the end of a substream.
  `CountsMatch` and `ReadsSafe` follow from
  `HeaderInv`: what is left of the numbers and sizes of substreams is what
  the folders not yet opened call for (`ReadOK`), and as many files with data, empty
  files and digests were met as the sums over the folders so far say (`CountOK`).
  The sums of `ReadSubStreamsInfo` and those of the loop count the same things by different
  formulas; that is what the lemmas at the beginning of the module are for, about
  `SumFunctionOnSet`, counting below a bound, and `\div` and `%`.  The community modules
  define a sum by recursion over a finite set; that it is a number and grows by the next
  element is proved by induction, with sets in the place of predicates: a set without a
  least counterexample is empty (`FiniteMin`, and `NatInduct` in `MtDecProofs`).
  The second half of the module is about the table against the reference, which numbers files and
  substreams without a loop.  `SlicesCorrect` and `AcceptedExactly`, from `PlaceOK`
  (each file so far is in the folder of the reference: that folder is the only one whose
  substreams its number lies among), `FoldersOK` and `FilesOK` (a folder starts where
  those before it end, and each slice so far has the reference's offset and size) and `EndsWithFolder`;
  for a header that is refused, `Refuses` finds what it contradicts at each of the
  tests that refuse.  `FlagsCorrect`, from `BitsRight` (the stored bytes have the bits of
  the files before the current byte, the masks those of the rest, and no others) and
  `ValsOK`.  The hypothesis `~ SkipsData` is the one of the properties: with skipped data
  the first two are false, which is finding C.
* **MtCoderProofs.**  `TypeCorrect` for any number of calls.  `ReadersExclusive` and
  `WritersExclusive` for one call, from `HasSlot` (a working thread has a slot),
  `Fresh` (there is no thread before the first is started) and the two tokens.
  `RingSafe`, for one call: the blocks that hold a slot are
  the `InFlight` ones, from the oldest that is not written up to `blockIndex`.  They
  are at most as many as the semaphore has given out, so that the slot that comes
  next, counted around the ring, is free, and the semaphore's count is what is left.
  `BufsSafe`: a buffer that is in use belongs to one slot (`OwnOK(own)`), and the list
  of free buffers has those of the first `NumBlocksMax` that are free in front
  (`ListOK`).  A thread that takes a buffer has a slot without one, so that among as
  many buffers as slots one is free: that is why `freeBlockHead`, an unchecked index,
  is never -1 there.
  `ReturnsLast`, for one call, by counting: the threads that
  were started are those that still run and those that have incremented
  `numFinishedThreads`; new threads are started only by one that still runs; so
  whoever finds the two numbers equal is the last one.
  `Implements`, in the second half of the module: every step of one call is a step of
  `OrderedCoder` or a stutter.  The invariant numbers the slots in flight from `base`,
  the number of the oldest block, by their distance around the ring (`Dist`), and says
  of each what number and size its block has, what was written, and which
  failures are already in `progressRes` (`OrderOK`).  When the last thread reports,
  nothing is in flight and nothing failed or everything that was read is written
  (`AllWritten`), which is what `Finish` of the abstract coder asks for; the size
  of the last block needs three lemmas on `\div`.
* **MtDecProofs.**  `OneReaderOneWriter`, for any number of calls: the threads that
  work on a block are the `n` threads of the ring from the writer on, in the order of
  their blocks (`Round(w, n)`), and the right to read is with the last of them
  (`Current`), in the event of the thread after it (`Pending`), or nowhere after the
  last block (`AtLast`).  `RingNext` is the ring when the writer hands on, `RingGrows`
  the ring when a thread is started: that fits in only while the ring was not gone
  around, which is why `Pending` and `Current` say where it ends as long as threads
  may be added.
  `Types` is a type invariant with a protocol in it: that `filledThreadStart` is a
  thread and `numFilledThreads` no more than there are needs the invariant `Inv`, which
  adds four parts to `Shape` and `Tokens`.  `Control` has the types of everything a
  thread keeps and what its flags say at each label: without `finish` there is a whole
  block to decode and to write, and a thread that found itself interrupted goes through
  without input (`Passer`).  `Blamed`: an interruption of the blocks after `index` was
  caused by a block up to `index` that is not written yet, or the writer recorded it.
  `Chain`: once input is kept, the writer is the thread after the last kept one, and a
  thread that works is either further along the ring than the first kept one or
  passes.  So the ring closes only over threads that have nothing to keep.
  `ParseIs` says what the Parse callback answers for any input and limit.
* **MtDecSwitchProofs.**  `SwitchesInPlace`, for any number of calls: when a block is
  left to the single-threaded decoder, `MtDec_Read` serves every byte after the blocks
  that were written, once and in order.  The model records only how the bytes are
  served; the invariant says where they are at any time.  As long as nothing went wrong
  that the other decoder is not called for (`Continues`), there is a function `B` from
  block numbers to positions (`Placed`): block `i` is the input from `B[i]` to `B[i + 1]`.
  Each thread of the ring holds the input from its block's position (`Holds`: the first
  link is filled up to `start`, and the others to `InBufSize`), as much as it read
  (`Reader`) or as its block has (`HasBlock`); the next block begins with the bytes of the
  crossBlock, or where the stream stands (`Front`), unless a data end or a failed
  read leaves nothing to come (`Dropped`, `Drained`); and what was written is as long as
  the output of the bytes before the writer's block (`Written`).  `Outputs(p)`, the output of the first
  `p` bytes, ties the parser's sizes to the decoder's.  `InPlace`, `AtEnd` and `RunKept` say the same once the writer
  stopped: the input of the threads that were kept, and the crossBlock after it, is one run of
  bytes.  From there `Handed` says what is left to serve after each `MtDec_Read`, and
  `FirstOfLink` and `RestMoves` that a link is the next bytes of the run and that what is
  left is again one.  The longest part is the Parse loop (`LooksOn`, `LookEnds`, `BlockCut`):
  where a block ends is found in the middle of a link, and the rest of it must be in the
  crossBlock or, if there is no memory for that, stay in the link and with the block, which
  is then left to the other decoder as a whole.
  `WritesAreInOrder`, in the second half of the module and for any number of calls: the
  output is a beginning of what one thread would write.  The invariant `Words` says so
  byte by byte, which needs no induction over the output: `Nth(a, n, x)`, the byte `x` is
  the `n`-th that decodes to something after position `a`, has at most one `x`
  (`NthIsOne`), and `Texts(b, a)` is that for each byte of `b`.  `TextTo(b, a, c)` adds
  that the input from `a` to `c` is undamaged and `b` is all of its output.  `DecodeText`
  and `ParseSafe` are what the two passes over the LZMA2 data give in these terms, and `FullIs`
  that the reference is the longest of such texts within the size asked for.  In
  `RunText` the parser has `Scanned` a block (the block's output still fits
  into the size asked for), the decoder's links are `Coming`, and a block that is decoded
  `Fits`: what is in its buffer is a text from its first byte on.
  A thread that was interrupted before `PreCode` is `Untouched`: the model says nothing of
  what it decodes to, and `Write` never takes it.  `Written` of `SwitchesInPlace` then puts
  the blocks together: the text of a block from `B[i]` joins on to the text up to `B[i]`
  (`TextJoins`).  `StText` is the same for the single-threaded decoder, whose place
  `Handed` knows.
* **MtDecAnswerProofs.**  `AnswersAreRight`, for any number of calls: a sound input is
  answered with `SZ_OK` or a failure of the surroundings, after `SZ_OK` all of its
  output was written unless a write failed, and where one thread came to the end,
  `SZ_OK` means that the input is sound.  That the output is a beginning of the right
  one is not enough for it; what is needed is where an input can end.  `EndsAt(e)` is a
  place it may end at, `StuckAt(z)` one at which a single thread cannot go on, and no
  input has both (`StuckNeverEnds`); a sound input is one that ends somewhere
  (`SoundEnds`, `EndIsSound`).  So a failure blamed on the data has to be shown to leave
  the input no end, and an answer without a failure that the input has no end after what
  was written (`Covered`).  The invariant is `AnswerKnown`, inductive together with
  `Inv`, `Handed` and `Words`.  While the threads run, `RunRight`: each of them is
  `Right`, that is `Fair` (the coder finds of its block what the parser said of it, or
  fails for damage in it, unless it was interrupted), `Hollow` (a block without a byte
  is the last, and nothing is beyond it) and `Ready` (`PreCode` prepared the coder that
  is called); and `Bare`, that no thread holds anything only when all that was read was
  decoded or all that was asked for was written.  `FinOK` says that reading ends with
  the input or with a failure.  When the threads have ended without handing over,
  `Shown`: `Covered` holds, by `WriteCovers`, which takes the last writer's block apart.
  When they hand over or there is one thread, `Left`: whoever finds nothing left has had
  all of the input, or reading failed.
* **LzFindMtProofs.**  `KeepsBlocks`: no block of the two rings is lost or made by the
  semaphores, for any ring and block sizes, any finder and input, and any number of
  streams, each dropped anywhere.  The numbers of blocks say nothing while a thread is
  being started or stopped, so the invariant has, besides the sum, who may be where
  then: `HashControl` and `BtControl` (a thread that was not started, or was stopped,
  waits at its start; one told to stop has either still to wake or to report it; the hash
  thread is stopped before the bt thread), `Fresh` (until a ring's first block is asked
  for all of it is free, though the last stream may have left it in any state) and
  `Stopping` (the ring of a writer that is stopping is not overfull).  From them also:
  `ReleasesNeverFail`, that every `Semaphore_Release1`, whose result is dropped, finds the
  semaphore below its maximum; `AlwaysReady`, that `MtSync_Init` never finds a thread
  running; and, with `Locks`, `MovesTheWindowAlone`, that the window is moved only while
  neither the bt thread nor the encoder uses a pointer into it.  The proofs treat what the
  threads compute as opaque: `mf`, the blocks and the positions are not typed.

The theorems about `MtCoder` that are stated for one call are false for two: that is
finding B.

Only model-checked: liveness, whose fairness the prover does not take; the data of the
match finder (`MatchesReal`, `LongestFound`, `AvailRight`), which is what its loops
compute, an induction over data; and all of the XZ container and the archives, whose operators are
recursive, so that the prover cannot use the modules.


## 5. Findings

* **A** (`solid_cache_stale`): `SzArEx_Extract` sets the cache variables before it
  decodes and leaves them when decoding fails.  The next extract from that
  folder is a hit and returns `SZ_OK` with data that was never decoded, unless the
  file has a CRC.  7z.h:166 calls the buffer a cache of the solid block.
* **B** (`mt_coder_twice`): a thread delayed between the increment and the
  comparison of `numFinishedThreads` (MtCoder.c:351) can end the *next* call on the
  same object, which then returns `SZ_OK` with nothing written.
* **C** (`file_table_skipped`): a folder with data but no substreams shifts the
  slices of the next folder's files (7zArcIn.c:1351).
* **D** (`mt_dec_write`): with more than one thread a failed write of the output
  ends the decoding but is answered with `SZ_OK`; Lzma2DecMt.h:35 documents
  `SZ_ERROR_WRITE`.
* **E** (`xz_bad_header`): with several threads a file whose stream header is
  damaged is answered with `SZ_OK` and "data after the end": `Write` leaves what
  `Parse` read out of `mtc.inProcessed` (XzDec.c:2015), so that the test described
  at XzDec.c:2583 ("there was no any good xz stream header, and we keep error")
  does not recognise the case.  One thread answers `SZ_ERROR_NO_ARCHIVE`.

Beside D, the multi-threaded path of `Lzma2DecMt_Decode` also answers `SZ_OK` for
damaged or truncated data, because `mtc.codeRes` is never looked at; the header
promises nothing about it, so `AnswerRight` demands soundness of the input only
where one thread decoded.

Observations made while modelling, that no run is about:

* **XzIn.c:200.**  `Xz_ReadBackward` says "// pos != 0", which does not hold when
  everything before `startOffset` is zero bytes: the loop then goes round with
  `pos = 0`, `i = 0` and reads `buf32[i - 1]` out of bounds.  The module has
  "UNDEFINED" there; the files of the run do not reach it.
* **XzDec.c:1886.**  When `PreCode` cannot allocate for the last block of a stream
  and more data follows in the same buffer, that data is cut off and a good file is
  reported as damaged, though MtDec.c:540 says that single-thread decoding is tried.
* **XzDec.c:2583.**  Garbage after a good stream that begins with bytes of the
  signature makes `stat.InSize` 1 to 12 too small with several threads, and an empty
  stream at the end leaves out its 32 bytes (Xz.h:483); `AnswerIndependent` does not
  compare `InSize` there.
* **XzDec.c:1359.**  `XzUnpacker_CodeFull` with several blocks: `Lzma2Dec_Init` sets
  `dicPos` back to 0, so that the second block overwrites the first (Xz.h:323).
* **XzDec.c:2753** is the only place that sets `stat->OutSize`: with one thread
  from the start it stays 0.  With one thread an `outDataSize` smaller than the data
  is always `SZ_ERROR_DATA`, also with `finishMode` 0; with several it is `SZ_OK`
  with `DecodingTruncated`.
* **XzDec.c:2770.**  With several threads a failed write before the last block is
  `SZ_ERROR_FAIL` instead of `SZ_ERROR_WRITE`.
* **Archive.swift:67** gives Foundation one byte of the name's terminating zero.
* After a folder failed to decode, `outBuffer` keeps `blockIndex` (finding A): a file
  without CRC of that folder is later returned from a block that was decoded in
  part.  `ExtractsWhatWasPacked` has this as its exception (`Whole`).

## 6. Not modelled, and why

* failures of events, semaphores and mutexes: every caller treats them as
  unexpected and the code makes no promise for them;
* `MTCODER_USE_WRITE_THREAD`, Win32 variants, `Z7_ST`: not what the headers select;
* `Lzma2DecMt_Init` / `_Read`, progress failures between 16 MB parts of one block;
* PPMd (`Ppmd7.c`): a heap of contexts that models megabytes of text, out of TLC's
  reach; the 7z decoder is built without it (`Z7_PPMD_SUPPORT` is not defined);
* the normal mode of `LzmaEnc.c`: prices and the optimal parser choose among the
  same symbols, written by the same functions as in the fast mode;
* the branch converters besides ARM, which differ in the instruction they look for,
  and the x86 converter's state; property normalisation of the encoders;
* the arithmetic of the CRCs, SHA-256 and AES, SIMD variants: data transformations
  without states to explore; a digest is a number that changes with the data;
* Foundation's decoding of names and dates; `lseek` does not fail in `SzArEx`
  (`LookToRead2` has its failures);
* `Threads.c`, platform support and command-line samples: thin layers over the
  operating system, or clients that use `SzArEx_Extract` as `SolidCache` does.


## 7. Plan

The twelve runs are used, and all but the parts above are modelled.  What would
come next:

1. The optimal parser of `LzmaEnc.c` as a second encoder of the same files, which
   needs the price tables as data; the x86 branch converter in pieces.
2. `Ppmd7.c`'s allocator by itself (no unit owned twice, a failing allocation
   restarts the model), without the model of contexts.
