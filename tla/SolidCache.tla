----------------------------- MODULE SolidCache -----------------------------
(***************************************************************************)
(* SzArEx_Extract (7zArcIn.c) and the three variables its client keeps     *)
(* between calls, blockIndex, outBuffer and outBufferSize: a cache of one  *)
(* decoded solid block.  The Swift Archive is such a client; its deinit is *)
(* the flush.  The database SzArEx_Open has read is constant, the decoder  *)
(* is external (what SzAr_DecodeFolder may leave behind and return), and   *)
(* a call runs to its end.                                                 *)
(***************************************************************************)
EXTENDS Naturals

CONSTANTS
  Files,           (* file indexes of the archive                          *)
  Folders,         (* folder indexes: the solid blocks                     *)
  NoFolder,        (* (UInt32)-1                                           *)
  FileToFolder,    (* p->FileToFolder                                      *)
  FileOffset,      (* a file's UnpackPositions, less its folder's first    *)
  FileSize,        (* the next UnpackPositions, less its own               *)
  HasCrc,          (* files whose bit is set in p->CRCs                    *)
  FolderSize,      (* SzAr_GetFolderUnpackSize                             *)
  FolderHasCrc,    (* folders whose bit is set in p->db.FolderCRCs         *)
  TooBig,          (* folders whose size does not fit in a size_t          *)
  Damaged,         (* folders whose packed data is damaged                 *)
  Blocks,          (* the heap's blocks                                    *)
  NULL

ASSUME SolidCacheAssumption ==
  /\ NoFolder \notin Folders
  /\ NULL \notin Blocks
  /\ FileToFolder \in [Files -> Folders \cup {NoFolder}]
  /\ FileOffset \in [Files -> Nat]
  /\ FileSize \in [Files -> Nat]
  /\ FolderSize \in [Folders -> Nat]
  /\ HasCrc \subseteq Files

VARIABLES
  blockIndex,      (* the folder the client believes is cached             *)
  outBuffer,       (* the block that caches it, or NULL                    *)
  outBufferSize,   (* the size the client believes the block has           *)
  heap,            (* what each allocated block of allocMain holds         *)
  ret              (* what the last call returned                          *)

vars == <<blockIndex, outBuffer, outBufferSize, heap, ret>>

-----------------------------------------------------------------------------
(* An allocated block: its length, the folder decoded into it, the offsets *)
(* at which it holds that folder's bytes, and whether the decoder that     *)
(* filled it returned SZ_OK.                                               *)
Block(len, folder, good, decoded) ==
  [len |-> len, folder |-> folder, good |-> good, decoded |-> decoded]

(* The heap maps the blocks allocated to what they hold. *)
Live == DOMAIN heap
FreeBlock(h, b) == [x \in DOMAIN h \ {b} |-> h[x]]
PutBlock(h, b, block) == [x \in DOMAIN h \cup {b} |-> IF x = b THEN block ELSE h[x]]

Bytes(folder) == 0 .. FolderSize[folder] - 1

(* SzAr_DecodeFolder: an intact folder decodes to its bytes, and so does   *)
(* any whose CRC was compared.  A read error, a failed allocation or bad   *)
(* data end it anywhere, with the block partly written.                    *)
Decodes(folder, good, ok) ==
  /\ good \subseteq Bytes(folder)
  /\ ok /\ (folder \notin Damaged \/ folder \in FolderHasCrc) => good = Bytes(folder)

Returned(f, res) ==
  LET ok == res = "OK"
      stream == FileToFolder[f] # NoFolder
  IN  [file |-> f, res |-> res,
       offset |-> IF ok /\ stream THEN FileOffset[f] ELSE 0,
       size   |-> IF ok /\ stream THEN FileSize[f] ELSE 0]

Nothing == [file |-> NoFolder, res |-> "NONE", offset |-> 0, size |-> 0]

Init ==
  /\ blockIndex = NoFolder
  /\ outBuffer = NULL
  /\ outBufferSize = 0
  /\ heap = [b \in {} |-> NULL]
  /\ ret = Nothing

-----------------------------------------------------------------------------
SliceOf(f) == FileOffset[f] .. FileOffset[f] + FileSize[f] - 1

(* The file's bytes as they stand in a buffer that holds the folder's own  *)
(* bytes at `good`: a CRC matches exactly when all of them are right.      *)
CrcMatches(f, good) == SliceOf(f) \subseteq good

(* The end of a call whose folder is in the buffer: bound check, then CRC. *)
Answer_NoCrc(f, size, good) ==
  IF FileOffset[f] + FileSize[f] > size THEN "FAIL" ELSE "OK"

Answer(f, size, good) ==
  IF FileOffset[f] + FileSize[f] > size THEN "FAIL"
  ELSE IF f \in HasCrc /\ ~ CrcMatches(f, good) THEN "CRC"
  ELSE "OK"

(* A file without a stream: the cache is dropped. *)
ExtractNoStream_KeepBuffer(f) ==
  /\ FileToFolder[f] = NoFolder
  /\ blockIndex' = NoFolder
  /\ outBuffer' = NULL
  /\ outBufferSize' = 0
  /\ ret' = Returned(f, "OK")
  /\ UNCHANGED heap

ExtractNoStream(f) ==
  /\ FileToFolder[f] = NoFolder
  /\ heap' = FreeBlock(heap, outBuffer)
  /\ blockIndex' = NoFolder
  /\ outBuffer' = NULL
  /\ outBufferSize' = 0
  /\ ret' = Returned(f, "OK")

IsCached(f) == outBuffer # NULL /\ blockIndex = FileToFolder[f]

ExtractCached(f) ==
  /\ FileToFolder[f] # NoFolder
  /\ IsCached(f)
  /\ ret' = Returned(f, Answer(f, outBufferSize, heap[outBuffer].good))
  /\ UNCHANGED <<blockIndex, outBuffer, outBufferSize, heap>>

Misses(f) == FileToFolder[f] # NoFolder /\ ~ IsCached(f)

(* The size is checked before the cache is touched. *)
ExtractTooBig_Late(f) ==
  /\ Misses(f)
  /\ FileToFolder[f] \in TooBig
  /\ blockIndex' = FileToFolder[f]
  /\ ret' = Returned(f, "MEM")
  /\ UNCHANGED <<outBuffer, outBufferSize, heap>>

ExtractTooBig(f) ==
  /\ Misses(f)
  /\ FileToFolder[f] \in TooBig
  /\ ret' = Returned(f, "MEM")
  /\ UNCHANGED <<blockIndex, outBuffer, outBufferSize, heap>>

(* The old block is freed, then allocMain has no memory for the new one.   *)
ExtractNoMemory_Dangling(f) ==
  /\ Misses(f)
  /\ FileToFolder[f] \notin TooBig
  /\ FolderSize[FileToFolder[f]] # 0
  /\ blockIndex' = FileToFolder[f]
  /\ heap' = FreeBlock(heap, outBuffer)
  /\ outBufferSize' = FolderSize[FileToFolder[f]]
  /\ ret' = Returned(f, "MEM")
  /\ UNCHANGED outBuffer

ExtractNoMemory(f) ==
  /\ Misses(f)
  /\ FileToFolder[f] \notin TooBig
  /\ FolderSize[FileToFolder[f]] # 0
  /\ blockIndex' = FileToFolder[f]
  /\ heap' = FreeBlock(heap, outBuffer)
  /\ outBuffer' = NULL
  /\ outBufferSize' = FolderSize[FileToFolder[f]]
  /\ ret' = Returned(f, "MEM")

(* The folder is decoded into a fresh block, which stays in the cache      *)
(* whatever the decoder returned.                                          *)
ExtractDecode(f) ==
  LET folder == FileToFolder[f]
  IN  /\ Misses(f)
      /\ folder \notin TooBig
      /\ FolderSize[folder] # 0
      /\ blockIndex' = folder
      /\ outBufferSize' = FolderSize[folder]
      /\ \E b \in Blocks, good \in SUBSET Bytes(folder), ok \in BOOLEAN :
           /\ b \notin Live \ {outBuffer}
           /\ Decodes(folder, good, ok)
           /\ outBuffer' = b
           /\ heap' = PutBlock(FreeBlock(heap, outBuffer), b,
                               Block(FolderSize[folder], folder, good, ok))
           /\ ret' = Returned(f, IF ok THEN Answer(f, FolderSize[folder], good)
                                       ELSE "DECODE")

(* A folder of size 0 needs no block: outBuffer stays NULL. *)
ExtractEmptyFolder(f) ==
  LET folder == FileToFolder[f]
  IN  /\ Misses(f)
      /\ folder \notin TooBig
      /\ FolderSize[folder] = 0
      /\ blockIndex' = folder
      /\ heap' = FreeBlock(heap, outBuffer)
      /\ outBuffer' = NULL
      /\ outBufferSize' = 0
      /\ \E ok \in BOOLEAN : ret' = Returned(f, IF ok THEN Answer(f, 0, {}) ELSE "DECODE")

SzArEx_Extract(f) ==
  \/ ExtractNoStream(f)
  \/ ExtractCached(f)
  \/ ExtractTooBig(f)
  \/ ExtractNoMemory(f)
  \/ ExtractDecode(f)
  \/ ExtractEmptyFolder(f)

(* The client flushes the cache: 7z.h allows it between any two calls, the *)
(* Swift deinit does it after the last one.                                *)
Flush ==
  /\ outBuffer # NULL
  /\ heap' = FreeBlock(heap, outBuffer)
  /\ outBuffer' = NULL
  /\ ret' = Nothing
  /\ UNCHANGED <<blockIndex, outBufferSize>>

Next == Flush \/ \E f \in Files : SzArEx_Extract(f)

Spec == Init /\ [][Next]_vars

-----------------------------------------------------------------------------
Cached == heap[outBuffer]

(* The cached block is allocated whenever the client holds one, so neither *)
(* the next call nor the client's flush frees a block twice.               *)
TypeOK ==
  /\ blockIndex \in Folders \cup {NoFolder}
  /\ outBuffer \in Live \cup {NULL}
  /\ outBufferSize \in Nat
  /\ \A b \in Live : /\ heap[b].len \in Nat
                     /\ heap[b].folder \in Folders
                     /\ heap[b].good \in SUBSET Bytes(heap[b].folder)
                     /\ heap[b].decoded \in BOOLEAN
  /\ Live \subseteq Blocks
  /\ ret.file \in Files \cup {NoFolder}

(* Nothing leaks: between calls the one block of allocMain still allocated *)
(* is the one the client holds, whichever path of the calls before failed. *)
HeapOwned == Live = {outBuffer} \ {NULL}

(* The three variables a client hands from call to call agree with each    *)
(* other and with the block: it was decoded from folder blockIndex and has *)
(* outBufferSize bytes.  Every early return of SzArEx_Extract keeps this.  *)
CacheIdentity ==
  outBuffer # NULL =>
    /\ Cached.folder = blockIndex
    /\ Cached.len = outBufferSize

(* What SZ_OK is worth: the offset and size returned lie in the block the  *)
(* client now holds, which is the file's folder, and the bytes there are   *)
(* the file's if its CRC was compared, or if its folder is intact and was  *)
(* decoded to the end.                                                     *)
ServesTheFile ==
  ret.res = "OK" /\ ret.size # 0 =>
    /\ outBuffer # NULL
    /\ ret.offset + ret.size <= Cached.len
    /\ Cached.folder = FileToFolder[ret.file]
    /\ \/ ret.file \in HasCrc
       \/ Cached.decoded /\ Cached.folder \notin Damaged
       => ret.offset .. ret.offset + ret.size - 1 \subseteq Cached.good

(* 7z.h:166 calls the buffer a cache of the solid block: data is returned  *)
(* with SZ_OK only from a block that was decoded successfully.             *)
OkMeansDecoded ==
  ret.res = "OK" /\ ret.size # 0 => outBuffer # NULL /\ Cached.decoded
=============================================================================
