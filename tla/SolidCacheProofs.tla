-------------------------- MODULE SolidCacheProofs --------------------------
(***************************************************************************)
(* For every archive, every set of CRCs and every way the decoder and the  *)
(* allocator may fail, the cache of SzArEx_Extract leaks nothing, its      *)
(* three variables agree, and what a call returns with SZ_OK is the file.  *)
(***************************************************************************)
EXTENDS SolidCache, TLAPS

(* What the invariants need besides themselves: a block is as long as its  *)
(* folder, and holds all of it once an intact folder was decoded.          *)
BlocksDecoded ==
  \A b \in Live :
    /\ heap[b].len = FolderSize[heap[b].folder]
    /\ heap[b].decoded /\ heap[b].folder \notin Damaged
         => heap[b].good = Bytes(heap[b].folder)

IInv == TypeOK /\ HeapOwned /\ CacheIdentity /\ ServesTheFile /\ BlocksDecoded

(* An answer of SZ_OK: the slice fits, and a compared CRC vouches for it.  *)
LEMMA AnswerOK ==
  ASSUME NEW f \in Files, NEW size \in Nat, NEW good, Answer(f, size, good) = "OK"
  PROVE  /\ FileOffset[f] + FileSize[f] <= size
         /\ f \in HasCrc => SliceOf(f) \subseteq good
  BY SolidCacheAssumption DEF Answer, CrcMatches

(* A call that was made has one of these answers. *)
LEMMA AnswerNotNone ==
  ASSUME NEW f, NEW size, NEW good
  PROVE  Answer(f, size, good) \in {"OK", "CRC", "FAIL"}
  BY DEF Answer

(* A call that ends with an error, and one whose file has no stream, gives *)
(* its client no bytes.                                                    *)
LEMMA NoBytesServed ==
  ASSUME NEW f \in Files, NEW res,
         res # "OK" \/ FileToFolder[f] = NoFolder,
         ret' = Returned(f, res)
  PROVE  ServesTheFile' /\ ret'.file \in Files
  BY DEF ServesTheFile, Returned

(* The client begins with nothing allocated and nothing cached. *)
LEMMA InitIInv == Init => IInv
  BY SolidCacheAssumption
  DEF Init, IInv, TypeOK, HeapOwned, CacheIdentity, ServesTheFile, BlocksDecoded,
      Live, Nothing

-----------------------------------------------------------------------------
(* Freeing what the client holds empties the heap. *)
LEMMA FreeEmpties ==
  ASSUME HeapOwned
  PROVE  DOMAIN FreeBlock(heap, outBuffer) = {}
  BY DEF HeapOwned, FreeBlock, Live

(* With the block freed and forgotten nothing is left to go wrong. *)
LEMMA EmptyHeap ==
  ASSUME outBuffer' = NULL, heap' = FreeBlock(heap, outBuffer), HeapOwned,
         blockIndex' \in Folders \cup {NoFolder}, outBufferSize' \in Nat,
         ret'.file \in Files \cup {NoFolder}, ServesTheFile'
  PROVE  IInv'
<1>1. Live' = {}
  BY FreeEmpties DEF Live
<1> QED
  BY <1>1 DEF IInv, TypeOK, HeapOwned, CacheIdentity, BlocksDecoded

(* The one block of the heap after a folder was decoded into it. *)
LEMMA OneBlock ==
  ASSUME HeapOwned, NEW b \in Blocks, NEW block,
         heap' = PutBlock(FreeBlock(heap, outBuffer), b, block)
  PROVE  Live' = {b} /\ heap'[b] = block
<1>1. DOMAIN FreeBlock(heap, outBuffer) = {}
  BY FreeEmpties
<1>2. heap' = [x \in {b} |-> block]
  BY <1>1 DEF PutBlock
<1> QED
  BY <1>2 DEF Live

(* Every path through SzArEx_Extract, and every flush, keeps the cache     *)
(* consistent.                                                             *)
LEMMA NextIInv == IInv /\ [Next]_vars => IInv'
<1> SUFFICES ASSUME IInv, [Next]_vars PROVE IInv'
  OBVIOUS
<1> USE SolidCacheAssumption
<1>1. ASSUME NEW f \in Files, ExtractNoStream(f) PROVE IInv'
  <2>1. ServesTheFile' /\ ret'.file \in Files
    BY <1>1, NoBytesServed DEF ExtractNoStream
  <2> QED
    BY <1>1, <2>1, EmptyHeap DEF ExtractNoStream, IInv
<1>2. ASSUME NEW f \in Files, ExtractCached(f) PROVE IInv'
  <2> DEFINE res == Answer(f, outBufferSize, heap[outBuffer].good)
  <2>1. /\ ret' = Returned(f, res)
        /\ UNCHANGED <<blockIndex, outBuffer, outBufferSize, heap>>
        /\ FileToFolder[f] # NoFolder /\ outBuffer # NULL /\ blockIndex = FileToFolder[f]
    BY <1>2 DEF ExtractCached, IsCached
  <2>2. TypeOK' /\ HeapOwned' /\ CacheIdentity' /\ BlocksDecoded'
    BY <2>1 DEF IInv, TypeOK, HeapOwned, CacheIdentity, BlocksDecoded, Live, Returned, Cached
  <2>3. CASE res # "OK"
    BY <2>1, <2>2, <2>3, NoBytesServed DEF IInv
  <2>4. CASE res = "OK"
    <3>1. /\ ret'.file = f
          /\ ret'.offset = FileOffset[f] /\ ret'.size = FileSize[f]
      BY <2>1, <2>4 DEF Returned
    <3>2. /\ FileOffset[f] + FileSize[f] <= outBufferSize
          /\ f \in HasCrc => SliceOf(f) \subseteq heap[outBuffer].good
      BY <2>4, AnswerOK DEF IInv, TypeOK
    <3>3. /\ outBuffer \in Live
          /\ heap[outBuffer].folder = FileToFolder[f]
          /\ heap[outBuffer].len = outBufferSize
      BY <2>1 DEF IInv, TypeOK, CacheIdentity, Cached
    <3>4. heap[outBuffer].decoded /\ heap[outBuffer].folder \notin Damaged
            => SliceOf(f) \subseteq heap[outBuffer].good
      BY <3>2, <3>3 DEF IInv, BlocksDecoded, SliceOf, Bytes, TypeOK
    <3>5. ServesTheFile'
      BY <2>1, <3>1, <3>2, <3>3, <3>4 DEF ServesTheFile, SliceOf, Cached
    <3> QED
      BY <2>2, <3>5 DEF IInv
  <2> QED
    BY <2>3, <2>4
<1>3. ASSUME NEW f \in Files, ExtractTooBig(f) PROVE IInv'
  <2>1. ServesTheFile' /\ ret'.file \in Files
    BY <1>3, NoBytesServed DEF ExtractTooBig
  <2> QED
    BY <1>3, <2>1
    DEF ExtractTooBig, IInv, TypeOK, HeapOwned, CacheIdentity, Cached, BlocksDecoded, Live
<1>4. ASSUME NEW f \in Files, ExtractNoMemory(f) PROVE IInv'
  <2>1. ServesTheFile' /\ ret'.file \in Files
    BY <1>4, NoBytesServed DEF ExtractNoMemory
  <2>2. FileToFolder[f] \in Folders
    BY <1>4 DEF ExtractNoMemory, Misses
  <2> QED
    BY <1>4, <2>1, <2>2, EmptyHeap DEF ExtractNoMemory, IInv
<1>5. ASSUME NEW f \in Files, ExtractDecode(f) PROVE IInv'
  <2> DEFINE folder == FileToFolder[f]
  <2>1. PICK b \in Blocks, good \in SUBSET Bytes(folder), ok \in BOOLEAN :
          /\ Decodes(folder, good, ok)
          /\ outBuffer' = b
          /\ heap' = PutBlock(FreeBlock(heap, outBuffer), b,
                              Block(FolderSize[folder], folder, good, ok))
          /\ ret' = Returned(f, IF ok THEN Answer(f, FolderSize[folder], good)
                                      ELSE "DECODE")
    BY <1>5 DEF ExtractDecode
  <2>2. /\ folder \in Folders /\ FolderSize[folder] \in Nat
        /\ blockIndex' = folder /\ outBufferSize' = FolderSize[folder]
    BY <1>5 DEF ExtractDecode, Misses
  <2>3. Live' = {b} /\ heap'[b] = Block(FolderSize[folder], folder, good, ok)
    BY <2>1, OneBlock DEF IInv
  <2>4. /\ heap'[b].len = FolderSize[folder] /\ heap'[b].folder = folder
        /\ heap'[b].good = good /\ heap'[b].decoded = ok
    BY <2>3 DEF Block
  <2>5. ok /\ folder \notin Damaged => good = Bytes(folder)
    BY <2>1 DEF Decodes
  <2>6. HeapOwned' /\ CacheIdentity'
    BY <2>1, <2>2, <2>3, <2>4 DEF HeapOwned, CacheIdentity, Cached
  <2>7. BlocksDecoded'
    BY <2>2, <2>3, <2>4, <2>5 DEF BlocksDecoded, Bytes
  <2>8. ret'.file = f
    BY <2>1 DEF Returned
  <2>9. TypeOK'
    BY <2>1, <2>2, <2>3, <2>4, <2>8 DEF TypeOK, Bytes
  <2>10. ServesTheFile'
    <3>1. CASE ~ ok
      BY <2>1, <3>1, NoBytesServed
    <3>2. CASE ok /\ Answer(f, FolderSize[folder], good) # "OK"
      BY <2>1, <3>2, NoBytesServed
    <3>3. CASE ok /\ Answer(f, FolderSize[folder], good) = "OK"
      <4>1. /\ ret'.offset = FileOffset[f] /\ ret'.size = FileSize[f]
        BY <2>1, <2>2, <3>3 DEF Returned
      <4>2. /\ FileOffset[f] + FileSize[f] <= FolderSize[folder]
            /\ f \in HasCrc => SliceOf(f) \subseteq good
        BY <2>2, <3>3, AnswerOK
      <4>3. folder \notin Damaged => SliceOf(f) \subseteq good
        BY <2>2, <2>5, <3>3, <4>2 DEF SliceOf, Bytes
      <4> QED
        BY <2>1, <2>4, <2>8, <4>1, <4>2, <4>3 DEF ServesTheFile, SliceOf, Cached
    <3> QED
      BY <3>1, <3>2, <3>3
  <2> QED
    BY <2>6, <2>7, <2>9, <2>10 DEF IInv
<1>6. ASSUME NEW f \in Files, ExtractEmptyFolder(f) PROVE IInv'
  <2> DEFINE folder == FileToFolder[f]
  <2>1. PICK ok \in BOOLEAN : ret' = Returned(f, IF ok THEN Answer(f, 0, {}) ELSE "DECODE")
    BY <1>6 DEF ExtractEmptyFolder
  <2>2. ServesTheFile' /\ ret'.file \in Files
    <3>1. CASE ok /\ Answer(f, 0, {}) = "OK"
      <4>1. FileOffset[f] + FileSize[f] <= 0
        BY <3>1, AnswerOK
      <4>2. ret'.size = 0 /\ ret'.file = f
        BY <2>1, <3>1, <4>1 DEF Returned
      <4> QED
        BY <4>2 DEF ServesTheFile
    <3>2. CASE ~ (ok /\ Answer(f, 0, {}) = "OK")
      BY <2>1, <3>2, NoBytesServed
    <3> QED
      BY <3>1, <3>2
  <2>3. folder \in Folders
    BY <1>6 DEF ExtractEmptyFolder, Misses
  <2> QED
    BY <1>6, <2>2, <2>3, EmptyHeap DEF ExtractEmptyFolder, IInv
<1>7. ASSUME Flush PROVE IInv'
  <2>1. ServesTheFile' /\ ret'.file = NoFolder
    BY <1>7 DEF Flush, Nothing, ServesTheFile
  <2> QED
    BY <1>7, <2>1, EmptyHeap DEF Flush, IInv, TypeOK
<1>8. ASSUME UNCHANGED vars PROVE IInv'
  BY <1>8 DEF vars, IInv, TypeOK, HeapOwned, CacheIdentity, ServesTheFile,
              BlocksDecoded, Live, Cached
<1> QED
  BY <1>1, <1>2, <1>3, <1>4, <1>5, <1>6, <1>7, <1>8 DEF Next, SzArEx_Extract

(* The heap, the cache variables and what was served stay consistent,      *)
(* whatever the calls and failures.                                        *)
LEMMA Inductive == Spec => []IInv
  BY InitIInv, NextIInv, PTL DEF Spec

(* SzArEx_Extract never leaks a block nor leaves its client one that was   *)
(* freed, after any sequence of calls, failures and flushes.               *)
THEOREM NoLeak == Spec => [](TypeOK /\ HeapOwned)
  BY Inductive, PTL DEF IInv

(* The cache variables always hold a folder of the archive or none, and a   *)
(* block that is allocated or none.                                         *)
THEOREM TypeCorrect == Spec => []TypeOK
  BY NoLeak, PTL

(* blockIndex, outBuffer and outBufferSize always describe one block.      *)
THEOREM CacheConsistent == Spec => []CacheIdentity
  BY Inductive, PTL DEF IInv

(* SZ_OK comes with a slice inside the block of the file's own folder, and *)
(* with the right bytes when the CRC was compared or the folder is intact  *)
(* and was decoded to its end.                                             *)
THEOREM OkIsTheFile == Spec => []ServesTheFile
  BY Inductive, PTL DEF IInv
=============================================================================
