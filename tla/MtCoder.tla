------------------------------ MODULE MtCoder ------------------------------
(***************************************************************************)
(* MtCoder.c as MtCoder.h builds it, without MTCODER_USE_WRITE_THREAD: a   *)
(* pool of threads reads blocks of the input in turn, codes them in        *)
(* parallel, and whichever thread finishes the block that is next in the   *)
(* output writes it and every finished block behind it.                    *)
(*                                                                         *)
(* A step of a thread is what it does between two waits, critical sections *)
(* or callbacks.  The events, the semaphore and the critical sections are  *)
(* taken not to fail (RINOK_THREAD never returns); creating a thread may.  *)
(***************************************************************************)
EXTENDS Integers, Sequences

CONSTANTS
  NumThreads,   (* p->numThreadsMax                                        *)
  NumBlocksMax, (* slots of the ring                                       *)
  BufsMax,      (* MTCODER_BLOCKS_MAX: entries of freeBlockList            *)
  InputLen,     (* length of the input                                     *)
  BlockSize,    (* p->blockSize                                            *)
  Inputs,       (* kinds of input: stream, whether it is read (p->inStream) *)
                (* or is in memory, and expected, p->expectedDataSize      *)
  MayFail,      (* which of "read", "code", "write", "thread" may fail     *)
  MaxCalls      (* calls of MtCoder_Code on the object; bounds the model   *)

ASSUME MtCoderAssumption ==
  /\ NumThreads \in Nat \ {0}
  /\ NumBlocksMax \in Nat /\ BufsMax \in Nat
  /\ NumThreads < NumBlocksMax /\ NumBlocksMax <= BufsMax
  /\ InputLen \in Nat
  /\ BlockSize \in Nat \ {0}
  /\ Inputs \subseteq [stream : BOOLEAN, expected : Nat]
  /\ MayFail \subseteq {"read", "code", "write", "thread"}
  /\ MaxCalls \in Nat

VARIABLES
  input,         (* the kind of input the object's client has              *)
  readEvent, stopReading, readRes, readProcessed, blockIndex,
  blocksSemaphore, blocks, writeIndex, ReadyBlocks, writeRes,
  freeBlocks,    (* the list that freeBlockHead and freeBlockList form     *)
  progressRes,   (* p->mtProgress.res                                      *)
  numStartedThreads, numFinishedThreads, finishedEvent,
  outBuf,        (* which block each of the client's output buffers holds  *)
  written,       (* the blocks the client's Write callback has written     *)
  pc,            (* where each thread is                                   *)
  th,            (* each thread's startEvent, stop, inBuf and locals       *)
  mainPc,        (* where MtCoder_Code is                                  *)
  result,        (* what its last call returned                            *)
  calls

reader == <<readEvent, stopReading, readRes, readProcessed, blockIndex>>
writer == <<writeIndex, ReadyBlocks, writeRes>>
counts == <<numStartedThreads, numFinishedThreads, finishedEvent>>
output == <<outBuf, written>>
main == <<input, mainPc, result, calls>>
vars == <<reader, blocksSemaphore, blocks, writer, freeBlocks, progressRes, counts,
          output, pc, th, main>>

Threads == 0 .. NumThreads - 1
Slots == 0 .. NumBlocksMax - 1
Bufs == 0 .. BufsMax - 1
NoIndex == -1                    (* (unsigned)(int)-1                      *)
OK == "OK"
ERR == "ERR"

-----------------------------------------------------------------------------
InStream == input.stream
ExpectedSize == input.expected

NumBlocks ==
  IF InStream THEN InputLen \div BlockSize + 1
  ELSE IF InputLen = 0 THEN 1
  ELSE (InputLen + BlockSize - 1) \div BlockSize

NextSlot_NoWrap(s) == IF s >= NumBlocksMax THEN 0 ELSE s + 1

NextSlot(s) == IF s + 1 >= NumBlocksMax THEN 0 ELSE s + 1

EmptySlot == [res |-> OK, bufIndex |-> NoIndex, finished |-> FALSE]
Idle == [startEvent |-> FALSE, stop |-> FALSE, inBuf |-> NoIndex, res |-> OK,
         bi |-> NoIndex, bufIndex |-> NoIndex, finished |-> FALSE,
         wi |-> NoIndex, numFinished |-> 0]

FirstError(a, b) == IF a = OK THEN b ELSE a

(* MtProgress_SetError keeps the first error. *)
SetError == progressRes' = ERR

Init ==
  /\ input \in Inputs
  /\ readEvent = FALSE /\ stopReading = FALSE /\ readRes = OK
  /\ readProcessed = 0 /\ blockIndex = 0
  /\ blocksSemaphore = 0 /\ blocks = [s \in Slots |-> EmptySlot]
  /\ writeIndex = 0 /\ ReadyBlocks = [s \in Slots |-> FALSE] /\ writeRes = OK
  /\ freeBlocks = << >> /\ progressRes = OK
  /\ numStartedThreads = 0 /\ numFinishedThreads = 0 /\ finishedEvent = FALSE
  /\ outBuf = [b \in Bufs |-> NoIndex] /\ written = << >>
  /\ pc = [t \in Threads |-> "none"] /\ th = [t \in Threads |-> Idle]
  /\ mainPc = "idle" /\ result = OK /\ calls = 0

-----------------------------------------------------------------------------
(* ThreadFunc: wait for startEvent, then leave for good or run ThreadFunc2. *)
WaitStart(t) ==
  /\ pc[t] = "start" /\ th[t].startEvent
  /\ th' = [th EXCEPT ![t].startEvent = FALSE]
  /\ pc' = [pc EXCEPT ![t] = IF th[t].stop THEN "none" ELSE "acquire"]
  /\ UNCHANGED <<reader, blocksSemaphore, blocks, writer, freeBlocks, progressRes,
                 counts, output, main>>

AcquireRead_KeepEvent(t) ==
  /\ pc[t] = "acquire" /\ readEvent
  /\ IF stopReading
     THEN /\ pc' = [pc EXCEPT ![t] = "count"]
          /\ UNCHANGED <<readEvent, th>>
     ELSE /\ UNCHANGED readEvent
          /\ th' = [th EXCEPT ![t] = [@ EXCEPT !.res = progressRes, !.finished = TRUE,
                                               !.inBuf = NoIndex]]
          /\ pc' = [pc EXCEPT ![t] = IF progressRes = OK THEN "read" ELSE "take"]
  /\ UNCHANGED <<stopReading, readRes, readProcessed, blockIndex, blocksSemaphore,
                 blocks, writer, freeBlocks, progressRes, counts, output, main>>

(* Event_Wait(&mtc->readEvent), an auto-reset event; once reading has      *)
(* stopped the event is set again at once and the thread leaves.           *)
AcquireRead(t) ==
  /\ pc[t] = "acquire" /\ readEvent
  /\ IF stopReading
     THEN /\ pc' = [pc EXCEPT ![t] = "count"]
          /\ UNCHANGED <<readEvent, th>>
     ELSE /\ readEvent' = FALSE
          /\ th' = [th EXCEPT ![t] = [@ EXCEPT !.res = progressRes, !.finished = TRUE,
                                               !.inBuf = NoIndex]]
          /\ pc' = [pc EXCEPT ![t] = IF progressRes = OK THEN "read" ELSE "take"]
  /\ UNCHANGED <<stopReading, readRes, readProcessed, blockIndex, blocksSemaphore,
                 blocks, writer, freeBlocks, progressRes, counts, output, main>>

(* A stream shows its end by a short block, possibly an empty one; of an   *)
(* input in memory the end is known.  Reading the stream, or allocating    *)
(* inBuf for it, may fail.                                                 *)
ReadBlock(t) ==
  LET rem  == InputLen - readProcessed
      size == IF BlockSize <= rem THEN BlockSize ELSE rem
      last == IF InStream THEN size # BlockSize ELSE size = rem
  IN  /\ pc[t] = "read"
      /\ \/ /\ readProcessed' = readProcessed + size
            /\ th' = [th EXCEPT ![t] = [@ EXCEPT !.inBuf = readProcessed \div BlockSize,
                                                 !.finished = last]]
            /\ UNCHANGED <<readRes, progressRes>>
         \/ /\ InStream /\ "read" \in MayFail
            /\ readRes' = ERR
            /\ SetError
            /\ th' = [th EXCEPT ![t].res = ERR]
            /\ UNCHANGED readProcessed
      /\ pc' = [pc EXCEPT ![t] = "take"]
      /\ UNCHANGED <<readEvent, stopReading, blockIndex, blocksSemaphore, blocks,
                     writer, freeBlocks, counts, output, main>>

(* Semaphore_Wait(&mtc->blocksSemaphore) while holding readEvent, and the  *)
(* next slot of the ring.                                                  *)
TakeSlot_NoWait(t) ==
  /\ pc[t] = "take"
  /\ blocksSemaphore' = blocksSemaphore
  /\ blockIndex' = NextSlot(blockIndex)
  /\ th' = [th EXCEPT ![t] = [@ EXCEPT !.bi = blockIndex, !.bufIndex = NoIndex]]
  /\ pc' = [pc EXCEPT ![t] = "release_read"]
  /\ UNCHANGED <<readEvent, stopReading, readRes, readProcessed, blocks, writer,
                 freeBlocks, progressRes, counts, output, main>>

TakeSlot(t) ==
  /\ pc[t] = "take" /\ blocksSemaphore > 0
  /\ blocksSemaphore' = blocksSemaphore - 1
  /\ blockIndex' = NextSlot(blockIndex)
  /\ th' = [th EXCEPT ![t] = [@ EXCEPT !.bi = blockIndex, !.bufIndex = NoIndex]]
  /\ pc' = [pc EXCEPT ![t] = "release_read"]
  /\ UNCHANGED <<readEvent, stopReading, readRes, readProcessed, blocks, writer,
                 freeBlocks, progressRes, counts, output, main>>

(* The end of the reading section: another thread is started unless this   *)
(* was the last block, then readEvent lets the next reader in.             *)
Created(n) == [pc EXCEPT ![n] = IF @ = "none" THEN "start" ELSE @]

ReleaseRead(t) ==
  LET r    == FirstError(th[t].res, progressRes)
      fin  == th[t].finished \/ r # OK
      more == /\ ~ fin
              /\ numStartedThreads < NumThreads
              /\ ExpectedSize # readProcessed
      next == numStartedThreads
  IN  /\ pc[t] = "release_read"
      /\ readEvent' = TRUE
      /\ \/ /\ ~ more
            /\ stopReading' = (stopReading \/ fin)
            /\ th' = [th EXCEPT ![t] = [@ EXCEPT !.res = r, !.finished = fin]]
            /\ pc' = [pc EXCEPT ![t] = IF r = OK THEN "code" ELSE "store"]
            /\ UNCHANGED <<progressRes, numStartedThreads>>
         \/ /\ more
            /\ th' = [th EXCEPT ![next] = [@ EXCEPT !.startEvent = TRUE, !.stop = FALSE]]
            /\ pc' = [Created(next) EXCEPT ![t] = "code"]
            /\ numStartedThreads' = numStartedThreads + 1
            /\ UNCHANGED <<stopReading, progressRes>>
         \/ /\ more /\ "thread" \in MayFail
            /\ SetError
            /\ stopReading' = TRUE
            /\ th' = [th EXCEPT ![t] = [@ EXCEPT !.res = ERR, !.finished = TRUE]]
            /\ pc' = [pc EXCEPT ![t] = "store"]
            /\ UNCHANGED numStartedThreads
      /\ UNCHANGED <<readRes, readProcessed, blockIndex, blocksSemaphore, blocks, writer,
                     freeBlocks, numFinishedThreads, finishedEvent, output, main>>

-----------------------------------------------------------------------------
(* freeBlockHead; -1 ends the list. *)
FirstFree == IF freeBlocks = << >> THEN NoIndex ELSE Head(freeBlocks)

TakeBuf_KeepInList(t) ==
  /\ pc[t] = "code"
  /\ th' = [th EXCEPT ![t].bufIndex = FirstFree]
  /\ freeBlocks' = freeBlocks
  /\ pc' = [pc EXCEPT ![t] = "coding"]
  /\ UNCHANGED <<reader, blocksSemaphore, blocks, writer, progressRes, counts, output, main>>

(* Take an output buffer off the free list, in the critical section. *)
TakeBuf(t) ==
  /\ pc[t] = "code"
  /\ th' = [th EXCEPT ![t].bufIndex = FirstFree]
  /\ freeBlocks' = IF freeBlocks = << >> THEN << >> ELSE Tail(freeBlocks)
  /\ pc' = [pc EXCEPT ![t] = "coding"]
  /\ UNCHANGED <<reader, blocksSemaphore, blocks, writer, progressRes, counts, output, main>>

StoreSlot(t, r) ==
  blocks' = [blocks EXCEPT ![th[t].bi] =
    [res |-> r, bufIndex |-> th[t].bufIndex, finished |-> th[t].finished]]

(* The Code callback returns, and the result goes to the block's slot. *)
Code(t) ==
  /\ pc[t] = "coding"
  /\ \/ /\ outBuf' = [outBuf EXCEPT ![th[t].bufIndex] = th[t].inBuf]
        /\ StoreSlot(t, OK)
        /\ UNCHANGED <<progressRes, th>>
     \/ /\ "code" \in MayFail
        /\ outBuf' = [outBuf EXCEPT ![th[t].bufIndex] = NoIndex]
        /\ SetError
        /\ StoreSlot(t, ERR)
        /\ th' = [th EXCEPT ![t].res = ERR]
  /\ pc' = [pc EXCEPT ![t] = "publish"]
  /\ UNCHANGED <<reader, blocksSemaphore, writer, freeBlocks, counts, written, main>>

(* After an error before coding the slot is filled without a buffer. *)
StoreFailed(t) ==
  /\ pc[t] = "store"
  /\ StoreSlot(t, th[t].res)
  /\ pc' = [pc EXCEPT ![t] = "publish"]
  /\ UNCHANGED <<reader, blocksSemaphore, writer, freeBlocks, progressRes, counts, output, th, main>>

AfterBlock(t, r, fin) == IF r # OK \/ fin THEN "count" ELSE "acquire"

(* The critical section that hands the block over: the thread whose slot   *)
(* is next in the output becomes the writer, any other marks its slot.     *)
Publish_AlwaysWrites(t) ==
  /\ pc[t] = "publish"
  /\ writeIndex' = NoIndex
  /\ th' = [th EXCEPT ![t].wi = th[t].bi]
  /\ pc' = [pc EXCEPT ![t] = "write"]
  /\ UNCHANGED <<reader, blocksSemaphore, blocks, ReadyBlocks, writeRes, freeBlocks, progressRes,
                 counts, output, main>>

Publish(t) ==
  LET slot == th[t].bi
  IN  /\ pc[t] = "publish"
      /\ IF writeIndex = slot
         THEN /\ writeIndex' = NoIndex
              /\ th' = [th EXCEPT ![t] = [@ EXCEPT !.wi = slot,
                                                   !.res = FirstError(writeRes, th[t].res)]]
              /\ pc' = [pc EXCEPT ![t] = "write"]
              /\ UNCHANGED ReadyBlocks
         ELSE /\ ReadyBlocks' = [ReadyBlocks EXCEPT ![slot] = TRUE]
              /\ pc' = [pc EXCEPT ![t] = AfterBlock(t, th[t].res, th[t].finished)]
              /\ UNCHANGED <<writeIndex, th>>
      /\ UNCHANGED <<reader, blocksSemaphore, blocks, writeRes, freeBlocks, progressRes,
                     counts, output, main>>

(* The Write callback, skipped once something failed. *)
Write(t) ==
  LET writes == th[t].res = OK /\ th[t].bufIndex # NoIndex
  IN  /\ pc[t] = "write"
      /\ \/ /\ writes
            /\ written' = Append(written, outBuf[th[t].bufIndex])
            /\ UNCHANGED <<th, writeRes, progressRes>>
         \/ /\ writes /\ "write" \in MayFail
            /\ writeRes' = ERR
            /\ SetError
            /\ th' = [th EXCEPT ![t].res = ERR]
            /\ UNCHANGED written
         \/ /\ ~ writes
            /\ UNCHANGED <<written, th, writeRes, progressRes>>
      /\ pc' = [pc EXCEPT ![t] = "advance"]
      /\ UNCHANGED <<reader, blocksSemaphore, blocks, writeIndex, ReadyBlocks, freeBlocks,
                     counts, outBuf, main>>

(* The critical section after a slot was written: its buffer is free again *)
(* and either the next slot is ready too or its thread will be the writer. *)
Advance(t) ==
  LET next == NextSlot(th[t].wi)
  IN  /\ pc[t] = "advance"
      /\ freeBlocks' = IF th[t].bufIndex # NoIndex
                       THEN <<th[t].bufIndex>> \o freeBlocks ELSE freeBlocks
      /\ th' = [th EXCEPT ![t] = [@ EXCEPT !.wi = next, !.bufIndex = NoIndex]]
      /\ IF ReadyBlocks[next]
         THEN /\ ReadyBlocks' = [ReadyBlocks EXCEPT ![next] = FALSE]
              /\ pc' = [pc EXCEPT ![t] = "release_more"]
              /\ UNCHANGED writeIndex
         ELSE /\ writeIndex' = next
              /\ pc' = [pc EXCEPT ![t] = "release_last"]
              /\ UNCHANGED ReadyBlocks
      /\ UNCHANGED <<reader, blocksSemaphore, blocks, writeRes, progressRes, counts,
                     output, main>>

(* Semaphore_Release1, then on to the next slot or out of the loop.  What  *)
(* the thread does next depends on the last block it wrote, not its own.   *)
ReleaseSlot(t) ==
  /\ blocksSemaphore' = blocksSemaphore + 1
  /\ \/ /\ pc[t] = "release_more"
        /\ LET slot == blocks[th[t].wi]
           IN  th' = [th EXCEPT ![t] = [@ EXCEPT !.res = FirstError(th[t].res, slot.res),
                                                 !.bufIndex = slot.bufIndex,
                                                 !.finished = slot.finished]]
        /\ pc' = [pc EXCEPT ![t] = "write"]
     \/ /\ pc[t] = "release_last"
        /\ pc' = [pc EXCEPT ![t] = AfterBlock(t, th[t].res, th[t].finished)]
        /\ UNCHANGED th
  /\ UNCHANGED <<reader, blocks, writer, freeBlocks, progressRes, counts, output, main>>

(* ThreadFunc after ThreadFunc2: the interlocked increment, and then, as a *)
(* step of its own, the comparison with numStartedThreads.                 *)
CountFinished(t) ==
  /\ pc[t] = "count"
  /\ numFinishedThreads' = numFinishedThreads + 1
  /\ th' = [th EXCEPT ![t] = [Idle EXCEPT !.startEvent = th[t].startEvent,
                                          !.stop = th[t].stop,
                                          !.numFinished = numFinishedThreads + 1]]
  /\ pc' = [pc EXCEPT ![t] = "compare"]
  /\ UNCHANGED <<reader, blocksSemaphore, blocks, writer, freeBlocks, progressRes,
                 numStartedThreads, finishedEvent, output, main>>

CompareFinished_Pool(t) ==
  /\ pc[t] = "compare"
  /\ finishedEvent' = (finishedEvent \/ th[t].numFinished = NumThreads)
  /\ th' = [th EXCEPT ![t].numFinished = 0]
  /\ pc' = [pc EXCEPT ![t] = "start"]
  /\ UNCHANGED <<reader, blocksSemaphore, blocks, writer, freeBlocks, progressRes,
                 numStartedThreads, numFinishedThreads, output, main>>

CompareFinished_First(t) ==
  /\ pc[t] = "compare"
  /\ finishedEvent' = TRUE
  /\ th' = [th EXCEPT ![t].numFinished = 0]
  /\ pc' = [pc EXCEPT ![t] = "start"]
  /\ UNCHANGED <<reader, blocksSemaphore, blocks, writer, freeBlocks, progressRes,
                 numStartedThreads, numFinishedThreads, output, main>>

CompareFinished(t) ==
  /\ pc[t] = "compare"
  /\ finishedEvent' = (finishedEvent \/ th[t].numFinished = numStartedThreads)
  /\ th' = [th EXCEPT ![t].numFinished = 0]
  /\ pc' = [pc EXCEPT ![t] = "start"]
  /\ UNCHANGED <<reader, blocksSemaphore, blocks, writer, freeBlocks, progressRes,
                 numStartedThreads, numFinishedThreads, output, main>>

Thread(t) ==
  \/ WaitStart(t) \/ AcquireRead(t) \/ ReadBlock(t) \/ TakeSlot(t) \/ ReleaseRead(t)
  \/ TakeBuf(t) \/ Code(t) \/ StoreFailed(t) \/ Publish(t) \/ Write(t) \/ Advance(t)
  \/ ReleaseSlot(t) \/ CountFinished(t) \/ CompareFinished(t)

-----------------------------------------------------------------------------
(* MtCoder_Code: everything is set for a new input and a new output. *)
Call ==
  /\ mainPc = "idle" /\ calls < MaxCalls
  /\ calls' = calls + 1
  /\ mainPc' = "launch"
  /\ result' = OK
  /\ readEvent' = FALSE /\ stopReading' = FALSE /\ readRes' = OK
  /\ readProcessed' = 0 /\ blockIndex' = 0
  /\ blocksSemaphore' = NumBlocksMax
  /\ writeIndex' = 0 /\ ReadyBlocks' = [s \in Slots |-> FALSE] /\ writeRes' = OK
  /\ freeBlocks' = [i \in 1 .. BufsMax |-> i - 1]
  /\ progressRes' = OK
  /\ numStartedThreads' = 0 /\ numFinishedThreads' = 0 /\ finishedEvent' = FALSE
  /\ outBuf' = [b \in Bufs |-> NoIndex] /\ written' = << >>
  /\ UNCHANGED <<input, blocks, pc, th>>

(* The first thread is started; without it the call returns at once. *)
Launch ==
  /\ mainPc = "launch"
  /\ numStartedThreads' = 1
  /\ \/ /\ th' = [th EXCEPT ![0] = [@ EXCEPT !.startEvent = TRUE, !.stop = FALSE]]
        /\ pc' = Created(0)
        /\ readEvent' = TRUE
        /\ mainPc' = "wait"
        /\ UNCHANGED <<result, progressRes>>
     \/ /\ "thread" \in MayFail
        /\ result' = ERR
        /\ mainPc' = "idle"
        /\ UNCHANGED <<th, pc, readEvent, progressRes>>
  /\ UNCHANGED <<stopReading, readRes, readProcessed, blockIndex, blocksSemaphore, blocks,
                 writer, freeBlocks, numFinishedThreads, finishedEvent, output, input, calls>>

(* Event_Wait(&p->finishedEvent), and the first error anyone left. *)
Finish ==
  LET r == FirstError(readRes, FirstError(progressRes, writeRes))
  IN  /\ mainPc = "wait" /\ finishedEvent
      /\ finishedEvent' = FALSE
      /\ result' = r
      /\ mainPc' = IF r = OK THEN "idle" ELSE "free"
      /\ UNCHANGED <<reader, blocksSemaphore, blocks, writer, freeBlocks, progressRes,
                     numStartedThreads, numFinishedThreads, output, pc, th, input, calls>>

(* MtCoder_Free after an error: each thread in turn is told to stop and    *)
(* waited for.                                                             *)
Left(t) == pc[t] = "none"

Destruct ==
  /\ mainPc = "free"
  /\ \/ \E t \in Threads :
          /\ ~ Left(t) /\ \A u \in 0 .. t - 1 : Left(u)
          /\ ~ th[t].stop
          /\ th' = [th EXCEPT ![t] = [@ EXCEPT !.stop = TRUE, !.startEvent = TRUE]]
          /\ UNCHANGED mainPc
     \/ /\ \A t \in Threads : Left(t)
        /\ mainPc' = "idle"
        /\ UNCHANGED th
  /\ UNCHANGED <<reader, blocksSemaphore, blocks, writer, freeBlocks, progressRes, counts,
                 output, pc, input, result, calls>>

Main == Call \/ Launch \/ Finish \/ Destruct

(* Nothing more to do: the caller is done and every thread waits. *)
Done ==
  /\ mainPc = "idle" /\ calls = MaxCalls
  /\ \A t \in Threads : Left(t) \/ pc[t] = "start"
  /\ UNCHANGED vars

Next == Main \/ Done \/ \E t \in Threads : Thread(t)

(* Every thread runs as long as it can, and the callbacks return. *)
Spec == Init /\ [][Next]_vars /\ WF_vars(Main) /\ \A t \in Threads : WF_vars(Thread(t))

-----------------------------------------------------------------------------
Labels == {"none", "start", "acquire", "read", "take", "release_read", "code", "coding",
           "store", "publish", "write", "advance", "release_more", "release_last",
           "count", "compare"}

Local == [startEvent : BOOLEAN, stop : BOOLEAN, inBuf : Nat \cup {NoIndex},
          res : {OK, ERR}, bi : Slots \cup {NoIndex}, bufIndex : Bufs \cup {NoIndex},
          finished : BOOLEAN, wi : Slots \cup {NoIndex}, numFinished : Nat]

SlotType == [res : {OK, ERR}, bufIndex : Bufs \cup {NoIndex}, finished : BOOLEAN]

TypeOK ==
  /\ readEvent \in BOOLEAN /\ stopReading \in BOOLEAN /\ readRes \in {OK, ERR}
  /\ readProcessed \in 0 .. InputLen /\ blockIndex \in Slots
  /\ blocksSemaphore \in Nat
  /\ blocks \in [Slots -> SlotType]
  /\ writeIndex \in Slots \cup {NoIndex} /\ ReadyBlocks \in [Slots -> BOOLEAN]
  /\ writeRes \in {OK, ERR} /\ progressRes \in {OK, ERR}
  /\ numStartedThreads \in 0 .. NumThreads /\ numFinishedThreads \in Nat
  /\ finishedEvent \in BOOLEAN
  /\ freeBlocks \in Seq(Bufs)
  /\ outBuf \in [Bufs -> Nat \cup {NoIndex}] /\ written \in Seq(Nat \cup {NoIndex})
  /\ pc \in [Threads -> Labels] /\ th \in [Threads -> Local]
  /\ mainPc \in {"idle", "launch", "wait", "free"} /\ result \in {OK, ERR}

Reading(t) == pc[t] \in {"read", "take", "release_read"}
Writing(t) == pc[t] \in {"write", "advance", "release_more"}
InThreadFunc2(t) == pc[t] \notin {"none", "start", "count", "compare"}

(* readEvent is a lock: whoever reads the input, takes a slot or starts a  *)
(* thread does so alone.                                                   *)
OneReader ==
  \A t \in Threads : Reading(t) =>
    /\ ~ readEvent
    /\ \A u \in Threads : Reading(u) => u = t

(* Only one thread at a time writes, and while it does writeIndex names no *)
(* slot, so that no other thread can find its own slot to be next.         *)
OneWriter ==
  \A t \in Threads : Writing(t) =>
    /\ writeIndex = NoIndex
    /\ \A u \in Threads : Writing(u) => u = t

(* The slots a thread is filling, from TakeSlot to Publish, and the slot   *)
(* it is writing.                                                          *)
Filling(t) == pc[t] \in {"release_read", "code", "coding", "store", "publish"}
SlotsOf(t) == IF Filling(t) THEN {th[t].bi}
              ELSE IF Writing(t) THEN {th[t].wi} ELSE {}

(* A slot of the ring has one owner, a thread or the list of ready blocks: *)
(* none is filled again before it was written, though the ring wraps; and  *)
(* the semaphore is never released past the maximum it was created with.   *)
SlotsOwnedOnce ==
  /\ blocksSemaphore <= NumBlocksMax
  /\ \A t \in Threads : \A s \in SlotsOf(t) :
       /\ ~ ReadyBlocks[s]
       /\ \A u \in Threads : s \in SlotsOf(u) => u = t

(* The buffers in use: a thread's own while it codes or writes, and those  *)
(* of the blocks ready to be written.                                      *)
BufsOf(t) == IF pc[t] \in {"coding", "publish", "write", "advance"}
             THEN {th[t].bufIndex} \ {NoIndex} ELSE {}
ReadyBufs == {blocks[s].bufIndex : s \in {r \in Slots : ReadyBlocks[r]}} \ {NoIndex}
FreeBufs == {freeBlocks[i] : i \in 1 .. Len(freeBlocks)}

(* No output buffer is handed out twice, and the buffers past the ring's   *)
(* size are never used: a block's output survives until it was written.    *)
BufsOwnedOnce ==
  /\ \A t \in Threads : \A b \in BufsOf(t) :
       /\ b < NumBlocksMax
       /\ b \notin FreeBufs \cup ReadyBufs
       /\ \A u \in Threads : b \in BufsOf(u) => u = t
  /\ ReadyBufs \cap FreeBufs = {}
  /\ \A t \in Threads : pc[t] = "code" => freeBlocks # << >>

(* MtCoder_Code returns, or frees its threads, only when every thread it   *)
(* started has left ThreadFunc2.                                           *)
ReturnsAfterThreads ==
  mainPc \in {"idle", "free"} => \A t \in Threads : ~ InThreadFunc2(t)

(* Lzma2Enc.h:31 "SZ_OK - OK": a call that returned SZ_OK has written the  *)
(* whole input, also when the object was used before.                      *)
OkMeansAllWritten ==
  mainPc = "idle" /\ calls > 0 /\ result = OK => Len(written) = NumBlocks

(* The coder implements the ordered pipe of OrderedCoder: blocks come out  *)
(* in input order, a gap only follows a failure, and SZ_OK means all of    *)
(* them are out.  (One call of MtCoder_Code.)                              *)
Answer == IF calls = 0 \/ mainPc \in {"launch", "wait"} THEN "none" ELSE result
Ordered == INSTANCE OrderedCoder
             WITH N <- NumBlocks, out <- written, answer <- Answer,
                  failed <- progressRes # OK \/ (Answer = ERR)
ImplementsOrderedCoder == Ordered!Spec

(* Every call returns: no block is waited for that nobody will hand over,  *)
(* and the last thread to leave always finds itself to be the last.        *)
CallReturns == mainPc = "launch" ~> mainPc = "idle"
=============================================================================
