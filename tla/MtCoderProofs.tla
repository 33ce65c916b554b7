--------------------------- MODULE MtCoderProofs ----------------------------
(***************************************************************************)
(* Proofs about MtCoder.tla: its typing for any number of calls, and for   *)
(* one call of MtCoder_Code, whatever the number of threads, slots,        *)
(* buffers and blocks, that the input has one reader and the output one    *)
(* writer, that it returns only when no thread is left in ThreadFunc2,     *)
(* that no slot and no output buffer has two owners and that the semaphore *)
(* never passes its maximum.                                               *)
(*                                                                         *)
(* The return: a thread starts another one only while it is itself counted *)
(* as active, and a thread is counted as finished after it left. When the  *)
(* count a thread remembers equals numStartedThreads nobody is active, so  *)
(* that number is final.                                                   *)
(*                                                                         *)
(* The ring: the slots in use are those from the oldest one, which is the  *)
(* next to be written, up to blockIndex; how many there are follows from   *)
(* the semaphore and the threads that are about to release it.             *)
(***************************************************************************)
EXTENDS MtCoder, TLAPS, FiniteSetTheorems

(* A thread that fills a slot, and one that goes on to write a ready slot, *)
(* has a slot.                                                             *)
HasSlot ==
  \A t \in Threads :
    /\ Filling(t) => th[t].bi \in Slots
    /\ pc[t] = "release_more" => th[t].wi \in Slots

(* Before the first thread is started there is none. *)
Fresh ==
  /\ calls \in Nat /\ (mainPc = "launch" => calls > 0)
  /\ calls = 0 \/ mainPc = "launch" => \A t \in Threads : pc[t] = "none"

IInv == TypeOK /\ HasSlot /\ Fresh /\ OneReader /\ OneWriter

-----------------------------------------------------------------------------
(* The next slot is a slot, also after the index that names none. *)
LEMMA NextSlotType ==
  ASSUME NEW s \in Slots \cup {NoIndex}
  PROVE  NextSlot(s) \in Slots
BY MtCoderAssumption DEF NextSlot, Slots, NoIndex

(* The block read is numbered. *)
LEMMA BlockNumber ==
  ASSUME NEW n \in Nat
  PROVE  n \div BlockSize \in Nat
BY MtCoderAssumption

(* Replacing a thread's record by another one keeps the typing of th. *)
LEMMA SetThread ==
  ASSUME th \in [Threads -> Local], NEW t, NEW l \in Local
  PROVE  [th EXCEPT ![t] = l] \in [Threads -> Local]
OBVIOUS

(* What a step may do to a thread's record without touching its slots. *)
LEMMA KeepSlots ==
  ASSUME NEW l \in Local, NEW x, NEW y
  PROVE  /\ [l EXCEPT !.startEvent = x, !.stop = y].bi = l.bi
         /\ [l EXCEPT !.startEvent = x, !.stop = y].wi = l.wi
         /\ [l EXCEPT !.stop = x, !.startEvent = y].bi = l.bi
         /\ [l EXCEPT !.stop = x, !.startEvent = y].wi = l.wi
         /\ [l EXCEPT !.res = x, !.finished = y].bi = l.bi
         /\ [l EXCEPT !.res = x, !.finished = y].wi = l.wi
BY DEF Local

(* Init is typed. *)
LEMMA InitType == Init => TypeOK /\ HasSlot
<1> SUFFICES ASSUME Init PROVE TypeOK /\ HasSlot
  OBVIOUS
<1>1. Idle \in Local
  BY DEF Idle, Local, OK, ERR, NoIndex
<1>2. th \in [Threads -> Local]
  BY <1>1 DEF Init
<1>3. pc \in [Threads -> Labels] /\ \A t \in Threads : pc[t] = "none"
  BY DEF Init, Labels
<1>4. EmptySlot \in SlotType
  BY DEF EmptySlot, SlotType, OK, ERR, NoIndex
<1>5. blocks \in [Slots -> SlotType]
  BY <1>4 DEF Init
<1>6. TypeOK
  <2>1. 0 \in Slots /\ 0 \in 0 .. InputLen /\ 0 \in 0 .. NumThreads
    BY MtCoderAssumption DEF Slots
  <2>2. outBuf \in [Bufs -> Nat \cup {NoIndex}] /\ ReadyBlocks \in [Slots -> BOOLEAN]
    BY DEF Init
  <2> QED BY <1>2, <1>3, <1>5, <2>1, <2>2 DEF TypeOK, Init
<1>7. HasSlot
  BY <1>3 DEF HasSlot, Filling
<1> QED BY <1>6, <1>7

(* Every step keeps the typing, of any number of calls. *)
LEMMA NextType == TypeOK /\ HasSlot /\ [Next]_vars => TypeOK'
<1> SUFFICES ASSUME TypeOK, HasSlot, [Next]_vars PROVE TypeOK'
  OBVIOUS
<1> USE DEF reader, writer, counts, output, main
<1>a. th \in [Threads -> Local] /\ pc \in [Threads -> Labels]
  BY DEF TypeOK
<1>b. ASSUME NEW t \in Threads PROVE th[t] \in Local
  BY <1>a
<1>c. progressRes \in {OK, ERR} /\ writeRes \in {OK, ERR} /\ numFinishedThreads \in Nat
  BY DEF TypeOK
<1>d. OK \in {OK, ERR} /\ ERR \in {OK, ERR} /\ OK # ERR
  BY DEF OK, ERR
<1>e. blocks \in [Slots -> SlotType]
  BY DEF TypeOK
<1>1. ASSUME NEW t \in Threads, WaitStart(t) PROVE TypeOK'
  <2>1. th' \in [Threads -> Local]
    BY ZenonT(40), <1>1, <1>a DEF WaitStart, Local
  <2>2. pc' \in [Threads -> Labels]
    BY <1>1, <1>a DEF WaitStart, Labels
  <2> QED BY <1>1, <2>1, <2>2 DEF WaitStart, TypeOK
<1>2. ASSUME NEW t \in Threads, AcquireRead(t) PROVE TypeOK'
  <2>1. th' \in [Threads -> Local]
    <3> DEFINE l == [th[t] EXCEPT !.res = progressRes, !.finished = TRUE, !.inBuf = NoIndex]
    <3>1. l \in Local
      BY <1>b, <1>c DEF Local
    <3>2. th' = th \/ th' = [th EXCEPT ![t] = l]
      BY <1>2 DEF AcquireRead
    <3> QED BY <1>a, <3>1, <3>2, SetThread
  <2>2. pc' \in [Threads -> Labels]
    BY <1>2, <1>a DEF AcquireRead, Labels
  <2> QED BY <1>2, <2>1, <2>2 DEF AcquireRead, TypeOK
<1>3. ASSUME NEW t \in Threads, ReadBlock(t) PROVE TypeOK'
  <2>1. readProcessed \div BlockSize \in Nat
    BY BlockNumber DEF TypeOK
  <2>2. readProcessed' \in 0 .. InputLen
    BY SMTT(30), <1>3, MtCoderAssumption DEF ReadBlock, TypeOK
  <2>3. th' \in [Threads -> Local]
    <3> DEFINE l(last) == [th[t] EXCEPT !.inBuf = readProcessed \div BlockSize,
                                        !.finished = last]
               e == [th[t] EXCEPT !.res = ERR]
    <3>1. \A last \in BOOLEAN : l(last) \in Local
      BY <1>b, <2>1 DEF Local
    <3>2. e \in Local
      BY <1>b, <1>d DEF Local
    <3>3. (\E last \in BOOLEAN : th' = [th EXCEPT ![t] = l(last)]) \/ th' = [th EXCEPT ![t] = e]
      BY <1>3 DEF ReadBlock
    <3> QED BY <1>a, <3>1, <3>2, <3>3, SetThread
  <2>4. pc' \in [Threads -> Labels]
    BY <1>3, <1>a DEF ReadBlock, Labels
  <2> QED BY <1>3, <2>2, <2>3, <2>4 DEF ReadBlock, SetError, TypeOK
<1>4. ASSUME NEW t \in Threads, TakeSlot(t) PROVE TypeOK'
  <2>1. blockIndex' \in Slots /\ blocksSemaphore' \in Nat
    BY <1>4, NextSlotType DEF TakeSlot, TypeOK
  <2>2. th' \in [Threads -> Local]
    <3> DEFINE l == [th[t] EXCEPT !.bi = blockIndex, !.bufIndex = NoIndex]
    <3>1. l \in Local
      BY <1>b DEF Local, TypeOK
    <3>2. th' = [th EXCEPT ![t] = l]
      BY <1>4 DEF TakeSlot
    <3> QED BY <1>a, <3>1, <3>2, SetThread
  <2>3. pc' \in [Threads -> Labels]
    BY <1>4, <1>a DEF TakeSlot, Labels
  <2> QED BY <1>4, <2>1, <2>2, <2>3 DEF TakeSlot, TypeOK
<1>5. ASSUME NEW t \in Threads, ReleaseRead(t) PROVE TypeOK'
  <2>1. th' \in [Threads -> Local]
    <3> DEFINE r == FirstError(th[t].res, progressRes)
               fin == th[t].finished \/ r # OK
    <3>1. r \in {OK, ERR} /\ fin \in BOOLEAN
      BY <1>a DEF FirstError, Local, TypeOK
    <3> HIDE DEF r, fin
    <3> DEFINE l1 == [th[t] EXCEPT !.res = r, !.finished = fin]
               l2 == [th[numStartedThreads] EXCEPT !.startEvent = TRUE, !.stop = FALSE]
               l3 == [th[t] EXCEPT !.res = ERR, !.finished = TRUE]
    <3>2. l1 \in Local /\ l3 \in Local
      BY <1>b, <1>d, <3>1 DEF Local
    <3>3. numStartedThreads \in Threads => l2 \in Local
      BY <1>b DEF Local
    <3>4. \/ th' = [th EXCEPT ![t] = l1]
          \/ numStartedThreads \in Threads /\ th' = [th EXCEPT ![numStartedThreads] = l2]
          \/ th' = [th EXCEPT ![t] = l3]
      <4>1. numStartedThreads < NumThreads => numStartedThreads \in Threads
        BY MtCoderAssumption DEF Threads, TypeOK
      <4> QED BY <1>5, <4>1 DEF ReleaseRead, r, fin
    <3> QED BY <1>a, <3>2, <3>3, <3>4, SetThread
  <2>2. pc' \in [Threads -> Labels]
    BY <1>5, <1>a DEF ReleaseRead, Created, Labels
  <2>3. numStartedThreads' \in 0 .. NumThreads
    BY <1>5, MtCoderAssumption DEF ReleaseRead, TypeOK
  <2>4. readEvent' \in BOOLEAN /\ stopReading' \in BOOLEAN /\ progressRes' \in {OK, ERR}
    BY <1>5 DEF ReleaseRead, SetError, TypeOK
  <2>5. UNCHANGED <<readRes, readProcessed, blockIndex, blocksSemaphore, blocks, writer,
                    freeBlocks, numFinishedThreads, finishedEvent, output, main>>
    BY <1>5 DEF ReleaseRead
  <2> QED BY <2>1, <2>2, <2>3, <2>4, <2>5 DEF TypeOK
<1>6. ASSUME NEW t \in Threads, TakeBuf(t) PROVE TypeOK'
  <2>1. FirstFree \in Bufs \cup {NoIndex} /\ freeBlocks' \in Seq(Bufs)
    BY <1>6 DEF FirstFree, TakeBuf, TypeOK
  <2>2. th' \in [Threads -> Local]
    BY SMTT(30), <1>6, <1>a, <2>1 DEF TakeBuf, Local
  <2>3. pc' \in [Threads -> Labels]
    BY <1>6, <1>a DEF TakeBuf, Labels
  <2> QED BY <1>6, <2>1, <2>2, <2>3 DEF TakeBuf, TypeOK
<1>7. ASSUME NEW t \in Threads, Code(t) PROVE TypeOK'
  <2>1. blocks' \in [Slots -> SlotType]
    BY <1>7, <1>b, <1>d, <1>e DEF Code, StoreSlot, Local, SlotType
  <2>2. outBuf' \in [Bufs -> Nat \cup {NoIndex}]
    BY <1>7, <1>a DEF Code, Local, TypeOK
  <2>3. th' \in [Threads -> Local]
    BY <1>7, <1>a DEF Code, Local
  <2>4. pc' \in [Threads -> Labels]
    BY <1>7, <1>a DEF Code, Labels
  <2> QED BY <1>7, <2>1, <2>2, <2>3, <2>4 DEF Code, SetError, TypeOK
<1>8. ASSUME NEW t \in Threads, StoreFailed(t) PROVE TypeOK'
  <2>1. blocks' \in [Slots -> SlotType]
    BY <1>8, <1>b, <1>e DEF StoreFailed, StoreSlot, Local, SlotType
  <2>2. pc' \in [Threads -> Labels]
    BY <1>8, <1>a DEF StoreFailed, Labels
  <2> QED BY <1>8, <2>1, <2>2 DEF StoreFailed, TypeOK
<1>9. ASSUME NEW t \in Threads, Publish(t) PROVE TypeOK'
  <2>1. th' \in [Threads -> Local]
    <3> DEFINE l == [th[t] EXCEPT !.wi = th[t].bi, !.res = FirstError(writeRes, th[t].res)]
    <3>1. l \in Local
      BY <1>b, <1>c DEF Local, FirstError
    <3>2. th' = th \/ th' = [th EXCEPT ![t] = l]
      BY <1>9 DEF Publish
    <3> QED BY <1>a, <3>1, <3>2, SetThread
  <2>2. pc' \in [Threads -> Labels]
    BY <1>9, <1>a DEF Publish, AfterBlock, Labels
  <2>3. ReadyBlocks' \in [Slots -> BOOLEAN] /\ writeIndex' \in Slots \cup {NoIndex}
    BY <1>9 DEF Publish, TypeOK
  <2> QED BY <1>9, <2>1, <2>2, <2>3 DEF Publish, TypeOK
<1>10. ASSUME NEW t \in Threads, Write(t) PROVE TypeOK'
  <2>1. th' \in [Threads -> Local]
    <3> DEFINE l == [th[t] EXCEPT !.res = ERR]
    <3>1. l \in Local
      BY <1>b, <1>d DEF Local
    <3>2. th' = th \/ th' = [th EXCEPT ![t] = l]
      BY <1>10 DEF Write
    <3> QED BY <1>a, <3>1, <3>2, SetThread
  <2>2. pc' \in [Threads -> Labels]
    BY <1>10, <1>a DEF Write, Labels
  <2>3. written' \in Seq(Nat \cup {NoIndex})
    <3>1. th[t].bufIndex \in Bufs \cup {NoIndex}
      BY <1>a DEF Local
    <3>2. th[t].bufIndex # NoIndex => outBuf[th[t].bufIndex] \in Nat \cup {NoIndex}
      BY <3>1 DEF TypeOK
    <3>3. \/ written' = written
          \/ /\ th[t].bufIndex # NoIndex
             /\ written' = Append(written, outBuf[th[t].bufIndex])
      BY <1>10 DEF Write
    <3>4. written \in Seq(Nat \cup {NoIndex})
      BY DEF TypeOK
    <3> QED BY <3>2, <3>3, <3>4
  <2>4. writeRes' \in {OK, ERR} /\ progressRes' \in {OK, ERR}
    BY <1>10 DEF Write, SetError, TypeOK
  <2>5. UNCHANGED <<reader, blocksSemaphore, blocks, writeIndex, ReadyBlocks, freeBlocks,
                     counts, outBuf, main>>
    BY <1>10 DEF Write
  <2> QED BY <2>1, <2>2, <2>3, <2>4, <2>5 DEF TypeOK, reader, counts, main
<1>11. ASSUME NEW t \in Threads, Advance(t) PROVE TypeOK'
  <2>1. NextSlot(th[t].wi) \in Slots /\ th[t].bufIndex \in Bufs \cup {NoIndex}
    BY <1>a, NextSlotType DEF Local
  <2>2. th' \in [Threads -> Local]
    BY ZenonT(40), <1>11, <1>a, <1>b, <2>1 DEF Advance, Local
  <2>3. pc' \in [Threads -> Labels]
    BY <1>11, <1>a DEF Advance, Labels
  <2>4. freeBlocks' \in Seq(Bufs)
    BY <1>11, <2>1 DEF Advance, TypeOK
  <2>5. ReadyBlocks' \in [Slots -> BOOLEAN] /\ writeIndex' \in Slots \cup {NoIndex}
    BY <1>11, <2>1 DEF Advance, TypeOK
  <2> QED BY <1>11, <2>2, <2>3, <2>4, <2>5 DEF Advance, TypeOK
<1>12. ASSUME NEW t \in Threads, ReleaseSlot(t) PROVE TypeOK'
  <2>1. th' \in [Threads -> Local]
    <3>1. CASE pc[t] = "release_more"
      <4>1. blocks[th[t].wi] \in SlotType
        BY <3>1 DEF HasSlot, TypeOK
      <4> DEFINE slot == blocks[th[t].wi]
                 l == [th[t] EXCEPT !.res = FirstError(th[t].res, slot.res),
                                    !.bufIndex = slot.bufIndex, !.finished = slot.finished]
      <4>2. l \in Local
        BY <1>b, <4>1 DEF Local, SlotType, FirstError
      <4>3. th' = [th EXCEPT ![t] = l]
        BY <1>12, <3>1 DEF ReleaseSlot
      <4> QED BY <1>a, <4>2, <4>3, SetThread
    <3>2. CASE pc[t] # "release_more"
      BY <1>12, <1>a, <3>2 DEF ReleaseSlot
    <3> QED BY <3>1, <3>2
  <2>2. pc' \in [Threads -> Labels]
    BY <1>12, <1>a DEF ReleaseSlot, AfterBlock, Labels
  <2>3. blocksSemaphore' \in Nat
    BY <1>12 DEF ReleaseSlot, TypeOK
  <2> QED BY <1>12, <2>1, <2>2, <2>3 DEF ReleaseSlot, TypeOK
<1>13. ASSUME NEW t \in Threads, CountFinished(t) PROVE TypeOK'
  <2>1. th' \in [Threads -> Local]
    <3> DEFINE l == [Idle EXCEPT !.startEvent = th[t].startEvent, !.stop = th[t].stop,
                                 !.numFinished = numFinishedThreads + 1]
    <3>0. Idle \in Local
      BY <1>d DEF Idle, Local
    <3>1. l \in Local
      <4>1. numFinishedThreads + 1 \in Nat
        BY <1>c
      <4>2. th[t].startEvent \in BOOLEAN /\ th[t].stop \in BOOLEAN
        BY <1>b DEF Local
      <4> QED BY <4>1, <4>2, <3>0 DEF Local
    <3>2. th' = [th EXCEPT ![t] = l]
      BY <1>13 DEF CountFinished
    <3> QED BY <1>a, <3>1, <3>2, SetThread
  <2>2. pc' \in [Threads -> Labels]
    BY <1>13, <1>a DEF CountFinished, Labels
  <2> QED BY <1>13, <2>1, <2>2 DEF CountFinished, TypeOK
<1>14. ASSUME NEW t \in Threads, CompareFinished(t) PROVE TypeOK'
  <2>1. th' \in [Threads -> Local]
    <3> DEFINE l == [th[t] EXCEPT !.numFinished = 0]
    <3>1. l \in Local
      BY <1>b DEF Local
    <3>2. th' = [th EXCEPT ![t] = l]
      BY <1>14 DEF CompareFinished
    <3> QED BY <1>a, <3>1, <3>2, SetThread
  <2>2. pc' \in [Threads -> Labels]
    BY <1>14, <1>a DEF CompareFinished, Labels
  <2> QED BY <1>14, <2>1, <2>2 DEF CompareFinished, TypeOK
<1>15. CASE Call
  <2>1. freeBlocks' \in Seq(Bufs)
    BY <1>15, MtCoderAssumption DEF Call, Bufs
  <2>2. /\ readProcessed' \in 0 .. InputLen /\ blockIndex' \in Slots
        /\ blocksSemaphore' \in Nat /\ writeIndex' \in Slots
        /\ numStartedThreads' \in 0 .. NumThreads
    BY <1>15, MtCoderAssumption DEF Call, Slots
  <2>3. outBuf' \in [Bufs -> Nat \cup {NoIndex}] /\ ReadyBlocks' \in [Slots -> BOOLEAN]
    BY <1>15 DEF Call
  <2>4. /\ th' \in [Threads -> Local] /\ pc' \in [Threads -> Labels]
        /\ blocks' \in [Slots -> SlotType]
    BY <1>15, <1>a, <1>e DEF Call
  <2>5. /\ readEvent' \in BOOLEAN /\ stopReading' \in BOOLEAN /\ readRes' \in {OK, ERR}
        /\ writeRes' \in {OK, ERR} /\ progressRes' \in {OK, ERR} /\ result' \in {OK, ERR}
    BY <1>15, <1>d DEF Call
  <2>6. /\ numFinishedThreads' \in Nat /\ finishedEvent' \in BOOLEAN
        /\ written' \in Seq(Nat \cup {NoIndex})
        /\ mainPc' \in {"idle", "launch", "wait", "free"}
    <3>1. written' = << >> /\ numFinishedThreads' = 0 /\ ~ finishedEvent' /\ mainPc' = "launch"
      BY <1>15 DEF Call
    <3>2. finishedEvent' \in BOOLEAN
      BY <1>15 DEF Call
    <3> QED BY <3>1, <3>2
  <2> QED BY <2>1, <2>2, <2>3, <2>4, <2>5, <2>6 DEF TypeOK
<1>16. CASE Launch
  <2>1. th' \in [Threads -> Local]
    <3> DEFINE l == [th[0] EXCEPT !.startEvent = TRUE, !.stop = FALSE]
    <3>1. 0 \in Threads
      BY MtCoderAssumption DEF Threads
    <3>2. l \in Local
      BY <1>b, <3>1 DEF Local
    <3>3. th' = th \/ th' = [th EXCEPT ![0] = l]
      BY <1>16 DEF Launch
    <3> QED BY <1>a, <3>2, <3>3, SetThread
  <2>2. pc' \in [Threads -> Labels]
    BY <1>16, <1>a DEF Launch, Created, Labels
  <2>3. numStartedThreads' \in 0 .. NumThreads
    BY <1>16, MtCoderAssumption DEF Launch
  <2> QED BY <1>16, <2>1, <2>2, <2>3 DEF Launch, TypeOK
<1>17. CASE Finish
  BY <1>17 DEF Finish, FirstError, TypeOK
<1>18. CASE Destruct
  <2>1. th' \in [Threads -> Local]
    <3> DEFINE l(t) == [th[t] EXCEPT !.stop = TRUE, !.startEvent = TRUE]
    <3>1. \A t \in Threads : l(t) \in Local
      BY <1>b DEF Local
    <3>2. th' = th \/ \E t \in Threads : th' = [th EXCEPT ![t] = l(t)]
      BY <1>18 DEF Destruct
    <3> QED BY <1>a, <3>1, <3>2, SetThread
  <2> QED BY <1>18, <2>1 DEF Destruct, TypeOK
<1>19. CASE UNCHANGED vars
  BY <1>19 DEF vars, TypeOK
<1> QED
  BY <1>1, <1>2, <1>3, <1>4, <1>5, <1>6, <1>7, <1>8, <1>9, <1>10, <1>11, <1>12, <1>13,
     <1>14, <1>15, <1>16, <1>17, <1>18, <1>19 DEF Next, Main, Done, Thread

(* Every step keeps the slots of the threads. *)
LEMMA NextHasSlot == TypeOK /\ HasSlot /\ [Next]_vars => HasSlot'
<1> SUFFICES ASSUME TypeOK, HasSlot, [Next]_vars, NEW u \in Threads
             PROVE  /\ Filling(u)' => th'[u].bi \in Slots
                    /\ pc'[u] = "release_more" => th'[u].wi \in Slots
  BY DEF HasSlot, Slots
<1> DEFINE Kept == /\ Filling(u)' => th'[u].bi \in Slots
                   /\ pc'[u] = "release_more" => th'[u].wi \in Slots
<1> USE DEF Filling
<1>a. /\ th \in [Threads -> Local] /\ pc \in [Threads -> Labels]
      /\ Filling(u) => th[u].bi \in Slots
      /\ pc[u] = "release_more" => th[u].wi \in Slots
  BY DEF TypeOK, HasSlot
<1>b. ASSUME NEW t \in Threads PROVE th[t] \in Local
  BY <1>a
<1>1. ASSUME NEW t \in Threads, WaitStart(t) PROVE Kept
  BY <1>1, <1>a DEF WaitStart, Local
<1>2. ASSUME NEW t \in Threads, AcquireRead(t) PROVE Kept
  BY <1>2, <1>a DEF AcquireRead, Local
<1>3. ASSUME NEW t \in Threads, ReadBlock(t) PROVE Kept
  BY <1>3, <1>a DEF ReadBlock, Local
<1>4. ASSUME NEW t \in Threads, TakeSlot(t) PROVE Kept
  BY <1>4, <1>a DEF TakeSlot, Local, TypeOK
<1>5. ASSUME NEW t \in Threads, ReleaseRead(t) PROVE Kept
  <2>1. th'[u].bi = th[u].bi /\ th'[u].wi = th[u].wi
    <3> DEFINE r == FirstError(th[t].res, progressRes)
               fin == th[t].finished \/ r # OK
               l1 == [th[u] EXCEPT !.res = r, !.finished = fin]
               l2 == [th[u] EXCEPT !.startEvent = TRUE, !.stop = FALSE]
               l3 == [th[u] EXCEPT !.res = ERR, !.finished = TRUE]
    <3>1. th'[u] \in {th[u], l1, l2, l3}
      BY <1>5, <1>a DEF ReleaseRead
    <3>2. l1.bi = th[u].bi /\ l1.wi = th[u].wi
      BY <1>b, KeepSlots
    <3>3. l2.bi = th[u].bi /\ l2.wi = th[u].wi
      BY <1>b, KeepSlots
    <3>4. l3.bi = th[u].bi /\ l3.wi = th[u].wi
      BY <1>b, KeepSlots
    <3> HIDE DEF l1, l2, l3
    <3> QED BY <3>1, <3>2, <3>3, <3>4
  <2>2. /\ Filling(u)' => Filling(u)
        /\ pc'[u] = "release_more" => pc[u] = "release_more"
    BY <1>5, <1>a DEF ReleaseRead, Created
  <2> QED BY <1>a, <2>1, <2>2
<1>6. ASSUME NEW t \in Threads, TakeBuf(t) PROVE Kept
  BY <1>6, <1>a DEF TakeBuf, Local
<1>7. ASSUME NEW t \in Threads, Code(t) PROVE Kept
  BY <1>7, <1>a DEF Code, Local
<1>8. ASSUME NEW t \in Threads, StoreFailed(t) PROVE Kept
  BY <1>8, <1>a DEF StoreFailed
<1>9. ASSUME NEW t \in Threads, Publish(t) PROVE Kept
  BY <1>9, <1>a DEF Publish, AfterBlock, Local
<1>10. ASSUME NEW t \in Threads, Write(t) PROVE Kept
  BY <1>10, <1>a DEF Write, Local
<1>11. ASSUME NEW t \in Threads, Advance(t) PROVE Kept
  <2>1. NextSlot(th[t].wi) \in Slots
    BY <1>b, NextSlotType DEF Local
  <2> QED BY <1>11, <1>a, <2>1 DEF Advance, Local
<1>12. ASSUME NEW t \in Threads, ReleaseSlot(t) PROVE Kept
  BY <1>12, <1>a DEF ReleaseSlot, AfterBlock, Local
<1>13. ASSUME NEW t \in Threads, CountFinished(t) PROVE Kept
  BY <1>13, <1>a DEF CountFinished, Local
<1>14. ASSUME NEW t \in Threads, CompareFinished(t) PROVE Kept
  BY <1>14, <1>a DEF CompareFinished, Local
<1>15. CASE Call
  BY <1>15, <1>a DEF Call
<1>16. CASE Launch
  <2>1. th'[u].bi = th[u].bi /\ th'[u].wi = th[u].wi
    <3> DEFINE l == [th[u] EXCEPT !.startEvent = TRUE, !.stop = FALSE]
    <3>1. th'[u] \in {th[u], l}
      BY <1>16, <1>a DEF Launch
    <3>2. l.bi = th[u].bi /\ l.wi = th[u].wi
      BY <1>b, KeepSlots
    <3> QED BY <3>1, <3>2
  <2>2. pc'[u] = pc[u] \/ pc'[u] = "start"
    BY <1>16, <1>a DEF Launch, Created
  <2> QED BY <1>a, <2>1, <2>2
<1>17. CASE Finish
  BY <1>17, <1>a DEF Finish
<1>18. CASE Destruct
  <2>1. th'[u].bi = th[u].bi /\ th'[u].wi = th[u].wi
    <3> DEFINE l == [th[u] EXCEPT !.stop = TRUE, !.startEvent = TRUE]
    <3>1. th'[u] \in {th[u], l}
      BY <1>18, <1>a DEF Destruct
    <3>2. l.bi = th[u].bi /\ l.wi = th[u].wi
      BY <1>b, KeepSlots
    <3> QED BY <3>1, <3>2
  <2> QED BY <1>18, <1>a, <2>1 DEF Destruct
<1>19. CASE UNCHANGED vars
  BY <1>19, <1>a DEF vars
<1> QED
  BY <1>1, <1>2, <1>3, <1>4, <1>5, <1>6, <1>7, <1>8, <1>9, <1>10, <1>11, <1>12, <1>13,
     <1>14, <1>15, <1>16, <1>17, <1>18, <1>19 DEF Next, Main, Done, Thread

(* Every step of the first call keeps what holds before the threads run. *)
LEMMA NextFresh == MaxCalls = 1 /\ TypeOK /\ Fresh /\ [Next]_vars => Fresh'
<1> SUFFICES ASSUME MaxCalls = 1, TypeOK, Fresh, [Next]_vars PROVE Fresh'
  OBVIOUS
<1> USE DEF Fresh, main
<1>1. ASSUME NEW t \in Threads, Thread(t) PROVE UNCHANGED main /\ pc[t] # "none"
  BY <1>1 DEF Thread, WaitStart, AcquireRead, ReadBlock, TakeSlot, ReleaseRead, TakeBuf,
     Code, StoreFailed, Publish, Write, Advance, ReleaseSlot, CountFinished, CompareFinished
<1>2. ASSUME NEW t \in Threads, Thread(t) PROVE Fresh'
  BY <1>1, <1>2
<1>3. CASE Call
  BY <1>3 DEF Call
<1>4. CASE Launch
  BY <1>4 DEF Launch
<1>5. CASE Finish
  BY <1>5 DEF Finish
<1>6. CASE Destruct
  BY <1>6 DEF Destruct
<1>7. CASE UNCHANGED vars
  BY <1>7 DEF vars
<1> QED BY <1>2, <1>3, <1>4, <1>5, <1>6, <1>7 DEF Next, Main, Done

(* Every step of the first call keeps the reader alone. *)
LEMMA NextOneReader ==
  MaxCalls = 1 /\ TypeOK /\ Fresh /\ OneReader /\ [Next]_vars => OneReader'
<1> SUFFICES ASSUME MaxCalls = 1, TypeOK, Fresh, OneReader, [Next]_vars PROVE OneReader'
  OBVIOUS
<1> USE DEF OneReader, Reading, reader
<1>a. pc \in [Threads -> Labels]
  BY DEF TypeOK
<1>1. ASSUME NEW t \in Threads, AcquireRead(t) PROVE OneReader'
  BY <1>1, <1>a DEF AcquireRead
<1>2. ASSUME NEW t \in Threads, ReadBlock(t) \/ TakeSlot(t) PROVE OneReader'
  BY <1>2, <1>a DEF ReadBlock, TakeSlot
<1>3. ASSUME NEW t \in Threads, ReleaseRead(t) PROVE OneReader'
  BY <1>3, <1>a DEF ReleaseRead, Created
<1>4. ASSUME NEW t \in Threads,
             WaitStart(t) \/ TakeBuf(t) \/ Code(t) \/ StoreFailed(t) \/ Publish(t)
      PROVE OneReader'
  BY <1>4, <1>a DEF WaitStart, TakeBuf, Code, StoreFailed, Publish, AfterBlock
<1>5. ASSUME NEW t \in Threads,
             Write(t) \/ Advance(t) \/ ReleaseSlot(t) \/ CountFinished(t) \/ CompareFinished(t)
      PROVE OneReader'
  BY <1>5, <1>a DEF Write, Advance, ReleaseSlot, AfterBlock, CountFinished, CompareFinished
<1>6. CASE Call
  BY <1>6 DEF Call, Fresh
<1>7. CASE Launch
  BY <1>7, <1>a DEF Launch, Created, Fresh
<1>8. CASE Finish \/ Destruct \/ UNCHANGED vars
  BY <1>8 DEF Finish, Destruct, vars
<1> QED BY <1>1, <1>2, <1>3, <1>4, <1>5, <1>6, <1>7, <1>8 DEF Next, Main, Done, Thread

(* Every step of the first call keeps the writer alone. *)
LEMMA NextOneWriter ==
  MaxCalls = 1 /\ TypeOK /\ HasSlot /\ Fresh /\ OneWriter /\ [Next]_vars => OneWriter'
<1> SUFFICES ASSUME MaxCalls = 1, TypeOK, HasSlot, Fresh, OneWriter, [Next]_vars
             PROVE  OneWriter'
  OBVIOUS
<1> USE DEF OneWriter, Writing, writer
<1>a. pc \in [Threads -> Labels]
  BY DEF TypeOK
<1>1. ASSUME NEW t \in Threads, Publish(t) PROVE OneWriter'
  <2>1. th[t].bi \in Slots
    BY <1>1 DEF Publish, HasSlot, Filling
  <2>2. th[t].bi # NoIndex
    BY <2>1, MtCoderAssumption DEF Slots, NoIndex
  <2> QED BY <1>1, <1>a, <2>2 DEF Publish, AfterBlock
<1>2. ASSUME NEW t \in Threads, Write(t) PROVE OneWriter'
  BY <1>2, <1>a DEF Write
<1>3. ASSUME NEW t \in Threads, Advance(t) PROVE OneWriter'
  BY <1>3, <1>a DEF Advance
<1>4. ASSUME NEW t \in Threads, ReleaseSlot(t) PROVE OneWriter'
  BY <1>4, <1>a DEF ReleaseSlot, AfterBlock
<1>5. ASSUME NEW t \in Threads,
             WaitStart(t) \/ AcquireRead(t) \/ ReadBlock(t) \/ TakeSlot(t) \/ ReleaseRead(t)
      PROVE OneWriter'
  BY <1>5, <1>a DEF WaitStart, AcquireRead, ReadBlock, TakeSlot, ReleaseRead, Created
<1>6. ASSUME NEW t \in Threads,
             TakeBuf(t) \/ Code(t) \/ StoreFailed(t) \/ CountFinished(t) \/ CompareFinished(t)
      PROVE OneWriter'
  BY <1>6, <1>a DEF TakeBuf, Code, StoreFailed, CountFinished, CompareFinished
<1>7. CASE Call
  BY <1>7 DEF Call, Fresh
<1>8. CASE Launch
  BY <1>8, <1>a DEF Launch, Created
<1>9. CASE Finish \/ Destruct \/ UNCHANGED vars
  BY <1>9 DEF Finish, Destruct, vars
<1> QED BY <1>1, <1>2, <1>3, <1>4, <1>5, <1>6, <1>7, <1>8, <1>9 DEF Next, Main, Done, Thread

(* One call's invariant is inductive. *)
LEMMA Inductive == MaxCalls = 1 => /\ Init => IInv
                                   /\ IInv /\ [Next]_vars => IInv'
<1> SUFFICES ASSUME MaxCalls = 1 PROVE (Init => IInv) /\ (IInv /\ [Next]_vars => IInv')
  OBVIOUS
<1>1. Init => IInv
  <2> SUFFICES ASSUME Init PROVE IInv
    OBVIOUS
  <2>1. TypeOK /\ HasSlot
    BY InitType
  <2>2. \A t \in Threads : pc[t] = "none"
    BY DEF Init
  <2>3. Fresh
    BY <2>2 DEF Fresh, Init
  <2> QED BY <2>1, <2>2, <2>3 DEF IInv, OneReader, Reading, OneWriter, Writing
<1>2. IInv /\ [Next]_vars => IInv'
  BY NextType, NextHasSlot, NextFresh, NextOneReader, NextOneWriter DEF IInv
<1> QED BY <1>1, <1>2

-----------------------------------------------------------------------------
(* The state of the coder is well typed, in any number of calls: every      *)
(* index a thread uses names a slot or a buffer that exists.                *)
THEOREM TypeCorrect == Spec => []TypeOK
<1>1. TypeOK /\ HasSlot /\ [Next]_vars => (TypeOK /\ HasSlot)'
  BY NextType, NextHasSlot
<1> QED BY InitType, <1>1, PTL DEF Spec

(* In one call of MtCoder_Code the input has one reader at a time, for      *)
(* every number of threads, slots, buffers, blocks and set of failures.     *)
THEOREM ReadersExclusive == MaxCalls = 1 /\ Spec => []OneReader
<1> SUFFICES ASSUME MaxCalls = 1 PROVE Spec => []OneReader
  OBVIOUS
<1>1. (Init => IInv) /\ (IInv /\ [Next]_vars => IInv')
  BY Inductive
<1>2. IInv => OneReader
  BY DEF IInv
<1> QED BY <1>1, <1>2, PTL DEF Spec

(* In one call of MtCoder_Code the output has one writer at a time, and no  *)
(* thread can become it meanwhile, for every value of the constants.        *)
THEOREM WritersExclusive == MaxCalls = 1 /\ Spec => []OneWriter
<1> SUFFICES ASSUME MaxCalls = 1 PROVE Spec => []OneWriter
  OBVIOUS
<1>1. (Init => IInv) /\ (IInv /\ [Next]_vars => IInv')
  BY Inductive
<1>2. IInv => OneWriter
  BY DEF IInv
<1> QED BY <1>1, <1>2, PTL DEF Spec

-----------------------------------------------------------------------------
(* The threads that were started and are not counted as finished.          *)
Active(t) ==
  \/ InThreadFunc2(t) \/ pc[t] = "count"
  \/ pc[t] = "start" /\ th[t].startEvent /\ ~ th[t].stop
ActiveThreads == {t \in Threads : Active(t)}

CountsRight ==
  mainPc = "wait" =>
    /\ numFinishedThreads + Cardinality(ActiveThreads) = numStartedThreads
    /\ finishedEvent => numFinishedThreads = numStartedThreads
    /\ \A t \in Threads : /\ th[t].numFinished <= numFinishedThreads
                          /\ t >= numStartedThreads => pc[t] = "none"
                          /\ ~ th[t].stop

Quiet == mainPc # "wait" => ActiveThreads = {}

(* The event to start is set for a thread that waits for it, or is to stop. *)
EventRight == \A t \in Threads : th[t].startEvent => pc[t] = "start" \/ th[t].stop

NotStarted ==
  /\ calls = 0 => mainPc = "idle"
  /\ calls = 0 \/ mainPc = "launch" =>
       /\ finishedEvent = FALSE /\ numFinishedThreads = 0
       /\ \A t \in Threads : ~ th[t].stop /\ th[t].numFinished = 0

ThreadsCounted == CountsRight /\ Quiet /\ EventRight /\ NotStarted

-----------------------------------------------------------------------------
(* There are finitely many threads. *)
LEMMA ThreadsFinite == IsFiniteSet(Threads)
BY FS_Interval, MtCoderAssumption DEF Threads

(* So their number can be counted. *)
LEMMA ActiveFinite ==
  IsFiniteSet(ActiveThreads) /\ Cardinality(ActiveThreads) \in Nat
BY ThreadsFinite, FS_Subset, FS_CardinalityType DEF ActiveThreads

(* When nobody is counted nobody is active. *)
LEMMA NobodyActive ==
  ASSUME Cardinality(ActiveThreads) = 0
  PROVE  ActiveThreads = {}
BY ActiveFinite, FS_EmptySet

-----------------------------------------------------------------------------
(* A step that starts, counts and stops no thread.                         *)
Goes(u) ==
  /\ Active(u)' <=> Active(u)
  /\ th'[u].stop = th[u].stop /\ th'[u].numFinished = th[u].numFinished
  /\ pc[u] = "none" => pc'[u] = "none"
  /\ th'[u].startEvent => pc'[u] = "start" \/ th'[u].stop

(* Steps that start, count and stop no thread keep the counts. *)
LEMMA GoesCounted ==
  ASSUME ThreadsCounted, UNCHANGED <<mainPc, calls, counts>>, \A u \in Threads : Goes(u)
  PROVE  ThreadsCounted'
<1>1. ActiveThreads' = ActiveThreads
  BY DEF ActiveThreads, Goes
<1>2. UNCHANGED <<mainPc, calls, numStartedThreads, numFinishedThreads, finishedEvent>>
  BY DEF counts
<1>3. CountsRight'
  BY <1>1, <1>2 DEF ThreadsCounted, CountsRight, Goes
<1>4. Quiet'
  BY <1>1, <1>2 DEF ThreadsCounted, Quiet
<1>5. EventRight'
  BY DEF EventRight, Goes
<1>6. NotStarted'
  BY <1>2 DEF ThreadsCounted, NotStarted, Goes
<1> QED BY <1>3, <1>4, <1>5, <1>6 DEF ThreadsCounted

SameFlags(l, m) ==
  m.stop = l.stop /\ m.startEvent = l.startEvent /\ m.numFinished = l.numFinished

(* A step of thread t inside ThreadFunc2.                                  *)
Works(t) ==
  /\ InThreadFunc2(t) /\ pc'[t] \notin {"none", "start", "compare"}
  /\ \A u \in Threads : u # t => pc'[u] = pc[u] /\ th'[u] = th[u]
  /\ SameFlags(th[t], th'[t])

(* A thread at work does none of that. *)
LEMMA WorksGoes ==
  ASSUME EventRight, NEW t \in Threads, Works(t)
  PROVE  \A u \in Threads : Goes(u)
BY DEF EventRight, Works, Goes, Active, InThreadFunc2, SameFlags

(* What those steps do to a thread's record.                               *)
LEMMA KeepFlags ==
  ASSUME NEW l \in Local, NEW x, NEW y, NEW z
  PROVE  /\ SameFlags(l, [l EXCEPT !.res = x, !.finished = y, !.inBuf = z])
         /\ SameFlags(l, [l EXCEPT !.res = x, !.bufIndex = y, !.finished = z])
         /\ SameFlags(l, [l EXCEPT !.inBuf = x, !.finished = y])
         /\ SameFlags(l, [l EXCEPT !.wi = x, !.res = y])
         /\ SameFlags(l, [l EXCEPT !.res = x, !.finished = y])
         /\ SameFlags(l, [l EXCEPT !.res = x])
         /\ SameFlags(l, l)
BY DEF Local, SameFlags

(* What a thread does with its block is such a step. *)
LEMMA ThreadWorks ==
  ASSUME TypeOK, NEW t \in Threads,
         \/ AcquireRead(t) \/ ReadBlock(t) \/ TakeSlot(t) \/ TakeBuf(t) \/ Code(t)
         \/ StoreFailed(t) \/ Publish(t) \/ Write(t) \/ Advance(t) \/ ReleaseSlot(t)
  PROVE  UNCHANGED <<mainPc, calls, counts>> /\ Works(t)
<1>a. pc \in [Threads -> Labels] /\ th \in [Threads -> Local] /\ th[t] \in Local
  BY DEF TypeOK
<1> DEFINE Kept == SameFlags(th[t], th'[t])
           Moved == /\ InThreadFunc2(t) /\ pc'[t] \notin {"none", "start", "compare"}
                    /\ \A u \in Threads : u # t => pc'[u] = pc[u] /\ th'[u] = th[u]
                    /\ UNCHANGED <<mainPc, calls, counts>>
<1> USE DEF InThreadFunc2, main, AfterBlock
<1>b. SameFlags(th[t], th[t])
  BY DEF SameFlags
<1>1. ASSUME AcquireRead(t) PROVE Kept /\ Moved
  <2> DEFINE l == [th[t] EXCEPT !.res = progressRes, !.finished = TRUE, !.inBuf = NoIndex]
  <2>1. th'[t] = th[t] \/ th'[t] = l
    BY <1>1, <1>a DEF AcquireRead
  <2>2. SameFlags(th[t], l)
    BY <1>a, KeepFlags
  <2> HIDE DEF l
  <2>4. Kept
    BY <1>b, <2>1, <2>2
  <2> QED BY <1>1, <1>a, <2>4 DEF AcquireRead
<1>2. ASSUME ReadBlock(t) PROVE Kept /\ Moved
  <2> DEFINE l(y) == [th[t] EXCEPT !.inBuf = readProcessed \div BlockSize, !.finished = y]
             e == [th[t] EXCEPT !.res = ERR]
  <2>1. (\E y \in BOOLEAN : th' = [th EXCEPT ![t] = l(y)]) \/ th' = [th EXCEPT ![t] = e]
    BY <1>2, <1>a DEF ReadBlock
  <2>2. ASSUME NEW y PROVE SameFlags(th[t], l(y))
    BY <1>a, KeepFlags
  <2>3. SameFlags(th[t], e)
    BY <1>a, KeepFlags
  <2> HIDE DEF l, e
  <2>4. Kept
    BY <1>a, <2>1, <2>2, <2>3
  <2> QED BY <1>2, <1>a, <2>4 DEF ReadBlock
<1>3. ASSUME TakeSlot(t) PROVE Kept /\ Moved
  BY <1>3, <1>a DEF TakeSlot, Local, SameFlags
<1>4. ASSUME TakeBuf(t) PROVE Kept /\ Moved
  BY <1>4, <1>a DEF TakeBuf, Local, SameFlags
<1>5. ASSUME Code(t) PROVE Kept /\ Moved
  BY <1>5, <1>a DEF Code, Local, SameFlags
<1>6. ASSUME StoreFailed(t) PROVE Kept /\ Moved
  BY <1>6, <1>a, <1>b DEF StoreFailed
<1>7. ASSUME Publish(t) PROVE Kept /\ Moved
  <2> DEFINE l == [th[t] EXCEPT !.wi = th[t].bi, !.res = FirstError(writeRes, th[t].res)]
  <2>1. th'[t] = th[t] \/ th'[t] = l
    BY <1>7, <1>a DEF Publish
  <2>2. SameFlags(th[t], l)
    BY <1>a, KeepFlags
  <2> HIDE DEF l
  <2>4. Kept
    BY <1>b, <2>1, <2>2
  <2> QED BY <1>7, <1>a, <2>4 DEF Publish
<1>8. ASSUME Write(t) PROVE Kept /\ Moved
  BY <1>8, <1>a DEF Write, Local, SameFlags
<1>9. ASSUME Advance(t) PROVE Kept /\ Moved
  BY <1>9, <1>a DEF Advance, Local, SameFlags
<1>10. ASSUME ReleaseSlot(t) PROVE Kept /\ Moved
  <2> DEFINE slot == blocks[th[t].wi]
             l == [th[t] EXCEPT !.res = FirstError(th[t].res, slot.res),
                                !.bufIndex = slot.bufIndex, !.finished = slot.finished]
  <2>1. th'[t] = th[t] \/ th'[t] = l
    BY <1>10, <1>a DEF ReleaseSlot
  <2>2. SameFlags(th[t], l)
    BY <1>a, KeepFlags
  <2> HIDE DEF l
  <2>4. Kept
    BY <1>b, <2>1, <2>2
  <2> QED BY <1>10, <1>a, <2>4 DEF ReleaseSlot
<1> QED
  BY <1>1, <1>2, <1>3, <1>4, <1>5, <1>6, <1>7, <1>8, <1>9, <1>10 DEF Works, SameFlags

(* The wait for startEvent.                                                *)
LEMMA StartGoes ==
  ASSUME TypeOK, EventRight, NEW t \in Threads, WaitStart(t)
  PROVE  UNCHANGED <<mainPc, calls, counts>> /\ \A u \in Threads : Goes(u)
<1>a. pc \in [Threads -> Labels] /\ th \in [Threads -> Local] /\ th[t] \in Local
  BY DEF TypeOK
<1>1. /\ pc[t] = "start" /\ th[t].startEvent
      /\ pc'[t] = IF th[t].stop THEN "none" ELSE "acquire"
      /\ \A u \in Threads : u # t => pc'[u] = pc[u] /\ th'[u] = th[u]
      /\ UNCHANGED <<mainPc, calls, counts>>
  BY <1>a DEF WaitStart, main
<1>2. /\ th'[t].stop = th[t].stop /\ th'[t].numFinished = th[t].numFinished
      /\ ~ th'[t].startEvent
  BY <1>a DEF WaitStart, Local
<1> QED BY <1>1, <1>2 DEF EventRight, Goes, Active, InThreadFunc2

(* A thread that is active is active in the call.                          *)
LEMMA InCall ==
  ASSUME Quiet, NEW t \in Threads, Active(t)
  PROVE  mainPc = "wait" /\ t \in ActiveThreads /\ Cardinality(ActiveThreads) > 0
<1>1. t \in ActiveThreads
  BY DEF ActiveThreads
<1>2. mainPc = "wait"
  BY <1>1 DEF Quiet
<1>3. Cardinality(ActiveThreads) # 0
  BY <1>1, NobodyActive
<1> QED BY <1>1, <1>2, <1>3, ActiveFinite

(* A thread is counted as finished.                                        *)
LEMMA CountFinishedCounted ==
  ASSUME TypeOK, ThreadsCounted, NEW t \in Threads, CountFinished(t)
  PROVE  ThreadsCounted'
<1>a. /\ pc \in [Threads -> Labels] /\ th \in [Threads -> Local] /\ th[t] \in Local
      /\ numFinishedThreads \in Nat /\ numStartedThreads \in Nat
  BY DEF TypeOK
<1>b. CountsRight /\ Quiet /\ EventRight /\ NotStarted
  BY DEF ThreadsCounted
<1>1. /\ pc[t] = "count" /\ pc' = [pc EXCEPT ![t] = "compare"]
      /\ numFinishedThreads' = numFinishedThreads + 1
      /\ UNCHANGED <<mainPc, calls, numStartedThreads, finishedEvent>>
      /\ \A u \in Threads : u # t => pc'[u] = pc[u] /\ th'[u] = th[u]
  BY <1>a DEF CountFinished, main
<1>2. /\ th'[t].stop = th[t].stop /\ th'[t].startEvent = th[t].startEvent
      /\ th'[t].numFinished = numFinishedThreads + 1
  BY <1>a DEF CountFinished, Idle
<1>3. Active(t) /\ ~ Active(t)' /\ \A u \in Threads : u # t => Active(u)' = Active(u)
  BY <1>a, <1>1 DEF Active, InThreadFunc2
<1>4. mainPc = "wait" /\ t \in ActiveThreads /\ Cardinality(ActiveThreads) > 0
  BY <1>b, <1>3, InCall
<1>5. ActiveThreads' = ActiveThreads \ {t}
  BY <1>3 DEF ActiveThreads
<1>6. Cardinality(ActiveThreads') = Cardinality(ActiveThreads) - 1
  BY <1>4, <1>5, ActiveFinite, FS_RemoveElement
<1>7. ~ th[t].startEvent /\ calls # 0
  BY <1>1, <1>4, <1>b DEF EventRight, CountsRight, NotStarted
<1>8. CountsRight'
  <2>1. numFinishedThreads' + Cardinality(ActiveThreads') = numStartedThreads'
    BY <1>a, <1>b, <1>1, <1>4, <1>6, ActiveFinite DEF CountsRight
  <2>2. ~ finishedEvent
    BY <1>a, <1>b, <1>4, ActiveFinite DEF CountsRight
  <2>3. \A u \in Threads : th[u].numFinished \in Nat
    BY <1>a DEF Local
  <2>4. \A u \in Threads : th'[u].numFinished <= numFinishedThreads'
    BY <1>a, <1>b, <1>1, <1>2, <1>4, <2>3 DEF CountsRight
  <2>5. \A u \in Threads : u >= numStartedThreads' => pc'[u] = "none"
    BY <1>b, <1>1, <1>4 DEF CountsRight
  <2>6. \A u \in Threads : ~ th'[u].stop
    BY <1>b, <1>1, <1>2, <1>4 DEF CountsRight
  <2> QED BY <1>1, <2>1, <2>2, <2>4, <2>5, <2>6 DEF CountsRight
<1>9. Quiet' /\ NotStarted'
  BY <1>1, <1>4, <1>7 DEF Quiet, NotStarted
<1>10. EventRight'
  BY <1>b, <1>1, <1>2, <1>7 DEF EventRight
<1> QED BY <1>8, <1>9, <1>10 DEF ThreadsCounted

(* The comparison that follows: the event is set by the last thread only.  *)
LEMMA CompareFinishedCounted ==
  ASSUME TypeOK, Fresh, ThreadsCounted, NEW t \in Threads, CompareFinished(t)
  PROVE  ThreadsCounted'
<1>a. /\ pc \in [Threads -> Labels] /\ th \in [Threads -> Local] /\ th[t] \in Local
      /\ numFinishedThreads \in Nat /\ numStartedThreads \in Nat
  BY DEF TypeOK
<1>b. CountsRight /\ Quiet /\ EventRight /\ NotStarted
  BY DEF ThreadsCounted
<1>1. /\ pc[t] = "compare" /\ pc' = [pc EXCEPT ![t] = "start"]
      /\ finishedEvent' = (finishedEvent \/ th[t].numFinished = numStartedThreads)
      /\ UNCHANGED <<mainPc, calls, numStartedThreads, numFinishedThreads>>
      /\ \A u \in Threads : u # t => pc'[u] = pc[u] /\ th'[u] = th[u]
  BY <1>a DEF CompareFinished, main
<1>2. /\ th'[t].stop = th[t].stop /\ th'[t].startEvent = th[t].startEvent
      /\ th'[t].numFinished = 0
  BY <1>a DEF CompareFinished, Local
<1>3. th[t].startEvent => th[t].stop
  BY <1>1, <1>b DEF EventRight
<1>4. \A u \in Threads : Active(u)' = Active(u)
  BY <1>a, <1>1, <1>2, <1>3 DEF Active, InThreadFunc2
<1>5. ActiveThreads' = ActiveThreads
  BY <1>4 DEF ActiveThreads
<1>6. CountsRight'
  <2> SUFFICES ASSUME mainPc = "wait" PROVE CountsRight'
    BY <1>1 DEF CountsRight
  <2>1. numFinishedThreads' + Cardinality(ActiveThreads') = numStartedThreads'
    BY <1>b, <1>1, <1>5 DEF CountsRight
  <2>2. th[t].numFinished \in Nat /\ th[t].numFinished <= numFinishedThreads
    BY <1>a, <1>b DEF CountsRight, Local
  <2>3. th[t].numFinished = numStartedThreads => numFinishedThreads = numStartedThreads
    BY <1>a, <1>b, <2>2, ActiveFinite DEF CountsRight
  <2>4. finishedEvent' => numFinishedThreads' = numStartedThreads'
    BY <1>b, <1>1, <2>3 DEF CountsRight
  <2>5. \A u \in Threads : th'[u].numFinished <= numFinishedThreads'
    BY <1>a, <1>b, <1>1, <1>2 DEF CountsRight
  <2>6. \A u \in Threads : u >= numStartedThreads' => pc'[u] = "none"
    BY <1>b, <1>1 DEF CountsRight
  <2>7. \A u \in Threads : ~ th'[u].stop
    BY <1>b, <1>1, <1>2 DEF CountsRight
  <2> QED BY <2>1, <2>4, <2>5, <2>6, <2>7 DEF CountsRight
<1>7. Quiet'
  BY <1>b, <1>1, <1>5 DEF Quiet
<1>8. EventRight'
  BY <1>b, <1>1, <1>2 DEF EventRight
<1>9. NotStarted'
  <2>1. calls # 0 /\ mainPc # "launch"
    BY <1>1 DEF Fresh
  <2> QED BY <1>b, <1>1, <2>1 DEF NotStarted
<1> QED BY <1>6, <1>7, <1>8, <1>9 DEF ThreadsCounted

(* The end of the reading section: nobody is counted as finished who could *)
(* be the last while another thread is started.                            *)
LEMMA ReleaseReadCounted ==
  ASSUME TypeOK, Fresh, ThreadsCounted, NEW t \in Threads, ReleaseRead(t)
  PROVE  ThreadsCounted'
<1>a. /\ pc \in [Threads -> Labels] /\ th \in [Threads -> Local]
      /\ numFinishedThreads \in Nat /\ numStartedThreads \in 0 .. NumThreads
  BY DEF TypeOK
<1>b. CountsRight /\ Quiet /\ EventRight /\ NotStarted
  BY DEF ThreadsCounted
<1> DEFINE next == numStartedThreads
           r == FirstError(th[t].res, progressRes)
           fin == th[t].finished \/ r # OK
           l1 == [th[t] EXCEPT !.res = r, !.finished = fin]
           l2 == [th[next] EXCEPT !.startEvent = TRUE, !.stop = FALSE]
           l3 == [th[t] EXCEPT !.res = ERR, !.finished = TRUE]
<1>1. pc[t] = "release_read" /\ Active(t) /\ UNCHANGED <<mainPc, calls>>
  BY DEF ReleaseRead, Active, InThreadFunc2, main
<1>2. mainPc = "wait" /\ t \in ActiveThreads /\ Cardinality(ActiveThreads) > 0
  BY <1>b, <1>1, InCall
<1>3. SameFlags(th[t], l1) /\ SameFlags(th[t], l3)
  <2>1. th[t] \in Local
    BY <1>a
  <2>2. SameFlags(th[t], l1)
    BY <2>1, KeepFlags
  <2>3. SameFlags(th[t], l3)
    BY <2>1, KeepFlags
  <2> QED BY <2>2, <2>3
<1>4. next < NumThreads => /\ l2.startEvent /\ ~ l2.stop
                           /\ l2.numFinished = th[next].numFinished
  BY <1>a, MtCoderAssumption DEF Threads, Local
<1>5. ASSUME UNCHANGED counts, pc'[t] \notin {"none", "start", "compare"},
             \A u \in Threads : u # t => pc'[u] = pc[u] /\ th'[u] = th[u],
             th'[t] = l1 \/ th'[t] = l3
      PROVE  ThreadsCounted'
  <2> HIDE DEF l1, l3
  <2>1. SameFlags(th[t], th'[t])
    BY <1>3, <1>5
  <2>2. Works(t)
    BY <1>1, <1>5, <2>1 DEF Works, InThreadFunc2
  <2> QED BY <1>b, <1>1, <1>5, <2>2, WorksGoes, GoesCounted
<1>6. ASSUME next < NumThreads, numStartedThreads' = numStartedThreads + 1,
             UNCHANGED <<numFinishedThreads, finishedEvent>>,
             th' = [th EXCEPT ![next] = l2], pc' = [Created(next) EXCEPT ![t] = "code"]
      PROVE  ThreadsCounted'
  <2>0. PICK n \in Threads : n = next
    BY <1>a, <1>6, MtCoderAssumption DEF Threads
  <2>1. n \in Nat /\ pc[n] = "none" /\ n # t
    BY <1>a, <1>b, <1>1, <1>2, <2>0 DEF CountsRight
  <2>2. /\ pc'[n] = "start" /\ pc'[t] = "code" /\ th'[t] = th[t] /\ th'[n] = l2
        /\ \A u \in Threads : u # t /\ u # n => pc'[u] = pc[u] /\ th'[u] = th[u]
    BY <1>a, <1>6, <2>0, <2>1 DEF Created
  <2> HIDE DEF l2
  <2>3. /\ Active(n)' /\ ~ Active(n) /\ Active(t)'
        /\ \A u \in Threads : u # t /\ u # n => Active(u)' = Active(u)
    <3>1. Active(n)'
      BY <1>4, <1>6, <2>2 DEF Active
    <3>2. ~ Active(n)
      BY <2>1 DEF Active, InThreadFunc2
    <3>3. Active(t)'
      BY <2>2 DEF Active, InThreadFunc2
    <3>4. \A u \in Threads : u # t /\ u # n => Active(u)' = Active(u)
      BY <2>2 DEF Active, InThreadFunc2
    <3> QED BY <3>1, <3>2, <3>3, <3>4
  <2>4. ActiveThreads' = ActiveThreads \cup {n} /\ n \notin ActiveThreads
    <3>1. \A u \in Threads : Active(u)' <=> Active(u) \/ u = n
      BY <1>1, <2>3
    <3> QED BY <2>1, <2>3, <3>1 DEF ActiveThreads
  <2>5. Cardinality(ActiveThreads') = Cardinality(ActiveThreads) + 1
    BY <2>4, ActiveFinite, FS_AddElement
  <2>6. ~ finishedEvent
    BY <1>a, <1>b, <1>2, ActiveFinite DEF CountsRight
  <2>7. \A u \in Threads : /\ th'[u].numFinished = th[u].numFinished /\ ~ th'[u].stop
                           /\ u >= n + 1 => pc'[u] = "none"
    <3> SUFFICES ASSUME NEW u \in Threads
                 PROVE  /\ th'[u].numFinished = th[u].numFinished /\ ~ th'[u].stop
                        /\ u >= n + 1 => pc'[u] = "none"
      OBVIOUS
    <3>1. ~ th[u].stop /\ (u >= n => pc[u] = "none")
      BY <1>b, <1>2, <2>0 DEF CountsRight
    <3>2. u \in Int /\ (u >= n + 1 => u >= n /\ u # n)
      BY <2>1, MtCoderAssumption DEF Threads
    <3> QED BY <1>1, <1>4, <1>6, <2>0, <2>1, <2>2, <3>1, <3>2
  <2>8. CountsRight'
    <3>1. numFinishedThreads' + Cardinality(ActiveThreads') = numStartedThreads'
      BY <1>a, <1>b, <1>2, <1>6, <2>5, ActiveFinite DEF CountsRight
    <3> QED BY <1>b, <1>2, <1>6, <2>0, <2>6, <2>7, <3>1 DEF CountsRight
  <2>9. EventRight'
    BY <1>b, <1>1, <2>2 DEF EventRight
  <2>10. Quiet' /\ NotStarted'
    BY <1>b, <1>1, <1>2 DEF Quiet, NotStarted
  <2> QED BY <2>8, <2>9, <2>10 DEF ThreadsCounted
<1> QED BY <1>5, <1>6, <1>a DEF ReleaseRead, counts

(* MtCoder_Code itself.                                                    *)
LEMMA MainCounted ==
  ASSUME MaxCalls = 1, TypeOK, Fresh, ThreadsCounted, Main
  PROVE  ThreadsCounted'
<1>a. /\ pc \in [Threads -> Labels] /\ th \in [Threads -> Local]
      /\ numFinishedThreads \in Nat /\ numStartedThreads \in Nat
  BY DEF TypeOK
<1>b. CountsRight /\ Quiet /\ EventRight /\ NotStarted
  BY DEF ThreadsCounted
<1>1. CASE Call
  <2>1. calls = 0 /\ mainPc = "idle" /\ calls' # 0 /\ mainPc' = "launch"
    BY <1>1 DEF Call, Fresh
  <2>2. /\ UNCHANGED <<pc, th>> /\ finishedEvent' = FALSE /\ numFinishedThreads' = 0
    BY <1>1 DEF Call
  <2>3. ActiveThreads' = {}
    BY <1>b, <2>1, <2>2 DEF Quiet, ActiveThreads, Active, InThreadFunc2
  <2> QED BY <1>b, <2>1, <2>2, <2>3 DEF ThreadsCounted, CountsRight, Quiet, EventRight, NotStarted
<1>2. CASE Launch
  <2>1. /\ mainPc = "launch" /\ calls # 0 /\ calls' = calls
        /\ finishedEvent' = FALSE /\ numFinishedThreads' = 0
        /\ \A u \in Threads : pc[u] = "none" /\ ~ th[u].stop /\ th[u].numFinished = 0
    BY <1>2, <1>b DEF Launch, NotStarted, Fresh
  <2>2. ActiveThreads = {}
    BY <1>b, <2>1 DEF Quiet
  <2>3. CASE UNCHANGED <<th, pc>> /\ mainPc' = "idle"
    <3>1. ActiveThreads' = {}
      BY <2>2, <2>3 DEF ActiveThreads, Active, InThreadFunc2
    <3> QED BY <1>b, <2>1, <2>3, <3>1 DEF ThreadsCounted, CountsRight, Quiet, EventRight, NotStarted
  <2>4. CASE /\ th' = [th EXCEPT ![0] = [@ EXCEPT !.startEvent = TRUE, !.stop = FALSE]]
             /\ pc' = Created(0) /\ mainPc' = "wait" /\ numStartedThreads' = 1
    <3>1. 0 \in Threads
      BY MtCoderAssumption DEF Threads
    <3>2. /\ pc'[0] = "start" /\ th'[0].startEvent /\ ~ th'[0].stop
          /\ th'[0].numFinished = th[0].numFinished
      BY <1>a, <2>1, <2>4, <3>1 DEF Created, Local
    <3>3. \A u \in Threads : u # 0 => pc'[u] = pc[u] /\ th'[u] = th[u]
      BY <1>a, <2>4 DEF Created
    <3>4. ActiveThreads' = {0}
      BY <2>1, <3>1, <3>2, <3>3 DEF ActiveThreads, Active, InThreadFunc2
    <3>5. Cardinality(ActiveThreads') = 1
      BY <3>4, FS_Singleton
    <3>6. \A u \in Threads : u >= 1 => u # 0
      BY MtCoderAssumption DEF Threads
    <3>7. CountsRight'
      BY <2>1, <2>4, <3>2, <3>3, <3>5, <3>6, <3>1 DEF CountsRight
    <3> QED BY <1>b, <2>1, <2>4, <3>2, <3>3, <3>7 DEF ThreadsCounted, Quiet, EventRight, NotStarted
  <2> QED BY <1>2, <2>3, <2>4 DEF Launch
<1>3. CASE Finish
  <2>1. /\ mainPc = "wait" /\ finishedEvent /\ mainPc' \in {"idle", "free"}
        /\ UNCHANGED <<pc, th, calls>>
    BY <1>3 DEF Finish
  <2>2. Cardinality(ActiveThreads) = 0
    BY <1>a, <1>b, <2>1, ActiveFinite DEF CountsRight
  <2>3. ActiveThreads' = {}
    BY <2>1, <2>2, NobodyActive DEF ActiveThreads, Active, InThreadFunc2
  <2> QED BY <1>b, <2>1, <2>3 DEF ThreadsCounted, CountsRight, Quiet, EventRight, NotStarted
<1>4. CASE Destruct
  <2>1. /\ mainPc = "free" /\ mainPc' \in {"idle", "free"} /\ UNCHANGED <<pc, calls>>
        /\ calls # 0
    BY <1>4, <1>b DEF Destruct, NotStarted
  <2>2. \A u \in Threads : th'[u] = th[u] \/ th'[u].stop
    BY <1>4, <1>a DEF Destruct, Local
  <2>3. ActiveThreads = {}
    BY <1>b, <2>1 DEF Quiet
  <2>4. ActiveThreads' = {}
    BY <2>1, <2>2, <2>3 DEF ActiveThreads, Active, InThreadFunc2
  <2> QED BY <1>b, <2>1, <2>2, <2>4 DEF ThreadsCounted, CountsRight, Quiet, EventRight, NotStarted
<1> QED BY <1>1, <1>2, <1>3, <1>4 DEF Main

(* Before the first call nobody was started. *)
LEMMA InitCounted == Init => ThreadsCounted
<1> SUFFICES ASSUME Init PROVE ThreadsCounted
  OBVIOUS
<1>1. \A t \in Threads : pc[t] = "none" /\ th[t] = Idle
  BY DEF Init
<1>2. ActiveThreads = {}
  BY <1>1 DEF ActiveThreads, Active, InThreadFunc2
<1> QED BY <1>1, <1>2 DEF Init, ThreadsCounted, CountsRight, Quiet, EventRight, NotStarted, Idle

(* Every step of one call keeps the counts. *)
LEMMA NextCounted ==
  MaxCalls = 1 /\ TypeOK /\ Fresh /\ ThreadsCounted /\ [Next]_vars => ThreadsCounted'
<1> SUFFICES ASSUME MaxCalls = 1, TypeOK, Fresh, ThreadsCounted, [Next]_vars
             PROVE  ThreadsCounted'
  OBVIOUS
<1>b. EventRight
  BY DEF ThreadsCounted
<1>1. ASSUME NEW t \in Threads,
             \/ AcquireRead(t) \/ ReadBlock(t) \/ TakeSlot(t) \/ TakeBuf(t) \/ Code(t)
             \/ StoreFailed(t) \/ Publish(t) \/ Write(t) \/ Advance(t) \/ ReleaseSlot(t)
      PROVE  ThreadsCounted'
  BY <1>1, <1>b, ThreadWorks, WorksGoes, GoesCounted
<1>2. ASSUME NEW t \in Threads, WaitStart(t) PROVE ThreadsCounted'
  BY <1>2, <1>b, StartGoes, GoesCounted
<1>3. ASSUME NEW t \in Threads, ReleaseRead(t) PROVE ThreadsCounted'
  BY <1>3, ReleaseReadCounted
<1>4. ASSUME NEW t \in Threads, CountFinished(t) PROVE ThreadsCounted'
  BY <1>4, CountFinishedCounted
<1>5. ASSUME NEW t \in Threads, CompareFinished(t) PROVE ThreadsCounted'
  BY <1>5, CompareFinishedCounted
<1>6. CASE Main
  BY <1>6, MainCounted
<1>7. CASE UNCHANGED vars
  BY <1>7, <1>b, GoesCounted DEF vars, main, Goes, Active, InThreadFunc2, EventRight
<1> QED BY <1>1, <1>2, <1>3, <1>4, <1>5, <1>6, <1>7 DEF Next, Done, Thread

-----------------------------------------------------------------------------
(* One call of MtCoder_Code returns, or frees its threads, only when every  *)
(* thread has left ThreadFunc2, for every number of threads and blocks and  *)
(* every set of failures: nobody codes into buffers the caller takes back.  *)
THEOREM ReturnsLast == MaxCalls = 1 /\ Spec => []ReturnsAfterThreads
<1> SUFFICES ASSUME MaxCalls = 1 PROVE Spec => []ReturnsAfterThreads
  OBVIOUS
<1>1. Init => ThreadsCounted
  BY InitCounted
<1>2. (Init => IInv) /\ (IInv /\ [Next]_vars => IInv')
  BY Inductive
<1>3. IInv /\ ThreadsCounted /\ [Next]_vars => ThreadsCounted'
  BY NextCounted DEF IInv
<1>4. ThreadsCounted => ReturnsAfterThreads
  BY DEF ThreadsCounted, Quiet, ActiveThreads, Active, ReturnsAfterThreads
<1> QED BY <1>1, <1>2, <1>3, <1>4, PTL DEF Spec

-----------------------------------------------------------------------------
(* The threads between Advance and Semaphore_Release1.                     *)
Released == {t \in Threads : pc[t] \in {"release_more", "release_last"}}

(* How many slots are in use, and the oldest of them.                      *)
InFlight == NumBlocksMax - blocksSemaphore - Cardinality(Released)
Back(b, n) == IF b >= n THEN b - n ELSE b - n + NumBlocksMax
Oldest == Back(blockIndex, InFlight)

(* How far slot s is from slot w, in the order of the ring.                *)
Dist(w, s) == IF s >= w THEN s - w ELSE s - w + NumBlocksMax

InUse(s) == s \in Slots /\ Dist(Oldest, s) < InFlight

RingOK ==
  /\ InFlight \in 0 .. NumBlocksMax
  /\ writeIndex # NoIndex => writeIndex = Oldest
  /\ \A t \in Threads : Writing(t) => th[t].wi = Oldest
  /\ \A t \in Threads : \A s \in SlotsOf(t) : InUse(s)
  /\ \A s \in Slots : ReadyBlocks[s] => InUse(s)

RingInv == IInv /\ RingOK /\ SlotsOwnedOnce

-----------------------------------------------------------------------------
(* The arithmetic of the ring.                                             *)
LEMMA BackType ==
  ASSUME NEW b \in Slots, NEW n \in 0 .. NumBlocksMax
  PROVE  Back(b, n) \in Slots
BY MtCoderAssumption DEF Back, Slots

(* A distance around the ring is less than once around, and none only to   *)
(* the slot itself.                                                        *)
LEMMA DistType ==
  ASSUME NEW w \in Slots, NEW s \in Slots
  PROVE  /\ Dist(w, s) \in Nat /\ Dist(w, s) < NumBlocksMax
         /\ Dist(w, s) = 0 <=> s = w
BY MtCoderAssumption DEF Dist, Slots

(* When the slot after the newest is taken, the oldest stays the oldest. *)
LEMMA RingGrows ==
  ASSUME NEW b \in Slots, NEW n \in 0 .. NumBlocksMax - 1
  PROVE  Back(NextSlot(b), n + 1) = Back(b, n) /\ Dist(Back(b, n), b) = n
BY MtCoderAssumption DEF Back, Dist, Slots, NextSlot

(* When the oldest is released, the others are one closer to the new       *)
(* oldest.                                                                 *)
LEMMA RingShrinks ==
  ASSUME NEW b \in Slots, NEW n \in 1 .. NumBlocksMax
  PROVE  /\ Back(b, n - 1) = NextSlot(Back(b, n))
         /\ \A s \in Slots : s # Back(b, n) => Dist(NextSlot(Back(b, n)), s) = Dist(Back(b, n), s) - 1
BY MtCoderAssumption DEF Back, Dist, Slots, NextSlot

(* Finitely many slots are about to be released. *)
LEMMA ReleasedFinite == IsFiniteSet(Released) /\ Cardinality(Released) \in Nat
<1>1. IsFiniteSet(Threads)
  BY FS_Interval, MtCoderAssumption DEF Threads
<1> QED BY <1>1, FS_Subset, FS_CardinalityType DEF Released

(* A step gives thread u no slot.                                          *)
GainsNothing(u) ==
  /\ SlotsOf(u)' \subseteq SlotsOf(u)
  /\ Writing(u)' => Writing(u) /\ th'[u].wi = th[u].wi

(* A step that gives no thread a slot and makes no slot ready keeps the    *)
(* invariant, when the slots in use stay the same.                         *)
LEMMA KeepRing ==
  ASSUME RingOK, SlotsOwnedOnce, blocksSemaphore' <= NumBlocksMax,
         UNCHANGED <<blockIndex, writeIndex, ReadyBlocks>>, InFlight' = InFlight,
         \A u \in Threads : GainsNothing(u)
  PROVE  RingOK' /\ SlotsOwnedOnce'
<1>1. Oldest' = Oldest
  BY DEF Oldest, Back
<1>2. \A s : InUse(s)' = InUse(s)
  BY <1>1 DEF InUse, Dist
<1>3. \A u \in Threads : Writing(u)' => th'[u].wi = Oldest'
  BY <1>1 DEF RingOK, GainsNothing
<1>4. \A u \in Threads : \A s \in SlotsOf(u)' : InUse(s)'
  BY <1>2 DEF RingOK, GainsNothing
<1>5. \A s \in Slots : ReadyBlocks'[s] => InUse(s)'
  BY <1>2 DEF RingOK
<1>6. RingOK'
  BY <1>1, <1>3, <1>4, <1>5 DEF RingOK
<1>7. SlotsOwnedOnce'
  BY DEF SlotsOwnedOnce, GainsNothing
<1> QED BY <1>6, <1>7

(* The ring is right when no thread gets a slot and no slot is released. *)
LEMMA SameRing ==
  ASSUME RingOK, SlotsOwnedOnce,
         UNCHANGED <<blocksSemaphore, blockIndex, writeIndex, ReadyBlocks>>, Released' = Released,
         \A u \in Threads : GainsNothing(u)
  PROVE  RingOK' /\ SlotsOwnedOnce'
<1>1. InFlight' = InFlight
  BY DEF InFlight
<1>2. blocksSemaphore' <= NumBlocksMax
  BY DEF SlotsOwnedOnce
<1> QED BY <1>1, <1>2, KeepRing

-----------------------------------------------------------------------------
(* A thread takes the slot at blockIndex, behind those in use.             *)
LEMMA TakeSlotMoves ==
  ASSUME RingInv, NEW t \in Threads, TakeSlot(t)
  PROVE  /\ InFlight \in 0 .. NumBlocksMax - 1 /\ InFlight' = InFlight + 1
         /\ Oldest \in Slots /\ Oldest' = Oldest
         /\ Dist(Oldest, blockIndex) = InFlight
<1>1. /\ RingOK /\ SlotsOwnedOnce /\ TypeOK
  BY DEF RingInv, IInv
<1>2. /\ blocksSemaphore > 0 /\ blocksSemaphore' = blocksSemaphore - 1
      /\ blockIndex' = NextSlot(blockIndex)
      /\ pc[t] = "take" /\ pc' = [pc EXCEPT ![t] = "release_read"]
  BY DEF TakeSlot
<1>3. /\ pc \in [Threads -> Labels] /\ blockIndex \in Slots /\ blocksSemaphore \in Nat
  BY <1>1 DEF TypeOK
<1>4. Released' = Released
  BY <1>2, <1>3 DEF Released
<1>5. InFlight \in 0 .. NumBlocksMax - 1 /\ InFlight' = InFlight + 1
  BY <1>1, <1>2, <1>3, <1>4, ReleasedFinite, MtCoderAssumption DEF InFlight, RingOK
<1>6. Oldest' = Oldest /\ Dist(Oldest, blockIndex) = InFlight
  <2>1. Oldest' = Back(NextSlot(blockIndex), InFlight + 1)
    BY <1>2, <1>5 DEF Oldest
  <2>2. /\ Back(NextSlot(blockIndex), InFlight + 1) = Back(blockIndex, InFlight)
        /\ Dist(Back(blockIndex, InFlight), blockIndex) = InFlight
    BY <1>3, <1>5, RingGrows
  <2> QED BY <2>1, <2>2 DEF Oldest
<1>7. Oldest \in Slots
  <2>1. InFlight \in 0 .. NumBlocksMax
    BY <1>5, MtCoderAssumption
  <2> QED BY <1>3, <2>1, BackType DEF Oldest
<1> QED BY <1>5, <1>6, <1>7

(* A thread takes the slot at blockIndex, which nobody has.                *)
LEMMA TakeSlotRing ==
  ASSUME RingInv, NEW t \in Threads, TakeSlot(t)
  PROVE  RingOK' /\ SlotsOwnedOnce'
<1>1. /\ RingOK /\ SlotsOwnedOnce /\ TypeOK
  BY DEF RingInv, IInv
<1>2. /\ blocksSemaphore > 0 /\ blocksSemaphore' = blocksSemaphore - 1
      /\ blockIndex' = NextSlot(blockIndex)
      /\ UNCHANGED <<writeIndex, ReadyBlocks>>
      /\ pc[t] = "take" /\ pc' = [pc EXCEPT ![t] = "release_read"]
      /\ th' = [th EXCEPT ![t] = [@ EXCEPT !.bi = blockIndex, !.bufIndex = NoIndex]]
  BY DEF TakeSlot, writer
<1>3. /\ pc \in [Threads -> Labels] /\ th \in [Threads -> Local] /\ blockIndex \in Slots
      /\ blocksSemaphore \in Nat /\ ReadyBlocks \in [Slots -> BOOLEAN]
  BY <1>1 DEF TypeOK
<1>5. InFlight \in 0 .. NumBlocksMax - 1 /\ InFlight' = InFlight + 1
  BY TakeSlotMoves
<1>6. Oldest' = Oldest /\ Dist(Oldest, blockIndex) = InFlight
  BY TakeSlotMoves
<1>7. Oldest \in Slots
  BY TakeSlotMoves
<1>8. \A s : InUse(s) => s # blockIndex /\ InUse(s)'
  <2> SUFFICES ASSUME NEW s, InUse(s) PROVE s # blockIndex /\ InUse(s)'
    OBVIOUS
  <2>1. s \in Slots /\ Dist(Oldest, s) < InFlight
    BY DEF InUse
  <2>2. Dist(Oldest, s) \in Nat
    BY <1>7, <2>1, DistType
  <2>3. Dist(Oldest, s) < InFlight'
    BY <1>5, <2>1, <2>2
  <2>4. InUse(s)'
    BY <1>6, <2>1, <2>3 DEF InUse, Dist
  <2>5. s # blockIndex
    BY <1>5, <1>6, <2>1, <2>2
  <2> QED BY <2>4, <2>5
<1>9. \A s : s = blockIndex => InUse(s)'
  <2>1. Dist(Oldest', blockIndex) < InFlight'
    BY <1>5, <1>6
  <2> QED BY <1>3, <2>1 DEF InUse
<1>10. /\ SlotsOf(t) = {} /\ ~ Writing(t)
       /\ SlotsOf(t)' = {blockIndex} /\ ~ Writing(t)'
  BY <1>2, <1>3 DEF SlotsOf, Filling, Writing, Local
<1>11. \A u \in Threads : u # t =>
         SlotsOf(u)' = SlotsOf(u) /\ Writing(u)' = Writing(u) /\ th'[u] = th[u]
  BY <1>2, <1>3 DEF SlotsOf, Filling, Writing
<1>12. RingOK'
  <2>1. InFlight' \in 0 .. NumBlocksMax
    BY <1>5, MtCoderAssumption
  <2>2. writeIndex' # NoIndex => writeIndex' = Oldest'
    BY <1>1, <1>2, <1>6 DEF RingOK
  <2>3. \A u \in Threads : Writing(u)' => th'[u].wi = Oldest'
    BY <1>1, <1>6, <1>10, <1>11 DEF RingOK
  <2>4. \A u \in Threads : \A s \in SlotsOf(u)' : InUse(s)'
    BY <1>1, <1>8, <1>9, <1>10, <1>11 DEF RingOK
  <2>5. \A s \in Slots : ReadyBlocks'[s] => InUse(s)'
    BY <1>1, <1>2, <1>8 DEF RingOK
  <2> QED BY <2>1, <2>2, <2>3, <2>4, <2>5 DEF RingOK
<1>13. SlotsOwnedOnce'
  <2>1. blocksSemaphore' <= NumBlocksMax
    BY <1>1, <1>2, <1>3, MtCoderAssumption DEF SlotsOwnedOnce
  <2>2. ~ ReadyBlocks[blockIndex] /\ \A u \in Threads : blockIndex \notin SlotsOf(u)
    BY <1>1, <1>3, <1>8 DEF RingOK
  <2> QED BY <1>1, <1>2, <1>10, <1>11, <2>1, <2>2 DEF SlotsOwnedOnce
<1> QED BY <1>12, <1>13

(* The thread whose slot is the oldest becomes the writer, any other       *)
(* leaves its slot to the list of ready blocks.                            *)
LEMMA PublishRing ==
  ASSUME RingInv, NEW t \in Threads, Publish(t)
  PROVE  RingOK' /\ SlotsOwnedOnce'
<1>1. /\ RingOK /\ SlotsOwnedOnce /\ TypeOK /\ HasSlot
  BY DEF RingInv, IInv
<1>2. /\ UNCHANGED <<blocksSemaphore, blockIndex>>
      /\ pc[t] = "publish" /\ pc' = [pc EXCEPT ![t] = pc'[t]]
      /\ pc'[t] \in {"write", "count", "acquire"}
      /\ \A u \in Threads : u # t => th'[u] = th[u]
  BY <1>1 DEF Publish, reader, AfterBlock, TypeOK
<1>3. /\ pc \in [Threads -> Labels] /\ th \in [Threads -> Local] /\ ReadyBlocks \in [Slots -> BOOLEAN]
  BY <1>1 DEF TypeOK
<1>4. Released' = Released
  BY <1>2, <1>3 DEF Released
<1>5. /\ InFlight' = InFlight /\ Oldest' = Oldest
      /\ \A s : InUse(s)' = InUse(s)
  BY <1>2, <1>4 DEF InFlight, Oldest, Back, InUse, Dist
<1>6. SlotsOf(t) = {th[t].bi} /\ InUse(th[t].bi) /\ th[t].bi \in Slots
  BY <1>1, <1>2 DEF SlotsOf, Filling, RingOK, InUse
<1>7. \A u \in Threads : u # t =>
         SlotsOf(u)' = SlotsOf(u) /\ Writing(u)' = Writing(u) /\ th[t].bi \notin SlotsOf(u)
  BY <1>1, <1>2, <1>3, <1>6 DEF SlotsOf, Filling, Writing, SlotsOwnedOnce
<1>8. CASE writeIndex = th[t].bi
  <2>1. /\ writeIndex' = NoIndex /\ ReadyBlocks' = ReadyBlocks /\ pc'[t] = "write"
        /\ th'[t].wi = th[t].bi
    BY <1>3, <1>8 DEF Publish, Local
  <2>2. SlotsOf(t)' = {th[t].bi} /\ th[t].bi = Oldest
    BY <1>1, <1>6, <1>8, <2>1, MtCoderAssumption DEF SlotsOf, Filling, Writing, RingOK, Slots, NoIndex
  <2>3. RingOK'
    BY <1>1, <1>5, <1>6, <1>7, <1>2, <2>1, <2>2 DEF RingOK
  <2>4. SlotsOwnedOnce'
    BY <1>1, <1>2, <1>6, <1>7, <2>1, <2>2 DEF SlotsOwnedOnce
  <2> QED BY <2>3, <2>4
<1>9. CASE writeIndex # th[t].bi
  <2>1. /\ writeIndex' = writeIndex /\ ReadyBlocks' = [ReadyBlocks EXCEPT ![th[t].bi] = TRUE]
        /\ pc'[t] \in {"count", "acquire"}
    BY <1>1, <1>9 DEF Publish, AfterBlock, TypeOK
  <2>2. SlotsOf(t)' = {} /\ ~ Writing(t)'
    BY <2>1 DEF SlotsOf, Filling, Writing
  <2>3. RingOK'
    BY <1>1, <1>2, <1>3, <1>5, <1>6, <1>7, <2>1, <2>2 DEF RingOK
  <2>4. SlotsOwnedOnce'
    BY <1>1, <1>2, <1>3, <1>6, <1>7, <2>1, <2>2 DEF SlotsOwnedOnce
  <2> QED BY <2>3, <2>4
<1> QED BY <1>8, <1>9

(* The writer leaves the oldest slot, and the slots in use are one fewer.   *)
LEMMA AdvanceMoves ==
  ASSUME RingInv, NEW t \in Threads, Advance(t)
  PROVE  /\ Oldest \in Slots /\ Dist(Oldest, Oldest) = 0 /\ InFlight \in 1 .. NumBlocksMax
         /\ th[t].wi = Oldest /\ InFlight' = InFlight - 1 /\ Oldest' = NextSlot(Oldest)
         /\ \A s \in Slots : s # Oldest => Dist(NextSlot(Oldest), s) = Dist(Oldest, s) - 1
<1>1. /\ RingOK /\ SlotsOwnedOnce /\ TypeOK
  BY DEF RingInv, IInv
<1>2. /\ UNCHANGED <<blocksSemaphore, blockIndex>>
      /\ pc[t] = "advance"
      /\ pc' = [pc EXCEPT ![t] = pc'[t]] /\ pc'[t] \in {"release_more", "release_last"}
  BY <1>1 DEF Advance, reader, TypeOK
<1>3. pc \in [Threads -> Labels] /\ blockIndex \in Slots /\ blocksSemaphore \in Nat
  BY <1>1 DEF TypeOK
<1>4. /\ Writing(t) /\ SlotsOf(t) = {th[t].wi} /\ th[t].wi = Oldest /\ InUse(Oldest)
  BY <1>1, <1>2 DEF SlotsOf, Filling, Writing, RingOK
<1>5. Released' = Released \cup {t} /\ t \notin Released
  BY <1>2, <1>3 DEF Released
<1>6. Cardinality(Released') = Cardinality(Released) + 1
  BY <1>5, ReleasedFinite, FS_AddElement
<1>7. Oldest \in Slots /\ Dist(Oldest, Oldest) = 0 /\ InFlight \in 1 .. NumBlocksMax
  <2>1. InFlight \in 0 .. NumBlocksMax
    BY <1>1 DEF RingOK
  <2>2. Oldest \in Slots
    BY <1>3, <2>1, BackType DEF Oldest
  <2>3. Dist(Oldest, Oldest) = 0
    BY <2>2, DistType
  <2> QED BY <1>4, <2>1, <2>2, <2>3, MtCoderAssumption DEF InUse
<1>8. InFlight' = InFlight - 1
  BY <1>2, <1>3, <1>6, ReleasedFinite, MtCoderAssumption DEF InFlight
<1>9. /\ Oldest' = NextSlot(Oldest)
      /\ \A s \in Slots : s # Oldest => Dist(NextSlot(Oldest), s) = Dist(Oldest, s) - 1
  <2>1. /\ Back(blockIndex, InFlight - 1) = NextSlot(Back(blockIndex, InFlight))
        /\ \A s \in Slots : s # Back(blockIndex, InFlight) =>
             Dist(NextSlot(Back(blockIndex, InFlight)), s) = Dist(Back(blockIndex, InFlight), s) - 1
    BY <1>3, <1>7, RingShrinks
  <2>2. Oldest' = Back(blockIndex, InFlight - 1)
    BY <1>2, <1>8 DEF Oldest, Back
  <2> QED BY <2>1, <2>2 DEF Oldest
<1> QED BY <1>4, <1>7, <1>8, <1>9

(* The writer leaves the oldest slot, and takes the next one if it is      *)
(* ready.                                                                  *)
LEMMA AdvanceRing ==
  ASSUME RingInv, NEW t \in Threads, Advance(t)
  PROVE  RingOK' /\ SlotsOwnedOnce'
<1>1. /\ RingOK /\ SlotsOwnedOnce /\ TypeOK /\ OneWriter
  BY DEF RingInv, IInv
<1> DEFINE next == NextSlot(th[t].wi)
           more == ReadyBlocks[next]
<1>2. /\ UNCHANGED <<blocksSemaphore, blockIndex>>
      /\ pc[t] = "advance"
      /\ pc' = [pc EXCEPT ![t] = IF more THEN "release_more" ELSE "release_last"]
      /\ th' = [th EXCEPT ![t] = [@ EXCEPT !.wi = next, !.bufIndex = NoIndex]]
      /\ writeIndex' = IF more THEN writeIndex ELSE next
      /\ ReadyBlocks' = IF more THEN [ReadyBlocks EXCEPT ![next] = FALSE] ELSE ReadyBlocks
  BY DEF Advance, reader
<1>3. /\ pc \in [Threads -> Labels] /\ th \in [Threads -> Local] /\ blockIndex \in Slots
      /\ blocksSemaphore \in Nat /\ ReadyBlocks \in [Slots -> BOOLEAN]
  BY <1>1 DEF TypeOK
<1>4. /\ Writing(t) /\ SlotsOf(t) = {th[t].wi} /\ th[t].wi = Oldest /\ InUse(Oldest)
  BY <1>1, <1>2 DEF SlotsOf, Filling, Writing, RingOK
<1>7. Oldest \in Slots /\ Dist(Oldest, Oldest) = 0 /\ InFlight \in 1 .. NumBlocksMax
  BY AdvanceMoves
<1>8. InFlight' = InFlight - 1
  BY AdvanceMoves
<1>9. /\ Oldest' = NextSlot(Oldest)
      /\ \A s \in Slots : s # Oldest => Dist(NextSlot(Oldest), s) = Dist(Oldest, s) - 1
  BY AdvanceMoves
<1>10. \A s : InUse(s) /\ s # Oldest => InUse(s)'
  <2> SUFFICES ASSUME NEW s, InUse(s), s # Oldest PROVE InUse(s)'
    OBVIOUS
  <2>1. s \in Slots /\ Dist(Oldest, s) < InFlight
    BY DEF InUse
  <2>2. Dist(Oldest, s) \in Nat
    BY <1>7, <2>1, DistType
  <2>3. Dist(NextSlot(Oldest), s) = Dist(Oldest, s) - 1
    BY <1>9, <2>1
  <2>4. Dist(NextSlot(Oldest), s) < InFlight - 1
    BY <1>7, <2>1, <2>2, <2>3
  <2>5. Dist(Oldest', s) = Dist(NextSlot(Oldest), s)
    BY <1>9
  <2> QED BY <1>8, <2>1, <2>4, <2>5 DEF InUse, Dist
<1>11. next = Oldest' /\ next \in Slots
  BY <1>4, <1>7, <1>9, NextSlotType
<1>12. /\ th'[t].wi = next
       /\ SlotsOf(t)' = IF more THEN {next} ELSE {}
       /\ Writing(t)' => more
  BY <1>2, <1>3 DEF SlotsOf, Filling, Writing, Local
<1>13. \A u \in Threads : u # t =>
         /\ SlotsOf(u)' = SlotsOf(u) /\ Oldest \notin SlotsOf(u)
         /\ ~ Writing(u)' /\ th'[u] = th[u]
  BY <1>1, <1>2, <1>3, <1>4 DEF SlotsOf, Filling, Writing, OneWriter, SlotsOwnedOnce
<1>14. ~ ReadyBlocks[Oldest] /\ writeIndex = NoIndex
  BY <1>1, <1>4 DEF SlotsOwnedOnce, OneWriter
<1>15. \A s \in Slots : ReadyBlocks'[s] => ReadyBlocks[s] /\ s # Oldest /\ InUse(s)
  BY <1>1, <1>2, <1>3, <1>11, <1>14 DEF RingOK
<1>16. \A u \in Threads : u # t => \A s \in SlotsOf(u)' :
         InUse(s) /\ s # Oldest /\ ~ ReadyBlocks'[s]
  BY <1>1, <1>13, <1>15 DEF RingOK, SlotsOwnedOnce, InUse
<1>17. more => InUse(next) /\ next # Oldest /\ ~ ReadyBlocks'[next]
  BY <1>1, <1>2, <1>3, <1>11, <1>14 DEF RingOK
<1>18. RingOK'
  <2>1. InFlight' \in 0 .. NumBlocksMax
    BY <1>7, <1>8, MtCoderAssumption
  <2>2. writeIndex' # NoIndex => writeIndex' = Oldest'
    BY <1>2, <1>11, <1>14
  <2>3. \A u \in Threads : Writing(u)' => th'[u].wi = Oldest'
    BY <1>11, <1>12, <1>13
  <2>4. \A u \in Threads : \A s \in SlotsOf(u)' : InUse(s)'
    BY <1>10, <1>12, <1>16, <1>17
  <2>5. \A s \in Slots : ReadyBlocks'[s] => InUse(s)'
    BY <1>10, <1>15
  <2> QED BY <2>1, <2>2, <2>3, <2>4, <2>5 DEF RingOK
<1>19. SlotsOwnedOnce'
  <2>1. more => \A u \in Threads : u # t => next \notin SlotsOf(u)
    BY <1>1, <1>11 DEF SlotsOwnedOnce
  <2>2. \A u, v \in Threads : \A s \in SlotsOf(u)' : s \in SlotsOf(v)' => u = v
    BY <1>1, <1>12, <1>13, <2>1 DEF SlotsOwnedOnce
  <2>3. \A u \in Threads : \A s \in SlotsOf(u)' : ~ ReadyBlocks'[s]
    BY <1>12, <1>16, <1>17
  <2> QED BY <1>1, <1>2, <2>2, <2>3 DEF SlotsOwnedOnce
<1> QED BY <1>18, <1>19

(* The slot that was written is free again.                                *)
LEMMA ReleaseSlotRing ==
  ASSUME RingInv, NEW t \in Threads, ReleaseSlot(t)
  PROVE  RingOK' /\ SlotsOwnedOnce'
<1>1. /\ RingOK /\ SlotsOwnedOnce /\ TypeOK
  BY DEF RingInv, IInv
<1>2. /\ blocksSemaphore' = blocksSemaphore + 1
      /\ UNCHANGED <<blockIndex, writeIndex, ReadyBlocks>>
      /\ pc[t] \in {"release_more", "release_last"}
      /\ pc' = [pc EXCEPT ![t] = pc'[t]]
      /\ pc'[t] \in {"write", "count", "acquire"}
      /\ pc'[t] = "write" => pc[t] = "release_more"
  BY <1>1 DEF ReleaseSlot, reader, writer, AfterBlock, TypeOK
<1>3. /\ pc \in [Threads -> Labels] /\ th \in [Threads -> Local] /\ blocksSemaphore \in Nat
  BY <1>1 DEF TypeOK
<1>4. Released' = Released \ {t} /\ t \in Released
  BY <1>2, <1>3 DEF Released
<1>5. Cardinality(Released') = Cardinality(Released) - 1
  BY <1>4, ReleasedFinite, FS_RemoveElement
<1>6. InFlight' = InFlight
  BY <1>2, <1>3, <1>5, ReleasedFinite, MtCoderAssumption DEF InFlight
<1>8. /\ th'[t].wi = th[t].wi
      /\ \A u \in Threads : u # t => th'[u] = th[u]
  BY <1>2, <1>3 DEF ReleaseSlot, Local
<1>9. /\ SlotsOf(t)' \subseteq SlotsOf(t)
      /\ Writing(t)' => Writing(t)
  <2>1. SlotsOf(t)' = IF pc'[t] = "write" THEN {th[t].wi} ELSE {}
    BY <1>2, <1>8 DEF SlotsOf, Filling, Writing
  <2>2. pc'[t] = "write" => Writing(t) /\ SlotsOf(t) = {th[t].wi}
    BY <1>2 DEF SlotsOf, Filling, Writing
  <2>3. Writing(t)' => pc'[t] = "write"
    BY <1>2 DEF Writing
  <2> QED BY <2>1, <2>2, <2>3
<1>10. \A u \in Threads : u # t => SlotsOf(u)' = SlotsOf(u) /\ Writing(u)' = Writing(u)
  BY <1>2, <1>3, <1>8 DEF SlotsOf, Filling, Writing
<1>11. \A u \in Threads : GainsNothing(u)
  BY <1>8, <1>9, <1>10 DEF GainsNothing
<1>12. blocksSemaphore' <= NumBlocksMax
  <2> DEFINE c == Cardinality(Released)
  <2>1. c \in Nat /\ c # 0
    BY <1>4, ReleasedFinite, FS_EmptySet
  <2>2. NumBlocksMax - blocksSemaphore - c >= 0
    BY <1>1, MtCoderAssumption DEF InFlight, RingOK
  <2> HIDE DEF c
  <2> QED BY <1>2, <1>3, <2>1, <2>2, MtCoderAssumption
<1>13. UNCHANGED <<blockIndex, writeIndex, ReadyBlocks>>
  BY <1>2
<1>14. RingOK /\ SlotsOwnedOnce
  BY <1>1
<1> QED BY <1>6, <1>11, <1>12, <1>13, <1>14, KeepRing

-----------------------------------------------------------------------------
(* What the steps that leave the ring alone do to thread u.                *)
Stays(u) ==
  /\ Filling(u)' => Filling(u) /\ th'[u].bi = th[u].bi
  /\ Writing(u)' => Writing(u) /\ th'[u].wi = th[u].wi
  /\ pc'[u] \in {"release_more", "release_last"} <=> pc[u] \in {"release_more", "release_last"}

(* The ring is right when every thread keeps the slots it has. *)
LEMMA StaysRing ==
  ASSUME RingOK, SlotsOwnedOnce,
         UNCHANGED <<blocksSemaphore, blockIndex, writeIndex, ReadyBlocks>>,
         \A u \in Threads : Stays(u)
  PROVE  RingOK' /\ SlotsOwnedOnce'
<1>1. Released' = Released
  BY DEF Released, Stays
<1>2. \A u \in Threads : GainsNothing(u)
  BY DEF GainsNothing, SlotsOf, Filling, Writing, Stays
<1> QED BY <1>1, <1>2, SameRing

(* The steps of a thread up to the block's hand-over, TakeSlot excepted.   *)
LEMMA ReadRing ==
  ASSUME TypeOK, NEW t \in Threads,
         WaitStart(t) \/ AcquireRead(t) \/ ReadBlock(t) \/ ReleaseRead(t)
  PROVE  /\ \A u \in Threads : Stays(u)
         /\ UNCHANGED <<blocksSemaphore, blockIndex, writeIndex, ReadyBlocks>>
<1>a. pc \in [Threads -> Labels] /\ th \in [Threads -> Local]
  BY DEF TypeOK
<1> SUFFICES ASSUME NEW u \in Threads
             PROVE  Stays(u) /\ UNCHANGED <<blocksSemaphore, blockIndex, writeIndex, ReadyBlocks>>
  OBVIOUS
<1>b. th[u] \in Local
  BY <1>a
<1>1. CASE WaitStart(t)
  BY <1>1, <1>a DEF WaitStart, Stays, Filling, Writing, reader, writer
<1>2. CASE AcquireRead(t)
  BY <1>2, <1>a DEF AcquireRead, Stays, Filling, Writing, writer
<1>3. CASE ReadBlock(t)
  BY <1>3, <1>a DEF ReadBlock, Stays, Filling, Writing, writer
<1>4. CASE ReleaseRead(t)
  <2> DEFINE r == FirstError(th[t].res, progressRes)
             fin == th[t].finished \/ r # OK
             l1 == [th[u] EXCEPT !.res = r, !.finished = fin]
             l2 == [th[u] EXCEPT !.startEvent = TRUE, !.stop = FALSE]
             l3 == [th[u] EXCEPT !.res = ERR, !.finished = TRUE]
  <2>1. th'[u] \in {th[u], l1, l2, l3}
    BY <1>4, <1>a DEF ReleaseRead
  <2>2. l1.bi = th[u].bi /\ l1.wi = th[u].wi
    BY <1>b, KeepSlots
  <2>3. l2.bi = th[u].bi /\ l2.wi = th[u].wi
    BY <1>b, KeepSlots
  <2>4. l3.bi = th[u].bi /\ l3.wi = th[u].wi
    BY <1>b, KeepSlots
  <2> HIDE DEF l1, l2, l3
  <2>5. th'[u].bi = th[u].bi /\ th'[u].wi = th[u].wi
    BY <2>1, <2>2, <2>3, <2>4
  <2>6. /\ Filling(u)' => Filling(u)
        /\ Writing(u)' => Writing(u)
        /\ pc'[u] \in {"release_more", "release_last"} <=> pc[u] \in {"release_more", "release_last"}
    BY <1>4, <1>a DEF ReleaseRead, Created, Filling, Writing
  <2> QED BY <1>4, <2>5, <2>6 DEF Stays, ReleaseRead, writer
<1> QED BY <1>1, <1>2, <1>3, <1>4

(* Coding, writing and leaving neither take nor release a slot. *)
LEMMA CodeRing ==
  ASSUME TypeOK, NEW t \in Threads,
         TakeBuf(t) \/ Code(t) \/ StoreFailed(t) \/ Write(t) \/ CountFinished(t) \/ CompareFinished(t)
  PROVE  /\ \A u \in Threads : Stays(u)
         /\ UNCHANGED <<blocksSemaphore, blockIndex, writeIndex, ReadyBlocks>>
<1>a. pc \in [Threads -> Labels] /\ th \in [Threads -> Local]
  BY DEF TypeOK
<1> USE DEF Stays, Filling, Writing, reader, writer
<1>1. CASE TakeBuf(t)
  BY <1>1, <1>a DEF TakeBuf, Local
<1>2. CASE Code(t)
  BY <1>2, <1>a DEF Code, Local
<1>3. CASE StoreFailed(t)
  BY <1>3, <1>a DEF StoreFailed
<1>4. CASE Write(t)
  BY <1>4, <1>a DEF Write, Local
<1>5. CASE CountFinished(t)
  <2>1. \A u \in Threads : u # t => th'[u] = th[u] /\ pc'[u] = pc[u]
    BY <1>5, <1>a DEF CountFinished
  <2>2. pc[t] = "count" /\ pc'[t] = "compare"
    BY <1>5, <1>a DEF CountFinished
  <2>3. UNCHANGED <<blocksSemaphore, blockIndex, writeIndex, ReadyBlocks>>
    BY <1>5 DEF CountFinished
  <2> QED BY <2>1, <2>2, <2>3
<1>6. CASE CompareFinished(t)
  BY <1>6, <1>a DEF CompareFinished, Local
<1> QED BY <1>1, <1>2, <1>3, <1>4, <1>5, <1>6

(* The steps of MtCoder_Code but for its beginning.                        *)
LEMMA MainRing ==
  ASSUME TypeOK, Launch \/ Finish \/ Destruct \/ UNCHANGED vars
  PROVE  /\ \A u \in Threads : Stays(u)
         /\ UNCHANGED <<blocksSemaphore, blockIndex, writeIndex, ReadyBlocks>>
<1>a. pc \in [Threads -> Labels] /\ th \in [Threads -> Local]
  BY DEF TypeOK
<1> SUFFICES ASSUME NEW u \in Threads
             PROVE  Stays(u) /\ UNCHANGED <<blocksSemaphore, blockIndex, writeIndex, ReadyBlocks>>
  BY MtCoderAssumption DEF Threads
<1>b. th[u] \in Local
  BY <1>a
<1> DEFINE l == [th[u] EXCEPT !.startEvent = TRUE, !.stop = FALSE]
           m == [th[u] EXCEPT !.stop = TRUE, !.startEvent = TRUE]
<1>c. l.bi = th[u].bi /\ l.wi = th[u].wi
  BY <1>b, KeepSlots
<1>d. m.bi = th[u].bi /\ m.wi = th[u].wi
  BY <1>b, KeepSlots
<1>1. CASE Launch
  <2>1. th'[u] \in {th[u], l}
    BY <1>1, <1>a DEF Launch
  <2>2. th'[u].bi = th[u].bi /\ th'[u].wi = th[u].wi
    BY <1>c, <2>1
  <2>3. pc'[u] = pc[u] \/ (pc[u] = "none" /\ pc'[u] = "start")
    BY <1>1, <1>a DEF Launch, Created
  <2> QED BY <1>1, <2>2, <2>3 DEF Launch, Stays, Filling, Writing, writer
<1>2. CASE Finish
  BY <1>2 DEF Finish, Stays, Filling, Writing, reader, writer
<1>3. CASE Destruct
  <2>1. th'[u] \in {th[u], m}
    BY <1>3, <1>a DEF Destruct
  <2>2. th'[u].bi = th[u].bi /\ th'[u].wi = th[u].wi
    BY <1>d, <2>1
  <2> QED BY <1>3, <2>2 DEF Destruct, Stays, Filling, Writing, reader, writer
<1>4. CASE UNCHANGED vars
  BY <1>4 DEF vars, Stays, Filling, Writing, reader, writer
<1> QED BY <1>1, <1>2, <1>3, <1>4

(* Before the threads run no slot is in use.                               *)
NoneYet ==
  /\ \A t \in Threads : pc[t] = "none"
  /\ blocksSemaphore \in {0, NumBlocksMax}
  /\ blockIndex = 0 /\ writeIndex = 0 /\ ReadyBlocks = [s \in Slots |-> FALSE]

(* Before the first block all slots are free. *)
LEMMA NoneRing == NoneYet => RingOK /\ SlotsOwnedOnce
<1> SUFFICES ASSUME NoneYet PROVE RingOK /\ SlotsOwnedOnce
  OBVIOUS
<1> USE DEF NoneYet
<1>1. Released = {} /\ Cardinality(Released) = 0
  BY FS_EmptySet DEF Released
<1>2. InFlight \in {0, NumBlocksMax}
  BY <1>1, MtCoderAssumption DEF InFlight
<1>3. Oldest = 0
  BY <1>2, MtCoderAssumption DEF Oldest, Back
<1>4. \A t \in Threads : SlotsOf(t) = {} /\ ~ Writing(t)
  BY DEF SlotsOf, Filling, Writing
<1>5. RingOK
  BY <1>2, <1>3, <1>4, MtCoderAssumption DEF RingOK
<1> QED BY <1>4, <1>5, MtCoderAssumption DEF SlotsOwnedOnce

(* Every step of one call keeps the ring right. *)
LEMMA NextRing == MaxCalls = 1 /\ RingInv /\ [Next]_vars => RingOK' /\ SlotsOwnedOnce'
<1> SUFFICES ASSUME MaxCalls = 1, RingInv, [Next]_vars PROVE RingOK' /\ SlotsOwnedOnce'
  OBVIOUS
<1>a. TypeOK /\ Fresh /\ RingOK /\ SlotsOwnedOnce
  BY DEF RingInv, IInv
<1>1. ASSUME NEW t \in Threads, TakeSlot(t) PROVE RingOK' /\ SlotsOwnedOnce'
  BY <1>1, TakeSlotRing
<1>2. ASSUME NEW t \in Threads, Publish(t) PROVE RingOK' /\ SlotsOwnedOnce'
  BY <1>2, PublishRing
<1>3. ASSUME NEW t \in Threads, Advance(t) PROVE RingOK' /\ SlotsOwnedOnce'
  BY <1>3, AdvanceRing
<1>4. ASSUME NEW t \in Threads, ReleaseSlot(t) PROVE RingOK' /\ SlotsOwnedOnce'
  BY <1>4, ReleaseSlotRing
<1>5. ASSUME NEW t \in Threads,
             WaitStart(t) \/ AcquireRead(t) \/ ReadBlock(t) \/ ReleaseRead(t)
      PROVE RingOK' /\ SlotsOwnedOnce'
  BY <1>5, <1>a, ReadRing, StaysRing
<1>6. ASSUME NEW t \in Threads,
             TakeBuf(t) \/ Code(t) \/ StoreFailed(t) \/ Write(t) \/ CountFinished(t) \/ CompareFinished(t)
      PROVE RingOK' /\ SlotsOwnedOnce'
  BY <1>6, <1>a, CodeRing, StaysRing
<1>7. CASE Launch \/ Finish \/ Destruct \/ UNCHANGED vars
  BY <1>7, <1>a, MainRing, StaysRing
<1>8. CASE Call
  <2>1. calls = 0
    BY <1>8, <1>a DEF Call, Fresh
  <2>2. NoneYet'
    BY <1>8, <1>a, <2>1 DEF Call, Fresh, NoneYet
  <2> QED BY <2>2, NoneRing, PTL
<1> QED BY <1>1, <1>2, <1>3, <1>4, <1>5, <1>6, <1>7, <1>8 DEF Next, Main, Done, Thread

-----------------------------------------------------------------------------
(* In one call of MtCoder_Code no slot of the ring has two owners and the   *)
(* semaphore is never released past its maximum, for every number of       *)
(* threads, slots, buffers and blocks and every set of failures.           *)
THEOREM RingSafe == MaxCalls = 1 /\ Spec => []SlotsOwnedOnce
<1> SUFFICES ASSUME MaxCalls = 1 PROVE Spec => []SlotsOwnedOnce
  OBVIOUS
<1>1. Init => RingOK /\ SlotsOwnedOnce
  BY NoneRing DEF Init, NoneYet
<1>2. (Init => IInv) /\ (IInv /\ [Next]_vars => IInv')
  BY Inductive
<1>3. IInv /\ RingOK /\ SlotsOwnedOnce /\ [Next]_vars => RingOK' /\ SlotsOwnedOnce'
  BY NextRing DEF RingInv
<1> QED BY <1>1, <1>2, <1>3, PTL DEF Spec

-----------------------------------------------------------------------------
(* The output buffers.  No buffer is handed out twice, the buffers past    *)
(* the ring's size are never used and a thread that wants a buffer finds   *)
(* one: a buffer in use belongs to a slot of the ring, to one only, and    *)
(* the list of free buffers keeps the first NumBlocksMax of them in front. *)
(* A thread that is about to code has a slot without a buffer, so that not *)
(* all of the first NumBlocksMax are in use.                               *)

(* A slot that a thread fills or writes, or that waits to be written.      *)
Owned(s) == ReadyBlocks[s] \/ \E t \in Threads : s \in SlotsOf(t)

(* The thread's buffer is that of its slot: own gives the buffer of each.  *)
HoldsOwn(t, own) ==
  /\ Filling(t) => own[th[t].bi] = th[t].bufIndex
  /\ pc[t] \in {"release_read", "code", "store"} => th[t].bufIndex = NoIndex
  /\ pc[t] = "publish" => blocks[th[t].bi].bufIndex = th[t].bufIndex
  /\ pc[t] \in {"write", "advance"} => own[th[t].wi] = th[t].bufIndex
  /\ pc[t] = "release_more" => own[th[t].wi] = blocks[th[t].wi].bufIndex

(* The list of free buffers names none twice, and those of the first       *)
(* NumBlocksMax that are free come before the others.                      *)
ListOK ==
  \A i, j \in 1 .. Len(freeBlocks) :
    /\ freeBlocks[i] = freeBlocks[j] => i = j
    /\ i < j /\ freeBlocks[j] \in Slots => freeBlocks[i] \in Slots

OwnOK(own) ==
  /\ \A s \in Slots : own[s] # NoIndex =>
       /\ Owned(s) /\ own[s] \notin FreeBufs
       /\ \A r \in Slots : own[r] = own[s] => r = s
  /\ \A b \in Slots : b \in FreeBufs \/ \E s \in Slots : own[s] = b
  /\ \A s \in Slots : ReadyBlocks[s] => blocks[s].bufIndex = own[s]
  /\ \A t \in Threads : HoldsOwn(t, own)

BufsOK == ListOK /\ \E own \in [Slots -> Slots \cup {NoIndex}] : OwnOK(own)

(* Before the call there are no buffers. *)
NoBufsYet ==
  /\ \A t \in Threads : pc[t] = "none"
  /\ ReadyBlocks = [s \in Slots |-> FALSE]

BufsInv == IF calls = 0 THEN NoBufsYet ELSE BufsOK

-----------------------------------------------------------------------------
(* A thread's slots are slots.                                             *)
LEMMA SlotsOfSlots ==
  ASSUME RingInv, NEW t \in Threads
  PROVE  /\ SlotsOf(t) \subseteq Slots
         /\ Filling(t) => th[t].bi \in Slots /\ th[t].bi \in SlotsOf(t)
         /\ Writing(t) => th[t].wi \in Slots /\ th[t].wi \in SlotsOf(t)
BY DEF RingInv, RingOK, InUse, SlotsOf, Filling, Writing

(* The first buffer of the list is one of the first NumBlocksMax, when a   *)
(* thread is about to take it: its own slot has none.                      *)
LEMMA FindsBuffer ==
  ASSUME RingInv, BufsOK, NEW t \in Threads, pc[t] = "code"
  PROVE  freeBlocks # << >> /\ Head(freeBlocks) \in Slots
<1>1. PICK own \in [Slots -> Slots \cup {NoIndex}] : OwnOK(own)
  BY DEF BufsOK
<1> DEFINE mine == th[t].bi
<1>2. mine \in Slots /\ own[mine] = NoIndex
  BY <1>1, SlotsOfSlots DEF OwnOK, HoldsOwn, Filling
<1>3. PICK b \in Slots : b \in FreeBufs
  <2> SUFFICES ASSUME \A b \in Slots : b \notin FreeBufs PROVE FALSE
    OBVIOUS
  <2> DEFINE slot == [b \in Slots |-> CHOOSE s \in Slots : own[s] = b]
  <2>1. \A b \in Slots : slot[b] \in Slots /\ own[slot[b]] = b
    BY <1>1 DEF OwnOK
  <2>2. \A b \in Slots : b # NoIndex
    BY MtCoderAssumption DEF Slots, NoIndex
  <2> DEFINE rest == Slots \ {mine}
  <2>3. \A b \in Slots : slot[b] \in rest
    BY <1>2, <2>1, <2>2
  <2>3a. slot \in [Slots -> rest]
    BY <2>3
  <2> HIDE DEF slot
  <2>4. IsFiniteSet(Slots)
    BY FS_Interval, MtCoderAssumption DEF Slots
  <2>5. IsFiniteSet(rest) /\ Cardinality(rest) = Cardinality(Slots) - 1
    BY <1>2, <2>4, FS_RemoveElement
  <2>6. Cardinality(rest) < Cardinality(Slots)
    BY <2>4, <2>5, FS_CardinalityType
  <2> HIDE DEF rest
  <2>7. PICK x, y \in Slots : x # y /\ slot[x] = slot[y]
    BY <2>3a, <2>4, <2>5, <2>6, FS_PigeonHole
  <2> QED BY <2>1, <2>7
<1>4. freeBlocks \in Seq(Bufs)
  BY DEF RingInv, IInv, TypeOK
<1>5. PICK i \in 1 .. Len(freeBlocks) : freeBlocks[i] = b
  BY <1>3 DEF FreeBufs
<1>6. Len(freeBlocks) \in Nat /\ 1 \in 1 .. Len(freeBlocks)
  BY <1>4, <1>5
<1>7. freeBlocks[1] \in Slots
  BY <1>3, <1>5, <1>6 DEF BufsOK, ListOK
<1> QED BY <1>4, <1>6, <1>7

(* The property follows from the invariant.                                *)
LEMMA BufsOwned ==
  ASSUME RingInv, BufsInv
  PROVE  BufsOwnedOnce
<1>1. CASE calls = 0
  <2>1. \A t \in Threads : pc[t] = "none"
    BY <1>1 DEF BufsInv, NoBufsYet
  <2>2. ReadyBufs = {}
    BY <1>1 DEF BufsInv, NoBufsYet, ReadyBufs
  <2>3. \A t \in Threads : BufsOf(t) = {}
    BY <2>1 DEF BufsOf
  <2> QED BY <2>1, <2>2, <2>3 DEF BufsOwnedOnce
<1>2. CASE calls # 0
  <2>1. BufsOK
    BY <1>2 DEF BufsInv
  <2>2. PICK own \in [Slots -> Slots \cup {NoIndex}] : OwnOK(own)
    BY <2>1 DEF BufsOK
  <2>3. ASSUME NEW t \in Threads, NEW b \in BufsOf(t)
        PROVE  \E s \in SlotsOf(t) : s \in Slots /\ own[s] = b /\ b # NoIndex
    <3>1. b = th[t].bufIndex /\ b # NoIndex /\ pc[t] \in {"coding", "publish", "write", "advance"}
      BY <2>3 DEF BufsOf
    <3>2. CASE pc[t] \in {"coding", "publish"}
      <4>1. Filling(t) /\ own[th[t].bi] = b
        BY <2>2, <3>1, <3>2 DEF OwnOK, HoldsOwn, Filling
      <4> QED BY <3>1, <4>1, SlotsOfSlots
    <3>3. CASE pc[t] \in {"write", "advance"}
      <4>1. Writing(t) /\ own[th[t].wi] = b
        BY <2>2, <3>1, <3>3 DEF OwnOK, HoldsOwn, Writing
      <4> QED BY <3>1, <4>1, SlotsOfSlots
    <3> QED BY <3>1, <3>2, <3>3
  <2>4. \A b \in ReadyBufs : \E s \in Slots : ReadyBlocks[s] /\ own[s] = b /\ b # NoIndex
    BY <2>2 DEF ReadyBufs, OwnOK
  <2>5. SlotsOwnedOnce
    BY DEF RingInv
  <2>6. \A s \in Slots : own[s] # NoIndex => own[s] \in Slots /\ own[s] \notin FreeBufs
    BY <2>2 DEF OwnOK
  <2>7. \A r, s \in Slots : own[r] # NoIndex /\ own[r] = own[s] => r = s
    BY <2>2 DEF OwnOK
  <2>8. ASSUME NEW t \in Threads, NEW b \in BufsOf(t)
        PROVE  /\ b < NumBlocksMax
               /\ b \notin FreeBufs \cup ReadyBufs
               /\ \A u \in Threads : b \in BufsOf(u) => u = t
    <3>1. PICK s \in SlotsOf(t) : s \in Slots /\ own[s] = b /\ b # NoIndex
      BY <2>3, <2>8
    <3>2. b \in Slots /\ b \notin FreeBufs
      BY <2>6, <3>1
    <3>3. b \notin ReadyBufs
      BY <2>4, <2>5, <2>7, <3>1 DEF SlotsOwnedOnce
    <3>4. ASSUME NEW u \in Threads, b \in BufsOf(u) PROVE u = t
      <4>1. PICK r \in SlotsOf(u) : r \in Slots /\ own[r] = b
        BY <2>3, <3>4
      <4>2. r = s
        BY <2>7, <3>1, <4>1
      <4> QED BY <2>5, <3>1, <4>1, <4>2 DEF SlotsOwnedOnce
    <3> QED BY <3>2, <3>3, <3>4, MtCoderAssumption DEF Slots
  <2>9. ReadyBufs \cap FreeBufs = {}
    BY <2>4, <2>6
  <2>10. \A t \in Threads : pc[t] = "code" => freeBlocks # << >>
    BY <2>1, FindsBuffer
  <2> QED BY <2>8, <2>9, <2>10 DEF BufsOwnedOnce
<1> QED BY <1>1, <1>2

-----------------------------------------------------------------------------
(* What the steps that hand no buffer over do to thread u.                 *)
KeepsBuf(u) ==
  /\ SlotsOf(u)' = SlotsOf(u)
  /\ Filling(u)' => th'[u].bi = th[u].bi /\ th'[u].bufIndex = th[u].bufIndex
  /\ Writing(u)' => th'[u].wi = th[u].wi /\ th'[u].bufIndex = th[u].bufIndex
  /\ Filling(u)' => Filling(u)
  /\ pc'[u] \in {"release_read", "code", "store"} => pc[u] \in {"release_read", "code", "store"}
  /\ pc'[u] = "publish" => pc[u] = "publish"
  /\ pc'[u] \in {"write", "advance"} => pc[u] \in {"write", "advance"}
  /\ pc'[u] = "release_more" => pc[u] = "release_more"

(* The buffers are right when every thread keeps its own. *)
LEMMA KeepsBufs ==
  ASSUME BufsOK, UNCHANGED <<freeBlocks, blocks, ReadyBlocks>>, \A u \in Threads : KeepsBuf(u)
  PROVE  BufsOK'
<1>1. PICK own \in [Slots -> Slots \cup {NoIndex}] : OwnOK(own)
  BY DEF BufsOK
<1>2. \A u \in Threads : HoldsOwn(u, own)'
  <2> SUFFICES ASSUME NEW u \in Threads PROVE HoldsOwn(u, own)'
    OBVIOUS
  <2>1. HoldsOwn(u, own)
    BY <1>1 DEF OwnOK
  <2> QED BY <2>1 DEF HoldsOwn, KeepsBuf, Filling, Writing
<1>3. \A s : Owned(s)' = Owned(s)
  BY DEF Owned, KeepsBuf
<1>4. FreeBufs' = FreeBufs
  BY DEF FreeBufs
<1>5. OwnOK(own)'
  BY <1>1, <1>2, <1>3, <1>4 DEF OwnOK
<1>6. ListOK'
  BY DEF BufsOK, ListOK
<1> QED BY <1>1, <1>5, <1>6 DEF BufsOK

(* Updates of a thread's record that keep its slots and buffer.            *)
LEMMA KeepBufIndex ==
  ASSUME NEW l \in Local, NEW x, NEW y
  PROVE  /\ [l EXCEPT !.startEvent = x, !.stop = y].bufIndex = l.bufIndex
         /\ [l EXCEPT !.stop = x, !.startEvent = y].bufIndex = l.bufIndex
         /\ [l EXCEPT !.res = x, !.finished = y].bufIndex = l.bufIndex
BY DEF Local

(* Reading takes no buffer. *)
LEMMA ReadBufs ==
  ASSUME TypeOK, NEW t \in Threads,
         WaitStart(t) \/ AcquireRead(t) \/ ReadBlock(t) \/ ReleaseRead(t)
  PROVE  /\ \A u \in Threads : KeepsBuf(u)
         /\ UNCHANGED <<freeBlocks, blocks, ReadyBlocks>>
<1>a. pc \in [Threads -> Labels] /\ th \in [Threads -> Local]
  BY DEF TypeOK
<1> SUFFICES ASSUME NEW u \in Threads
             PROVE  KeepsBuf(u) /\ UNCHANGED <<freeBlocks, blocks, ReadyBlocks>>
  OBVIOUS
<1>b. th[u] \in Local
  BY <1>a
<1>1. CASE WaitStart(t)
  BY <1>1, <1>a DEF WaitStart, KeepsBuf, SlotsOf, Filling, Writing, writer
<1>2. CASE AcquireRead(t)
  BY <1>2, <1>a DEF AcquireRead, KeepsBuf, SlotsOf, Filling, Writing, writer
<1>3. CASE ReadBlock(t)
  BY <1>3, <1>a DEF ReadBlock, KeepsBuf, SlotsOf, Filling, Writing, writer
<1>4. CASE ReleaseRead(t)
  <2> DEFINE r == FirstError(th[t].res, progressRes)
             fin == th[t].finished \/ r # OK
             l1 == [th[u] EXCEPT !.res = r, !.finished = fin]
             l2 == [th[u] EXCEPT !.startEvent = TRUE, !.stop = FALSE]
             l3 == [th[u] EXCEPT !.res = ERR, !.finished = TRUE]
  <2>1. th'[u] \in {th[u], l1, l2, l3}
    BY <1>4, <1>a DEF ReleaseRead
  <2>2. l1.bi = th[u].bi /\ l1.wi = th[u].wi /\ l1.bufIndex = th[u].bufIndex
    BY <1>b, KeepSlots, KeepBufIndex
  <2>3. l2.bi = th[u].bi /\ l2.wi = th[u].wi /\ l2.bufIndex = th[u].bufIndex
    BY <1>b, KeepSlots, KeepBufIndex
  <2>4. l3.bi = th[u].bi /\ l3.wi = th[u].wi /\ l3.bufIndex = th[u].bufIndex
    BY <1>b, KeepSlots, KeepBufIndex
  <2> HIDE DEF l1, l2, l3
  <2>5. th'[u].bi = th[u].bi /\ th'[u].wi = th[u].wi /\ th'[u].bufIndex = th[u].bufIndex
    BY <2>1, <2>2, <2>3, <2>4
  <2>6. \/ pc'[u] = pc[u]
        \/ pc[u] = "none" /\ pc'[u] = "start"
        \/ pc[u] = "release_read" /\ pc'[u] \in {"code", "store"}
    BY <1>4, <1>a DEF ReleaseRead, Created
  <2>7. KeepsBuf(u)
    BY <2>5, <2>6 DEF KeepsBuf, SlotsOf, Filling, Writing
  <2> QED BY <1>4, <2>7 DEF ReleaseRead, writer
<1> QED BY <1>1, <1>2, <1>3, <1>4

(* Nor do writing and leaving. *)
LEMMA WriteBufs ==
  ASSUME TypeOK, NEW t \in Threads, Write(t) \/ CountFinished(t) \/ CompareFinished(t)
  PROVE  /\ \A u \in Threads : KeepsBuf(u)
         /\ UNCHANGED <<freeBlocks, blocks, ReadyBlocks>>
<1>a. pc \in [Threads -> Labels] /\ th \in [Threads -> Local]
  BY DEF TypeOK
<1> USE DEF KeepsBuf, SlotsOf, Filling, Writing, writer
<1>1. CASE Write(t)
  <2>1. /\ \A u \in Threads : u # t => th'[u] = th[u] /\ pc'[u] = pc[u]
        /\ pc[t] = "write" /\ pc'[t] = "advance"
    BY <1>1, <1>a DEF Write
  <2>2. th'[t] = th[t] \/ th'[t] = [th[t] EXCEPT !.res = ERR]
    BY <1>1, <1>a DEF Write
  <2>3. th'[t].wi = th[t].wi /\ th'[t].bufIndex = th[t].bufIndex
    BY <2>2, <1>a DEF Local
  <2>4. UNCHANGED <<freeBlocks, blocks, ReadyBlocks>>
    BY <1>1 DEF Write
  <2> QED BY <2>1, <2>3, <2>4
<1>2. CASE CountFinished(t)
  <2>1. \A u \in Threads : u # t => th'[u] = th[u] /\ pc'[u] = pc[u]
    BY <1>2, <1>a DEF CountFinished
  <2>2. pc[t] = "count" /\ pc'[t] = "compare"
    BY <1>2, <1>a DEF CountFinished
  <2>3. UNCHANGED <<freeBlocks, blocks, ReadyBlocks>>
    BY <1>2 DEF CountFinished
  <2> QED BY <2>1, <2>2, <2>3
<1>3. CASE CompareFinished(t)
  BY <1>3, <1>a DEF CompareFinished, Local
<1> QED BY <1>1, <1>2, <1>3

(* Nor does the caller, once the call is prepared. *)
LEMMA MainBufs ==
  ASSUME TypeOK, Launch \/ Finish \/ Destruct \/ UNCHANGED vars
  PROVE  /\ \A u \in Threads : KeepsBuf(u)
         /\ UNCHANGED <<freeBlocks, blocks, ReadyBlocks>>
<1>a. pc \in [Threads -> Labels] /\ th \in [Threads -> Local]
  BY DEF TypeOK
<1>0. Threads # {}
  BY MtCoderAssumption DEF Threads
<1> SUFFICES ASSUME NEW u \in Threads
             PROVE  KeepsBuf(u) /\ UNCHANGED <<freeBlocks, blocks, ReadyBlocks>>
  BY <1>0
<1>b. th[u] \in Local
  BY <1>a
<1> DEFINE l == [th[u] EXCEPT !.startEvent = TRUE, !.stop = FALSE]
           m == [th[u] EXCEPT !.stop = TRUE, !.startEvent = TRUE]
<1>c. l.bi = th[u].bi /\ l.wi = th[u].wi /\ l.bufIndex = th[u].bufIndex
  BY <1>b, KeepSlots, KeepBufIndex
<1>d. m.bi = th[u].bi /\ m.wi = th[u].wi /\ m.bufIndex = th[u].bufIndex
  BY <1>b, KeepSlots, KeepBufIndex
<1>1. CASE Launch
  <2>1. th'[u] \in {th[u], l}
    BY <1>1, <1>a DEF Launch
  <2>2. th'[u].bi = th[u].bi /\ th'[u].wi = th[u].wi /\ th'[u].bufIndex = th[u].bufIndex
    BY <1>c, <2>1
  <2>3. pc'[u] = pc[u] \/ (pc[u] = "none" /\ pc'[u] = "start")
    BY <1>1, <1>a DEF Launch, Created
  <2>4. KeepsBuf(u)
    BY <2>2, <2>3 DEF KeepsBuf, SlotsOf, Filling, Writing
  <2> QED BY <1>1, <2>4 DEF Launch, writer
<1>2. CASE Finish
  BY <1>2 DEF Finish, KeepsBuf, SlotsOf, Filling, Writing, writer
<1>3. CASE Destruct
  <2>1. th'[u] \in {th[u], m}
    BY <1>3, <1>a DEF Destruct
  <2>2. th'[u].bi = th[u].bi /\ th'[u].wi = th[u].wi /\ th'[u].bufIndex = th[u].bufIndex
    BY <1>d, <2>1
  <2>3. KeepsBuf(u)
    BY <1>3, <2>2 DEF Destruct, KeepsBuf, SlotsOf, Filling, Writing
  <2> QED BY <1>3, <2>3 DEF Destruct, writer
<1>4. CASE UNCHANGED vars
  BY <1>4 DEF vars, KeepsBuf, SlotsOf, Filling, Writing, writer
<1> QED BY <1>1, <1>2, <1>3, <1>4

-----------------------------------------------------------------------------
(* Taking a buffer off the list, and putting one of the ring's back.       *)
LEMMA ListTail ==
  ASSUME freeBlocks \in Seq(Bufs), freeBlocks # << >>, freeBlocks' = Tail(freeBlocks), ListOK
  PROVE  ListOK' /\ FreeBufs' = FreeBufs \ {Head(freeBlocks)} /\ Head(freeBlocks) \in FreeBufs
<1>1. /\ Len(freeBlocks) \in Nat \ {0} /\ Len(freeBlocks') = Len(freeBlocks) - 1
      /\ \A i \in 1 .. Len(freeBlocks') : freeBlocks'[i] = freeBlocks[i + 1]
      /\ Head(freeBlocks) = freeBlocks[1]
  OBVIOUS
<1>2. ListOK'
  BY <1>1 DEF ListOK
<1>3. FreeBufs' \subseteq FreeBufs \ {Head(freeBlocks)}
  BY <1>1 DEF ListOK, FreeBufs
<1>4. ASSUME NEW b \in FreeBufs, b # Head(freeBlocks) PROVE b \in FreeBufs'
  <2>1. PICK i \in 1 .. Len(freeBlocks) : freeBlocks[i] = b
    BY <1>4 DEF FreeBufs
  <2>2. i - 1 \in 1 .. Len(freeBlocks') /\ freeBlocks'[i - 1] = b
    BY <1>1, <1>4, <2>1
  <2> QED BY <2>2 DEF FreeBufs
<1>5. Head(freeBlocks) \in FreeBufs
  BY <1>1 DEF FreeBufs
<1> QED BY <1>2, <1>3, <1>4, <1>5

(* A buffer put in front of the list of free buffers is one of them, and   *)
(* the rest is as before.                                                  *)
LEMMA ListCons ==
  ASSUME freeBlocks \in Seq(Bufs), NEW b \in Slots, b \notin FreeBufs,
         freeBlocks' = <<b>> \o freeBlocks, ListOK
  PROVE  ListOK' /\ FreeBufs' = FreeBufs \cup {b}
<1>1. /\ Len(freeBlocks) \in Nat /\ Len(freeBlocks') = Len(freeBlocks) + 1
      /\ freeBlocks'[1] = b
      /\ \A i \in 2 .. Len(freeBlocks') : freeBlocks'[i] = freeBlocks[i - 1]
  BY DEF Slots
<1>2. \A i \in 1 .. Len(freeBlocks) : freeBlocks[i] # b
  BY DEF FreeBufs
<1>3. ListOK'
  <2> SUFFICES ASSUME NEW i \in 1 .. Len(freeBlocks'), NEW j \in 1 .. Len(freeBlocks')
               PROVE  /\ freeBlocks'[i] = freeBlocks'[j] => i = j
                      /\ i < j /\ freeBlocks'[j] \in Slots => freeBlocks'[i] \in Slots
    BY DEF ListOK
  <2>1. \A k \in 2 .. Len(freeBlocks') : k - 1 \in 1 .. Len(freeBlocks)
    BY <1>1
  <2>2. CASE i = 1
    BY <1>1, <1>2, <2>1, <2>2
  <2>3. CASE j = 1
    BY <1>1, <1>2, <2>1, <2>3
  <2>4. CASE i # 1 /\ j # 1
    <3>1. /\ i \in 2 .. Len(freeBlocks') /\ j \in 2 .. Len(freeBlocks')
          /\ i \in Nat /\ j \in Nat
      BY <1>1, <2>4
    <3>2. /\ i - 1 \in 1 .. Len(freeBlocks) /\ freeBlocks'[i] = freeBlocks[i - 1]
          /\ j - 1 \in 1 .. Len(freeBlocks) /\ freeBlocks'[j] = freeBlocks[j - 1]
      BY <1>1, <2>1, <3>1
    <3>3. /\ freeBlocks[i - 1] = freeBlocks[j - 1] => i - 1 = j - 1
          /\ i - 1 < j - 1 /\ freeBlocks[j - 1] \in Slots => freeBlocks[i - 1] \in Slots
      BY <3>2 DEF ListOK
    <3> QED BY <3>1, <3>2, <3>3
  <2> QED BY <2>2, <2>3, <2>4
<1>4. FreeBufs' \subseteq FreeBufs \cup {b}
  BY <1>1 DEF FreeBufs
<1>5. b \in FreeBufs'
  BY <1>1 DEF FreeBufs
<1>6. ASSUME NEW c \in FreeBufs PROVE c \in FreeBufs'
  <2>1. PICK i \in 1 .. Len(freeBlocks) : freeBlocks[i] = c
    BY DEF FreeBufs
  <2>2. i + 1 \in 1 .. Len(freeBlocks') /\ freeBlocks'[i + 1] = c
    BY <1>1, <2>1
  <2> QED BY <2>2 DEF FreeBufs
<1> QED BY <1>3, <1>4, <1>5, <1>6

(* A step of another thread at a slot that is not u's.                     *)
LEMMA OtherHolds ==
  ASSUME RingInv, NEW u \in Threads, th'[u] = th[u], pc'[u] = pc[u],
         NEW s, s \notin SlotsOf(u), NEW own, NEW own2, HoldsOwn(u, own),
         \A r \in Slots : r # s => own2[r] = own[r] /\ blocks'[r] = blocks[r]
  PROVE  HoldsOwn(u, own2)' /\ SlotsOf(u)' = SlotsOf(u)
<1>1. SlotsOf(u)' = SlotsOf(u)
  BY DEF SlotsOf, Filling, Writing
<1>2. CASE Filling(u)
  <2>1. th[u].bi \in Slots /\ th[u].bi # s
    BY <1>2, SlotsOfSlots
  <2>2. own2[th[u].bi] = own[th[u].bi] /\ blocks'[th[u].bi] = blocks[th[u].bi]
    BY <2>1
  <2> QED BY <1>1, <1>2, <2>2 DEF HoldsOwn, Filling
<1>3. CASE Writing(u)
  <2>1. th[u].wi \in Slots /\ th[u].wi # s
    BY <1>3, SlotsOfSlots
  <2>2. own2[th[u].wi] = own[th[u].wi] /\ blocks'[th[u].wi] = blocks[th[u].wi]
    BY <2>1
  <2> QED BY <1>1, <1>3, <2>2 DEF HoldsOwn, Filling, Writing
<1>4. CASE ~ Filling(u) /\ ~ Writing(u)
  BY <1>1, <1>4 DEF HoldsOwn, Filling, Writing
<1> QED BY <1>2, <1>3, <1>4

-----------------------------------------------------------------------------
(* The slot taken is nobody's, and has no buffer.                          *)
LEMMA TakeSlotBufs ==
  ASSUME RingInv, BufsOK, NEW t \in Threads, TakeSlot(t)
  PROVE  BufsOK'
<1>1. PICK own \in [Slots -> Slots \cup {NoIndex}] : OwnOK(own)
  BY DEF BufsOK
<1>2. /\ pc \in [Threads -> Labels] /\ th \in [Threads -> Local] /\ blockIndex \in Slots
  BY DEF RingInv, IInv, TypeOK
<1>3. /\ UNCHANGED <<blocks, ReadyBlocks, freeBlocks>>
      /\ pc[t] = "take" /\ pc' = [pc EXCEPT ![t] = "release_read"]
      /\ th' = [th EXCEPT ![t] = [@ EXCEPT !.bi = blockIndex, !.bufIndex = NoIndex]]
  BY DEF TakeSlot, writer
<1>4. SlotsOf(t) = {} /\ SlotsOf(t)' = {blockIndex}
  BY <1>2, <1>3 DEF SlotsOf, Filling, Writing, Local
<1>5. \A u \in Threads : u # t => th'[u] = th[u] /\ pc'[u] = pc[u]
  BY <1>2, <1>3
<1>6. \A u \in Threads : u # t => SlotsOf(u)' = SlotsOf(u)
  BY <1>5 DEF SlotsOf, Filling, Writing
<1>7. SlotsOwnedOnce'
  BY TakeSlotRing
<1>8. ~ Owned(blockIndex)
  BY <1>3, <1>4, <1>6, <1>7 DEF SlotsOwnedOnce, Owned
<1>9. own[blockIndex] = NoIndex
  BY <1>1, <1>2, <1>8 DEF OwnOK
<1>10. \A u \in Threads : HoldsOwn(u, own)'
  <2>1. ASSUME NEW u \in Threads, u # t PROVE HoldsOwn(u, own)'
    <3>1. HoldsOwn(u, own)
      BY <1>1 DEF OwnOK
    <3>2. blockIndex \notin SlotsOf(u)
      BY <1>8, <2>1 DEF Owned
    <3> QED BY <1>3, <1>5, <2>1, <3>1, <3>2, OtherHolds
  <2>2. HoldsOwn(t, own)'
    BY <1>2, <1>3, <1>9 DEF HoldsOwn, Filling, Local
  <2> QED BY <2>1, <2>2
<1>11. \A s : Owned(s) => Owned(s)'
  BY <1>3, <1>4, <1>6 DEF Owned
<1>12. FreeBufs' = FreeBufs
  BY <1>3 DEF FreeBufs
<1>13. OwnOK(own)'
  BY <1>1, <1>3, <1>10, <1>11, <1>12 DEF OwnOK
<1>14. ListOK'
  BY <1>3 DEF BufsOK, ListOK
<1> QED BY <1>1, <1>13, <1>14 DEF BufsOK

(* The thread's slot gets the first buffer of the list.                    *)
LEMMA TakeBufBufs ==
  ASSUME RingInv, BufsOK, NEW t \in Threads, TakeBuf(t)
  PROVE  BufsOK'
<1>1. PICK own \in [Slots -> Slots \cup {NoIndex}] : OwnOK(own)
  BY DEF BufsOK
<1>2. /\ pc \in [Threads -> Labels] /\ th \in [Threads -> Local] /\ freeBlocks \in Seq(Bufs)
      /\ SlotsOwnedOnce
  BY DEF RingInv, IInv, TypeOK
<1>3. pc[t] = "code"
  BY DEF TakeBuf
<1>4. freeBlocks # << >> /\ Head(freeBlocks) \in Slots
  BY <1>3, FindsBuffer
<1>5. /\ UNCHANGED <<blocks, ReadyBlocks>> /\ freeBlocks' = Tail(freeBlocks)
      /\ pc' = [pc EXCEPT ![t] = "coding"]
      /\ th' = [th EXCEPT ![t].bufIndex = Head(freeBlocks)]
  BY <1>4 DEF TakeBuf, writer, FirstFree
<1>6. ListOK' /\ FreeBufs' = FreeBufs \ {Head(freeBlocks)} /\ Head(freeBlocks) \in FreeBufs
  BY <1>2, <1>4, <1>5, ListTail DEF BufsOK
<1>7. PICK b \in Slots : b = Head(freeBlocks)
  BY <1>4
<1>8. b # NoIndex
  BY MtCoderAssumption DEF Slots, NoIndex
<1>9. PICK s \in Slots : s = th[t].bi
  BY <1>3, SlotsOfSlots DEF Filling
<1>10. own[s] = NoIndex /\ s \in SlotsOf(t) /\ ~ ReadyBlocks[s]
  BY <1>1, <1>2, <1>3, <1>9, SlotsOfSlots DEF OwnOK, HoldsOwn, Filling, SlotsOwnedOnce
<1> DEFINE own2 == [own EXCEPT ![s] = b]
<1>11. /\ own2 \in [Slots -> Slots \cup {NoIndex}]
       /\ own2[s] = b
       /\ \A r \in Slots : r # s => own2[r] = own[r]
  BY <1>1
<1> HIDE DEF own2
<1>12. \A u \in Threads : u # t => th'[u] = th[u] /\ pc'[u] = pc[u] /\ s \notin SlotsOf(u)
  BY <1>2, <1>5, <1>10 DEF SlotsOwnedOnce
<1>13. \A u \in Threads : u # t => HoldsOwn(u, own2)' /\ SlotsOf(u)' = SlotsOf(u)
  <2> SUFFICES ASSUME NEW u \in Threads, u # t PROVE HoldsOwn(u, own2)' /\ SlotsOf(u)' = SlotsOf(u)
    OBVIOUS
  <2>1. HoldsOwn(u, own)
    BY <1>1 DEF OwnOK
  <2> QED BY <1>5, <1>11, <1>12, <2>1, OtherHolds
<1>14. th'[t].bi = s /\ th'[t].bufIndex = b /\ pc'[t] = "coding"
  BY <1>2, <1>5, <1>7, <1>9 DEF Local
<1>15. HoldsOwn(t, own2)' /\ SlotsOf(t)' = SlotsOf(t)
  BY <1>3, <1>9, <1>11, <1>14 DEF HoldsOwn, SlotsOf, Filling
<1>16. \A r : Owned(r)' = Owned(r)
  BY <1>5, <1>13, <1>15 DEF Owned
<1>17. Owned(s)
  BY <1>10 DEF Owned
<1>18. \A r \in Slots : own[r] # NoIndex => own[r] # b
  BY <1>1, <1>6, <1>7 DEF OwnOK
<1>19. \A r \in Slots : own2[r] # NoIndex =>
         /\ Owned(r)' /\ own2[r] \notin FreeBufs'
         /\ \A q \in Slots : own2[q] = own2[r] => q = r
  BY <1>1, <1>6, <1>7, <1>8, <1>11, <1>16, <1>17, <1>18 DEF OwnOK
<1>20. \A c \in Slots : c \in FreeBufs' \/ \E r \in Slots : own2[r] = c
  <2> SUFFICES ASSUME NEW c \in Slots, c \notin FreeBufs' PROVE \E r \in Slots : own2[r] = c
    OBVIOUS
  <2>1. CASE c = b
    BY <1>11, <2>1
  <2>2. CASE c # b
    <3>1. PICK r \in Slots : own[r] = c
      BY <1>1, <1>6, <1>7, <2>2 DEF OwnOK
    <3>2. r # s
      BY <1>10, <3>1, MtCoderAssumption DEF Slots, NoIndex
    <3> QED BY <1>11, <3>1, <3>2
  <2> QED BY <2>1, <2>2
<1>21. \A r \in Slots : ReadyBlocks'[r] => blocks'[r].bufIndex = own2[r]
  BY <1>1, <1>5, <1>10, <1>11 DEF OwnOK
<1>22. OwnOK(own2)'
  BY <1>13, <1>15, <1>19, <1>20, <1>21 DEF OwnOK
<1> QED BY <1>6, <1>11, <1>22 DEF BufsOK

(* The block's result goes to its slot, with the buffer.                   *)
LEMMA StoreBufs ==
  ASSUME RingInv, BufsOK, NEW t \in Threads, Code(t) \/ StoreFailed(t)
  PROVE  BufsOK'
<1>1. PICK own \in [Slots -> Slots \cup {NoIndex}] : OwnOK(own)
  BY DEF BufsOK
<1>2. /\ pc \in [Threads -> Labels] /\ th \in [Threads -> Local] /\ blocks \in [Slots -> SlotType]
      /\ SlotsOwnedOnce
  BY DEF RingInv, IInv, TypeOK
<1>3. /\ UNCHANGED <<ReadyBlocks, freeBlocks>> /\ pc[t] \in {"coding", "store"}
      /\ pc' = [pc EXCEPT ![t] = "publish"]
  BY DEF Code, StoreFailed, writer
<1>4. PICK s \in Slots : s = th[t].bi
  BY <1>3, SlotsOfSlots DEF Filling
<1>5. s \in SlotsOf(t) /\ ~ ReadyBlocks[s] /\ own[s] = th[t].bufIndex
  BY <1>1, <1>2, <1>3, <1>4, SlotsOfSlots DEF OwnOK, HoldsOwn, Filling, SlotsOwnedOnce
<1>6. th' = th \/ th' = [th EXCEPT ![t].res = ERR]
  BY DEF Code, StoreFailed
<1>7. /\ th'[t].bi = s /\ th'[t].bufIndex = own[s]
      /\ \A u \in Threads : u # t => th'[u] = th[u]
  BY <1>2, <1>4, <1>5, <1>6 DEF Local
<1>8. \E r : StoreSlot(t, r)
  BY DEF Code, StoreFailed
<1>9. blocks'[s].bufIndex = own[s] /\ \A r \in Slots : r # s => blocks'[r] = blocks[r]
  BY <1>2, <1>4, <1>5, <1>8 DEF StoreSlot
<1>10. \A u \in Threads : u # t => HoldsOwn(u, own)' /\ SlotsOf(u)' = SlotsOf(u)
  <2> SUFFICES ASSUME NEW u \in Threads, u # t PROVE HoldsOwn(u, own)' /\ SlotsOf(u)' = SlotsOf(u)
    OBVIOUS
  <2>1. HoldsOwn(u, own)
    BY <1>1 DEF OwnOK
  <2>2. s \notin SlotsOf(u) /\ pc'[u] = pc[u]
    BY <1>2, <1>3, <1>5 DEF SlotsOwnedOnce
  <2> QED BY <1>7, <1>9, <2>1, <2>2, OtherHolds
<1>11. HoldsOwn(t, own)' /\ SlotsOf(t)' = SlotsOf(t)
  BY <1>2, <1>3, <1>4, <1>7, <1>9 DEF HoldsOwn, SlotsOf, Filling
<1>12. \A r : Owned(r)' = Owned(r)
  BY <1>3, <1>10, <1>11 DEF Owned
<1>13. FreeBufs' = FreeBufs
  BY <1>3 DEF FreeBufs
<1>14. \A r \in Slots : ReadyBlocks'[r] => blocks'[r].bufIndex = own[r]
  BY <1>1, <1>3, <1>9 DEF OwnOK
<1>15. OwnOK(own)'
  BY <1>1, <1>10, <1>11, <1>12, <1>13, <1>14 DEF OwnOK
<1>16. ListOK'
  BY <1>3 DEF BufsOK, ListOK
<1> QED BY <1>1, <1>15, <1>16 DEF BufsOK

-----------------------------------------------------------------------------
(* The slot goes from the thread that fills it to the writer, the same     *)
(* thread, or to the list of ready blocks.                                 *)
LEMMA PublishBufs ==
  ASSUME RingInv, BufsOK, NEW t \in Threads, Publish(t)
  PROVE  BufsOK'
<1>1. PICK own \in [Slots -> Slots \cup {NoIndex}] : OwnOK(own)
  BY DEF BufsOK
<1>2. /\ pc \in [Threads -> Labels] /\ th \in [Threads -> Local] /\ ReadyBlocks \in [Slots -> BOOLEAN]
      /\ SlotsOwnedOnce
  BY DEF RingInv, IInv, TypeOK
<1>3. /\ UNCHANGED <<blocks, freeBlocks>> /\ pc[t] = "publish"
      /\ \A u \in Threads : u # t => th'[u] = th[u] /\ pc'[u] = pc[u]
  BY <1>2 DEF Publish
<1>4. PICK s \in Slots : s = th[t].bi
  BY <1>3, SlotsOfSlots DEF Filling
<1>5. SlotsOf(t) = {s} /\ own[s] = th[t].bufIndex /\ own[s] = blocks[s].bufIndex
  BY <1>1, <1>3, <1>4 DEF SlotsOf, OwnOK, HoldsOwn, Filling
<1>6. \A u \in Threads : u # t => HoldsOwn(u, own)' /\ SlotsOf(u)' = SlotsOf(u)
  <2> SUFFICES ASSUME NEW u \in Threads, u # t PROVE HoldsOwn(u, own)' /\ SlotsOf(u)' = SlotsOf(u)
    OBVIOUS
  <2>1. HoldsOwn(u, own)
    BY <1>1 DEF OwnOK
  <2>2. s \notin SlotsOf(u)
    BY <1>2, <1>5 DEF SlotsOwnedOnce
  <2> QED BY <1>3, <2>1, <2>2, OtherHolds
<1>7. CASE writeIndex = s
  <2>1. /\ ReadyBlocks' = ReadyBlocks /\ pc'[t] = "write"
        /\ th' = [th EXCEPT ![t] = [@ EXCEPT !.wi = s, !.res = FirstError(writeRes, th[t].res)]]
    BY <1>2, <1>4, <1>7 DEF Publish
  <2>2. th'[t].wi = s /\ th'[t].bufIndex = th[t].bufIndex
    BY <1>2, <2>1 DEF Local
  <2>3. HoldsOwn(t, own)' /\ SlotsOf(t)' = {s}
    BY <1>5, <2>1, <2>2 DEF HoldsOwn, SlotsOf, Filling, Writing
  <2>4. \A r : Owned(r)' = Owned(r)
    BY <1>5, <1>6, <2>1, <2>3 DEF Owned
  <2>5. FreeBufs' = FreeBufs
    BY <1>3 DEF FreeBufs
  <2>6. OwnOK(own)'
    BY <1>1, <1>3, <1>6, <2>1, <2>3, <2>4, <2>5 DEF OwnOK
  <2>7. ListOK'
    BY <1>3 DEF BufsOK, ListOK
  <2> QED BY <1>1, <2>6, <2>7 DEF BufsOK
<1>8. CASE writeIndex # s
  <2>1. /\ ReadyBlocks' = [ReadyBlocks EXCEPT ![s] = TRUE] /\ pc'[t] \in {"count", "acquire"}
    BY <1>2, <1>4, <1>8 DEF Publish, AfterBlock
  <2>2. HoldsOwn(t, own)'
    BY <2>1 DEF HoldsOwn, Filling
  <2>3. \A r \in Slots : Owned(r) => Owned(r)'
    BY <1>2, <1>5, <1>6, <2>1 DEF Owned
  <2>4. FreeBufs' = FreeBufs
    BY <1>3 DEF FreeBufs
  <2>5. \A r \in Slots : ReadyBlocks'[r] => blocks'[r].bufIndex = own[r]
    BY <1>1, <1>2, <1>3, <1>5, <2>1 DEF OwnOK
  <2>6. OwnOK(own)'
    BY <1>1, <1>6, <2>2, <2>3, <2>4, <2>5 DEF OwnOK
  <2>7. ListOK'
    BY <1>3 DEF BufsOK, ListOK
  <2> QED BY <1>1, <2>6, <2>7 DEF BufsOK
<1> QED BY <1>7, <1>8

(* The buffer of the slot that was written is free again, in front of the  *)
(* list; the next slot keeps its own.                                      *)
LEMMA AdvanceBufs ==
  ASSUME RingInv, BufsOK, NEW t \in Threads, Advance(t)
  PROVE  BufsOK'
<1>1. PICK own \in [Slots -> Slots \cup {NoIndex}] : OwnOK(own)
  BY DEF BufsOK
<1>2. /\ pc \in [Threads -> Labels] /\ th \in [Threads -> Local] /\ ReadyBlocks \in [Slots -> BOOLEAN]
      /\ SlotsOwnedOnce /\ freeBlocks \in Seq(Bufs)
  BY DEF RingInv, IInv, TypeOK
<1>3. pc[t] = "advance"
  BY DEF Advance
<1>4. PICK s \in Slots : s = th[t].wi
  BY <1>3, SlotsOfSlots DEF Writing
<1>5. SlotsOf(t) = {s} /\ own[s] = th[t].bufIndex /\ ~ ReadyBlocks[s]
  BY <1>1, <1>2, <1>3, <1>4 DEF SlotsOf, OwnOK, HoldsOwn, Filling, Writing, SlotsOwnedOnce
<1>6. PICK next \in Slots : next = NextSlot(s)
  BY NextSlotType
<1> DEFINE more == ReadyBlocks[next]
<1>7. /\ UNCHANGED blocks
      /\ freeBlocks' = IF own[s] # NoIndex THEN <<own[s]>> \o freeBlocks ELSE freeBlocks
      /\ pc' = [pc EXCEPT ![t] = IF more THEN "release_more" ELSE "release_last"]
      /\ th' = [th EXCEPT ![t] = [@ EXCEPT !.wi = next, !.bufIndex = NoIndex]]
      /\ ReadyBlocks' = IF more THEN [ReadyBlocks EXCEPT ![next] = FALSE] ELSE ReadyBlocks
  BY <1>4, <1>5, <1>6 DEF Advance
<1>8. \A u \in Threads : u # t => th'[u] = th[u] /\ pc'[u] = pc[u] /\ s \notin SlotsOf(u)
  BY <1>2, <1>5, <1>7 DEF SlotsOwnedOnce
<1> DEFINE own2 == [own EXCEPT ![s] = NoIndex]
<1>9. /\ own2 \in [Slots -> Slots \cup {NoIndex}]
      /\ own2[s] = NoIndex
      /\ \A r \in Slots : r # s => own2[r] = own[r]
  BY <1>1
<1> HIDE DEF own2
<1>10. \A u \in Threads : u # t => HoldsOwn(u, own2)' /\ SlotsOf(u)' = SlotsOf(u)
  <2> SUFFICES ASSUME NEW u \in Threads, u # t PROVE HoldsOwn(u, own2)' /\ SlotsOf(u)' = SlotsOf(u)
    OBVIOUS
  <2>1. HoldsOwn(u, own)
    BY <1>1 DEF OwnOK
  <2> QED BY <1>7, <1>8, <1>9, <2>1, OtherHolds
<1>11. more => next # s /\ own2[next] = blocks[next].bufIndex
  BY <1>1, <1>5, <1>9 DEF OwnOK
<1>12. /\ th'[t].wi = next
       /\ pc'[t] = IF more THEN "release_more" ELSE "release_last"
  BY <1>2, <1>7 DEF Local
<1>13. HoldsOwn(t, own2)' /\ SlotsOf(t)' = IF more THEN {next} ELSE {}
  <2>1. CASE more
    <3>1. blocks'[next] = blocks[next]
      BY <1>7
    <3> QED BY <1>11, <1>12, <2>1, <3>1 DEF HoldsOwn, SlotsOf, Filling, Writing
  <2>2. CASE ~ more
    BY <1>12, <2>2 DEF HoldsOwn, SlotsOf, Filling, Writing
  <2> QED BY <2>1, <2>2
<1>14. \A r \in Slots : r # s /\ Owned(r) => Owned(r)'
  BY <1>2, <1>5, <1>7, <1>10, <1>13 DEF Owned
<1>15. own[s] # NoIndex => own[s] \in Slots /\ own[s] \notin FreeBufs
  BY <1>1 DEF OwnOK
<1>16. /\ ListOK'
       /\ FreeBufs' = IF own[s] # NoIndex THEN FreeBufs \cup {own[s]} ELSE FreeBufs
  <2>1. CASE own[s] # NoIndex
    BY <1>2, <1>7, <1>15, <2>1, ListCons DEF BufsOK
  <2>2. CASE own[s] = NoIndex
    BY <1>7, <2>2 DEF BufsOK, ListOK, FreeBufs
  <2> QED BY <2>1, <2>2
<1>17. \A r \in Slots : own2[r] # NoIndex =>
         /\ Owned(r)' /\ own2[r] \notin FreeBufs'
         /\ \A q \in Slots : own2[q] = own2[r] => q = r
  <2> SUFFICES ASSUME NEW r \in Slots, own2[r] # NoIndex
               PROVE  /\ Owned(r)' /\ own2[r] \notin FreeBufs'
                      /\ \A q \in Slots : own2[q] = own2[r] => q = r
    OBVIOUS
  <2>1. r # s /\ own2[r] = own[r]
    BY <1>9
  <2>2. /\ Owned(r) /\ own[r] \notin FreeBufs
        /\ \A q \in Slots : own[q] = own[r] => q = r
    BY <1>1, <2>1 DEF OwnOK
  <2>3. Owned(r)'
    BY <1>14, <2>1, <2>2
  <2>4. own2[r] \notin FreeBufs'
    BY <1>16, <2>1, <2>2
  <2> QED BY <1>9, <2>1, <2>2, <2>3, <2>4
<1>18. \A c \in Slots : c \in FreeBufs' \/ \E r \in Slots : own2[r] = c
  <2> SUFFICES ASSUME NEW c \in Slots, c \notin FreeBufs' PROVE \E r \in Slots : own2[r] = c
    OBVIOUS
  <2>1. c # NoIndex
    BY MtCoderAssumption DEF Slots, NoIndex
  <2>2. PICK r \in Slots : own[r] = c
    BY <1>1, <1>16 DEF OwnOK
  <2>3. r # s
    BY <1>16, <2>1, <2>2
  <2> QED BY <1>9, <2>2, <2>3
<1>19. \A r \in Slots : ReadyBlocks'[r] => blocks'[r].bufIndex = own2[r]
  BY <1>1, <1>2, <1>5, <1>7, <1>9 DEF OwnOK
<1>20. OwnOK(own2)'
  BY <1>10, <1>13, <1>17, <1>18, <1>19 DEF OwnOK
<1> QED BY <1>9, <1>16, <1>20 DEF BufsOK

(* The writer takes the next slot's buffer for its own.                    *)
LEMMA ReleaseSlotBufs ==
  ASSUME RingInv, BufsOK, NEW t \in Threads, ReleaseSlot(t)
  PROVE  BufsOK'
<1>1. PICK own \in [Slots -> Slots \cup {NoIndex}] : OwnOK(own)
  BY DEF BufsOK
<1>2. pc \in [Threads -> Labels] /\ th \in [Threads -> Local]
  BY DEF RingInv, IInv, TypeOK
<1>3. /\ UNCHANGED <<blocks, ReadyBlocks, freeBlocks>>
      /\ \A u \in Threads : u # t => th'[u] = th[u] /\ pc'[u] = pc[u]
  BY <1>2 DEF ReleaseSlot, writer
<1>4. HoldsOwn(t, own)
  BY <1>1 DEF OwnOK
<1>5. HoldsOwn(t, own)' /\ SlotsOf(t)' = SlotsOf(t)
  <2>1. CASE pc[t] = "release_more"
    <3> DEFINE slot == blocks[th[t].wi]
    <3>1. /\ pc'[t] = "write"
          /\ th' = [th EXCEPT ![t] = [@ EXCEPT !.res = FirstError(th[t].res, slot.res),
                                               !.bufIndex = slot.bufIndex,
                                               !.finished = slot.finished]]
      BY <1>2, <2>1 DEF ReleaseSlot
    <3>2. th'[t].wi = th[t].wi /\ th'[t].bufIndex = slot.bufIndex
      BY <1>2, <3>1 DEF Local
    <3> QED BY <1>4, <2>1, <3>1, <3>2 DEF HoldsOwn, SlotsOf, Filling, Writing
  <2>2. CASE pc[t] = "release_last"
    <3>1. pc'[t] \in {"count", "acquire"}
      BY <1>2, <2>2 DEF ReleaseSlot, AfterBlock
    <3> QED BY <2>2, <3>1 DEF HoldsOwn, SlotsOf, Filling, Writing
  <2> QED BY <2>1, <2>2 DEF ReleaseSlot
<1>6. \A u \in Threads : HoldsOwn(u, own)' /\ SlotsOf(u)' = SlotsOf(u)
  <2>1. ASSUME NEW u \in Threads, u # t PROVE HoldsOwn(u, own)' /\ SlotsOf(u)' = SlotsOf(u)
    <3>1. HoldsOwn(u, own)
      BY <1>1 DEF OwnOK
    <3> QED BY <1>3, <2>1, <3>1 DEF HoldsOwn, SlotsOf, Filling, Writing
  <2> QED BY <1>5, <2>1
<1>7. \A r : Owned(r)' = Owned(r)
  BY <1>3, <1>6 DEF Owned
<1>8. OwnOK(own)'
  BY <1>1, <1>3, <1>6, <1>7 DEF OwnOK, FreeBufs
<1>9. ListOK'
  BY <1>3 DEF BufsOK, ListOK
<1> QED BY <1>1, <1>8, <1>9 DEF BufsOK

(* At its beginning the call makes the list of all buffers, in order.      *)
LEMMA CallBufs ==
  ASSUME NoBufsYet, Call
  PROVE  BufsOK'
<1>1. freeBlocks' = [i \in 1 .. BufsMax |-> i - 1] /\ ReadyBlocks' = [s \in Slots |-> FALSE]
      /\ \A t \in Threads : pc'[t] = "none"
  BY DEF Call, NoBufsYet
<1>2. Len(freeBlocks') = BufsMax
  BY <1>1, MtCoderAssumption
<1>3. ListOK'
  BY <1>1, <1>2, MtCoderAssumption DEF ListOK, Slots
<1> DEFINE own == [s \in Slots |-> NoIndex]
<1>4. \A s \in Slots : own[s] = NoIndex
  OBVIOUS
<1>5. own \in [Slots -> Slots \cup {NoIndex}]
  OBVIOUS
<1> HIDE DEF own
<1>6. \A b \in Slots : b \in FreeBufs'
  <2> SUFFICES ASSUME NEW b \in Slots PROVE b \in FreeBufs'
    OBVIOUS
  <2>1. b + 1 \in 1 .. Len(freeBlocks') /\ freeBlocks'[b + 1] = b
    BY <1>1, <1>2, MtCoderAssumption DEF Slots
  <2> QED BY <2>1 DEF FreeBufs
<1>7. \A t \in Threads : HoldsOwn(t, own)'
  BY <1>1 DEF HoldsOwn, Filling
<1>8. \A s \in Slots : ~ ReadyBlocks'[s]
  BY <1>1
<1>9. OwnOK(own)'
  BY <1>4, <1>6, <1>7, <1>8 DEF OwnOK
<1> QED BY <1>3, <1>5, <1>9 DEF BufsOK

(* Every step of one call keeps the buffers right. *)
LEMMA NextBufs == MaxCalls = 1 /\ RingInv /\ BufsInv /\ [Next]_vars => BufsInv'
<1> SUFFICES ASSUME MaxCalls = 1, RingInv, BufsInv, [Next]_vars PROVE BufsInv'
  OBVIOUS
<1>a. TypeOK /\ Fresh
  BY DEF RingInv, IInv
<1>0. CASE calls = 0
  <2>1. NoBufsYet
    BY <1>0 DEF BufsInv
  <2>2. CASE Call
    <3>1. calls' # 0
      BY <1>0, <2>2 DEF Call
    <3> QED BY <2>1, <2>2, <3>1, CallBufs DEF BufsInv
  <2>3. ASSUME NEW t \in Threads PROVE ~ Thread(t)
    BY <2>1 DEF NoBufsYet, Thread, WaitStart, AcquireRead, ReadBlock, TakeSlot, ReleaseRead,
                TakeBuf, Code, StoreFailed, Publish, Write, Advance, ReleaseSlot,
                CountFinished, CompareFinished
  <2>4. ~ Launch
    BY <1>0, <1>a DEF Launch, Fresh
  <2>5. CASE Finish \/ Destruct \/ UNCHANGED vars
    <3>1. UNCHANGED <<calls, pc, ReadyBlocks>>
      BY <2>5 DEF Finish, Destruct, vars, writer, main
    <3> QED BY <1>0, <2>1, <3>1 DEF BufsInv, NoBufsYet
  <2> QED BY <2>2, <2>3, <2>4, <2>5 DEF Next, Main, Done
<1>b. CASE calls # 0
  <2>a. BufsOK
    BY <1>b DEF BufsInv
  <2>b. ~ Call
    BY <1>a, <1>b DEF Call, Fresh
  <2>c. BufsOK'
    <3>1. ASSUME NEW t \in Threads, TakeSlot(t) PROVE BufsOK'
      BY <2>a, <3>1, TakeSlotBufs
    <3>2. ASSUME NEW t \in Threads, TakeBuf(t) PROVE BufsOK'
      BY <2>a, <3>2, TakeBufBufs
    <3>3. ASSUME NEW t \in Threads, Code(t) \/ StoreFailed(t) PROVE BufsOK'
      BY <2>a, <3>3, StoreBufs
    <3>4. ASSUME NEW t \in Threads, Publish(t) PROVE BufsOK'
      BY <2>a, <3>4, PublishBufs
    <3>5. ASSUME NEW t \in Threads, Advance(t) PROVE BufsOK'
      BY <2>a, <3>5, AdvanceBufs
    <3>6. ASSUME NEW t \in Threads, ReleaseSlot(t) PROVE BufsOK'
      BY <2>a, <3>6, ReleaseSlotBufs
    <3>7. ASSUME NEW t \in Threads,
                 WaitStart(t) \/ AcquireRead(t) \/ ReadBlock(t) \/ ReleaseRead(t)
          PROVE BufsOK'
      BY <1>a, <2>a, <3>7, ReadBufs, KeepsBufs
    <3>8. ASSUME NEW t \in Threads, Write(t) \/ CountFinished(t) \/ CompareFinished(t)
          PROVE BufsOK'
      BY <1>a, <2>a, <3>8, WriteBufs, KeepsBufs
    <3>9. CASE Launch \/ Finish \/ Destruct \/ UNCHANGED vars
      BY <1>a, <2>a, <3>9, MainBufs, KeepsBufs
    <3> QED BY <2>b, <3>1, <3>2, <3>3, <3>4, <3>5, <3>6, <3>7, <3>8, <3>9 DEF Next, Main, Done, Thread
  <2>d. calls' = calls
    <3>1. ASSUME NEW t \in Threads, Thread(t) PROVE calls' = calls
      BY <3>1 DEF Thread, WaitStart, AcquireRead, ReadBlock, TakeSlot, ReleaseRead,
                  TakeBuf, Code, StoreFailed, Publish, Write, Advance, ReleaseSlot,
                  CountFinished, CompareFinished, main
    <3>2. CASE Launch \/ Finish \/ Destruct \/ UNCHANGED vars
      BY <3>2 DEF Launch, Finish, Destruct, vars, main
    <3> QED BY <2>b, <3>1, <3>2 DEF Next, Main, Done
  <2> QED BY <1>b, <2>c, <2>d DEF BufsInv
<1> QED BY <1>0, <1>b

-----------------------------------------------------------------------------
(* In one call of MtCoder_Code no output buffer is handed out twice, the   *)
(* buffers past the ring's size are never used, and a thread that takes a  *)
(* buffer off the list always finds one: for every number of threads,      *)
(* slots, buffers and blocks and every set of failures.                    *)
THEOREM BufsSafe == MaxCalls = 1 /\ Spec => []BufsOwnedOnce
<1> SUFFICES ASSUME MaxCalls = 1 PROVE Spec => []BufsOwnedOnce
  OBVIOUS
<1>1. Init => RingOK /\ SlotsOwnedOnce
  BY NoneRing DEF Init, NoneYet
<1>2. Init => BufsInv
  BY DEF Init, BufsInv, NoBufsYet
<1>3. (Init => IInv) /\ (IInv /\ [Next]_vars => IInv')
  BY Inductive
<1>4. IInv /\ RingOK /\ SlotsOwnedOnce /\ [Next]_vars => RingOK' /\ SlotsOwnedOnce'
  BY NextRing DEF RingInv
<1>5. IInv /\ RingOK /\ SlotsOwnedOnce /\ BufsInv /\ [Next]_vars => BufsInv'
  BY NextBufs DEF RingInv
<1>6. IInv /\ RingOK /\ SlotsOwnedOnce /\ BufsInv => BufsOwnedOnce
  BY BufsOwned DEF RingInv
<1> QED BY <1>1, <1>2, <1>3, <1>4, <1>5, <1>6, PTL DEF Spec

-----------------------------------------------------------------------------
(***************************************************************************)
(* One call of MtCoder.tla implements OrderedCoder: the blocks             *)
(* come out in input order, a gap only follows a failure, and SZ_OK means  *)
(* that all of them are out, for any number of threads, slots, buffers and *)
(* blocks and every set of failures.                                       *)
(*                                                                         *)
(* What makes it so: the slots in use hold consecutive blocks of the       *)
(* input, from the one that is next to be written (its number is base in   *)
(* what follows) to the one that was read last.                            *)
(***************************************************************************)

(* The number of the block that slot s is for, and of the next to be read. *)
Number(base, s) == base + Dist(Oldest, s)
NextBlock(base) == base + InFlight

(* A thread inside the loop of ThreadFunc2, past the wait for readEvent;   *)
(* past the reading section.                                               *)
InBlock(t) == InThreadFunc2(t) /\ pc[t] # "acquire"
PastRead(t) == InBlock(t) /\ ~ Reading(t)

(* Where block n begins, and that there is one.                            *)
StartsAt(n) ==
  /\ readProcessed = n * BlockSize
  /\ IF InStream THEN readProcessed <= InputLen
     ELSE readProcessed < InputLen \/ n = 0

(* After block n - 1 was read: it was the last one, or block n follows.    *)
Followed(n, last) == IF last THEN n = NumBlocks ELSE StartsAt(n)

(* A thread's own block, until it is coded.                                *)
HoldsBlock(base, t) ==
  /\ th[t].inBuf = Number(base, th[t].bi)
  /\ Number(base, th[t].bi) < NumBlocks

(* Buffer b holds the block of slot s.                                     *)
Coded(base, s, b) ==
  b # NoIndex /\ outBuf[b] = Number(base, s) /\ Number(base, s) < NumBlocks

(* What is known about the block that was stored in slot s.                *)
Kept(base, s) ==
  /\ blocks[s].res # OK => progressRes # OK
  /\ blocks[s].finished => stopReading
  /\ blocks[s].res = OK => Coded(base, s, blocks[s].bufIndex)

ReaderOK(base, t) ==
  LET n == NextBlock(base)
  IN  /\ ~ stopReading
      /\ pc[t] = "read" => StartsAt(n)
      /\ pc[t] = "take" /\ th[t].res = OK =>
           th[t].inBuf = n /\ n < NumBlocks /\ Followed(n + 1, th[t].finished)
      /\ pc[t] = "release_read" /\ th[t].res = OK =>
           HoldsBlock(base, t) /\ Followed(n, th[t].finished)

(* Whoever has an error has told it to mtProgress, whoever has a last      *)
(* block or leaves does so after reading has stopped, and a block that is  *)
(* without error is where it should be.                                    *)
ThreadOK(base, t) ==
  /\ InBlock(t) /\ th[t].res # OK => progressRes # OK
  /\ PastRead(t) /\ th[t].finished => stopReading
  /\ pc[t] = "count" => stopReading \/ progressRes # OK
  /\ Reading(t) => ReaderOK(base, t)
  /\ pc[t] \in {"code", "coding"} => th[t].res = OK /\ HoldsBlock(base, t)
  /\ pc[t] = "coding" => th[t].bufIndex # NoIndex
  /\ pc[t] = "store" => th[t].res # OK
  /\ pc[t] = "publish" =>
       /\ Kept(base, th[t].bi)
       /\ blocks[th[t].bi] = [res |-> th[t].res, bufIndex |-> th[t].bufIndex,
                              finished |-> th[t].finished]
  /\ pc[t] = "write" /\ th[t].res = OK => Coded(base, th[t].wi, th[t].bufIndex)
  /\ pc[t] = "release_more" => Kept(base, th[t].wi)

(* Between two readers.                                                    *)
NextRead(base) ==
  /\ (readEvent \/ mainPc = "launch") /\ ~ stopReading => StartsAt(NextBlock(base))
  /\ stopReading /\ progressRes = OK => NextBlock(base) = NumBlocks

(* The number after that of the last block written.                        *)
WrittenTo == IF written = << >> THEN 0 ELSE written[Len(written)] + 1

WrittenInOrder(base) ==
  LET n == IF \E t \in Threads : pc[t] = "advance" THEN base + 1 ELSE base
  IN  /\ WrittenTo \in Nat /\ WrittenTo <= n
      /\ progressRes = OK => WrittenTo = n /\ Len(written) = n

DataOK(base) ==
  /\ \A t \in Threads : ThreadOK(base, t)
  /\ \A s \in Slots : ReadyBlocks[s] => Kept(base, s)
  /\ NextRead(base)
  /\ WrittenInOrder(base)

(* The oldest slot has a writer, or is not ready.                          *)
SlotsKnown ==
  /\ \A s \in Slots : InUse(s) => Owned(s)
  /\ IF writeIndex = NoIndex THEN \E t \in Threads : Writing(t) ELSE ~ ReadyBlocks[writeIndex]

(* A thread that is counted as finished has left the loop.                 *)
CountsKnown ==
  /\ mainPc = "wait" => numStartedThreads > 0
  /\ numFinishedThreads > 0 => stopReading \/ progressRes # OK
  /\ writeRes # OK => progressRes # OK

OrderOK == SlotsKnown /\ CountsKnown /\ \E base \in Nat : DataOK(base)

NothingYet == written = << >> /\ progressRes = OK

OrderInv == IF calls = 0 THEN NothingYet ELSE OrderOK

-----------------------------------------------------------------------------
(* How the input is cut into blocks.                                       *)
LEMMA DivFacts ==
  ASSUME NEW a \in Nat, NEW b \in Nat \ {0}
  PROVE  a \div b \in Nat /\ b * (a \div b) <= a /\ a < b * (a \div b) + b
OBVIOUS

(* What a quotient is. *)
LEMMA DivIs ==
  ASSUME NEW a \in Nat, NEW b \in Nat \ {0}, NEW q \in Nat, q * b <= a, a < q * b + b
  PROVE  a \div b = q
<1> DEFINE d == a \div b
<1>1. d \in Nat /\ b * d <= a /\ a < b * d + b
  BY DivFacts
<1> HIDE DEF d
<1>2. ASSUME d < q PROVE FALSE
  <2>1. b * d + b <= b * q
    BY <1>1, <1>2
  <2> QED BY <1>1, <2>1
<1>3. ASSUME q < d PROVE FALSE
  <2>1. b * q + b <= b * d
    BY <1>1, <1>3
  <2> QED BY <1>1, <2>1
<1>4. d = q
  BY <1>1, <1>2, <1>3
<1> QED BY <1>4 DEF d

(* What a quotient is no less than. *)
LEMMA DivAtLeast ==
  ASSUME NEW a \in Nat, NEW b \in Nat \ {0}, NEW q \in Nat, q * b <= a
  PROVE  q <= a \div b
<1> DEFINE d == a \div b
<1>1. d \in Nat /\ a < b * d + b
  BY DivFacts
<1> HIDE DEF d
<1>2. ASSUME d < q PROVE FALSE
  <2>1. b * d + b <= b * q
    BY <1>1, <1>2
  <2> QED BY <1>1, <2>1
<1>3. q <= d
  BY <1>1, <1>2
<1> QED BY <1>3 DEF d

(* The input has a number of blocks. *)
LEMMA NumBlocksType == NumBlocks \in Nat
<1>1. InputLen \div BlockSize \in Nat
  BY DivFacts, MtCoderAssumption
<1>2. InputLen + BlockSize - 1 \in Nat
  BY MtCoderAssumption
<1>3. (InputLen + BlockSize - 1) \div BlockSize \in Nat
  BY <1>2, DivFacts, MtCoderAssumption
<1> QED BY <1>1, <1>3 DEF NumBlocks

(* The block that begins where block n begins is block n of the input, and *)
(* ReadBlock knows whether it is the last.                                 *)
LEMMA ReadNumbers ==
  ASSUME readProcessed \in 0 .. InputLen, NEW n \in Nat, StartsAt(n), NEW size, NEW last \in BOOLEAN,
         size = IF BlockSize <= InputLen - readProcessed THEN BlockSize ELSE InputLen - readProcessed,
         last <=> IF InStream THEN size # BlockSize ELSE size = InputLen - readProcessed
  PROVE  /\ readProcessed \div BlockSize = n /\ n < NumBlocks
         /\ last => n + 1 = NumBlocks
         /\ ~ last => /\ readProcessed + size = (n + 1) * BlockSize
                      /\ IF InStream THEN readProcessed + size <= InputLen
                         ELSE readProcessed + size < InputLen
<1>1. /\ readProcessed \in Nat /\ readProcessed = n * BlockSize /\ readProcessed <= InputLen
      /\ BlockSize \in Nat \ {0} /\ InputLen \in Nat
  BY MtCoderAssumption DEF StartsAt
<1>2. readProcessed \div BlockSize = n
  BY <1>1, DivIs
<1>3. (n + 1) * BlockSize = readProcessed + BlockSize
  BY <1>1
<1>4. CASE InStream
  <2>1. NumBlocks = InputLen \div BlockSize + 1
    BY <1>4 DEF NumBlocks
  <2>2. n <= InputLen \div BlockSize /\ InputLen \div BlockSize \in Nat
    BY <1>1, DivAtLeast, DivFacts
  <2>3. ASSUME last PROVE n = InputLen \div BlockSize
    <3>1. InputLen < n * BlockSize + BlockSize
      BY <1>1, <1>4, <2>3
    <3> QED BY <1>1, <3>1, DivIs
  <2>4. ASSUME ~ last PROVE size = BlockSize /\ readProcessed + BlockSize <= InputLen
    BY <1>1, <1>4, <2>4
  <2> QED BY <1>1, <1>2, <1>3, <1>4, <2>1, <2>2, <2>3, <2>4
<1>5. CASE ~ InStream /\ InputLen = 0
  <2>1. NumBlocks = 1
    BY <1>5 DEF NumBlocks
  <2>2. n = 0
    BY <1>1, <1>5 DEF StartsAt
  <2>3. readProcessed = 0 /\ size = 0 /\ last
    BY <1>1, <1>5
  <2> QED BY <1>2, <2>1, <2>2, <2>3
<1>6. CASE ~ InStream /\ InputLen # 0
  <2> DEFINE a == InputLen + BlockSize - 1
  <2>1. NumBlocks = a \div BlockSize /\ a \in Nat
    BY <1>1, <1>6 DEF NumBlocks
  <2>2. readProcessed < InputLen
    BY <1>1, <1>6 DEF StartsAt
  <2>3. (n + 1) * BlockSize <= a
    BY <1>1, <1>3, <2>2
  <2>4. n + 1 <= NumBlocks
    BY <1>1, <2>1, <2>3, DivAtLeast
  <2>5. ASSUME last PROVE n + 1 = NumBlocks
    <3>1. size = InputLen - readProcessed /\ size <= BlockSize
      BY <1>1, <1>6, <2>5
    <3>2. a < (n + 1) * BlockSize + BlockSize
      BY <1>1, <1>3, <3>1
    <3> QED BY <1>1, <2>1, <2>3, <3>2, DivIs
  <2>6. ASSUME ~ last PROVE size = BlockSize /\ readProcessed + BlockSize < InputLen
    BY <1>1, <1>6, <2>6
  <2> QED BY <1>1, <1>2, <1>3, <1>6, <2>4, <2>5, <2>6, NumBlocksType
<1> QED BY <1>4, <1>5, <1>6

-----------------------------------------------------------------------------
(* The oldest slot is a slot, and no more are in flight than there are. *)
LEMMA RingTypes ==
  ASSUME RingInv
  PROVE  /\ Oldest \in Slots /\ InFlight \in Nat /\ InFlight <= NumBlocksMax
         /\ \A s \in Slots : Dist(Oldest, s) \in Nat
<1>1. InFlight \in 0 .. NumBlocksMax /\ blockIndex \in Slots
  BY DEF RingInv, IInv, RingOK, TypeOK
<1>2. Oldest \in Slots
  BY <1>1, BackType DEF Oldest
<1> QED BY <1>1, <1>2, DistType, MtCoderAssumption

(* The ring stays as it is. *)
Still ==
  /\ Oldest' = Oldest /\ InFlight' = InFlight
  /\ UNCHANGED <<writeIndex, ReadyBlocks>>
  /\ \A u \in Threads : SlotsOf(u)' = SlotsOf(u) /\ (Writing(u)' <=> Writing(u))

(* The oldest block in flight stays the oldest when no block is taken or   *)
(* released.                                                               *)
LEMMA StillOldest ==
  ASSUME UNCHANGED <<blocksSemaphore, blockIndex>>, \A u \in Threads : Stays(u)
  PROVE  Oldest' = Oldest /\ InFlight' = InFlight
<1>1. Released' = Released
  BY DEF Released, Stays
<1>2. InFlight' = InFlight
  BY <1>1 DEF InFlight
<1> QED BY <1>2 DEF Oldest, Back

(* A thread that keeps its slot and its buffer has the same slots. *)
LEMMA StillKeeps ==
  ASSUME NEW u \in Threads, KeepsBuf(u), Stays(u)
  PROVE  SlotsOf(u)' = SlotsOf(u) /\ (Writing(u)' <=> Writing(u))
BY DEF KeepsBuf, Stays, SlotsOf, Filling, Writing

(* Reading, writing and leaving change nothing of which block is in which  *)
(* slot.                                                                   *)
LEMMA StillRead ==
  ASSUME TypeOK, NEW t \in Threads,
         \/ WaitStart(t) \/ AcquireRead(t) \/ ReadBlock(t) \/ ReleaseRead(t)
         \/ Write(t) \/ CountFinished(t) \/ CompareFinished(t)
  PROVE  Still
<1>1. /\ \A u \in Threads : Stays(u)
      /\ UNCHANGED <<blocksSemaphore, blockIndex, writeIndex, ReadyBlocks>>
  BY ReadRing, CodeRing
<1>2. \A u \in Threads : KeepsBuf(u)
  BY ReadBufs, WriteBufs
<1> QED BY <1>1, <1>2, StillOldest, StillKeeps DEF Still

(* Nor does the caller. *)
LEMMA StillMain ==
  ASSUME TypeOK, Launch \/ Finish \/ Destruct \/ UNCHANGED vars
  PROVE  Still
<1>1. /\ \A u \in Threads : Stays(u)
      /\ UNCHANGED <<blocksSemaphore, blockIndex, writeIndex, ReadyBlocks>>
  BY MainRing
<1>2. \A u \in Threads : KeepsBuf(u)
  BY MainBufs
<1> QED BY <1>1, <1>2, StillOldest, StillKeeps DEF Still

(* Nor does coding. *)
LEMMA StillCode ==
  ASSUME TypeOK, NEW t \in Threads, TakeBuf(t) \/ Code(t) \/ StoreFailed(t)
  PROVE  Still
<1>1. /\ \A u \in Threads : Stays(u)
      /\ UNCHANGED <<blocksSemaphore, blockIndex, writeIndex, ReadyBlocks>>
  BY CodeRing
<1>2. pc \in [Threads -> Labels] /\ th \in [Threads -> Local]
  BY DEF TypeOK
<1>3. /\ pc[t] \in {"code", "coding", "store"} /\ pc'[t] \in {"coding", "publish"}
      /\ \A u \in Threads : u # t => pc'[u] = pc[u] /\ th'[u] = th[u]
  <2>1. CASE TakeBuf(t)
    BY <1>2, <2>1 DEF TakeBuf
  <2>2. CASE Code(t)
    BY <1>2, <2>2 DEF Code
  <2>3. CASE StoreFailed(t)
    BY <1>2, <2>3 DEF StoreFailed
  <2> QED BY <2>1, <2>2, <2>3
<1>4. th'[t].bi = th[t].bi
  BY <1>1, <1>3 DEF Stays, Filling
<1>5. \A u \in Threads : SlotsOf(u)' = SlotsOf(u) /\ (Writing(u)' <=> Writing(u))
  BY <1>3, <1>4 DEF SlotsOf, Filling, Writing
<1> QED BY <1>1, <1>5, StillOldest DEF Still

(* Nor does a slot's release, which comes after the writer went on. *)
LEMMA StillRelease ==
  ASSUME RingInv, NEW t \in Threads, ReleaseSlot(t)
  PROVE  Still
<1>1. TypeOK
  BY DEF RingInv, IInv
<1>2. pc \in [Threads -> Labels] /\ th \in [Threads -> Local] /\ blocksSemaphore \in Nat
  BY <1>1 DEF TypeOK
<1>3. /\ blocksSemaphore' = blocksSemaphore + 1
      /\ UNCHANGED <<blockIndex, writeIndex, ReadyBlocks>>
      /\ pc[t] \in {"release_more", "release_last"}
      /\ pc' = [pc EXCEPT ![t] = pc'[t]]
      /\ pc'[t] \in {"write", "count", "acquire"}
      /\ pc'[t] = "write" <=> pc[t] = "release_more"
  BY <1>1 DEF ReleaseSlot, reader, writer, AfterBlock, TypeOK
<1>4. Released' = Released \ {t} /\ t \in Released
  BY <1>2, <1>3 DEF Released
<1>5. Cardinality(Released') = Cardinality(Released) - 1
  BY <1>4, ReleasedFinite, FS_RemoveElement
<1>6. InFlight' = InFlight
  BY <1>2, <1>3, <1>5, ReleasedFinite, MtCoderAssumption DEF InFlight
<1>7. Oldest' = Oldest
  BY <1>3, <1>6 DEF Oldest, Back
<1>8. th'[t].wi = th[t].wi /\ \A u \in Threads : u # t => th'[u] = th[u] /\ pc'[u] = pc[u]
  BY <1>2, <1>3 DEF ReleaseSlot, Local
<1>9. \A u \in Threads : SlotsOf(u)' = SlotsOf(u) /\ (Writing(u)' <=> Writing(u))
  BY <1>3, <1>8 DEF SlotsOf, Filling, Writing
<1> QED BY <1>3, <1>6, <1>7, <1>9 DEF Still

(* When the ring stays, so does what is known about it.                    *)
LEMMA StillSlots ==
  ASSUME SlotsKnown, Still
  PROVE  SlotsKnown'
<1>1. \A s : InUse(s)' = InUse(s)
  BY DEF Still, InUse, Dist
<1>2. \A s : Owned(s)' = Owned(s)
  BY DEF Still, Owned
<1> QED BY <1>1, <1>2 DEF SlotsKnown, Still

(* The blocks keep their numbers as long as nothing of that changes. *)
LEMMA StillNumbers ==
  ASSUME Still
  PROVE  /\ \A base, s : Number(base, s)' = Number(base, s)
         /\ \A base : NextBlock(base)' = NextBlock(base)
BY DEF Still, Number, NextBlock, Dist

-----------------------------------------------------------------------------
(* A step that thread u does not take: it may only be started or stopped.  *)
SameBlock(l, m) ==
  /\ m.res = l.res /\ m.finished = l.finished /\ m.inBuf = l.inBuf
  /\ m.bi = l.bi /\ m.bufIndex = l.bufIndex /\ m.wi = l.wi
Waits(u) ==
  /\ pc'[u] = pc[u] \/ (pc[u] = "none" /\ pc'[u] = "start")
  /\ SameBlock(th[u], th'[u])

(* What the others may do meanwhile.                                       *)
StopsOnly ==
  /\ input' = input
  /\ stopReading => stopReading'
  /\ progressRes # OK => progressRes' # OK

(* A thread that waits has the same block as before, when nothing of its   *)
(* slots and buffers changes.                                              *)
LEMMA OthersOK ==
  ASSUME NEW u \in Threads, NEW base, NEW base2, ThreadOK(base, u), Waits(u), StopsOnly,
         Reading(u) => /\ UNCHANGED <<stopReading, readProcessed>>
                       /\ NextBlock(base2)' = NextBlock(base),
         Filling(u) => base2 + Dist(Oldest', th[u].bi) = Number(base, th[u].bi),
         Writing(u) => base2 + Dist(Oldest', th[u].wi) = Number(base, th[u].wi),
         pc[u] = "publish" => blocks'[th[u].bi] = blocks[th[u].bi],
         pc[u] = "release_more" => blocks'[th[u].wi] = blocks[th[u].wi],
         pc[u] \in {"publish", "write"} /\ th[u].bufIndex # NoIndex =>
           outBuf'[th[u].bufIndex] = outBuf[th[u].bufIndex],
         pc[u] = "release_more" /\ blocks[th[u].wi].bufIndex # NoIndex =>
           outBuf'[blocks[th[u].wi].bufIndex] = outBuf[blocks[th[u].wi].bufIndex]
  PROVE  ThreadOK(base2, u)'
<1>1. /\ th'[u].res = th[u].res /\ th'[u].finished = th[u].finished /\ th'[u].inBuf = th[u].inBuf
      /\ th'[u].bi = th[u].bi /\ th'[u].bufIndex = th[u].bufIndex /\ th'[u].wi = th[u].wi
  BY DEF Waits, SameBlock
<1>2. NumBlocks' = NumBlocks /\ InStream' = InStream
  BY DEF StopsOnly, NumBlocks, InStream
<1>3. \A n, last : Reading(u) => Followed(n, last)' = Followed(n, last)
  BY <1>2 DEF Followed, StartsAt
<1>4. \A n : Reading(u) => StartsAt(n)' = StartsAt(n)
  BY <1>2 DEF StartsAt
<1>5. CASE pc'[u] # pc[u]
  BY <1>5 DEF Waits, ThreadOK, InBlock, PastRead, InThreadFunc2, Reading
<1>6. CASE pc'[u] = pc[u]
  <2>1. InBlock(u)' = InBlock(u) /\ PastRead(u)' = PastRead(u) /\ Reading(u)' = Reading(u)
    BY <1>6 DEF InBlock, PastRead, InThreadFunc2, Reading
  <2>2. /\ InBlock(u)' /\ th'[u].res # OK => progressRes' # OK
        /\ PastRead(u)' /\ th'[u].finished => stopReading'
        /\ pc'[u] = "count" => stopReading' \/ progressRes' # OK
    BY <1>1, <1>6, <2>1 DEF ThreadOK, StopsOnly
  <2>3. Reading(u)' => ReaderOK(base2, u)'
    <3> SUFFICES ASSUME Reading(u) PROVE ReaderOK(base2, u)'
      BY <2>1
    <3>1. ReaderOK(base, u)
      BY DEF ThreadOK
    <3>2. pc[u] = "release_read" /\ HoldsBlock(base, u) => HoldsBlock(base2, u)'
      BY <1>1, <1>2 DEF HoldsBlock, Number, Filling
    <3>3. NextBlock(base2)' = NextBlock(base) /\ stopReading' = stopReading
      OBVIOUS
    <3> QED BY <1>1, <1>2, <1>3, <1>4, <1>6, <3>1, <3>2, <3>3 DEF ReaderOK
  <2>4. /\ pc'[u] \in {"code", "coding"} => th'[u].res = OK /\ HoldsBlock(base2, u)'
        /\ pc'[u] = "coding" => th'[u].bufIndex # NoIndex
        /\ pc'[u] = "store" => th'[u].res # OK
    BY <1>1, <1>2, <1>6 DEF ThreadOK, HoldsBlock, Number, Filling
  <2>5. pc'[u] = "publish" =>
          /\ Kept(base2, th[u].bi)'
          /\ blocks'[th'[u].bi] = [res |-> th'[u].res, bufIndex |-> th'[u].bufIndex,
                                   finished |-> th'[u].finished]
    <3> SUFFICES ASSUME pc[u] = "publish"
                 PROVE  /\ Kept(base2, th[u].bi)'
                        /\ blocks'[th'[u].bi] = [res |-> th'[u].res, bufIndex |-> th'[u].bufIndex,
                                                 finished |-> th'[u].finished]
      BY <1>6
    <3>1. /\ Kept(base, th[u].bi)
          /\ blocks[th[u].bi] = [res |-> th[u].res, bufIndex |-> th[u].bufIndex,
                                 finished |-> th[u].finished]
      BY DEF ThreadOK
    <3>2. blocks[th[u].bi].bufIndex = th[u].bufIndex
      BY <3>1
    <3> QED BY <1>1, <1>2, <3>1, <3>2 DEF Kept, Coded, StopsOnly, Number, Filling
  <2>6. pc'[u] = "write" /\ th'[u].res = OK => Coded(base2, th[u].wi, th[u].bufIndex)'
    BY <1>1, <1>2, <1>6 DEF ThreadOK, Coded, Number, Writing
  <2>7. pc'[u] = "release_more" => Kept(base2, th[u].wi)'
    BY <1>1, <1>2, <1>6 DEF ThreadOK, Kept, Coded, Number, Writing, StopsOnly
  <2> QED BY <2>2, <2>3, <2>4, <2>5, <2>6, <2>7 DEF ThreadOK
<1> QED BY <1>5, <1>6

-----------------------------------------------------------------------------
(* Changes of a thread's record.                                           *)
LEMMA KeepBlock ==
  ASSUME NEW l \in Local, NEW x, NEW y
  PROVE  /\ SameBlock(l, [l EXCEPT !.startEvent = x, !.stop = y])
         /\ SameBlock(l, [l EXCEPT !.stop = x, !.startEvent = y])
         /\ SameBlock(l, l)
BY DEF Local, SameBlock

(* A step of thread t leaves the others' blocks alone, and no error and no *)
(* end of the input is forgotten.                                          *)
LEMMA ThreadStops ==
  ASSUME TypeOK, NEW t \in Threads, Thread(t)
  PROVE  /\ StopsOnly /\ UNCHANGED <<mainPc, calls>>
         /\ \A u \in Threads : u # t => Waits(u)
<1>a. pc \in [Threads -> Labels] /\ th \in [Threads -> Local]
  BY DEF TypeOK
<1>b. \A u \in Threads : SameBlock(th[u], th[u])
  BY DEF SameBlock
<1>1. StopsOnly /\ UNCHANGED <<mainPc, calls>>
  <2> USE DEF WaitStart, AcquireRead, ReadBlock, TakeSlot, TakeBuf, Code, StoreFailed,
     Publish, Write, Advance, ReleaseSlot, CountFinished, CompareFinished
  <2>1. UNCHANGED <<input, mainPc, calls>>
    BY DEF Thread, ReleaseRead, main
  <2>2. progressRes' = progressRes \/ progressRes' = ERR
    BY DEF Thread, ReleaseRead, SetError
  <2>3. ASSUME stopReading PROVE stopReading'
    <3>1. CASE ReleaseRead(t)
      BY <2>3, <3>1, Zenon DEF ReleaseRead
    <3>2. CASE ~ ReleaseRead(t)
      <4>1. stopReading' = stopReading
        BY <3>2 DEF Thread, reader
      <4> QED BY <2>3, <4>1
    <3> QED BY <3>1, <3>2
  <2> QED BY <2>1, <2>2, <2>3 DEF StopsOnly, OK, ERR
<1>2. CASE ReleaseRead(t)
  <2> SUFFICES ASSUME NEW u \in Threads, u # t PROVE Waits(u)
    BY <1>1
  <2> DEFINE l == [th[u] EXCEPT !.startEvent = TRUE, !.stop = FALSE]
  <2>1. th'[u] \in {th[u], l}
    BY <1>2, <1>a DEF ReleaseRead
  <2>2. SameBlock(th[u], l)
    BY <1>a, KeepBlock
  <2>3. pc'[u] = pc[u] \/ (pc[u] = "none" /\ pc'[u] = "start")
    BY <1>2, <1>a DEF ReleaseRead, Created
  <2> HIDE DEF l
  <2> QED BY <1>b, <2>1, <2>2, <2>3 DEF Waits
<1>3. CASE ~ ReleaseRead(t)
  <2>1. pc' = [pc EXCEPT ![t] = pc'[t]]
    BY <1>3, <1>a DEF Thread, WaitStart, AcquireRead, ReadBlock, TakeSlot,
     TakeBuf, Code, StoreFailed, Publish, Write, Advance, ReleaseSlot, CountFinished, CompareFinished
  <2>2. \A u \in Threads : u # t => th'[u] = th[u]
    BY <1>3, <1>a DEF Thread, WaitStart, AcquireRead, ReadBlock, TakeSlot,
     TakeBuf, Code, StoreFailed, Publish, Write, Advance, ReleaseSlot, CountFinished, CompareFinished
  <2> QED BY <1>1, <1>b, <2>1, <2>2, <1>a DEF Waits
<1> QED BY <1>2, <1>3

(* A block that is kept stays, as long as its slot and its buffer do.      *)
LEMMA KeptStays ==
  ASSUME NEW s, NEW base, NEW base2, Kept(base, s), StopsOnly, blocks'[s] = blocks[s],
         blocks[s].bufIndex # NoIndex =>
           outBuf'[blocks[s].bufIndex] = outBuf[blocks[s].bufIndex],
         Number(base2, s)' = Number(base, s)
  PROVE  Kept(base2, s)'
<1>1. NumBlocks' = NumBlocks
  BY DEF StopsOnly, NumBlocks, InStream
<1> QED BY <1>1 DEF Kept, Coded, StopsOnly

(* A step that moves no block.                                             *)
LEMMA CalmData ==
  ASSUME RingInv, NEW base, DataOK(base), NEW t \in Threads, Thread(t), Still,
         UNCHANGED <<blocks, outBuf>>, Reading(t) \/ UNCHANGED <<stopReading, readProcessed>>,
         ThreadOK(base, t)', NextRead(base)', WrittenInOrder(base)'
  PROVE  DataOK(base)'
<1>1. TypeOK /\ OneReader
  BY DEF RingInv, IInv
<1>2. StopsOnly /\ \A u \in Threads : u # t => Waits(u)
  BY <1>1, ThreadStops
<1>3. /\ NextBlock(base)' = NextBlock(base)
      /\ \A s : Number(base, s)' = Number(base, s)
      /\ \A s : base + Dist(Oldest', s) = Number(base, s)
  BY StillNumbers DEF Still, Number
<1>4. ASSUME NEW u \in Threads, u # t PROVE ThreadOK(base, u)'
  <2>1. ThreadOK(base, u)
    BY DEF DataOK
  <2>2. Reading(u) => UNCHANGED <<stopReading, readProcessed>>
    BY <1>1, <1>4 DEF OneReader
  <2> QED BY <1>2, <1>3, <1>4, <2>1, <2>2, OthersOK
<1>5. ASSUME NEW s \in Slots, ReadyBlocks'[s] PROVE Kept(base, s)'
  <2>1. Kept(base, s)
    BY <1>5 DEF DataOK, Still
  <2> QED BY <1>2, <1>3, <2>1, KeptStays
<1>6. \A u \in Threads : ThreadOK(base, u)'
  BY <1>4
<1> QED BY <1>5, <1>6 DEF DataOK

(* What follows when nothing is read or written.                           *)
LEMMA NextReadStays ==
  ASSUME NEW base, NextRead(base), StopsOnly, UNCHANGED <<readEvent, stopReading, readProcessed>>,
         NextBlock(base)' = NextBlock(base), mainPc' = "launch" => mainPc = "launch"
  PROVE  NextRead(base)'
<1>1. NumBlocks' = NumBlocks /\ InStream' = InStream
  BY DEF StopsOnly, NumBlocks, InStream
<1> QED BY <1>1 DEF NextRead, StartsAt, StopsOnly

(* What was written stays in order when nothing is written. *)
LEMMA WrittenStays ==
  ASSUME NEW base, WrittenInOrder(base), StopsOnly, written' = written,
         \A u \in Threads : pc'[u] = "advance" <=> pc[u] = "advance"
  PROVE  WrittenInOrder(base)'
<1>1. WrittenTo' = WrittenTo
  BY DEF WrittenTo
<1> QED BY <1>1 DEF WrittenInOrder, StopsOnly

(* As long as nobody begins or ends a write, the writer is who it was. *)
LEMMA WaitsAdvance ==
  ASSUME NEW t \in Threads, pc[t] # "advance", pc'[t] # "advance",
         \A u \in Threads : u # t => Waits(u)
  PROVE  \A u \in Threads : pc'[u] = "advance" <=> pc[u] = "advance"
BY DEF Waits

-----------------------------------------------------------------------------
(* A thread outside the loop, or waiting to read.                          *)
LEMMA Outside ==
  ASSUME NEW t, NEW base, pc'[t] \in {"none", "start", "acquire", "compare"}
  PROVE  ThreadOK(base, t)'
BY DEF ThreadOK, InBlock, PastRead, InThreadFunc2, Reading

(* Waking up and leaving change no block. *)
LEMMA WaitStartOrder ==
  ASSUME RingInv, NEW base, DataOK(base), NEW t \in Threads,
         WaitStart(t) \/ CountFinished(t) \/ CompareFinished(t)
  PROVE  DataOK(base)'
<1>1. TypeOK
  BY DEF RingInv, IInv
<1>2. pc \in [Threads -> Labels]
  BY <1>1 DEF TypeOK
<1>3. /\ Thread(t) /\ pc[t] # "advance" /\ pc'[t] \in {"none", "start", "acquire", "compare"}
  BY <1>2 DEF Thread, WaitStart, CountFinished, CompareFinished
<1>4. UNCHANGED <<blocks, outBuf, written, readEvent, stopReading, readProcessed>>
  BY DEF WaitStart, CountFinished, CompareFinished, reader, output
<1>5. Still
  BY <1>1, StillRead
<1>6. StopsOnly /\ mainPc' = mainPc /\ \A u \in Threads : u # t => Waits(u)
  BY <1>1, <1>3, ThreadStops
<1>7. ThreadOK(base, t)'
  BY <1>3, Outside
<1>8. NextRead(base)'
  BY <1>4, <1>5, <1>6, StillNumbers, NextReadStays DEF DataOK
<1>9. WrittenInOrder(base)'
  BY <1>3, <1>4, <1>6, WaitsAdvance, WrittenStays DEF DataOK
<1> QED BY <1>3, <1>4, <1>5, <1>7, <1>8, <1>9, CalmData

(* The next reader begins where the last one ended.                        *)
LEMMA AcquireReadOrder ==
  ASSUME RingInv, NEW base, DataOK(base), NEW t \in Threads, AcquireRead(t)
  PROVE  DataOK(base)'
<1>1. TypeOK
  BY DEF RingInv, IInv
<1>2. pc \in [Threads -> Labels] /\ th \in [Threads -> Local]
  BY <1>1 DEF TypeOK
<1>3. /\ Thread(t) /\ pc[t] # "advance" /\ pc'[t] \in {"count", "read", "take"}
  BY <1>2 DEF Thread, AcquireRead
<1>4. UNCHANGED <<blocks, outBuf, written, stopReading, readProcessed, progressRes>>
  BY DEF AcquireRead, output
<1>5. Still
  BY <1>1, StillRead
<1>6. StopsOnly /\ mainPc' = mainPc /\ \A u \in Threads : u # t => Waits(u)
  BY <1>1, <1>3, ThreadStops
<1>7. /\ NextBlock(base)' = NextBlock(base)
      /\ NumBlocks' = NumBlocks /\ InStream' = InStream
  BY <1>5, <1>6, StillNumbers DEF StopsOnly, NumBlocks, InStream
<1>8. \A n : StartsAt(n)' = StartsAt(n)
  BY <1>4, <1>7 DEF StartsAt
<1>9. NextRead(base)
  BY DEF DataOK
<1>10. ThreadOK(base, t)'
  <2>1. CASE stopReading
    <3>1. pc'[t] = "count" /\ stopReading'
      BY <1>2, <1>4, <2>1 DEF AcquireRead
    <3> QED BY <3>1 DEF ThreadOK, InBlock, PastRead, InThreadFunc2, Reading
  <2>2. CASE ~ stopReading
    <3>1. /\ pc'[t] = IF progressRes = OK THEN "read" ELSE "take"
          /\ th' = [th EXCEPT ![t] = [@ EXCEPT !.res = progressRes, !.finished = TRUE,
                                               !.inBuf = NoIndex]]
          /\ readEvent
      BY <1>2, <2>2 DEF AcquireRead
    <3>2. th'[t].res = progressRes
      BY <1>2, <3>1 DEF Local
    <3>3. StartsAt(NextBlock(base))
      BY <1>9, <2>2, <3>1 DEF NextRead
    <3>4. StartsAt(NextBlock(base))'
      BY <1>7, <1>8, <3>3
    <3>5. ~ stopReading'
      BY <1>4, <2>2
    <3>6. ReaderOK(base, t)'
      BY <1>4, <3>1, <3>2, <3>4, <3>5 DEF ReaderOK
    <3>7. th'[t].res # OK => progressRes' # OK
      BY <1>4, <3>2
    <3> QED BY <1>3, <3>1, <3>6, <3>7 DEF ThreadOK, InBlock, PastRead, InThreadFunc2, Reading
  <2> QED BY <2>1, <2>2
<1>11. NextRead(base)'
  <2>1. readEvent' => readEvent
    BY <1>2 DEF AcquireRead
  <2> QED BY <1>4, <1>6, <1>7, <1>8, <1>9, <2>1 DEF NextRead
<1>12. WrittenInOrder(base)'
  BY <1>3, <1>4, <1>6, WaitsAdvance, WrittenStays DEF DataOK
<1> QED BY <1>3, <1>4, <1>5, <1>10, <1>11, <1>12, CalmData

(* The next block is read.                                                 *)
LEMMA ReadBlockOrder ==
  ASSUME RingInv, NEW base \in Nat, DataOK(base), NEW t \in Threads, ReadBlock(t)
  PROVE  DataOK(base)'
<1>1. TypeOK /\ OneReader /\ Fresh
  BY DEF RingInv, IInv
<1>2. pc \in [Threads -> Labels] /\ th \in [Threads -> Local] /\ readProcessed \in 0 .. InputLen
  BY <1>1 DEF TypeOK
<1>3. /\ Thread(t) /\ pc[t] = "read" /\ pc'[t] = "take" /\ Reading(t)
  BY <1>2 DEF Thread, ReadBlock, Reading
<1>4. UNCHANGED <<blocks, outBuf, written, stopReading, readEvent>>
  BY DEF ReadBlock, output
<1>5. Still
  BY <1>1, StillRead
<1>6. StopsOnly /\ mainPc' = mainPc /\ \A u \in Threads : u # t => Waits(u)
  BY <1>1, <1>3, ThreadStops
<1>7. /\ NextBlock(base)' = NextBlock(base)
      /\ NumBlocks' = NumBlocks /\ InStream' = InStream
  BY <1>5, <1>6, StillNumbers DEF StopsOnly, NumBlocks, InStream
<1> DEFINE n == NextBlock(base)
           rem == InputLen - readProcessed
           size == IF BlockSize <= rem THEN BlockSize ELSE rem
           last == IF InStream THEN size # BlockSize ELSE size = rem
<1>8. n \in Nat
  BY RingTypes DEF NextBlock
<1>9. StartsAt(n) /\ ~ stopReading
  BY <1>3 DEF DataOK, ThreadOK, ReaderOK
<1>10. ThreadOK(base, t)'
  <2>1. CASE readRes' = ERR /\ progressRes' = ERR /\ th' = [th EXCEPT ![t].res = ERR]
    <3>1. th'[t].res = ERR /\ ERR # OK
      BY <1>2, <2>1 DEF Local, ERR, OK
    <3>2. ReaderOK(base, t)'
      BY <1>3, <1>4, <1>9, <3>1 DEF ReaderOK
    <3> QED BY <1>3, <2>1, <3>1, <3>2 DEF ThreadOK, InBlock, PastRead, InThreadFunc2, Reading
  <2>2. CASE /\ readProcessed' = readProcessed + size
             /\ th' = [th EXCEPT ![t] = [@ EXCEPT !.inBuf = readProcessed \div BlockSize,
                                                  !.finished = last]]
             /\ UNCHANGED <<readRes, progressRes>>
    <3>1. /\ th'[t].inBuf = readProcessed \div BlockSize /\ th'[t].finished = last
          /\ th'[t].res = th[t].res
      BY <1>2, <2>2 DEF Local
    <3>2. last \in BOOLEAN
      OBVIOUS
    <3>3. /\ readProcessed \div BlockSize = n /\ n < NumBlocks
          /\ last => n + 1 = NumBlocks
          /\ ~ last => /\ readProcessed + size = (n + 1) * BlockSize
                       /\ IF InStream THEN readProcessed + size <= InputLen
                          ELSE readProcessed + size < InputLen
      <4> DEFINE sz == size
                 lt == last
      <4>1. /\ lt \in BOOLEAN
            /\ sz = IF BlockSize <= InputLen - readProcessed THEN BlockSize ELSE InputLen - readProcessed
            /\ lt <=> IF InStream THEN sz # BlockSize ELSE sz = InputLen - readProcessed
        OBVIOUS
      <4> HIDE DEF sz, lt, n
      <4>2. /\ readProcessed \div BlockSize = n /\ n < NumBlocks
            /\ lt => n + 1 = NumBlocks
            /\ ~ lt => /\ readProcessed + sz = (n + 1) * BlockSize
                       /\ IF InStream THEN readProcessed + sz <= InputLen
                          ELSE readProcessed + sz < InputLen
        BY <1>2, <1>8, <1>9, <4>1, ReadNumbers
      <4> QED BY <4>2 DEF sz, lt, n
    <3> HIDE DEF n, size, last
    <3>4. Followed(n + 1, th[t].finished)'
      <4>1. th'[t].finished => NextBlock(base)' + 1 = NumBlocks'
        BY <1>7, <3>1, <3>3 DEF n
      <4>2. ~ th'[t].finished => /\ readProcessed' = (NextBlock(base)' + 1) * BlockSize
                                 /\ IF InStream' THEN readProcessed' <= InputLen
                                    ELSE readProcessed' < InputLen
        BY <1>7, <2>2, <3>1, <3>3 DEF n
      <4> QED BY <4>1, <4>2 DEF Followed, StartsAt, n
    <3>5. ReaderOK(base, t)'
      <4>1. th'[t].inBuf = NextBlock(base)' /\ NextBlock(base)' < NumBlocks'
        BY <1>7, <3>1, <3>3 DEF n
      <4>2. Followed(NextBlock(base) + 1, th[t].finished)'
        BY <3>4 DEF n
      <4> QED BY <1>3, <1>4, <1>9, <4>1, <4>2 DEF ReaderOK
    <3>6. th'[t].res # OK => progressRes' # OK
      BY <1>3, <2>2, <3>1 DEF DataOK, ThreadOK, InBlock, InThreadFunc2
    <3> QED BY <1>3, <3>5, <3>6 DEF ThreadOK, InBlock, PastRead, InThreadFunc2, Reading
  <2> QED BY <2>1, <2>2 DEF ReadBlock, SetError
<1>11. NextRead(base)'
  <2>1. ~ readEvent' /\ mainPc' # "launch" /\ ~ stopReading'
    BY <1>1, <1>3, <1>4, <1>6, <1>9 DEF OneReader, Fresh
  <2> QED BY <2>1 DEF NextRead
<1>12. WrittenInOrder(base)'
  BY <1>3, <1>4, <1>6, WaitsAdvance, WrittenStays DEF DataOK
<1> QED BY <1>3, <1>4, <1>5, <1>10, <1>11, <1>12, CalmData

(* The reader lets the next one in, unless this was the last block.        *)
LEMMA ReleaseReadOrder ==
  ASSUME RingInv, NEW base \in Nat, DataOK(base), NEW t \in Threads, ReleaseRead(t)
  PROVE  DataOK(base)'
<1>1. TypeOK /\ OneReader /\ Fresh
  BY DEF RingInv, IInv
<1>2. pc \in [Threads -> Labels] /\ th \in [Threads -> Local] /\ progressRes \in {OK, ERR}
      /\ stopReading \in BOOLEAN
  BY <1>1 DEF TypeOK
<1>3. /\ Thread(t) /\ pc[t] = "release_read" /\ Reading(t)
  BY <1>2 DEF Thread, ReleaseRead, Reading
<1>4. UNCHANGED <<blocks, outBuf, written, readProcessed>>
  BY DEF ReleaseRead, output
<1>5. Still
  BY <1>1, StillRead
<1>6. StopsOnly /\ mainPc' = mainPc /\ \A u \in Threads : u # t => Waits(u)
  BY <1>1, <1>3, ThreadStops
<1>7. /\ NextBlock(base)' = NextBlock(base)
      /\ NumBlocks' = NumBlocks /\ InStream' = InStream
      /\ \A s : Number(base, s)' = Number(base, s)
  BY <1>5, <1>6, StillNumbers DEF StopsOnly, NumBlocks, InStream
<1>8. \A n : StartsAt(n)' = StartsAt(n)
  BY <1>4, <1>7 DEF StartsAt
<1>9. ReaderOK(base, t) /\ (th[t].res # OK => progressRes # OK)
  BY <1>3 DEF DataOK, ThreadOK, InBlock, InThreadFunc2
<1> DEFINE r == FirstError(th[t].res, progressRes)
           fin == th[t].finished \/ r # OK
           n == NextBlock(base)
<1>10. /\ th[t].res \in {OK, ERR} /\ OK # ERR /\ th[t].finished \in BOOLEAN
       /\ r = OK <=> progressRes = OK
       /\ r = OK => th[t].res = OK
  BY <1>2, <1>9 DEF FirstError, Local, OK, ERR
<1>11. ~ stopReading /\ (r = OK => HoldsBlock(base, t) /\ Followed(n, th[t].finished))
  BY <1>3, <1>9, <1>10 DEF ReaderOK
<1>12. /\ th'[t].bi = th[t].bi /\ th'[t].inBuf = th[t].inBuf
       /\ \/ /\ th'[t].res = r /\ th'[t].finished = fin /\ stopReading' = fin
             /\ pc'[t] = IF r = OK THEN "code" ELSE "store"
             /\ progressRes' = progressRes
          \/ /\ ~ fin /\ th'[t].res = th[t].res /\ th'[t].finished = th[t].finished
             /\ stopReading' = stopReading /\ pc'[t] = "code" /\ progressRes' = progressRes
          \/ /\ th'[t].res = ERR /\ th'[t].finished = TRUE /\ stopReading' = TRUE
             /\ pc'[t] = "store" /\ progressRes' = ERR
  <2> DEFINE l1 == [th[t] EXCEPT !.res = r, !.finished = fin]
             l2 == [th[t] EXCEPT !.startEvent = TRUE, !.stop = FALSE]
             l3 == [th[t] EXCEPT !.res = ERR, !.finished = TRUE]
  <2>1. l1.bi = th[t].bi /\ l1.inBuf = th[t].inBuf /\ l1.res = r /\ l1.finished = fin
    BY <1>2 DEF Local
  <2>2. SameBlock(th[t], l2) /\ SameBlock(th[t], th[t])
    BY <1>2, KeepBlock
  <2>3. l3.bi = th[t].bi /\ l3.inBuf = th[t].inBuf /\ l3.res = ERR /\ l3.finished = TRUE
    BY <1>2 DEF Local
  <2>4. \/ /\ th'[t] = l1 /\ stopReading' = fin /\ progressRes' = progressRes
           /\ pc'[t] = IF r = OK THEN "code" ELSE "store"
        \/ /\ ~ fin /\ th'[t] \in {l2, th[t]} /\ stopReading' = stopReading
           /\ pc'[t] = "code" /\ progressRes' = progressRes
        \/ th'[t] = l3 /\ stopReading' = TRUE /\ pc'[t] = "store" /\ progressRes' = ERR
    <3>1. (stopReading \/ fin) = fin
      BY <1>11
    <3> QED BY <1>2, <3>1 DEF ReleaseRead, Created, SetError
  <2> HIDE DEF l1, l2, l3
  <2> QED BY <2>1, <2>2, <2>3, <2>4 DEF SameBlock
<1> HIDE DEF r, fin, n
<1>13. HoldsBlock(base, t)' = HoldsBlock(base, t)
  BY <1>5, <1>7, <1>12 DEF HoldsBlock, Number, Still, Dist
<1>14. fin \in BOOLEAN /\ (~ fin => r = OK /\ ~ th[t].finished)
  BY DEF fin
<1>15. ThreadOK(base, t)'
  <2>1. th'[t].res # OK => progressRes' # OK
    BY <1>9, <1>10, <1>12
  <2>2. th'[t].finished => stopReading'
    <3>1. CASE th'[t].finished = fin /\ stopReading' = fin
      BY <1>14, <3>1, Zenon
    <3>2. CASE ~ fin /\ th'[t].finished = th[t].finished
      BY <1>14, <3>2, Zenon
    <3>3. CASE stopReading' = TRUE
      BY <3>3, Zenon
    <3> QED BY <1>12, <3>1, <3>2, <3>3
  <2>3. pc'[t] \in {"code", "store"}
    BY <1>12
  <2>4. pc'[t] = "code" => r = OK /\ th'[t].res = OK
    BY <1>10, <1>12, <1>14
  <2>5. pc'[t] = "code" => HoldsBlock(base, t)'
    BY <1>11, <1>13, <2>4
  <2>6. pc'[t] = "store" => th'[t].res # OK
    BY <1>10, <1>12
  <2> QED BY <2>1, <2>2, <2>3, <2>4, <2>5, <2>6 DEF ThreadOK, InBlock, PastRead, InThreadFunc2, Reading
<1>16. NextRead(base)'
  <2>1. ASSUME ~ stopReading' PROVE StartsAt(n)
    <3>1. r = OK /\ ~ th[t].finished
      BY <1>10, <1>12, <1>14, <2>1
    <3> QED BY <1>11, <3>1 DEF Followed
  <2>2. ASSUME stopReading', progressRes' = OK PROVE n = NumBlocks
    <3>1. progressRes = OK /\ r = OK
      BY <1>6, <1>10, <2>2 DEF StopsOnly
    <3>2. th[t].finished
      BY <1>10, <1>11, <1>12, <2>2, <3>1 DEF fin
    <3> QED BY <1>11, <3>1, <3>2 DEF Followed
  <2> QED BY <1>7, <1>8, <2>1, <2>2 DEF NextRead, n
<1>17. WrittenInOrder(base)'
  <2>1. pc[t] # "advance" /\ pc'[t] # "advance"
    BY <1>3, <1>12
  <2> QED BY <1>4, <1>6, <2>1, WaitsAdvance, WrittenStays DEF DataOK
<1> QED BY <1>3, <1>4, <1>5, <1>15, <1>16, <1>17, CalmData

-----------------------------------------------------------------------------
(* The block just read gets the slot behind those in use.                  *)
LEMMA TakeSlotOrder ==
  ASSUME RingInv, NEW base \in Nat, DataOK(base), NEW t \in Threads, TakeSlot(t)
  PROVE  DataOK(base)'
<1>1. TypeOK /\ OneReader /\ Fresh
  BY DEF RingInv, IInv
<1>2. pc \in [Threads -> Labels] /\ th \in [Threads -> Local] /\ blockIndex \in Slots
  BY <1>1 DEF TypeOK
<1>3. /\ Thread(t) /\ pc[t] = "take" /\ pc'[t] = "release_read" /\ Reading(t)
      /\ th' = [th EXCEPT ![t] = [@ EXCEPT !.bi = blockIndex, !.bufIndex = NoIndex]]
  BY <1>2 DEF Thread, TakeSlot, Reading
<1>4. UNCHANGED <<blocks, outBuf, written, stopReading, readEvent, readProcessed, ReadyBlocks,
                  progressRes>>
  BY DEF TakeSlot, output, writer
<1>5. /\ Oldest' = Oldest /\ InFlight' = InFlight + 1 /\ InFlight \in Nat
      /\ Dist(Oldest, blockIndex) = InFlight
  BY TakeSlotMoves, MtCoderAssumption
<1>6. StopsOnly /\ mainPc' = mainPc /\ \A u \in Threads : u # t => Waits(u)
  BY <1>1, <1>3, ThreadStops
<1>7. /\ NextBlock(base)' = NextBlock(base) + 1
      /\ NumBlocks' = NumBlocks /\ InStream' = InStream
      /\ \A s : Number(base, s)' = Number(base, s)
      /\ \A s : base + Dist(Oldest', s) = Number(base, s)
      /\ Number(base, blockIndex) = NextBlock(base)
  BY <1>5, <1>6 DEF StopsOnly, NumBlocks, InStream, NextBlock, Number, Dist
<1>8. \A n : StartsAt(n)' = StartsAt(n)
  BY <1>4, <1>7 DEF StartsAt
<1>9. ReaderOK(base, t) /\ (th[t].res # OK => progressRes # OK)
  BY <1>3 DEF DataOK, ThreadOK, InBlock, InThreadFunc2
<1>10. /\ th'[t].bi = blockIndex /\ th'[t].inBuf = th[t].inBuf
       /\ th'[t].res = th[t].res /\ th'[t].finished = th[t].finished
  BY <1>2, <1>3 DEF Local
<1>11. ThreadOK(base, t)'
  <2>1. ASSUME th'[t].res = OK
        PROVE  HoldsBlock(base, t)' /\ Followed(NextBlock(base), th[t].finished)'
    <3>1. /\ th[t].inBuf = NextBlock(base) /\ NextBlock(base) < NumBlocks
          /\ Followed(NextBlock(base) + 1, th[t].finished)
      BY <1>3, <1>9, <1>10, <2>1 DEF ReaderOK
    <3>2. HoldsBlock(base, t)'
      BY <1>5, <1>7, <1>10, <3>1 DEF HoldsBlock, Number, Dist
    <3>3. Followed(NextBlock(base), th[t].finished)'
      BY <1>7, <1>8, <1>10, <3>1 DEF Followed
    <3> QED BY <3>2, <3>3
  <2>2. ReaderOK(base, t)'
    BY <1>3, <1>4, <1>9, <2>1 DEF ReaderOK
  <2> QED BY <1>3, <1>4, <1>9, <1>10, <2>2 DEF ThreadOK, InBlock, PastRead, InThreadFunc2, Reading
<1>12. ASSUME NEW u \in Threads, u # t PROVE ThreadOK(base, u)'
  <2>1. ThreadOK(base, u)
    BY DEF DataOK
  <2>2. ~ Reading(u)
    BY <1>1, <1>3, <1>12 DEF OneReader
  <2> QED BY <1>4, <1>6, <1>7, <1>12, <2>1, <2>2, OthersOK
<1>13. \A s \in Slots : ReadyBlocks'[s] => Kept(base, s)'
  BY <1>4, <1>6, <1>7, KeptStays DEF DataOK
<1>14. NextRead(base)'
  <2>1. ~ readEvent' /\ mainPc' # "launch" /\ ~ stopReading'
    BY <1>1, <1>3, <1>4, <1>6, <1>9 DEF OneReader, Fresh, ReaderOK
  <2> QED BY <2>1 DEF NextRead
<1>15. WrittenInOrder(base)'
  BY <1>3, <1>4, <1>6, WaitsAdvance, WrittenStays DEF DataOK
<1> QED BY <1>11, <1>12, <1>13, <1>14, <1>15 DEF DataOK

(* The thread gets a buffer to code its block into.                        *)
LEMMA TakeBufOrder ==
  ASSUME RingInv, BufsOK, NEW base, DataOK(base), NEW t \in Threads, TakeBuf(t)
  PROVE  DataOK(base)'
<1>1. TypeOK
  BY DEF RingInv, IInv
<1>2. pc \in [Threads -> Labels] /\ th \in [Threads -> Local]
  BY <1>1 DEF TypeOK
<1>3. /\ Thread(t) /\ pc[t] = "code" /\ pc'[t] = "coding"
      /\ th' = [th EXCEPT ![t].bufIndex = FirstFree]
  BY <1>2 DEF Thread, TakeBuf
<1>4. UNCHANGED <<blocks, outBuf, written, stopReading, readEvent, readProcessed, progressRes>>
  BY DEF TakeBuf, output, reader
<1>5. Still
  BY <1>1, StillCode
<1>6. StopsOnly /\ mainPc' = mainPc /\ \A u \in Threads : u # t => Waits(u)
  BY <1>1, <1>3, ThreadStops
<1>7. /\ NumBlocks' = NumBlocks /\ \A s : Number(base, s)' = Number(base, s)
      /\ NextBlock(base)' = NextBlock(base)
  BY <1>5, <1>6, StillNumbers DEF StopsOnly, NumBlocks, InStream
<1>8. /\ th'[t].bi = th[t].bi /\ th'[t].inBuf = th[t].inBuf /\ th'[t].bufIndex = FirstFree
      /\ th'[t].res = th[t].res /\ th'[t].finished = th[t].finished
  BY <1>2, <1>3 DEF Local
<1>9. FirstFree # NoIndex
  <2>1. freeBlocks # << >> /\ Head(freeBlocks) \in Slots
    BY <1>3, FindsBuffer
  <2> QED BY <2>1, MtCoderAssumption DEF FirstFree, Slots, NoIndex
<1>10. ThreadOK(base, t)
  BY DEF DataOK
<1>11. ThreadOK(base, t)'
  <2>1. HoldsBlock(base, t)' /\ th[t].res = OK
    BY <1>3, <1>5, <1>7, <1>8, <1>10 DEF ThreadOK, HoldsBlock, Number, Still, Dist
  <2> QED BY <1>3, <1>4, <1>8, <1>9, <1>10, <2>1
          DEF ThreadOK, InBlock, PastRead, InThreadFunc2, Reading
<1>12. NextRead(base)'
  BY <1>4, <1>6, <1>7, NextReadStays DEF DataOK
<1>13. WrittenInOrder(base)'
  BY <1>3, <1>4, <1>6, WaitsAdvance, WrittenStays DEF DataOK
<1> QED BY <1>3, <1>4, <1>5, <1>11, <1>12, <1>13, CalmData

(* The oldest block is written, unless there was an error.                 *)
LEMMA WriteOrder ==
  ASSUME RingInv, NEW base \in Nat, DataOK(base), NEW t \in Threads, Write(t)
  PROVE  /\ DataOK(base)'
         /\ \/ written' = written
            \/ /\ written' = Append(written, base) /\ WrittenTo \in 0 .. base
               /\ base < NumBlocks /\ (WrittenTo = base \/ progressRes # OK)
               /\ progressRes' = progressRes
<1>1. TypeOK /\ OneWriter
  BY DEF RingInv, IInv
<1>2. pc \in [Threads -> Labels] /\ th \in [Threads -> Local] /\ written \in Seq(Nat \cup {NoIndex})
  BY <1>1 DEF TypeOK
<1>3. /\ Thread(t) /\ pc[t] = "write" /\ pc'[t] = "advance"
  BY <1>2 DEF Thread, Write
<1>4. UNCHANGED <<blocks, outBuf, stopReading, readEvent, readProcessed>>
  BY DEF Write, reader
<1>5. Still
  BY <1>1, StillRead
<1>6. StopsOnly /\ mainPc' = mainPc /\ \A u \in Threads : u # t => Waits(u)
  BY <1>1, <1>3, ThreadStops
<1>7. NextBlock(base)' = NextBlock(base)
  BY <1>5, StillNumbers
<1>8. ThreadOK(base, t) /\ WrittenInOrder(base)
  BY DEF DataOK
<1>9. Number(base, th[t].wi) = base
  <2>1. th[t].wi = Oldest
    BY <1>3 DEF RingInv, RingOK, Writing
  <2> QED BY <2>1, RingTypes, DistType DEF Number
<1>10. (~ \E u \in Threads : pc[u] = "advance") /\ \E u \in Threads : pc'[u] = "advance"
  BY <1>1, <1>3 DEF OneWriter, Writing
<1>11. /\ WrittenTo \in Nat /\ WrittenTo <= base
       /\ progressRes = OK => WrittenTo = base /\ Len(written) = base
  BY <1>8, <1>10 DEF WrittenInOrder
<1> DEFINE writes == th[t].res = OK /\ th[t].bufIndex # NoIndex
<1>12. \/ /\ writes /\ written' = Append(written, outBuf[th[t].bufIndex])
          /\ UNCHANGED <<th, progressRes>>
       \/ /\ writes /\ progressRes' = ERR /\ th' = [th EXCEPT ![t].res = ERR] /\ written' = written
       \/ /\ ~ writes /\ UNCHANGED <<written, th, progressRes>>
  BY DEF Write, SetError
<1>13. writes => outBuf[th[t].bufIndex] = base /\ base < NumBlocks
  BY <1>3, <1>8, <1>9 DEF ThreadOK, Coded
<1>14. ~ writes => progressRes # OK
  BY <1>3, <1>8 DEF ThreadOK, Coded, InBlock, InThreadFunc2
<1>15. th'[t].res # OK => progressRes' # OK
  BY <1>2, <1>3, <1>8, <1>12 DEF ThreadOK, InBlock, InThreadFunc2, Local, ERR, OK
<1>16. ThreadOK(base, t)'
  <2>1. th'[t].finished = th[t].finished
    BY <1>2, <1>12 DEF Local
  <2> QED BY <1>3, <1>4, <1>8, <1>15, <2>1 DEF ThreadOK, InBlock, PastRead, InThreadFunc2, Reading
<1>17. NextRead(base)'
  BY <1>4, <1>6, <1>7, NextReadStays DEF DataOK
<1>18. WrittenInOrder(base)'
  <2>1. CASE writes /\ written' = Append(written, outBuf[th[t].bufIndex]) /\ progressRes' = progressRes
    <3>1. /\ written' = Append(written, base) /\ Len(written') = Len(written) + 1
          /\ written' # << >> /\ written'[Len(written')] = base
      BY <1>2, <1>13, <2>1
    <3>2. WrittenTo' = base + 1
      BY <3>1 DEF WrittenTo
    <3> QED BY <1>10, <1>11, <2>1, <3>1, <3>2 DEF WrittenInOrder
  <2>2. CASE written' = written /\ progressRes' # OK
    <3>1. WrittenTo' = WrittenTo
      BY <2>2 DEF WrittenTo
    <3> QED BY <1>10, <1>11, <2>2, <3>1 DEF WrittenInOrder
  <2> QED BY <1>12, <1>14, <2>1, <2>2 DEF ERR, OK
<1>19. DataOK(base)'
  BY <1>3, <1>4, <1>5, <1>16, <1>17, <1>18, CalmData
<1> QED BY <1>11, <1>12, <1>13, <1>19

-----------------------------------------------------------------------------
(* No other block that matters is in the slot a thread fills, or in its    *)
(* buffer.                                                                 *)
LEMMA OtherSlots ==
  ASSUME RingInv, NEW t \in Threads, Filling(t) \/ Writing(t), NEW s \in SlotsOf(t)
  PROVE  /\ s \in Slots /\ ~ ReadyBlocks[s]
         /\ \A u \in Threads : u # t => /\ Filling(u) => th[u].bi # s
                                        /\ Writing(u) => th[u].wi # s
<1>1. s \in Slots /\ ~ ReadyBlocks[s]
  BY SlotsOfSlots DEF RingInv, SlotsOwnedOnce
<1>2. ASSUME NEW u \in Threads, u # t PROVE s \notin SlotsOf(u)
  BY <1>2 DEF RingInv, SlotsOwnedOnce
<1> QED BY <1>1, <1>2, SlotsOfSlots

(* Nobody else uses the buffer a thread codes into. *)
LEMMA OtherBuffers ==
  ASSUME RingInv, BufsOK, NEW t \in Threads, pc[t] = "coding", th[t].bufIndex # NoIndex
  PROVE  /\ \A u \in Threads : u # t =>
              /\ pc[u] \in {"publish", "write"} => th[u].bufIndex # th[t].bufIndex
              /\ pc[u] = "release_more" => blocks[th[u].wi].bufIndex # th[t].bufIndex
         /\ \A s \in Slots : ReadyBlocks[s] => blocks[s].bufIndex # th[t].bufIndex
<1>1. PICK own \in [Slots -> Slots \cup {NoIndex}] : OwnOK(own)
  BY DEF BufsOK
<1>2. PICK s \in Slots : s = th[t].bi /\ s \in SlotsOf(t)
  BY SlotsOfSlots DEF Filling
<1>3. own[s] = th[t].bufIndex
  BY <1>1, <1>2 DEF OwnOK, HoldsOwn, Filling
<1>4. \A r \in Slots : own[r] = own[s] => r = s
  BY <1>1, <1>3 DEF OwnOK
<1>5. /\ ~ ReadyBlocks[s]
      /\ \A u \in Threads : u # t => /\ Filling(u) => th[u].bi # s
                                     /\ Writing(u) => th[u].wi # s
  BY <1>2, OtherSlots DEF Filling
<1>6. ASSUME NEW r \in Slots, ReadyBlocks[r] PROVE blocks[r].bufIndex # th[t].bufIndex
  BY <1>1, <1>3, <1>4, <1>5, <1>6 DEF OwnOK
<1>7. ASSUME NEW u \in Threads, u # t
      PROVE  /\ pc[u] \in {"publish", "write"} => th[u].bufIndex # th[t].bufIndex
             /\ pc[u] = "release_more" => blocks[th[u].wi].bufIndex # th[t].bufIndex
  <2>1. HoldsOwn(u, own)
    BY <1>1 DEF OwnOK
  <2>2. CASE pc[u] = "publish"
    <3>1. th[u].bi \in Slots /\ th[u].bi # s
      BY <1>5, <1>7, <2>2, SlotsOfSlots DEF Filling
    <3> QED BY <1>3, <1>4, <2>1, <2>2, <3>1 DEF HoldsOwn, Filling
  <2>3. CASE pc[u] \in {"write", "release_more"}
    <3>1. th[u].wi \in Slots /\ th[u].wi # s
      BY <1>5, <1>7, <2>3, SlotsOfSlots DEF Writing
    <3> QED BY <1>3, <1>4, <2>1, <2>3, <3>1 DEF HoldsOwn
  <2> QED BY <2>2, <2>3
<1> QED BY <1>6, <1>7

(* The block is coded into its buffer, or fails.                           *)
LEMMA StoreOrder ==
  ASSUME RingInv, BufsOK, NEW base, DataOK(base), NEW t \in Threads, Code(t) \/ StoreFailed(t)
  PROVE  DataOK(base)'
<1>1. TypeOK
  BY DEF RingInv, IInv
<1>2. /\ pc \in [Threads -> Labels] /\ th \in [Threads -> Local] /\ blocks \in [Slots -> SlotType]
      /\ outBuf \in [Bufs -> Nat \cup {NoIndex}]
  BY <1>1 DEF TypeOK
<1>3. /\ Thread(t) /\ pc[t] \in {"coding", "store"} /\ pc'[t] = "publish" /\ Filling(t)
  BY <1>2 DEF Thread, Code, StoreFailed, Filling
<1>4. UNCHANGED <<written, stopReading, readEvent, readProcessed, ReadyBlocks>>
  BY DEF Code, StoreFailed, reader, writer, output
<1>5. Still
  BY <1>1, StillCode
<1>6. StopsOnly /\ mainPc' = mainPc /\ \A u \in Threads : u # t => Waits(u)
  BY <1>1, <1>3, ThreadStops
<1>7. /\ NumBlocks' = NumBlocks
      /\ NextBlock(base)' = NextBlock(base)
      /\ \A s : Number(base, s)' = Number(base, s)
      /\ \A s : base + Dist(Oldest', s) = Number(base, s)
  BY <1>5, <1>6, StillNumbers DEF StopsOnly, NumBlocks, InStream, Still, Number
<1>8. PICK s \in Slots : s = th[t].bi /\ s \in SlotsOf(t)
  BY <1>3, SlotsOfSlots
<1>9. /\ ~ ReadyBlocks[s]
      /\ \A u \in Threads : u # t => /\ Filling(u) => th[u].bi # s
                                     /\ Writing(u) => th[u].wi # s
  BY <1>3, <1>8, OtherSlots
<1>10. ThreadOK(base, t)
  BY DEF DataOK
<1>11. /\ th'[t].bi = s /\ th'[t].bufIndex = th[t].bufIndex /\ th'[t].finished = th[t].finished
       /\ blocks'[s] = [res |-> th'[t].res, bufIndex |-> th[t].bufIndex, finished |-> th[t].finished]
       /\ \A r \in Slots : r # s => blocks'[r] = blocks[r]
       /\ th'[t].res # OK => progressRes' # OK
  <2>1. CASE StoreFailed(t)
    BY <1>2, <1>3, <1>8, <1>10, <2>1
       DEF StoreFailed, StoreSlot, ThreadOK, InBlock, InThreadFunc2
  <2>2. CASE Code(t) /\ StoreSlot(t, OK) /\ th' = th
    <3>1. th[t].res = OK
      BY <1>3, <1>10, <2>2 DEF Code, ThreadOK
    <3> QED BY <1>2, <1>8, <2>2, <3>1 DEF StoreSlot
  <2>3. CASE SetError /\ StoreSlot(t, ERR) /\ th' = [th EXCEPT ![t].res = ERR]
    <3>1. SameBlock([th[t] EXCEPT !.res = th[t].res], th[t]) /\ th'[t] = [th[t] EXCEPT !.res = ERR]
      BY <1>2, <2>3 DEF SameBlock, Local
    <3>2. /\ th'[t].res = ERR /\ th'[t].bi = th[t].bi /\ th'[t].bufIndex = th[t].bufIndex
          /\ th'[t].finished = th[t].finished
      BY <1>2, <3>1 DEF Local
    <3> QED BY <1>2, <1>8, <2>3, <3>2 DEF StoreSlot, SetError, ERR, OK
  <2> QED BY <2>1, <2>2, <2>3 DEF Code
<1>12. /\ \A u \in Threads : u # t =>
            /\ pc[u] \in {"publish", "write"} /\ th[u].bufIndex # NoIndex =>
                 outBuf'[th[u].bufIndex] = outBuf[th[u].bufIndex]
            /\ pc[u] = "release_more" /\ blocks[th[u].wi].bufIndex # NoIndex =>
                 outBuf'[blocks[th[u].wi].bufIndex] = outBuf[blocks[th[u].wi].bufIndex]
       /\ \A r \in Slots : ReadyBlocks[r] /\ blocks[r].bufIndex # NoIndex =>
            outBuf'[blocks[r].bufIndex] = outBuf[blocks[r].bufIndex]
  <2>1. CASE StoreFailed(t)
    BY <2>1 DEF StoreFailed, output
  <2>2. CASE Code(t)
    <3>1. pc[t] = "coding" /\ th[t].bufIndex # NoIndex
      BY <1>10, <2>2 DEF Code, ThreadOK
    <3>2. \A b \in Bufs : b # th[t].bufIndex => outBuf'[b] = outBuf[b]
      BY <1>2, <2>2 DEF Code
    <3>3. \A u \in Threads : th[u].bufIndex # NoIndex => th[u].bufIndex \in Bufs
      BY <1>2 DEF Local
    <3>4. \A r \in Slots : blocks[r].bufIndex # NoIndex => blocks[r].bufIndex \in Bufs
      BY <1>2 DEF SlotType
    <3>5. \A u \in Threads : pc[u] = "release_more" => th[u].wi \in Slots
      BY SlotsOfSlots DEF Writing
    <3> QED BY <3>1, <3>2, <3>3, <3>4, <3>5, OtherBuffers
  <2> QED BY <2>1, <2>2
<1>13. ThreadOK(base, t)'
  <2>1. th'[t].finished => stopReading'
    BY <1>3, <1>4, <1>10, <1>11 DEF ThreadOK, PastRead, InBlock, InThreadFunc2, Reading
  <2>2. ASSUME th'[t].res = OK
        PROVE  /\ th[t].bufIndex # NoIndex /\ outBuf'[th[t].bufIndex] = Number(base, s)
               /\ Number(base, s) < NumBlocks
    <3>1. Code(t) /\ pc[t] = "coding"
      BY <1>10, <2>2 DEF StoreFailed, Code, ThreadOK
    <3>2. th[t].bufIndex # NoIndex /\ HoldsBlock(base, t)
      BY <1>10, <3>1 DEF ThreadOK
    <3>3. th[t].bufIndex \in Bufs
      BY <1>2, <3>2 DEF Local
    <3>4. outBuf' = [outBuf EXCEPT ![th[t].bufIndex] = th[t].inBuf]
      BY <1>2, <2>2, <3>1 DEF Code, Local, ERR, OK
    <3> QED BY <1>2, <1>8, <3>2, <3>3, <3>4 DEF HoldsBlock
  <2>3. blocks'[s].res = th'[t].res /\ blocks'[s].bufIndex = th[t].bufIndex
        /\ blocks'[s].finished = th[t].finished
    BY <1>11
  <2>4. Kept(base, s)'
    BY <1>7, <1>11, <2>1, <2>2, <2>3 DEF Kept, Coded
  <2>5. Kept(base, th[t].bi)'
    BY <1>11, <2>4 DEF Kept, Coded, Number
  <2> QED BY <1>3, <1>11, <2>1, <2>5 DEF ThreadOK, InBlock, PastRead, InThreadFunc2, Reading
<1>14. ASSUME NEW u \in Threads, u # t PROVE ThreadOK(base, u)'
  <2>1. ThreadOK(base, u)
    BY DEF DataOK
  <2>2. /\ pc[u] = "publish" => blocks'[th[u].bi] = blocks[th[u].bi]
        /\ pc[u] = "release_more" => blocks'[th[u].wi] = blocks[th[u].wi]
    BY <1>9, <1>11, <1>14, SlotsOfSlots DEF Filling, Writing
  <2> QED BY <1>4, <1>6, <1>7, <1>12, <1>14, <2>1, <2>2, OthersOK
<1>15. ASSUME NEW r \in Slots, ReadyBlocks'[r] PROVE Kept(base, r)'
  <2>1. Kept(base, r) /\ r # s
    BY <1>4, <1>9, <1>15 DEF DataOK
  <2> QED BY <1>4, <1>6, <1>7, <1>11, <1>12, <1>15, <2>1, KeptStays
<1>16. NextRead(base)'
  BY <1>4, <1>6, <1>7, NextReadStays DEF DataOK
<1>17. WrittenInOrder(base)'
  <2>1. pc[t] # "advance" /\ pc'[t] # "advance"
    BY <1>3
  <2> QED BY <1>4, <1>6, <2>1, WaitsAdvance, WrittenStays DEF DataOK
<1> QED BY <1>13, <1>14, <1>15, <1>16, <1>17 DEF DataOK

(* The block is handed over: its thread becomes the writer, or leaves it   *)
(* to the list of ready blocks.                                            *)
LEMMA PublishOrder ==
  ASSUME RingInv, CountsKnown, NEW base, DataOK(base), NEW t \in Threads, Publish(t)
  PROVE  DataOK(base)'
<1>1. TypeOK
  BY DEF RingInv, IInv
<1>2. /\ pc \in [Threads -> Labels] /\ th \in [Threads -> Local]
      /\ ReadyBlocks \in [Slots -> BOOLEAN] /\ writeRes \in {OK, ERR}
  BY <1>1 DEF TypeOK
<1>3. /\ Thread(t) /\ pc[t] = "publish" /\ Filling(t)
      /\ pc' = [pc EXCEPT ![t] = pc'[t]] /\ pc'[t] \in {"write", "count", "acquire"}
  BY <1>2 DEF Thread, Publish, AfterBlock, Filling
<1>4. UNCHANGED <<blocks, outBuf, written, stopReading, readEvent, readProcessed, progressRes,
                  blocksSemaphore, blockIndex>>
  BY DEF Publish, reader, output
<1>5. Oldest' = Oldest /\ InFlight' = InFlight
  <2>1. Released' = Released
    BY <1>2, <1>3 DEF Released
  <2> QED BY <1>4, <2>1 DEF InFlight, Oldest, Back
<1>6. StopsOnly /\ mainPc' = mainPc /\ \A u \in Threads : u # t => Waits(u)
  BY <1>1, <1>3, ThreadStops
<1>7. /\ NumBlocks' = NumBlocks /\ NextBlock(base)' = NextBlock(base)
      /\ \A s : Number(base, s)' = Number(base, s)
      /\ \A s : base + Dist(Oldest', s) = Number(base, s)
  BY <1>5, <1>6 DEF StopsOnly, NumBlocks, InStream, NextBlock, Number, Dist
<1>8. PICK s \in Slots : s = th[t].bi
  BY <1>3, SlotsOfSlots
<1>9. /\ Kept(base, s)
      /\ blocks[s].res = th[t].res /\ blocks[s].bufIndex = th[t].bufIndex
      /\ blocks[s].finished = th[t].finished
  <2>1. ThreadOK(base, t)
    BY DEF DataOK
  <2>2. Kept(base, s) /\ blocks[s] = [res |-> th[t].res, bufIndex |-> th[t].bufIndex,
                                      finished |-> th[t].finished]
    BY <1>3, <1>8, <2>1 DEF ThreadOK
  <2> QED BY <2>2
<1>10. /\ th[t].res # OK => progressRes # OK
       /\ th[t].finished => stopReading
       /\ th[t].res = OK => Coded(base, s, th[t].bufIndex)
  BY <1>9 DEF Kept
<1>11. ThreadOK(base, t)'
  <2>1. CASE writeIndex = s
    <3>1. /\ pc'[t] = "write"
          /\ th' = [th EXCEPT ![t] = [@ EXCEPT !.wi = s, !.res = FirstError(writeRes, th[t].res)]]
      BY <1>2, <1>8, <2>1 DEF Publish
    <3>2. /\ th'[t].wi = s /\ th'[t].bufIndex = th[t].bufIndex /\ th'[t].finished = th[t].finished
          /\ th'[t].res = FirstError(writeRes, th[t].res)
      BY <1>2, <3>1 DEF Local
    <3>3. th'[t].res # OK => progressRes # OK
      BY <1>10, <3>2 DEF CountsKnown, FirstError
    <3>4. th'[t].res = OK => th[t].res = OK
      BY <3>2 DEF FirstError
    <3>5. th'[t].res = OK => Coded(base, th[t].wi, th[t].bufIndex)'
      BY <1>4, <1>7, <1>10, <3>2, <3>4 DEF Coded, Number
    <3> QED BY <1>4, <1>10, <3>1, <3>2, <3>3, <3>5
            DEF ThreadOK, InBlock, PastRead, InThreadFunc2, Reading
  <2>2. CASE writeIndex # s
    <3>1. th' = th /\ pc'[t] = AfterBlock(t, th[t].res, th[t].finished)
      BY <1>2, <1>8, <2>2 DEF Publish
    <3>2. pc'[t] = "count" => stopReading \/ progressRes # OK
      BY <1>10, <3>1 DEF AfterBlock
    <3>3. pc'[t] \in {"count", "acquire"}
      BY <3>1 DEF AfterBlock
    <3> QED BY <1>4, <3>2, <3>3 DEF ThreadOK, InBlock, PastRead, InThreadFunc2, Reading
  <2> QED BY <2>1, <2>2
<1>12. ASSUME NEW u \in Threads, u # t PROVE ThreadOK(base, u)'
  <2>1. ThreadOK(base, u)
    BY DEF DataOK
  <2> QED BY <1>4, <1>6, <1>7, <1>12, <2>1, OthersOK
<1>13. ASSUME NEW r \in Slots, ReadyBlocks'[r] PROVE Kept(base, r)'
  <2>1. r = s \/ ReadyBlocks[r]
    BY <1>2, <1>8, <1>13 DEF Publish
  <2>2. Kept(base, r)
    BY <1>9, <2>1 DEF DataOK
  <2> QED BY <1>4, <1>6, <1>7, <2>2, KeptStays
<1>14. NextRead(base)'
  BY <1>4, <1>6, <1>7, NextReadStays DEF DataOK
<1>15. WrittenInOrder(base)'
  <2>1. pc[t] # "advance" /\ pc'[t] # "advance"
    BY <1>3
  <2> QED BY <1>4, <1>6, <2>1, WaitsAdvance, WrittenStays DEF DataOK
<1> QED BY <1>11, <1>12, <1>13, <1>14, <1>15 DEF DataOK

(* The writer goes on to the next slot, whose block is the next in the     *)
(* output; the numbers of all others stay.                                 *)
LEMMA AdvanceOrder ==
  ASSUME RingInv, NEW base \in Nat, DataOK(base), NEW t \in Threads, Advance(t)
  PROVE  DataOK(base + 1)'
<1>1. TypeOK /\ OneWriter
  BY DEF RingInv, IInv
<1>2. /\ pc \in [Threads -> Labels] /\ th \in [Threads -> Local]
      /\ ReadyBlocks \in [Slots -> BOOLEAN]
  BY <1>1 DEF TypeOK
<1>3. /\ Thread(t) /\ pc[t] = "advance" /\ Writing(t)
      /\ pc' = [pc EXCEPT ![t] = pc'[t]] /\ pc'[t] \in {"release_more", "release_last"}
  BY <1>2 DEF Thread, Advance, Writing
<1>4. UNCHANGED <<blocks, outBuf, written, stopReading, readEvent, readProcessed, progressRes>>
  BY DEF Advance, reader, output
<1>5. /\ Oldest \in Slots /\ InFlight \in 1 .. NumBlocksMax
      /\ th[t].wi = Oldest /\ InFlight' = InFlight - 1 /\ Oldest' = NextSlot(Oldest)
      /\ \A s \in Slots : s # Oldest => Dist(NextSlot(Oldest), s) = Dist(Oldest, s) - 1
  BY AdvanceMoves
<1>6. StopsOnly /\ mainPc' = mainPc /\ \A u \in Threads : u # t => Waits(u)
  BY <1>1, <1>3, ThreadStops
<1>7. ASSUME NEW s \in Slots, s # Oldest
      PROVE  /\ base + 1 + Dist(Oldest', s) = Number(base, s)
             /\ Number(base + 1, s)' = Number(base, s)
  <2>1. Dist(Oldest', s) = Dist(Oldest, s) - 1 /\ Dist(Oldest, s) \in Nat
    BY <1>5, <1>7, DistType
  <2>2. base + 1 + Dist(Oldest', s) = base + Dist(Oldest, s)
    BY <2>1
  <2> QED BY <2>2 DEF Number, Dist
<1>8. NumBlocks' = NumBlocks /\ NextBlock(base + 1)' = NextBlock(base)
  <2>1. NumBlocksMax \in Nat
    BY MtCoderAssumption
  <2>2. base + 1 + InFlight' = base + InFlight
    BY <1>5, <2>1
  <2> QED BY <1>6, <2>2 DEF NextBlock, StopsOnly, NumBlocks, InStream
<1>9. /\ ~ ReadyBlocks[Oldest]
      /\ \A u \in Threads : u # t => /\ Filling(u) => th[u].bi # Oldest
                                     /\ ~ Writing(u)
  <2>1. Oldest \in SlotsOf(t)
    BY <1>3, <1>5 DEF SlotsOf, Filling
  <2>2. PICK s \in SlotsOf(t) : s = Oldest
    BY <2>1
  <2>3. /\ ~ ReadyBlocks[s]
        /\ \A u \in Threads : u # t => (Filling(u) => th[u].bi # s)
    BY <1>3, OtherSlots
  <2> QED BY <1>1, <1>3, <2>2, <2>3 DEF OneWriter
<1>10. ASSUME NEW r \in Slots, ReadyBlocks[r] PROVE Kept(base + 1, r)'
  <2>1. Kept(base, r) /\ r # Oldest
    BY <1>9, <1>10 DEF DataOK
  <2> QED BY <1>4, <1>6, <1>7, <2>1, KeptStays
<1>11. ThreadOK(base, t)
  BY DEF DataOK
<1>12. PICK next \in Slots : next = NextSlot(th[t].wi)
  BY <1>5, NextSlotType
<1>13. /\ th'[t].wi = next /\ th'[t].res = th[t].res /\ th'[t].finished = th[t].finished
       /\ pc'[t] = IF ReadyBlocks[next] THEN "release_more" ELSE "release_last"
       /\ \A r \in Slots : ReadyBlocks'[r] => ReadyBlocks[r]
  <2>1. /\ th' = [th EXCEPT ![t] = [@ EXCEPT !.wi = next, !.bufIndex = NoIndex]]
        /\ pc'[t] = IF ReadyBlocks[next] THEN "release_more" ELSE "release_last"
        /\ ReadyBlocks' \in {ReadyBlocks, [ReadyBlocks EXCEPT ![next] = FALSE]}
    BY <1>2, <1>12 DEF Advance
  <2> QED BY <1>2, <2>1 DEF Local
<1>14. ThreadOK(base + 1, t)'
  <2>1. pc'[t] = "release_more" => Kept(base + 1, next)'
    BY <1>10, <1>13
  <2>2. pc'[t] = "release_more" => Kept(base + 1, th[t].wi)'
    BY <1>13, <2>1 DEF Kept, Coded, Number
  <2> QED BY <1>3, <1>4, <1>11, <1>13, <2>2
          DEF ThreadOK, InBlock, PastRead, InThreadFunc2, Reading
<1>15. ASSUME NEW u \in Threads, u # t PROVE ThreadOK(base + 1, u)'
  <2>1. ThreadOK(base, u)
    BY DEF DataOK
  <2>2. Filling(u) => base + 1 + Dist(Oldest', th[u].bi) = Number(base, th[u].bi)
    BY <1>7, <1>9, <1>15, SlotsOfSlots
  <2>3. ~ Writing(u) /\ pc[u] \notin {"write", "release_more"}
    BY <1>9, <1>15 DEF Writing
  <2> QED BY <1>4, <1>6, <1>8, <1>15, <2>1, <2>2, <2>3, OthersOK
<1>16. \A r \in Slots : ReadyBlocks'[r] => Kept(base + 1, r)'
  BY <1>10, <1>13
<1>17. NextRead(base + 1)'
  <2>1. NextRead(base)
    BY DEF DataOK
  <2>2. InStream' = InStream
    BY <1>6 DEF StopsOnly, InStream
  <2> QED BY <1>4, <1>6, <1>8, <2>1, <2>2 DEF NextRead, StartsAt, StopsOnly
<1>18. WrittenInOrder(base + 1)'
  <2>1. ~ \E u \in Threads : pc'[u] = "advance"
    BY <1>2, <1>3, <1>9 DEF Writing
  <2>2. WrittenTo' = WrittenTo
    BY <1>4 DEF WrittenTo
  <2>3. WrittenInOrder(base) /\ \E u \in Threads : pc[u] = "advance"
    BY <1>3 DEF DataOK
  <2> QED BY <1>4, <2>1, <2>2, <2>3 DEF WrittenInOrder
<1> QED BY <1>14, <1>15, <1>16, <1>17, <1>18 DEF DataOK

(* The writer takes over the next block, or leaves the loop.               *)
LEMMA ReleaseSlotOrder ==
  ASSUME RingInv, NEW base, DataOK(base), NEW t \in Threads, ReleaseSlot(t)
  PROVE  DataOK(base)'
<1>1. TypeOK
  BY DEF RingInv, IInv
<1>2. pc \in [Threads -> Labels] /\ th \in [Threads -> Local]
  BY <1>1 DEF TypeOK
<1>3. /\ Thread(t) /\ pc[t] \in {"release_more", "release_last"}
      /\ pc'[t] \in {"write", "count", "acquire"}
  BY <1>2 DEF Thread, ReleaseSlot, AfterBlock
<1>4. UNCHANGED <<blocks, outBuf, written, stopReading, readEvent, readProcessed, progressRes>>
  BY DEF ReleaseSlot, reader, output
<1>5. Still
  BY StillRelease
<1>6. StopsOnly /\ mainPc' = mainPc /\ \A u \in Threads : u # t => Waits(u)
  BY <1>1, <1>3, ThreadStops
<1>7. /\ NumBlocks' = NumBlocks /\ NextBlock(base)' = NextBlock(base)
      /\ \A s : Number(base, s)' = Number(base, s)
  BY <1>5, <1>6, StillNumbers DEF StopsOnly, NumBlocks, InStream
<1>8. ThreadOK(base, t)
  BY DEF DataOK
<1>9. /\ th[t].res # OK => progressRes # OK
      /\ th[t].finished => stopReading
  BY <1>3, <1>8 DEF ThreadOK, InBlock, PastRead, InThreadFunc2, Reading
<1>10. ThreadOK(base, t)'
  <2>1. CASE pc[t] = "release_more"
    <3>1. PICK s \in Slots : s = th[t].wi
      BY <2>1, SlotsOfSlots DEF Writing
    <3>2. Kept(base, s)
      BY <1>8, <2>1, <3>1 DEF ThreadOK
    <3>3. /\ pc'[t] = "write"
          /\ th' = [th EXCEPT ![t] = [@ EXCEPT !.res = FirstError(th[t].res, blocks[s].res),
                                               !.bufIndex = blocks[s].bufIndex,
                                               !.finished = blocks[s].finished]]
      BY <1>2, <2>1, <3>1 DEF ReleaseSlot
    <3>4. /\ th'[t].wi = s /\ th'[t].res = FirstError(th[t].res, blocks[s].res)
          /\ th'[t].bufIndex = blocks[s].bufIndex /\ th'[t].finished = blocks[s].finished
      BY <1>2, <3>1, <3>3 DEF Local
    <3>5. /\ th'[t].res # OK => progressRes # OK
          /\ th'[t].finished => stopReading
          /\ th'[t].res = OK => Coded(base, s, blocks[s].bufIndex)
      BY <1>9, <3>2, <3>4 DEF Kept, FirstError
    <3>6. th'[t].res = OK => Coded(base, th[t].wi, th[t].bufIndex)'
      BY <1>4, <1>7, <3>4, <3>5 DEF Coded, Number
    <3> QED BY <1>4, <3>3, <3>5, <3>6 DEF ThreadOK, InBlock, PastRead, InThreadFunc2, Reading
  <2>2. CASE pc[t] = "release_last"
    <3>1. th' = th /\ pc'[t] = AfterBlock(t, th[t].res, th[t].finished)
      BY <1>2, <2>2 DEF ReleaseSlot
    <3>2. pc'[t] = "count" => stopReading \/ progressRes # OK
      BY <1>9, <3>1 DEF AfterBlock
    <3>3. pc'[t] \in {"count", "acquire"}
      BY <3>1 DEF AfterBlock
    <3> QED BY <1>4, <3>2, <3>3 DEF ThreadOK, InBlock, PastRead, InThreadFunc2, Reading
  <2> QED BY <1>3, <2>1, <2>2
<1>11. NextRead(base)'
  BY <1>4, <1>6, <1>7, NextReadStays DEF DataOK
<1>12. WrittenInOrder(base)'
  <2>1. pc[t] # "advance" /\ pc'[t] # "advance"
    BY <1>3
  <2> QED BY <1>4, <1>6, <2>1, WaitsAdvance, WrittenStays DEF DataOK
<1> QED BY <1>3, <1>4, <1>5, <1>10, <1>11, <1>12, CalmData

-----------------------------------------------------------------------------
(* MtCoder_Code itself moves no block.                                     *)
LEMMA MainWaits ==
  ASSUME TypeOK, Launch \/ Finish \/ Destruct \/ UNCHANGED vars
  PROVE  \A u \in Threads : Waits(u)
<1> SUFFICES ASSUME NEW u \in Threads PROVE Waits(u)
  OBVIOUS
<1> DEFINE l == [th[u] EXCEPT !.startEvent = TRUE, !.stop = FALSE]
           m == [th[u] EXCEPT !.stop = TRUE, !.startEvent = TRUE]
<1>1. pc \in [Threads -> Labels] /\ th \in [Threads -> Local]
  BY DEF TypeOK
<1>2. SameBlock(th[u], l) /\ SameBlock(th[u], m) /\ SameBlock(th[u], th[u])
  <2>1. th[u] \in Local
    BY <1>1
  <2>2. SameBlock(th[u], l)
    BY <2>1, KeepBlock
  <2>3. SameBlock(th[u], m)
    BY <2>1, KeepBlock
  <2> QED BY <2>2, <2>3 DEF SameBlock
<1>3. th'[u] \in {th[u], l, m} /\ (pc'[u] = pc[u] \/ (pc[u] = "none" /\ pc'[u] = "start"))
  <2>1. CASE Launch
    BY <1>1, <2>1 DEF Launch, Created
  <2>2. CASE Finish \/ UNCHANGED vars
    BY <2>2 DEF Finish, vars
  <2>3. CASE Destruct
    <3>1. th'[u] \in {th[u], m}
      BY <1>1, <2>3 DEF Destruct
    <3>2. pc' = pc
      BY <2>3 DEF Destruct
    <3> QED BY <3>1, <3>2
  <2> QED BY <2>1, <2>2, <2>3
<1> HIDE DEF l, m
<1> QED BY <1>2, <1>3 DEF Waits

(* The caller changes no block. *)
LEMMA MainOrder ==
  ASSUME RingInv, NEW base, DataOK(base), Launch \/ Finish \/ Destruct \/ UNCHANGED vars
  PROVE  DataOK(base)'
<1>1. TypeOK
  BY DEF RingInv, IInv
<1>2. /\ UNCHANGED <<blocks, outBuf, written, stopReading, readProcessed, progressRes, input>>
      /\ readEvent' \/ mainPc' = "launch" => readEvent \/ mainPc = "launch"
  <2>1. CASE Launch
    BY <2>1 DEF Launch, output
  <2>2. CASE Finish
    BY <2>2 DEF Finish, reader, output
  <2>3. CASE Destruct
    BY <2>3 DEF Destruct, reader, output
  <2>4. CASE UNCHANGED vars
    BY <2>4 DEF vars, reader, output, main
  <2> QED BY <2>1, <2>2, <2>3, <2>4
<1>3. Still
  BY <1>1, StillMain
<1>4. StopsOnly /\ \A u \in Threads : Waits(u)
  BY <1>1, <1>2, MainWaits DEF StopsOnly
<1>5. /\ NumBlocks' = NumBlocks /\ InStream' = InStream
      /\ NextBlock(base)' = NextBlock(base)
      /\ \A s : Number(base, s)' = Number(base, s)
      /\ \A s : base + Dist(Oldest', s) = Number(base, s)
  BY <1>3, <1>4, StillNumbers DEF StopsOnly, NumBlocks, InStream, Still, Number
<1>6. ASSUME NEW u \in Threads PROVE ThreadOK(base, u)'
  <2>1. ThreadOK(base, u)
    BY DEF DataOK
  <2> QED BY <1>2, <1>4, <1>5, <2>1, OthersOK
<1>7. ASSUME NEW s \in Slots, ReadyBlocks'[s] PROVE Kept(base, s)'
  <2>1. Kept(base, s)
    BY <1>3, <1>7 DEF DataOK, Still
  <2> QED BY <1>2, <1>4, <1>5, <2>1, KeptStays
<1>8. NextRead(base)'
  BY <1>2, <1>5 DEF DataOK, NextRead, StartsAt
<1>9. WrittenInOrder(base)'
  <2>1. \A u \in Threads : pc'[u] = "advance" <=> pc[u] = "advance"
    BY <1>4 DEF Waits
  <2> QED BY <1>2, <1>4, <2>1, WrittenStays DEF DataOK
<1> QED BY <1>6, <1>7, <1>8, <1>9 DEF DataOK

(* The call begins with an empty ring at block 0.                          *)
LEMMA CallOrder ==
  ASSUME RingInv, calls = 0, Call
  PROVE  OrderOK'
<1>1. /\ Fresh /\ \A u \in Threads : pc'[u] = "none"
  BY DEF RingInv, IInv, Fresh, Call
<1>2. /\ blocksSemaphore' = NumBlocksMax /\ blockIndex' = 0 /\ writeIndex' = 0
      /\ ReadyBlocks' = [s \in Slots |-> FALSE] /\ written' = << >>
      /\ readProcessed' = 0 /\ stopReading' = FALSE /\ progressRes' = OK /\ writeRes' = OK
      /\ numFinishedThreads' = 0 /\ mainPc' = "launch" /\ input' = input
  BY DEF Call
<1>3. NumBlocksMax \in Nat /\ 0 \in Slots /\ 0 # NoIndex /\ BlockSize \in Nat /\ InputLen \in Nat
  BY MtCoderAssumption DEF Slots, NoIndex
<1>4. Released' = {}
  BY <1>1 DEF Released
<1>5. InFlight' = 0
  BY <1>2, <1>3, <1>4, FS_EmptySet DEF InFlight
<1>6. Oldest' = 0
  BY <1>2, <1>5 DEF Oldest, Back
<1>7. SlotsKnown'
  <2>1. \A s \in Slots : ~ InUse(s)'
    <3> SUFFICES ASSUME NEW s \in Slots, InUse(s)' PROVE FALSE
      OBVIOUS
    <3>1. Dist(0, s) < 0 /\ Dist(0, s) \in Nat
      BY <1>3, <1>5, <1>6, DistType DEF InUse
    <3> QED BY <3>1
  <2> QED BY <1>2, <1>3, <2>1 DEF SlotsKnown
<1>8. CountsKnown'
  BY <1>2 DEF CountsKnown
<1>9. \A u \in Threads : ThreadOK(0, u)'
  BY <1>1, Outside
<1>10. NextRead(0)'
  <2>1. NextBlock(0)' = 0
    BY <1>5 DEF NextBlock
  <2> QED BY <1>2, <1>3, <2>1 DEF NextRead, StartsAt
<1>11. WrittenInOrder(0)'
  <2>1. WrittenTo' = 0 /\ Len(written') = 0
    BY <1>2 DEF WrittenTo
  <2> QED BY <1>1, <2>1 DEF WrittenInOrder
<1>12. DataOK(0)'
  BY <1>2, <1>9, <1>10, <1>11 DEF DataOK
<1> QED BY <1>7, <1>8, <1>12 DEF OrderOK

-----------------------------------------------------------------------------
(* The slots in use stay those with an owner.                              *)
LEMMA DistInjective ==
  ASSUME NEW w \in Slots, NEW r \in Slots, NEW s \in Slots, Dist(w, r) = Dist(w, s)
  PROVE  r = s
BY MtCoderAssumption DEF Dist, Slots

(* A slot that is taken is the thread's own. *)
LEMMA TakeSlotKnown ==
  ASSUME RingInv, SlotsKnown, NEW t \in Threads, TakeSlot(t)
  PROVE  SlotsKnown'
<1>1. /\ pc \in [Threads -> Labels] /\ th \in [Threads -> Local] /\ blockIndex \in Slots
  BY DEF RingInv, IInv, TypeOK
<1>2. /\ Oldest \in Slots /\ Oldest' = Oldest /\ InFlight \in Nat /\ InFlight' = InFlight + 1
      /\ Dist(Oldest, blockIndex) = InFlight
  BY TakeSlotMoves, MtCoderAssumption
<1>3. /\ pc[t] = "take" /\ pc' = [pc EXCEPT ![t] = "release_read"]
      /\ th' = [th EXCEPT ![t] = [@ EXCEPT !.bi = blockIndex, !.bufIndex = NoIndex]]
      /\ UNCHANGED <<writeIndex, ReadyBlocks>>
  BY DEF TakeSlot, writer
<1>4. SlotsOf(t) = {} /\ SlotsOf(t)' = {blockIndex} /\ ~ Writing(t)
  BY <1>1, <1>3 DEF SlotsOf, Filling, Writing, Local
<1>5. \A u \in Threads : u # t => SlotsOf(u)' = SlotsOf(u) /\ (Writing(u)' <=> Writing(u))
  BY <1>1, <1>3 DEF SlotsOf, Filling, Writing
<1>6. ASSUME NEW s \in Slots, InUse(s)' PROVE Owned(s)'
  <2>1. Dist(Oldest, s) < InFlight + 1 /\ Dist(Oldest, s) \in Nat
    BY <1>2, <1>6, DistType DEF InUse, Dist
  <2>2. CASE Dist(Oldest, s) = InFlight
    <3>1. s = blockIndex
      BY <1>1, <1>2, <2>2, DistInjective
    <3> QED BY <1>4, <3>1 DEF Owned
  <2>3. CASE Dist(Oldest, s) # InFlight
    <3>1. Owned(s)
      BY <1>2, <2>1, <2>3 DEF SlotsKnown, InUse
    <3> QED BY <1>3, <1>4, <1>5, <3>1 DEF Owned
  <2> QED BY <2>2, <2>3
<1> QED BY <1>3, <1>4, <1>5, <1>6 DEF SlotsKnown

(* A block that is published is the writer's to take, or its thread        *)
(* becomes the writer.                                                     *)
LEMMA PublishKnown ==
  ASSUME RingInv, SlotsKnown, NEW t \in Threads, Publish(t)
  PROVE  SlotsKnown'
<1>1. /\ pc \in [Threads -> Labels] /\ th \in [Threads -> Local] /\ ReadyBlocks \in [Slots -> BOOLEAN]
  BY DEF RingInv, IInv, TypeOK
<1>2. /\ UNCHANGED <<blocksSemaphore, blockIndex>>
      /\ pc[t] = "publish" /\ pc' = [pc EXCEPT ![t] = pc'[t]]
      /\ pc'[t] \in {"write", "count", "acquire"}
      /\ \A u \in Threads : u # t => th'[u] = th[u]
  BY <1>1 DEF Publish, reader, AfterBlock
<1>3. \A s : InUse(s)' = InUse(s)
  <2>1. Released' = Released
    BY <1>1, <1>2 DEF Released
  <2> QED BY <1>2, <2>1 DEF InFlight, Oldest, Back, InUse, Dist
<1>4. \A u \in Threads : u # t => SlotsOf(u)' = SlotsOf(u) /\ (Writing(u)' <=> Writing(u))
  BY <1>1, <1>2 DEF SlotsOf, Filling, Writing
<1>5. PICK s \in Slots : s = th[t].bi
  BY <1>2, SlotsOfSlots DEF Filling
<1>6. SlotsOf(t) = {s} /\ ~ Writing(t)
  BY <1>2, <1>5 DEF SlotsOf, Filling, Writing
<1>7. CASE writeIndex = s
  <2>1. /\ writeIndex' = NoIndex /\ ReadyBlocks' = ReadyBlocks /\ pc'[t] = "write" /\ th'[t].wi = s
    BY <1>1, <1>5, <1>7 DEF Publish, Local
  <2>2. Writing(t)' /\ SlotsOf(t)' = {s}
    BY <2>1 DEF SlotsOf, Filling, Writing
  <2>3. \A r \in Slots : Owned(r) => Owned(r)'
    BY <1>4, <1>6, <2>1, <2>2 DEF Owned
  <2> QED BY <1>3, <2>1, <2>2, <2>3 DEF SlotsKnown
<1>8. CASE writeIndex # s
  <2>1. writeIndex' = writeIndex /\ ReadyBlocks' = [ReadyBlocks EXCEPT ![s] = TRUE]
    BY <1>5, <1>8 DEF Publish
  <2>2. \A r \in Slots : Owned(r) => Owned(r)'
    BY <1>1, <1>4, <1>6, <2>1 DEF Owned
  <2>3. ReadyBlocks'[writeIndex] = ReadyBlocks[writeIndex] \/ writeIndex = NoIndex
    BY <1>1, <1>8, <2>1 DEF RingInv, IInv, TypeOK
  <2> QED BY <1>3, <1>4, <1>6, <2>1, <2>2, <2>3 DEF SlotsKnown
<1> QED BY <1>7, <1>8

(* The writer goes on to the next slot, or leaves it to the thread that    *)
(* fills it.                                                               *)
LEMMA AdvanceKnown ==
  ASSUME RingInv, SlotsKnown, NEW t \in Threads, Advance(t)
  PROVE  SlotsKnown'
<1>1. /\ pc \in [Threads -> Labels] /\ th \in [Threads -> Local] /\ ReadyBlocks \in [Slots -> BOOLEAN]
      /\ OneWriter
  BY DEF RingInv, IInv, TypeOK
<1>2. /\ Oldest \in Slots /\ InFlight \in 1 .. NumBlocksMax
      /\ th[t].wi = Oldest /\ InFlight' = InFlight - 1 /\ Oldest' = NextSlot(Oldest)
      /\ \A s \in Slots : s # Oldest => Dist(NextSlot(Oldest), s) = Dist(Oldest, s) - 1
  BY AdvanceMoves
<1>3. PICK next \in Slots : next = NextSlot(Oldest)
  BY <1>2, NextSlotType
<1> DEFINE more == ReadyBlocks[next]
<1>4. /\ pc[t] = "advance"
      /\ pc' = [pc EXCEPT ![t] = IF more THEN "release_more" ELSE "release_last"]
      /\ th' = [th EXCEPT ![t] = [@ EXCEPT !.wi = next, !.bufIndex = NoIndex]]
      /\ writeIndex' = IF more THEN writeIndex ELSE next
      /\ ReadyBlocks' = IF more THEN [ReadyBlocks EXCEPT ![next] = FALSE] ELSE ReadyBlocks
  BY <1>2, <1>3 DEF Advance
<1>5. Writing(t) /\ SlotsOf(t) = {Oldest} /\ writeIndex = NoIndex
  BY <1>1, <1>2, <1>4 DEF SlotsOf, Filling, Writing, OneWriter
<1>6. \A u \in Threads : u # t => SlotsOf(u)' = SlotsOf(u)
  BY <1>1, <1>4 DEF SlotsOf, Filling, Writing
<1>7. more => Writing(t)' /\ SlotsOf(t)' = {next}
  BY <1>1, <1>4 DEF SlotsOf, Filling, Writing, Local
<1>8. ASSUME NEW s \in Slots, InUse(s)' PROVE s # Oldest /\ InUse(s)
  <2>1. Dist(NextSlot(Oldest), s) < InFlight - 1
    BY <1>2, <1>8 DEF InUse, Dist
  <2>2. s # Oldest
    <3>1. Dist(NextSlot(Oldest), Oldest) = NumBlocksMax - 1 \/ NumBlocksMax = 1
      BY <1>2, MtCoderAssumption DEF Dist, NextSlot, Slots
    <3>2. NumBlocksMax > 1
      BY MtCoderAssumption
    <3> QED BY <1>2, <2>1, <3>1, <3>2, MtCoderAssumption
  <2>3. Dist(Oldest, s) < InFlight
    <3>1. Dist(NextSlot(Oldest), s) = Dist(Oldest, s) - 1 /\ Dist(Oldest, s) \in Nat
      BY <1>2, <2>2, DistType
    <3> QED BY <1>2, <2>1, <3>1, MtCoderAssumption
  <2> QED BY <2>2, <2>3 DEF InUse
<1>9. ASSUME NEW s \in Slots, InUse(s)' PROVE Owned(s)'
  <2>1. Owned(s) /\ s # Oldest
    BY <1>8, <1>9 DEF SlotsKnown
  <2>2. CASE ReadyBlocks[s]
    BY <1>1, <1>4, <1>7, <2>2 DEF Owned
  <2>3. CASE ~ ReadyBlocks[s]
    BY <1>5, <1>6, <2>1, <2>3 DEF Owned
  <2> QED BY <2>2, <2>3
<1>10. next # NoIndex
  BY MtCoderAssumption DEF Slots, NoIndex
<1>11. CASE more
  BY <1>4, <1>5, <1>7, <1>9, <1>11 DEF SlotsKnown
<1>12. CASE ~ more
  BY <1>4, <1>9, <1>10, <1>12 DEF SlotsKnown
<1> QED BY <1>11, <1>12

-----------------------------------------------------------------------------
(* Who is counted as finished has found the end or a failure, after each   *)
(* step of a thread.                                                       *)
LEMMA ThreadCounts ==
  ASSUME TypeOK, CountsKnown, NEW base, DataOK(base), NEW t \in Threads, Thread(t)
  PROVE  CountsKnown'
<1>1. StopsOnly /\ mainPc' = mainPc
  BY ThreadStops
<1>2. numStartedThreads \in Nat /\ numFinishedThreads \in Nat
  BY DEF TypeOK
<1>3. numStartedThreads' = numStartedThreads \/ numStartedThreads' = numStartedThreads + 1
  BY DEF Thread, WaitStart, AcquireRead, ReadBlock, TakeSlot, ReleaseRead, TakeBuf, Code,
     StoreFailed, Publish, Write, Advance, ReleaseSlot, CountFinished, CompareFinished, counts
<1>4. numFinishedThreads' = numFinishedThreads \/ pc[t] = "count"
  BY DEF Thread, WaitStart, AcquireRead, ReadBlock, TakeSlot, ReleaseRead, TakeBuf, Code,
     StoreFailed, Publish, Write, Advance, ReleaseSlot, CountFinished, CompareFinished, counts
<1>5. pc[t] = "count" => stopReading \/ progressRes # OK
  BY DEF DataOK, ThreadOK
<1>6. writeRes' = writeRes \/ progressRes' = ERR
  BY DEF Thread, WaitStart, AcquireRead, ReadBlock, TakeSlot, ReleaseRead, TakeBuf, Code,
     StoreFailed, Publish, Write, Advance, ReleaseSlot, CountFinished, CompareFinished, writer,
     SetError
<1>7. mainPc' = "wait" => numStartedThreads' > 0
  BY <1>1, <1>2, <1>3 DEF CountsKnown
<1>8. numFinishedThreads' > 0 => stopReading' \/ progressRes' # OK
  <2>1. numFinishedThreads' > 0 => stopReading \/ progressRes # OK
    BY <1>4, <1>5 DEF CountsKnown
  <2> QED BY <1>1, <2>1 DEF StopsOnly
<1>9. writeRes' # OK => progressRes' # OK
  BY <1>1, <1>6 DEF CountsKnown, StopsOnly, ERR, OK
<1> QED BY <1>7, <1>8, <1>9 DEF CountsKnown

(* So it is after each step of the caller. *)
LEMMA MainCounts ==
  ASSUME CountsKnown, Launch \/ Finish \/ Destruct \/ UNCHANGED vars
  PROVE  CountsKnown'
<1>1. CASE Launch
  BY <1>1 DEF Launch, writer, CountsKnown
<1>2. CASE Finish
  BY <1>2 DEF Finish, reader, writer, CountsKnown
<1>3. CASE Destruct
  BY <1>3 DEF Destruct, reader, writer, counts, CountsKnown
<1>4. CASE UNCHANGED vars
  BY <1>4 DEF vars, reader, writer, counts, main, CountsKnown
<1> QED BY <1>1, <1>2, <1>3, <1>4

(* Every slot in use has an owner, after each step of a thread. *)
LEMMA ThreadSlots ==
  ASSUME RingInv, SlotsKnown, NEW t \in Threads, Thread(t)
  PROVE  SlotsKnown'
<1>1. TypeOK
  BY DEF RingInv, IInv
<1>2. CASE TakeSlot(t)
  BY <1>2, TakeSlotKnown
<1>3. CASE Publish(t)
  BY <1>3, PublishKnown
<1>4. CASE Advance(t)
  BY <1>4, AdvanceKnown
<1>5. CASE ReleaseSlot(t)
  BY <1>5, StillRelease, StillSlots
<1>6. CASE TakeBuf(t) \/ Code(t) \/ StoreFailed(t)
  BY <1>1, <1>6, StillCode, StillSlots
<1>7. CASE \/ WaitStart(t) \/ AcquireRead(t) \/ ReadBlock(t) \/ ReleaseRead(t)
           \/ Write(t) \/ CountFinished(t) \/ CompareFinished(t)
  BY <1>1, <1>7, StillRead, StillSlots
<1> QED BY <1>2, <1>3, <1>4, <1>5, <1>6, <1>7 DEF Thread

(* The blocks are in order after each step of a thread, from the same      *)
(* oldest block or the next.                                               *)
LEMMA ThreadData ==
  ASSUME RingInv, BufsOK, CountsKnown, NEW base \in Nat, DataOK(base),
         NEW t \in Threads, Thread(t)
  PROVE  DataOK(base)' \/ DataOK(base + 1)'
<1>1. CASE WaitStart(t) \/ CountFinished(t) \/ CompareFinished(t)
  BY <1>1, WaitStartOrder
<1>2. CASE AcquireRead(t)
  BY <1>2, AcquireReadOrder
<1>3. CASE ReadBlock(t)
  BY <1>3, ReadBlockOrder
<1>4. CASE TakeSlot(t)
  BY <1>4, TakeSlotOrder
<1>5. CASE ReleaseRead(t)
  BY <1>5, ReleaseReadOrder
<1>6. CASE TakeBuf(t)
  BY <1>6, TakeBufOrder
<1>7. CASE Code(t) \/ StoreFailed(t)
  BY <1>7, StoreOrder
<1>8. CASE Publish(t)
  BY <1>8, PublishOrder
<1>9. CASE Write(t)
  BY <1>9, WriteOrder
<1>10. CASE Advance(t)
  BY <1>10, AdvanceOrder
<1>11. CASE ReleaseSlot(t)
  BY <1>11, ReleaseSlotOrder
<1> QED BY <1>1, <1>2, <1>3, <1>4, <1>5, <1>6, <1>7, <1>8, <1>9, <1>10, <1>11 DEF Thread

(* So there is an oldest block from which they are in order. *)
LEMMA ThreadOrder ==
  ASSUME RingInv, BufsOK, OrderOK, NEW t \in Threads, Thread(t)
  PROVE  OrderOK'
<1>1. TypeOK
  BY DEF RingInv, IInv
<1>2. SlotsKnown /\ CountsKnown
  BY DEF OrderOK
<1>3. PICK base \in Nat : DataOK(base)
  BY DEF OrderOK
<1>4. SlotsKnown'
  BY <1>2, ThreadSlots
<1>5. CountsKnown'
  BY <1>1, <1>2, <1>3, ThreadCounts
<1>6. DataOK(base)' \/ DataOK(base + 1)'
  BY <1>2, <1>3, ThreadData
<1>7. base \in Nat /\ base + 1 \in Nat
  OBVIOUS
<1>8. (\E n \in Nat : DataOK(n))'
  BY <1>6, <1>7
<1> QED BY <1>4, <1>5, <1>8 DEF OrderOK

(* Before the first call nobody runs. *)
LEMMA NotCalled ==
  ASSUME RingInv, calls = 0
  PROVE  ~ Launch /\ \A t \in Threads : ~ Thread(t)
<1>1. Fresh /\ \A t \in Threads : pc[t] = "none"
  BY DEF RingInv, IInv, Fresh
<1>2. \A t \in Threads : ~ Thread(t)
  BY <1>1 DEF Thread, WaitStart, AcquireRead, ReadBlock, TakeSlot, ReleaseRead,
              TakeBuf, Code, StoreFailed, Publish, Write, Advance, ReleaseSlot,
              CountFinished, CompareFinished
<1> QED BY <1>1, <1>2 DEF Launch, Fresh

(* Every step of one call keeps the blocks in order. *)
LEMMA NextOrder == MaxCalls = 1 /\ RingInv /\ BufsInv /\ OrderInv /\ [Next]_vars => OrderInv'
<1> SUFFICES ASSUME MaxCalls = 1, RingInv, BufsInv, OrderInv, [Next]_vars PROVE OrderInv'
  OBVIOUS
<1>1. TypeOK /\ Fresh
  BY DEF RingInv, IInv
<1>2. CASE calls = 0
  <2>1. NothingYet
    BY <1>2 DEF OrderInv
  <2>2. CASE Call
    <3>1. calls' # 0
      BY <1>2, <2>2 DEF Call
    <3> QED BY <1>2, <2>2, <3>1, CallOrder DEF OrderInv
  <2>3. CASE Finish \/ Destruct \/ UNCHANGED vars
    <3>1. UNCHANGED <<calls, written, progressRes>>
      BY <2>3 DEF Finish, Destruct, vars, output, main
    <3> QED BY <1>2, <2>1, <3>1 DEF OrderInv, NothingYet
  <2> QED BY <1>2, <2>2, <2>3, NotCalled DEF Next, Main, Done
<1>3. CASE calls # 0
  <2>1. OrderOK /\ BufsOK
    BY <1>3 DEF OrderInv, BufsInv
  <2>2. ~ Call
    BY <1>1, <1>3 DEF Call, Fresh
  <2>3. ASSUME NEW t \in Threads, Thread(t) PROVE OrderOK' /\ calls' = calls
    BY <1>1, <2>1, <2>3, ThreadOrder, ThreadStops
  <2>4. CASE Launch \/ Finish \/ Destruct \/ UNCHANGED vars
    <3>1. calls' = calls
      BY <2>4 DEF Launch, Finish, Destruct, vars, main
    <3>2. SlotsKnown'
      BY <1>1, <2>1, <2>4, StillMain, StillSlots DEF OrderOK
    <3>3. CountsKnown'
      BY <2>1, <2>4, MainCounts DEF OrderOK
    <3>4. PICK base \in Nat : DataOK(base)
      BY <2>1 DEF OrderOK
    <3>5. DataOK(base)'
      BY <2>4, <3>4, MainOrder
    <3>6. OrderOK'
      BY <3>2, <3>3, <3>5 DEF OrderOK
    <3> QED BY <1>3, <3>1, <3>6 DEF OrderInv
  <2> QED BY <1>3, <2>2, <2>3, <2>4 DEF Next, Main, Done, OrderInv
<1> QED BY <1>2, <1>3

-----------------------------------------------------------------------------
(* When every thread has left without an error, everything was read, the   *)
(* ring is empty and all of it was written.                                *)
LEMMA AllWritten ==
  ASSUME RingInv, OrderOK, CountsRight, mainPc = "wait", finishedEvent, progressRes = OK
  PROVE  Len(written) = NumBlocks
<1>1. PICK base \in Nat : DataOK(base)
  BY DEF OrderOK
<1>2. /\ numStartedThreads \in Nat /\ numFinishedThreads \in Nat
      /\ written \in Seq(Nat \cup {NoIndex}) /\ writeIndex \in Slots \cup {NoIndex}
  BY DEF RingInv, IInv, TypeOK
<1>3. numFinishedThreads > 0 /\ ActiveThreads = {}
  <2>1. numStartedThreads > 0
    BY DEF OrderOK, CountsKnown
  <2>2. /\ numFinishedThreads + Cardinality(ActiveThreads) = numStartedThreads
        /\ numFinishedThreads = numStartedThreads
    BY DEF CountsRight
  <2>3. Cardinality(ActiveThreads) = 0
    BY <1>2, <2>2, ActiveFinite
  <2> QED BY <2>1, <2>2, <2>3, NobodyActive
<1>4. NextBlock(base) = NumBlocks
  <2>1. stopReading
    BY <1>3 DEF OrderOK, CountsKnown
  <2> QED BY <1>1, <2>1 DEF DataOK, NextRead
<1>5. \A t \in Threads : SlotsOf(t) = {} /\ ~ Writing(t) /\ pc[t] # "advance"
  BY <1>3 DEF ActiveThreads, Active, InThreadFunc2, SlotsOf, Filling, Writing
<1>6. Len(written) = base
  BY <1>1, <1>5 DEF DataOK, WrittenInOrder
<1>7. InFlight = 0
  <2>1. writeIndex # NoIndex /\ ~ ReadyBlocks[writeIndex] /\ writeIndex = Oldest
    BY <1>5 DEF OrderOK, SlotsKnown, RingInv, RingOK
  <2>2. ~ Owned(Oldest)
    BY <1>5, <2>1 DEF Owned
  <2>3. ~ InUse(Oldest)
    BY <2>2, RingTypes DEF OrderOK, SlotsKnown
  <2>4. Oldest \in Slots /\ Dist(Oldest, Oldest) = 0 /\ InFlight \in Nat
    BY RingTypes, DistType
  <2> QED BY <2>3, <2>4 DEF InUse
<1> QED BY <1>4, <1>6, <1>7 DEF NextBlock

-----------------------------------------------------------------------------
(* The abstract coder has not begun either. *)
LEMMA InitImplements == Init => Ordered!Init
<1> SUFFICES ASSUME Init PROVE Ordered!Init
  OBVIOUS
<1>1. written = << >> /\ progressRes = OK /\ calls = 0
  BY DEF Init
<1>2. Answer = "none" /\ Answer # ERR
  BY <1>1 DEF Answer, ERR
<1> QED BY <1>1, <1>2, NumBlocksType DEF Ordered!Init

(* What the abstract specification sees.                                   *)
Failed == progressRes # OK \/ (Answer = ERR)
Seen == <<NumBlocks, written, Failed, Answer>>

(* A thread outside the loop changes nothing of it, one inside it writes   *)
(* the next block or tells of an error, while MtCoder_Code waits.          *)
LEMMA ThreadImplements ==
  ASSUME RingInv, BufsInv, OrderInv, ThreadsCounted, NEW t \in Threads, Thread(t)
  PROVE  Ordered!Next \/ UNCHANGED Seen
<1>1. TypeOK
  BY DEF RingInv, IInv
<1>2. StopsOnly /\ UNCHANGED <<mainPc, calls, result>>
  <2>1. result' = result
    BY DEF Thread, WaitStart, AcquireRead, ReadBlock, TakeSlot, ReleaseRead, TakeBuf, Code,
       StoreFailed, Publish, Write, Advance, ReleaseSlot, CountFinished, CompareFinished, main
  <2> QED BY <1>1, <2>1, ThreadStops
<1>3. NumBlocks' = NumBlocks /\ Answer' = Answer
  BY <1>2 DEF StopsOnly, NumBlocks, InStream, Answer
<1>4. calls # 0 /\ OrderOK
  BY NotCalled DEF OrderInv
<1>5. CASE WaitStart(t) \/ CountFinished(t) \/ CompareFinished(t)
  <2>1. written' = written /\ progressRes' = progressRes
    BY <1>5 DEF WaitStart, CountFinished, CompareFinished, output
  <2> QED BY <1>3, <2>1 DEF Seen, Failed
<1>6. CASE ~ (WaitStart(t) \/ CountFinished(t) \/ CompareFinished(t))
  <2>1. InThreadFunc2(t)
    BY <1>6 DEF Thread, AcquireRead, ReadBlock, TakeSlot, ReleaseRead, TakeBuf, Code,
       StoreFailed, Publish, Write, Advance, ReleaseSlot, InThreadFunc2
  <2>2. Answer = "none" /\ Answer # ERR
    BY <2>1, InCall DEF ThreadsCounted, Active, Answer, ERR
  <2>3. ASSUME written' = written, progressRes' = progressRes \/ progressRes' = ERR
        PROVE  Ordered!Next \/ UNCHANGED Seen
    <3>1. CASE progressRes' = progressRes
      BY <1>3, <2>3, <3>1 DEF Seen, Failed
    <3>2. CASE progressRes' = ERR
      <4>1. Failed' = TRUE
        BY <3>2 DEF Failed, ERR, OK
      <4>2. Ordered!Fail
        BY <1>3, <2>2, <2>3, <4>1 DEF Ordered!Fail, Failed
      <4> QED BY <4>2 DEF Ordered!Next
    <3> QED BY <2>3, <3>1, <3>2
  <2>4. CASE Write(t)
    <3>1. PICK base \in Nat : DataOK(base)
      BY <1>4 DEF OrderOK
    <3>2. \/ written' = written
          \/ /\ written' = Append(written, base) /\ WrittenTo \in 0 .. base
             /\ base < NumBlocks /\ (WrittenTo = base \/ progressRes # OK)
             /\ progressRes' = progressRes
      BY <2>4, <3>1, WriteOrder
    <3>3. CASE written' = written
      BY <2>3, <2>4, <3>3 DEF Write, SetError
    <3>4. CASE /\ written' = Append(written, base) /\ WrittenTo \in 0 .. base
               /\ base < NumBlocks /\ (WrittenTo = base \/ progressRes # OK)
               /\ progressRes' = progressRes
      <4>1. Ordered!Before = WrittenTo
        BY DEF Ordered!Before, WrittenTo
      <4>2. base \in WrittenTo .. NumBlocks - 1
        BY <3>4, NumBlocksType
      <4>3. Failed' = Failed
        BY <1>3, <3>4 DEF Failed
      <4>4. base = Ordered!Before \/ Failed
        BY <3>4, <4>1 DEF Failed
      <4>5. Ordered!Write
        BY <1>3, <2>2, <3>4, <4>1, <4>2, <4>3, <4>4 DEF Ordered!Write, Failed
      <4> QED BY <4>5 DEF Ordered!Next
    <3> QED BY <3>2, <3>3, <3>4
  <2>5. CASE ~ Write(t)
    <3>1. written' = written /\ (progressRes' = progressRes \/ progressRes' = ERR)
      BY <1>6, <2>5 DEF Thread, AcquireRead, ReadBlock, TakeSlot, ReleaseRead, TakeBuf, Code,
         StoreFailed, Publish, Advance, ReleaseSlot, output, SetError
    <3> QED BY <2>3, <3>1
  <2> QED BY <2>4, <2>5
<1> QED BY <1>5, <1>6

(* MtCoder_Code returns once, with an error or after everything is out.    *)
LEMMA MainImplements ==
  ASSUME MaxCalls = 1, RingInv, OrderInv, ThreadsCounted, Main
  PROVE  Ordered!Next \/ UNCHANGED Seen
<1>1. TypeOK /\ Fresh
  BY DEF RingInv, IInv
<1>2. OK # ERR /\ ERR # "none" /\ OK # "none" /\ OK = "OK" /\ ERR = "ERR"
  BY DEF OK, ERR
<1>3. CASE Call
  <2>1. calls = 0 /\ calls' # 0 /\ mainPc' = "launch" /\ UNCHANGED input
    BY <1>1, <1>3 DEF Call, Fresh
  <2>2. written = << >> /\ progressRes = OK /\ written' = << >> /\ progressRes' = OK
    BY <1>3, <2>1 DEF Call, OrderInv, NothingYet
  <2>3. Answer = "none" /\ Answer' = "none" /\ NumBlocks' = NumBlocks
    BY <2>1 DEF Answer, NumBlocks, InStream
  <2> QED BY <2>2, <2>3 DEF Seen, Failed
<1>4. CASE Launch
  <2>1. /\ mainPc = "launch" /\ calls > 0 /\ calls' = calls /\ UNCHANGED <<input, written, progressRes>>
        /\ mainPc' = "wait" \/ (mainPc' = "idle" /\ result' = ERR)
    BY <1>1, <1>4 DEF Launch, Fresh, output
  <2>2. Answer = "none" /\ NumBlocks' = NumBlocks
    BY <2>1 DEF Answer, NumBlocks, InStream
  <2>3. CASE mainPc' = "wait"
    <3>1. Answer' = "none"
      BY <2>3 DEF Answer
    <3> QED BY <2>1, <2>2, <3>1 DEF Seen, Failed
  <2>4. CASE mainPc' = "idle" /\ result' = ERR
    <3>1. Answer' = ERR
      BY <1>1, <2>1, <2>4 DEF Answer, Fresh
    <3>2. Failed' = TRUE
      BY <3>1 DEF Failed
    <3>3. Ordered!Return
      BY <1>2, <2>1, <2>2, <3>1, <3>2 DEF Ordered!Return, Failed
    <3> QED BY <3>3 DEF Ordered!Next
  <2> QED BY <2>1, <2>3, <2>4
<1>5. CASE Finish
  <2> DEFINE r == FirstError(readRes, FirstError(progressRes, writeRes))
  <2>1. /\ mainPc = "wait" /\ finishedEvent /\ result' = r
        /\ mainPc' \in {"idle", "free"}
        /\ UNCHANGED <<input, calls, written, progressRes>>
    BY <1>5 DEF Finish, output
  <2>2. calls # 0
    BY <2>1 DEF ThreadsCounted, NotStarted
  <2>3. Answer = "none" /\ Answer' = r /\ NumBlocks' = NumBlocks
    BY <2>1, <2>2 DEF Answer, NumBlocks, InStream
  <2>4. r \in {OK, ERR} /\ (r = OK => progressRes = OK)
    BY <1>1 DEF FirstError, TypeOK
  <2> HIDE DEF r
  <2>5. CASE r = OK
    <3>1. Len(written) = NumBlocks
      BY <2>1, <2>2, <2>4, <2>5, AllWritten DEF OrderInv, ThreadsCounted
    <3>2. Failed = FALSE /\ Failed' = FALSE
      BY <1>2, <2>1, <2>3, <2>4, <2>5 DEF Failed
    <3>3. Ordered!Return
      BY <1>2, <2>1, <2>3, <2>5, <3>1, <3>2 DEF Ordered!Return, Failed
    <3> QED BY <3>3 DEF Ordered!Next
  <2>6. CASE r = ERR
    <3>1. Failed' = TRUE
      BY <2>3, <2>6 DEF Failed
    <3>2. Ordered!Return
      BY <1>2, <2>1, <2>3, <2>6, <3>1 DEF Ordered!Return, Failed
    <3> QED BY <3>2 DEF Ordered!Next
  <2> QED BY <2>4, <2>5, <2>6
<1>6. CASE Destruct
  <2>1. /\ mainPc = "free" /\ mainPc' \in {"free", "idle"}
        /\ UNCHANGED <<input, calls, result, written, progressRes>>
    BY <1>6 DEF Destruct, output
  <2>2. Answer' = Answer /\ NumBlocks' = NumBlocks
    BY <2>1 DEF Answer, NumBlocks, InStream
  <2> QED BY <2>1, <2>2 DEF Seen, Failed
<1> QED BY <1>3, <1>4, <1>5, <1>6 DEF Main

(* Every step of one call is a step of the abstract coder, or changes      *)
(* nothing it has.                                                         *)
LEMMA StepImplements ==
  MaxCalls = 1 /\ RingInv /\ BufsInv /\ OrderInv /\ ThreadsCounted /\ [Next]_vars
    => [Ordered!Next]_Seen
<1> SUFFICES ASSUME MaxCalls = 1, RingInv, BufsInv, OrderInv, ThreadsCounted, [Next]_vars
             PROVE  Ordered!Next \/ UNCHANGED Seen
  OBVIOUS
<1>1. CASE UNCHANGED vars
  <2>1. UNCHANGED <<input, mainPc, result, calls, written, progressRes>>
    BY <1>1 DEF vars, main, output
  <2> QED BY <2>1 DEF Seen, Failed, Answer, NumBlocks, InStream
<1>2. CASE Main
  BY <1>2, MainImplements
<1>3. ASSUME NEW t \in Threads, Thread(t) PROVE Ordered!Next \/ UNCHANGED Seen
  BY <1>3, ThreadImplements
<1> QED BY <1>1, <1>2, <1>3 DEF Next, Done

-----------------------------------------------------------------------------
(* One call of MtCoder_Code implements the ordered pipe: the blocks come    *)
(* out in input order, a gap only follows a failure, and SZ_OK means that   *)
(* all of them are out, for every number of threads, slots, buffers and     *)
(* blocks and every set of failures.                                        *)
THEOREM Implements == MaxCalls = 1 /\ Spec => ImplementsOrderedCoder
<1> SUFFICES ASSUME MaxCalls = 1 PROVE Spec => ImplementsOrderedCoder
  OBVIOUS
<1>1. Init => RingOK /\ SlotsOwnedOnce
  BY NoneRing DEF Init, NoneYet
<1>2. Init => BufsInv /\ OrderInv
  BY DEF Init, BufsInv, NoBufsYet, OrderInv, NothingYet
<1>3. Init => ThreadsCounted
  BY InitCounted
<1>4. (Init => IInv) /\ (IInv /\ [Next]_vars => IInv')
  BY Inductive
<1>5. IInv /\ RingOK /\ SlotsOwnedOnce /\ [Next]_vars => RingOK' /\ SlotsOwnedOnce'
  BY NextRing DEF RingInv
<1>6. IInv /\ RingOK /\ SlotsOwnedOnce /\ BufsInv /\ [Next]_vars => BufsInv'
  BY NextBufs DEF RingInv
<1>7. IInv /\ RingOK /\ SlotsOwnedOnce /\ BufsInv /\ OrderInv /\ [Next]_vars => OrderInv'
  BY NextOrder DEF RingInv
<1>8. IInv /\ ThreadsCounted /\ [Next]_vars => ThreadsCounted'
  BY NextCounted DEF IInv
<1>9. IInv /\ RingOK /\ SlotsOwnedOnce /\ BufsInv /\ OrderInv /\ ThreadsCounted /\ [Next]_vars
        => [Ordered!Next]_Seen
  BY StepImplements DEF RingInv
<1>10. Spec => Ordered!Init /\ [][Ordered!Next]_Seen
  BY <1>1, <1>2, <1>3, <1>4, <1>5, <1>6, <1>7, <1>8, <1>9, InitImplements, PTL DEF Spec
<1> QED BY <1>10 DEF ImplementsOrderedCoder, Ordered!Spec, Seen, Failed
=============================================================================
