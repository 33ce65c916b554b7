--------------------------- MODULE LzFindMtProofs ---------------------------
(***************************************************************************)
(* For every size of the rings and of their blocks, every input and every  *)
(* finder, the semaphores of the match finder's three threads neither lose *)
(* nor make a block, and each thread holds the lock that keeps the window  *)
(* where it is while it looks into it.  What the threads compute is left   *)
(* as it is defined: only sync, pc and mode matter here.                   *)
(***************************************************************************)
EXTENDS LzFindMt, TLAPS

Holders == {"none", "lz", "bt", "hash"}

SyncOf(numBlocks) ==
  [needStart : BOOLEAN, csWasEntered : BOOLEAN, cs : Holders, exit : BOOLEAN, stopWriting : BOOLEAN,
   numProcessedBlocks : Nat, canStart : BOOLEAN, wasStopped : BOOLEAN,
   free : Nat, filled : Nat, max : {numBlocks}]

LzPlaces == {"off", "failed", "idle", "run", "wait", "block", "stopping", "joinBt", "joinHash", "ended"}
BtPlaces == {"start", "free", "lock", "begin", "match", "wait", "heads", "stop", "stopping", "ended"}
HashPlaces == {"start", "loop", "move", "fill", "ended"}

Typed ==
  /\ sync \in [hash : SyncOf(NumHashBlocks), bt : SyncOf(NumBtBlocks)]
  /\ pc \in [lz : LzPlaces, bt : BtPlaces, hash : HashPlaces]

(* The hash thread: a thread that was not started, or was stopped, waits   *)
(* at its start; one told to stop still has to say that it did.            *)
HashControl ==
  /\ sync.hash.needStart =>
       /\ pc.hash \in {"start", "ended"} /\ ~sync.hash.wasStopped
       /\ sync.hash.canStart => sync.hash.exit /\ pc.hash # "ended" /\ pc.lz = "joinHash"
       /\ pc.bt \notin {"lock", "wait", "heads", "stopping"}
  /\ ~sync.hash.needStart =>
       /\ ~sync.bt.needStart /\ ~sync.hash.exit /\ pc.hash # "ended"
       /\ sync.hash.stopWriting <=> pc.bt = "stopping"
       /\ pc.hash = "start" => (sync.hash.canStart <=> ~sync.hash.wasStopped)
       /\ pc.hash # "start" => ~sync.hash.canStart /\ ~sync.hash.wasStopped
       /\ sync.hash.wasStopped => sync.hash.stopWriting
  /\ pc.hash = "ended" => pc.lz \in {"joinHash", "ended"}

(* The same of the bt thread, which the encoder's thread starts and stops. *)
BtControl ==
  /\ sync.bt.needStart =>
       /\ pc.lz \in {"off", "idle", "run", "joinBt", "joinHash", "ended"}
       /\ pc.bt \in {"start", "ended"} /\ ~sync.bt.wasStopped
       /\ sync.bt.canStart => sync.bt.exit /\ pc.bt # "ended" /\ pc.lz = "joinBt"
  /\ ~sync.bt.needStart =>
       /\ ~sync.bt.exit /\ pc.bt # "ended" /\ mode = "mt"
       /\ pc.lz \in {"idle", "run", "wait", "block", "stopping"}
       /\ sync.bt.stopWriting <=> pc.lz = "stopping"
       /\ pc.bt = "start" => sync.hash.needStart /\ (sync.bt.canStart <=> ~sync.bt.wasStopped)
       /\ pc.bt # "start" => ~sync.bt.canStart /\ ~sync.bt.wasStopped
       /\ sync.bt.wasStopped => sync.bt.stopWriting
       /\ pc.bt \in {"stop", "stopping"} => sync.bt.stopWriting
  /\ pc.bt = "ended" => pc.lz \in {"joinBt", "joinHash", "ended"}
  /\ pc.lz = "run" => mode = "mt"

(* A thread that looks into the window holds its lock, no other does, and  *)
(* the hash thread holds the encoder's while it moves the window.          *)
Locks ==
  /\ sync.hash.cs = (IF sync.hash.csWasEntered THEN "bt" ELSE "none")
  /\ sync.hash.csWasEntered => pc.bt \in {"begin", "match"} /\ ~sync.hash.needStart
  /\ pc.bt \in {"begin", "match"} /\ ~sync.hash.needStart => sync.hash.csWasEntered
  /\ sync.bt.cs = (IF sync.bt.csWasEntered THEN "lz" ELSE IF pc.hash = "move" THEN "hash" ELSE "none")
  /\ sync.bt.csWasEntered => pc.lz \in {"idle", "run"} /\ ~sync.bt.needStart /\ pc.hash # "move"
  /\ pc.lz \in {"idle", "run"} /\ ~sync.bt.needStart => sync.bt.csWasEntered

(* A ring nobody has started to fill is wholly free: of hash heads as long *)
(* as the bt thread may still ask for one, of matches as long as the       *)
(* encoder may.                                                            *)
MayAskHash ==
  /\ mode = "mt"
  /\ \/ pc.lz \in {"idle", "run", "wait", "block"}
     \/ pc.lz = "stopping" /\ (pc.bt \in {"free", "begin", "match"} \/ sync.bt.canStart)

Fresh ==
  /\ sync.hash.needStart /\ MayAskHash => sync.hash.free = NumHashBlocks /\ sync.hash.filled = 0
  /\ sync.bt.needStart /\ mode = "mt" /\ pc.lz \in {"idle", "run"} =>
       sync.bt.free = NumBtBlocks /\ sync.bt.filled = 0

(* While a writer is told to stop, its ring holds no more blocks than it   *)
(* was made with: the reader's block has been given back.                  *)
Stopping ==
  LET Held(c) == IF c THEN 1 ELSE 0
  IN /\ ~sync.hash.needStart /\ sync.hash.stopWriting =>
          sync.hash.free + sync.hash.filled + Held(pc.hash = "fill") <= NumHashBlocks
     /\ ~sync.bt.needStart /\ sync.bt.stopWriting =>
          sync.bt.free + sync.bt.filled + Held(pc.bt \notin {"free", "start"}) <= NumBtBlocks

Inv == Typed /\ HashControl /\ BtControl /\ Locks /\ Fresh /\ BlocksKept /\ Stopping

(* No call fails because a thread was not stopped.                         *)
NeverUnready == pc.lz # "failed"

(* The window is moved only while neither other thread has a pointer into  *)
(* it, or the encoder one into a block.                                    *)
MovesAlone ==
  pc.hash = "move" /\ sync.hash.cs = "none" =>
    pc.bt \notin {"begin", "match"} /\ pc.lz \notin {"idle", "run"}

(* Where a semaphore is released, it is below its maximum.                 *)
ReleasesFit ==
  /\ pc.hash = "fill" => sync.hash.filled < NumHashBlocks
  /\ pc.bt \in {"match", "stop"} /\ ~sync.hash.needStart => sync.hash.free < NumHashBlocks
  /\ pc.bt \in {"begin", "heads", "match"} => sync.bt.filled < NumBtBlocks
  /\ pc.lz \in {"idle", "run"} /\ ~sync.bt.needStart => sync.bt.free < NumBtBlocks

(* What the operations on a CMtSync change, field by field.                *)
LEMMA FillOneIs ==
  ASSUME NEW n \in Nat, NEW y \in SyncOf(n)
  PROVE  /\ FillOne(y) \in SyncOf(n)
         /\ FillOne(y).needStart <=> y.needStart
         /\ FillOne(y).csWasEntered <=> y.csWasEntered
         /\ FillOne(y).cs = y.cs
         /\ FillOne(y).exit <=> y.exit
         /\ FillOne(y).stopWriting <=> y.stopWriting
         /\ FillOne(y).numProcessedBlocks = y.numProcessedBlocks
         /\ FillOne(y).canStart <=> y.canStart
         /\ FillOne(y).wasStopped <=> y.wasStopped
         /\ FillOne(y).free = y.free
         /\ FillOne(y).filled = (IF y.filled < y.max THEN y.filled + 1 ELSE y.filled)
         /\ FillOne(y).max = y.max
  BY DEF SyncOf, Holders, FillOne, Released

(* A block is given back.                                                  *)
LEMMA FreeOneIs ==
  ASSUME NEW n \in Nat, NEW y \in SyncOf(n)
  PROVE  /\ FreeOne(y) \in SyncOf(n)
         /\ FreeOne(y).needStart <=> y.needStart
         /\ FreeOne(y).csWasEntered <=> y.csWasEntered
         /\ FreeOne(y).cs = y.cs
         /\ FreeOne(y).exit <=> y.exit
         /\ FreeOne(y).stopWriting <=> y.stopWriting
         /\ FreeOne(y).numProcessedBlocks = y.numProcessedBlocks
         /\ FreeOne(y).canStart <=> y.canStart
         /\ FreeOne(y).wasStopped <=> y.wasStopped
         /\ FreeOne(y).free = (IF y.free < y.max THEN y.free + 1 ELSE y.free)
         /\ FreeOne(y).filled = y.filled
         /\ FreeOne(y).max = y.max
  BY DEF SyncOf, Holders, FreeOne, Released

(* The lock is left.                                                       *)
LEMMA UnlockIs ==
  ASSUME NEW n \in Nat, NEW y \in SyncOf(n)
  PROVE  /\ Unlock(y) \in SyncOf(n)
         /\ Unlock(y).needStart <=> y.needStart
         /\ ~Unlock(y).csWasEntered
         /\ Unlock(y).cs = "none"
         /\ Unlock(y).exit <=> y.exit
         /\ Unlock(y).stopWriting <=> y.stopWriting
         /\ Unlock(y).numProcessedBlocks = y.numProcessedBlocks
         /\ Unlock(y).canStart <=> y.canStart
         /\ Unlock(y).wasStopped <=> y.wasStopped
         /\ Unlock(y).free = y.free
         /\ Unlock(y).filled = y.filled
         /\ Unlock(y).max = y.max
  BY DEF SyncOf, Holders, Unlock

(* All blocks are free again.                                              *)
LEMMA MtSync_InitIs ==
  ASSUME NEW n \in Nat, NEW y \in SyncOf(n)
  PROVE  /\ MtSync_Init(y) \in SyncOf(n)
         /\ MtSync_Init(y).needStart <=> y.needStart
         /\ MtSync_Init(y).csWasEntered <=> y.csWasEntered
         /\ MtSync_Init(y).cs = y.cs
         /\ MtSync_Init(y).exit <=> y.exit
         /\ MtSync_Init(y).stopWriting <=> y.stopWriting
         /\ MtSync_Init(y).numProcessedBlocks = y.numProcessedBlocks
         /\ MtSync_Init(y).canStart <=> y.canStart
         /\ MtSync_Init(y).wasStopped <=> y.wasStopped
         /\ MtSync_Init(y).free = y.max
         /\ MtSync_Init(y).filled = 0
         /\ MtSync_Init(y).max = y.max
  BY DEF SyncOf, Holders, MtSync_Init

(* The lock is entered.                                                    *)
LEMMA LockIs ==
  ASSUME NEW n \in Nat, NEW y \in SyncOf(n), NEW t \in Holders
  PROVE  /\ Lock(y, t) \in SyncOf(n)
         /\ Lock(y, t).needStart <=> y.needStart
         /\ Lock(y, t).csWasEntered
         /\ Lock(y, t).cs = t
         /\ Lock(y, t).exit <=> y.exit
         /\ Lock(y, t).stopWriting <=> y.stopWriting
         /\ Lock(y, t).numProcessedBlocks = y.numProcessedBlocks
         /\ Lock(y, t).canStart <=> y.canStart
         /\ Lock(y, t).wasStopped <=> y.wasStopped
         /\ Lock(y, t).free = y.free
         /\ Lock(y, t).filled = y.filled
         /\ Lock(y, t).max = y.max
  BY DEF SyncOf, Lock

(* The first block asked for starts the writer; a later one gives the last back. *)
LEMMA GetNextBlockIs ==
  ASSUME NEW n \in Nat, NEW y \in SyncOf(n)
  PROVE  /\ GetNextBlock(y) \in SyncOf(n)
         /\ ~GetNextBlock(y).needStart
         /\ GetNextBlock(y).csWasEntered <=> (y.needStart /\ y.csWasEntered)
         /\ GetNextBlock(y).cs = (IF y.needStart THEN y.cs ELSE "none")
         /\ GetNextBlock(y).exit <=> (~y.needStart /\ y.exit)
         /\ GetNextBlock(y).stopWriting <=> (~y.needStart /\ y.stopWriting)
         /\ GetNextBlock(y).numProcessedBlocks = (IF y.needStart THEN 1 ELSE y.numProcessedBlocks + 1)
         /\ GetNextBlock(y).canStart <=> (y.needStart \/ y.canStart)
         /\ GetNextBlock(y).wasStopped <=> (~y.needStart /\ y.wasStopped)
         /\ GetNextBlock(y).free = (IF ~y.needStart /\ y.free < y.max THEN y.free + 1 ELSE y.free)
         /\ GetNextBlock(y).filled = y.filled
         /\ GetNextBlock(y).max = y.max
<1> DEFINE u == [Unlock(y) EXCEPT !.numProcessedBlocks = y.numProcessedBlocks + 1]
<1>1. CASE y.needStart
  BY <1>1 DEF GetNextBlock, SyncOf, Holders
<1>2. CASE ~y.needStart
  <2>1. GetNextBlock(y) = FreeOne(u)
    BY <1>2, UnlockIs DEF GetNextBlock
  <2>2. /\ u \in SyncOf(n)
        /\ u.needStart <=> y.needStart
        /\ ~u.csWasEntered
        /\ u.cs = "none"
        /\ u.exit <=> y.exit
        /\ u.stopWriting <=> y.stopWriting
        /\ u.numProcessedBlocks = y.numProcessedBlocks + 1
        /\ u.canStart <=> y.canStart
        /\ u.wasStopped <=> y.wasStopped
        /\ u.free = y.free
        /\ u.filled = y.filled
        /\ u.max = y.max
    BY UnlockIs DEF SyncOf, Holders
  <2> HIDE DEF u
  <2> QED BY <1>2, <2>1, <2>2, FreeOneIs DEF SyncOf
<1> QED BY <1>1, <1>2

(* The writer is told to stop, and woken.                                  *)
LEMMA StopWritingIs ==
  ASSUME NEW n \in Nat, NEW y \in SyncOf(n)
  PROVE  /\ StopWriting(y) \in SyncOf(n)
         /\ StopWriting(y).needStart <=> y.needStart
         /\ ~StopWriting(y).csWasEntered
         /\ StopWriting(y).cs = (IF y.csWasEntered THEN "none" ELSE y.cs)
         /\ StopWriting(y).exit <=> y.exit
         /\ StopWriting(y).stopWriting
         /\ StopWriting(y).numProcessedBlocks = y.numProcessedBlocks
         /\ StopWriting(y).canStart <=> y.canStart
         /\ StopWriting(y).wasStopped <=> y.wasStopped
         /\ StopWriting(y).free = (IF y.free < y.max THEN y.free + 1 ELSE y.free)
         /\ StopWriting(y).filled = y.filled
         /\ StopWriting(y).max = y.max
<1> DEFINE v == IF y.csWasEntered THEN Unlock(y) ELSE y
           u == [v EXCEPT !.stopWriting = TRUE]
<1>1. StopWriting(y) = FreeOne(u)
  BY DEF StopWriting
<1>2. /\ v \in SyncOf(n)
      /\ v.needStart <=> y.needStart
      /\ ~v.csWasEntered
      /\ v.cs = (IF y.csWasEntered THEN "none" ELSE y.cs)
      /\ v.exit <=> y.exit
      /\ v.stopWriting <=> y.stopWriting
      /\ v.numProcessedBlocks = y.numProcessedBlocks
      /\ v.canStart <=> y.canStart
      /\ v.wasStopped <=> y.wasStopped
      /\ v.free = y.free
      /\ v.filled = y.filled
      /\ v.max = y.max
  <2>1. CASE y.csWasEntered
    BY <2>1, UnlockIs
  <2>2. CASE ~y.csWasEntered
    BY <2>2
  <2> QED BY <2>1, <2>2
<1> HIDE DEF v
<1>3. /\ u \in SyncOf(n)
      /\ u.needStart <=> y.needStart
      /\ ~u.csWasEntered
      /\ u.cs = (IF y.csWasEntered THEN "none" ELSE y.cs)
      /\ u.exit <=> y.exit
      /\ u.stopWriting
      /\ u.numProcessedBlocks = y.numProcessedBlocks
      /\ u.canStart <=> y.canStart
      /\ u.wasStopped <=> y.wasStopped
      /\ u.free = y.free
      /\ u.filled = y.filled
      /\ u.max = y.max
  BY <1>2 DEF SyncOf, Holders
<1> HIDE DEF u
<1> QED BY <1>1, <1>3, FreeOneIs DEF SyncOf

(* The hash thread is woken, to work or to end.                            *)
LEMMA HashStartKeeps == ASSUME Inv, HashStart PROVE Inv'
<1> USE LzFindMtAssumption DEF Inv, SyncOf, Holders, LzPlaces, BtPlaces, HashPlaces
<1>1. Typed'
  <2>0. [sync.hash EXCEPT !.canStart = FALSE] \in SyncOf(NumHashBlocks)
    BY DEF Typed, HashControl, BtControl, HashStart
  <2>1. sync' \in [hash : SyncOf(NumHashBlocks), bt : SyncOf(NumBtBlocks)]
    BY <2>0 DEF Typed, HashControl, BtControl, HashStart
  <2>2. pc' \in [lz : LzPlaces, bt : BtPlaces, hash : HashPlaces]
    BY DEF Typed, HashControl, BtControl, HashStart
  <2> QED BY <2>1, <2>2 DEF Typed
<1>2. HashControl'
  BY DEF Typed, HashControl, BtControl, Locks, HashStart
<1>3. BtControl'
  BY DEF Typed, HashControl, BtControl, Locks, HashStart
<1>4. Locks'
  BY DEF Typed, HashControl, BtControl, Locks, HashStart
<1>5. Fresh'
  BY DEF Typed, HashControl, BtControl, Fresh, MayAskHash, HashStart
<1>6. BlocksKept'
  BY DEF Typed, HashControl, BtControl, Fresh, MayAskHash, BlocksKept, HashStart
<1>7. Stopping'
  BY DEF Typed, HashControl, BtControl, BlocksKept, Stopping, HashStart
<1> QED BY <1>1, <1>2, <1>3, <1>4, <1>5, <1>6, <1>7

(* It takes the encoder's lock to move the window.                         *)
LEMMA HashLockKeeps == ASSUME Inv, HashLock PROVE Inv'
<1> USE LzFindMtAssumption DEF Inv, SyncOf, Holders, LzPlaces, BtPlaces, HashPlaces
<1>1. Typed'
  BY DEF Typed, HashControl, BtControl, HashLock
<1>2. HashControl'
  BY DEF Typed, HashControl, BtControl, Locks, HashLock
<1>3. BtControl'
  BY DEF Typed, HashControl, BtControl, Locks, HashLock
<1>4. Locks'
  BY DEF Typed, HashControl, BtControl, Locks, HashLock
<1>5. Fresh'
  BY DEF Typed, HashControl, BtControl, Fresh, MayAskHash, HashLock
<1>6. BlocksKept'
  BY DEF Typed, HashControl, BtControl, Fresh, MayAskHash, BlocksKept, HashLock
<1>7. Stopping'
  BY DEF Typed, HashControl, BtControl, BlocksKept, Stopping, HashLock
<1> QED BY <1>1, <1>2, <1>3, <1>4, <1>5, <1>6, <1>7

(* It moves the window and leaves the lock.                                *)
LEMMA HashMoveKeeps == ASSUME Inv, HashMove PROVE Inv'
<1> USE LzFindMtAssumption DEF Inv, SyncOf, Holders, LzPlaces, BtPlaces, HashPlaces
<1>1. Typed'
  BY DEF Typed, HashControl, BtControl, HashMove
<1>2. HashControl'
  BY DEF Typed, HashControl, BtControl, Locks, HashMove
<1>3. BtControl'
  BY DEF Typed, HashControl, BtControl, Locks, HashMove
<1>4. Locks'
  BY DEF Typed, HashControl, BtControl, Locks, HashMove
<1>5. Fresh'
  BY DEF Typed, HashControl, BtControl, Fresh, MayAskHash, HashMove
<1>6. BlocksKept'
  BY DEF Typed, HashControl, BtControl, Fresh, MayAskHash, BlocksKept, HashMove
<1>7. Stopping'
  BY DEF Typed, HashControl, BtControl, BlocksKept, Stopping, HashMove
<1> QED BY <1>1, <1>2, <1>3, <1>4, <1>5, <1>6, <1>7

(* A free block is taken to be filled, unless the thread is to stop.       *)
LEMMA HashFreeTakes ==
  ASSUME Inv, HashFree
  PROVE  /\ pc.hash = "loop" /\ ~sync.hash.needStart /\ ~sync.hash.exit /\ UNCHANGED mode
         /\ sync' \in [hash : SyncOf(NumHashBlocks), bt : SyncOf(NumBtBlocks)]
         /\ sync'.bt = sync.bt /\ sync.hash.free > 0 /\ sync'.hash.free = sync.hash.free - 1
         /\ sync'.hash.wasStopped <=> sync.hash.stopWriting
         /\ sync'.hash.needStart <=> sync.hash.needStart
         /\ sync'.hash.csWasEntered <=> sync.hash.csWasEntered
         /\ sync'.hash.cs = sync.hash.cs
         /\ sync'.hash.exit <=> sync.hash.exit
         /\ sync'.hash.stopWriting <=> sync.hash.stopWriting
         /\ sync'.hash.numProcessedBlocks = sync.hash.numProcessedBlocks
         /\ sync'.hash.canStart <=> sync.hash.canStart
         /\ sync'.hash.filled = sync.hash.filled
         /\ sync'.hash.max = sync.hash.max
         /\ pc' = [pc EXCEPT !.hash = IF sync.hash.stopWriting THEN "start" ELSE "fill"]
<1>1. sync.hash \in SyncOf(NumHashBlocks) /\ sync.bt \in SyncOf(NumBtBlocks)
  BY DEF Inv, Typed
<1>2. pc.hash = "loop" /\ ~sync.hash.needStart /\ ~sync.hash.exit /\ ~sync.hash.wasStopped
  BY DEF Inv, Typed, HashControl, HashFree
<1> DEFINE w == sync.hash.wasStopped \/ (~sync.hash.exit /\ sync.hash.stopWriting)
           u == [sync.hash EXCEPT !.free = sync.hash.free - 1, !.wasStopped = w]
<1>3. w \in BOOLEAN /\ (w <=> sync.hash.stopWriting)
  BY <1>2
<1>4. sync' = [sync EXCEPT !.hash = u] /\ sync.hash.free > 0 /\ UNCHANGED mode
      /\ pc' = [pc EXCEPT !.hash = IF sync.hash.stopWriting THEN "start" ELSE "fill"]
  BY <1>1, <1>2 DEF Inv, Typed, HashFree
<1>5. sync.hash.free - 1 \in Nat
  BY <1>1, <1>4 DEF SyncOf
<1> HIDE DEF w
<1>6. /\ u \in SyncOf(NumHashBlocks) /\ u.free = sync.hash.free - 1
      /\ u.wasStopped = w
      /\ u.needStart <=> sync.hash.needStart
      /\ u.csWasEntered <=> sync.hash.csWasEntered
      /\ u.cs = sync.hash.cs
      /\ u.exit <=> sync.hash.exit
      /\ u.stopWriting <=> sync.hash.stopWriting
      /\ u.numProcessedBlocks = sync.hash.numProcessedBlocks
      /\ u.canStart <=> sync.hash.canStart
      /\ u.filled = sync.hash.filled
      /\ u.max = sync.hash.max
  BY <1>1, <1>3, <1>5 DEF SyncOf
<1> HIDE DEF u
<1> QED BY <1>1, <1>2, <1>3, <1>4, <1>6 DEF Inv, Typed

(* It takes a free block, or sees that it is to stop.                      *)
LEMMA HashFreeKeeps == ASSUME Inv, HashFree PROVE Inv'
<1> USE LzFindMtAssumption DEF Inv, SyncOf, Holders, LzPlaces, BtPlaces, HashPlaces
<1>1. sync.hash \in SyncOf(NumHashBlocks) /\ sync.bt \in SyncOf(NumBtBlocks)
  BY DEF Typed
<1>3. pc' \in [lz : LzPlaces, bt : BtPlaces, hash : HashPlaces]
  BY HashFreeTakes DEF Typed
<1>4. Typed'
  BY <1>1, <1>3, HashFreeTakes DEF Typed, HashControl, BtControl
<1>5. HashControl'
  BY <1>1, <1>3, HashFreeTakes DEF Typed, HashControl, BtControl, Locks
<1>6. BtControl'
  BY <1>1, <1>3, HashFreeTakes DEF Typed, HashControl, BtControl, Locks
<1>7. Locks'
  BY <1>1, <1>3, HashFreeTakes DEF Typed, HashControl, BtControl, Locks
<1>8. Fresh'
  BY <1>1, <1>3, HashFreeTakes DEF Typed, HashControl, BtControl, Fresh, MayAskHash
<1>9. BlocksKept'
  BY <1>1, <1>3, HashFreeTakes DEF Typed, HashControl, BtControl, Fresh, MayAskHash, BlocksKept
<1>10. Stopping'
  BY <1>1, <1>3, HashFreeTakes DEF Typed, HashControl, BtControl, BlocksKept, Stopping
<1> QED BY <1>4, <1>5, <1>6, <1>7, <1>8, <1>9, <1>10


(* It sends a block of heads.                                              *)
LEMMA HashFillKeeps == ASSUME Inv, HashFill PROVE Inv'
<1> USE LzFindMtAssumption DEF Inv, SyncOf, Holders, LzPlaces, BtPlaces, HashPlaces
<1>1. Typed'
  BY DEF Typed, HashControl, BtControl, HashFill, FillOne, Released
<1>2. HashControl'
  BY DEF Typed, HashControl, BtControl, Locks, HashFill, FillOne, Released
<1>3. BtControl'
  BY DEF Typed, HashControl, BtControl, Locks, HashFill, FillOne, Released
<1>4. Locks'
  BY DEF Typed, HashControl, BtControl, Locks, HashFill, FillOne, Released
<1>5. Fresh'
  BY DEF Typed, HashControl, BtControl, Fresh, MayAskHash, HashFill, FillOne, Released
<1>6. BlocksKept'
  BY DEF Typed, HashControl, BtControl, Fresh, MayAskHash, BlocksKept, HashFill, FillOne,
     Released
<1>7. Stopping'
  BY DEF Typed, HashControl, BtControl, BlocksKept, Stopping, HashFill, FillOne, Released
<1> QED BY <1>1, <1>2, <1>3, <1>4, <1>5, <1>6, <1>7

(* The bt thread is woken.                                                 *)
LEMMA BtStartKeeps == ASSUME Inv, BtStart PROVE Inv'
<1> USE LzFindMtAssumption DEF Inv, SyncOf, Holders, LzPlaces, BtPlaces, HashPlaces
<1>1. Typed'
  BY DEF Typed, HashControl, BtControl, BtStart
<1>2. HashControl'
  BY DEF Typed, HashControl, BtControl, Locks, BtStart
<1>3. BtControl'
  BY DEF Typed, HashControl, BtControl, Locks, BtStart
<1>4. Locks'
  BY DEF Typed, HashControl, BtControl, Locks, BtStart
<1>5. Fresh'
  BY DEF Typed, HashControl, BtControl, Fresh, MayAskHash, BtStart
<1>6. BlocksKept'
  BY DEF Typed, HashControl, BtControl, Fresh, MayAskHash, BlocksKept, BtStart
<1>7. Stopping'
  BY DEF Typed, HashControl, BtControl, BlocksKept, Stopping, BtStart
<1> QED BY <1>1, <1>2, <1>3, <1>4, <1>5, <1>6, <1>7

(* It takes a free block, or sees that it is to stop.                      *)
LEMMA BtFreeKeeps == ASSUME Inv, BtFree PROVE Inv'
<1> USE LzFindMtAssumption DEF Inv, SyncOf, Holders, LzPlaces, BtPlaces, HashPlaces
<1>1. Typed'
  BY DEF Typed, HashControl, BtControl, BtFree
<1>2. HashControl'
  BY DEF Typed, HashControl, BtControl, Locks, BtFree
<1>3. BtControl'
  BY DEF Typed, HashControl, BtControl, Locks, BtFree
<1>4. Locks'
  BY DEF Typed, HashControl, BtControl, Locks, BtFree
<1>5. Fresh'
  BY DEF Typed, HashControl, BtControl, Fresh, MayAskHash, BtFree
<1>6. BlocksKept'
  BY DEF Typed, HashControl, BtControl, Fresh, MayAskHash, BlocksKept, BtFree
<1>7. Stopping'
  BY DEF Typed, HashControl, BtControl, BlocksKept, Stopping, BtFree
<1> QED BY <1>1, <1>2, <1>3, <1>4, <1>5, <1>6, <1>7

(* It takes the lock of the window again.                                  *)
LEMMA BtLockKeeps == ASSUME Inv, BtLock PROVE Inv'
<1> USE LzFindMtAssumption DEF Inv, SyncOf, Holders, LzPlaces, BtPlaces, HashPlaces
<1>1. Typed'
  BY DEF Typed, HashControl, BtControl, BtLock, Lock
<1>2. HashControl'
  BY DEF Typed, HashControl, BtControl, Locks, BtLock, Lock
<1>3. BtControl'
  BY DEF Typed, HashControl, BtControl, Locks, BtLock, Lock
<1>4. Locks'
  BY DEF Typed, HashControl, BtControl, Locks, BtLock, Lock
<1>5. Fresh'
  BY DEF Typed, HashControl, BtControl, Fresh, MayAskHash, BtLock, Lock
<1>6. BlocksKept'
  BY DEF Typed, HashControl, BtControl, Fresh, MayAskHash, BlocksKept, BtLock, Lock
<1>7. Stopping'
  BY DEF Typed, HashControl, BtControl, BlocksKept, Stopping, BtLock, Lock
<1> QED BY <1>1, <1>2, <1>3, <1>4, <1>5, <1>6, <1>7

(* The end of a block of matches: the lock is left and the block is sent.  *)
Sent ==
  /\ sync' = [hash |-> Unlock(sync.hash), bt |-> FillOne(sync.bt)]
  /\ pc' = [pc EXCEPT !.bt = IF sync.bt.exit THEN "ended" ELSE "free"]

(* A block that is sent was the bt thread's until then.                    *)
LEMMA SentKeeps ==
  ASSUME Inv, Sent, UNCHANGED mode, pc.bt \in {"begin", "heads", "match"}
  PROVE  Inv'
<1> USE LzFindMtAssumption DEF Inv
<1>1. sync.hash \in SyncOf(NumHashBlocks) /\ sync.bt \in SyncOf(NumBtBlocks)
  BY DEF Typed
<1>2. sync' \in [hash : SyncOf(NumHashBlocks), bt : SyncOf(NumBtBlocks)]
  BY <1>1, UnlockIs, FillOneIs DEF Sent
<1> USE DEF SyncOf, Holders, LzPlaces, BtPlaces, HashPlaces
<1>3. pc' \in [lz : LzPlaces, bt : BtPlaces, hash : HashPlaces]
  BY DEF Typed, Sent
<1>4. Typed'
  BY <1>1, <1>2, <1>3, UnlockIs, FillOneIs DEF Typed, HashControl, BtControl, Sent
<1>5. HashControl'
  BY <1>1, <1>2, <1>3, UnlockIs, FillOneIs DEF Typed, HashControl, BtControl, Locks, Sent
<1>6. BtControl'
  BY <1>1, <1>2, <1>3, UnlockIs, FillOneIs DEF Typed, HashControl, BtControl, Locks, Sent
<1>7. Locks'
  BY <1>1, <1>2, <1>3, UnlockIs, FillOneIs DEF Typed, HashControl, BtControl, Locks, Sent
<1>8. Fresh'
  BY <1>1, <1>2, <1>3, UnlockIs, FillOneIs DEF Typed, HashControl, BtControl, Fresh,
     MayAskHash, Sent
<1>9. BlocksKept'
  BY <1>1, <1>2, <1>3, UnlockIs, FillOneIs DEF Typed, HashControl, BtControl, Fresh,
     MayAskHash, BlocksKept, Sent
<1>10. Stopping'
  BY <1>1, <1>2, <1>3, UnlockIs, FillOneIs DEF Typed, HashControl, BtControl, BlocksKept,
     Stopping, Sent
<1> QED BY <1>4, <1>5, <1>6, <1>7, <1>8, <1>9, <1>10


(* A block of matches begins, or an empty one is sent.                     *)
LEMMA BtBegins ==
  ASSUME Inv, BtBegin
  PROVE  /\ pc.bt = "begin" /\ UNCHANGED mode
         /\ Sent \/ (pc' = [pc EXCEPT !.bt = "match"] /\ UNCHANGED sync)
  BY DEF Inv, Typed, BtBegin, BtSent, Sent

(* A block of matches begins, or is sent empty after a failure.            *)
LEMMA BtBeginKeeps == ASSUME Inv, BtBegin PROVE Inv'
<1>1. CASE Sent
  BY <1>1, BtBegins, SentKeeps
<1>2. CASE pc' = [pc EXCEPT !.bt = "match"] /\ UNCHANGED sync
  BY <1>2, BtBegins
     DEF Inv, Typed, HashControl, BtControl, Locks, Fresh, MayAskHash, BlocksKept, Stopping,
         LzPlaces, BtPlaces, HashPlaces
<1> QED BY <1>1, <1>2, BtBegins

(* It gives back a block of heads and asks for the next, the first time    *)
(* starting the hash thread.                                               *)
LEMMA BtNextBlockKeeps == ASSUME Inv, BtNextBlock PROVE Inv'
<1> USE LzFindMtAssumption DEF Inv
<1>1. sync.hash \in SyncOf(NumHashBlocks) /\ sync.bt \in SyncOf(NumBtBlocks)
  BY DEF Typed
<1>2. /\ sync' \in [hash : SyncOf(NumHashBlocks), bt : SyncOf(NumBtBlocks)]
      /\ sync'.hash = GetNextBlock(sync.hash) /\ sync'.bt = sync.bt
      /\ pc' = [pc EXCEPT !.bt = "wait"] /\ UNCHANGED mode
  BY <1>1, GetNextBlockIs DEF Typed, BtNextBlock
<1> USE DEF SyncOf, Holders, LzPlaces, BtPlaces, HashPlaces
<1>3. pc' \in [lz : LzPlaces, bt : BtPlaces, hash : HashPlaces]
  BY <1>2 DEF Typed
<1>4. Typed'
  BY <1>1, <1>2, <1>3, GetNextBlockIs DEF Typed, HashControl, BtControl, BtNextBlock
<1>5. HashControl'
  BY <1>1, <1>2, <1>3, GetNextBlockIs DEF Typed, HashControl, BtControl, Locks, BtNextBlock
<1>6. BtControl'
  BY <1>1, <1>2, <1>3, GetNextBlockIs DEF Typed, HashControl, BtControl, Locks, BtNextBlock
<1>7. Locks'
  BY <1>1, <1>2, <1>3, GetNextBlockIs DEF Typed, HashControl, BtControl, Locks, BtNextBlock
<1>8. Fresh'
  BY <1>1, <1>2, <1>3, GetNextBlockIs DEF Typed, HashControl, BtControl, Fresh, MayAskHash,
     BtNextBlock
<1>9. BlocksKept'
  BY <1>1, <1>2, <1>3, GetNextBlockIs DEF Typed, HashControl, BtControl, Fresh, MayAskHash,
     BlocksKept, BtNextBlock
<1>10. Stopping'
  BY <1>1, <1>2, <1>3, GetNextBlockIs DEF Typed, HashControl, BtControl, BlocksKept, Stopping,
     BtNextBlock
<1> QED BY <1>4, <1>5, <1>6, <1>7, <1>8, <1>9, <1>10


(* A block of heads has come.                                              *)
LEMMA BtWaitKeeps == ASSUME Inv, BtWait PROVE Inv'
<1> USE LzFindMtAssumption DEF Inv, SyncOf, Holders, LzPlaces, BtPlaces, HashPlaces
<1>1. Typed'
  BY DEF Typed, HashControl, BtControl, BtWait
<1>2. HashControl'
  BY DEF Typed, HashControl, BtControl, Locks, BtWait
<1>3. BtControl'
  BY DEF Typed, HashControl, BtControl, Locks, BtWait
<1>4. Locks'
  BY DEF Typed, HashControl, BtControl, Locks, BtWait
<1>5. Fresh'
  BY DEF Typed, HashControl, BtControl, Fresh, MayAskHash, BtWait
<1>6. BlocksKept'
  BY DEF Typed, HashControl, BtControl, Fresh, MayAskHash, BlocksKept, BtWait
<1>7. Stopping'
  BY DEF Typed, HashControl, BtControl, BlocksKept, Stopping, BtWait
<1> QED BY <1>1, <1>2, <1>3, <1>4, <1>5, <1>6, <1>7

(* The heads of a block are taken, under the lock, or they were the last.  *)
LEMMA BtTakesHeads ==
  ASSUME Inv, BtHeads
  PROVE  /\ pc.bt = "heads" /\ sync.hash.cs = "none" /\ UNCHANGED mode
         /\ \/ Sent
            \/ /\ pc' = [pc EXCEPT !.bt = "match"]
               /\ sync' = [sync EXCEPT !.hash = Lock(sync.hash, "bt")]
<1>1. \/ \E blk : BtSent(blk)
      \/ /\ pc' = [pc EXCEPT !.bt = "match"]
         /\ sync' = [sync EXCEPT !.hash = Lock(sync.hash, "bt")]
  BY DEF BtHeads
<1> QED BY <1>1 DEF Inv, Typed, BtHeads, BtSent, Sent

(* The heads are taken under the lock.                                     *)
LEMMA BtLocksHeads ==
  ASSUME Inv, BtHeads, pc' = [pc EXCEPT !.bt = "match"],
         sync' = [sync EXCEPT !.hash = Lock(sync.hash, "bt")]
  PROVE  Inv'
<1> USE LzFindMtAssumption DEF Inv
<1>1. sync.hash \in SyncOf(NumHashBlocks) /\ sync.bt \in SyncOf(NumBtBlocks)
  BY DEF Typed
<1>2. /\ sync' \in [hash : SyncOf(NumHashBlocks), bt : SyncOf(NumBtBlocks)]
      /\ sync'.hash = Lock(sync.hash, "bt") /\ sync'.bt = sync.bt
      /\ "bt" \in Holders
  BY <1>1, LockIs DEF Typed, Holders
<1> USE DEF SyncOf, Holders, LzPlaces, BtPlaces, HashPlaces
<1>3. pc' \in [lz : LzPlaces, bt : BtPlaces, hash : HashPlaces]
  BY DEF Typed
<1>4. Typed'
  BY <1>1, <1>2, <1>3, LockIs, BtTakesHeads DEF Typed, HashControl, BtControl
<1>5. HashControl'
  BY <1>1, <1>2, <1>3, LockIs, BtTakesHeads DEF Typed, HashControl, BtControl, Locks
<1>6. BtControl'
  BY <1>1, <1>2, <1>3, LockIs, BtTakesHeads DEF Typed, HashControl, BtControl, Locks
<1>7. Locks'
  BY <1>1, <1>2, <1>3, LockIs, BtTakesHeads DEF Typed, HashControl, BtControl, Locks
<1>8. Fresh'
  BY <1>1, <1>2, <1>3, LockIs, BtTakesHeads DEF Typed, HashControl, BtControl, Fresh,
     MayAskHash
<1>9. BlocksKept'
  BY <1>1, <1>2, <1>3, LockIs, BtTakesHeads DEF Typed, HashControl, BtControl, Fresh,
     MayAskHash, BlocksKept
<1>10. Stopping'
  BY <1>1, <1>2, <1>3, LockIs, BtTakesHeads DEF Typed, HashControl, BtControl, BlocksKept,
     Stopping
<1> QED BY <1>4, <1>5, <1>6, <1>7, <1>8, <1>9, <1>10

(* Whether or not there are heads left.                                    *)
LEMMA BtHeadsKeeps == ASSUME Inv, BtHeads PROVE Inv'
  BY BtTakesHeads, SentKeeps, BtLocksHeads

(* Positions are searched, or the block of matches is full, or has failed. *)
LEMMA BtMatches ==
  ASSUME Inv, BtMatch
  PROVE  /\ pc.bt = "match" /\ UNCHANGED mode
         /\ Sent \/ UNCHANGED <<sync, pc>>
<1>1. (\E blk : BtSent(blk)) \/ UNCHANGED <<sync, pc>>
  BY DEF BtMatch
<1> QED BY <1>1 DEF Inv, Typed, BtMatch, BtSent, Sent

(* The search leaves the semaphores alone until the block is sent.         *)
LEMMA BtMatchKeeps == ASSUME Inv, BtMatch PROVE Inv'
<1>1. CASE Sent
  BY <1>1, BtMatches, SentKeeps
<1>2. CASE UNCHANGED <<sync, pc>>
  BY <1>2, BtMatches
     DEF Inv, Typed, HashControl, BtControl, Locks, Fresh, MayAskHash, BlocksKept, Stopping
<1> QED BY <1>1, <1>2, BtMatches

(* Told to stop, it stops the hash thread first.                           *)
LEMMA BtStopsHash == ASSUME Inv, BtStop, ~sync.hash.needStart PROVE Inv'
<1> USE LzFindMtAssumption DEF Inv
<1>1. sync.hash \in SyncOf(NumHashBlocks) /\ sync.bt \in SyncOf(NumBtBlocks)
  BY DEF Typed
<1>2. /\ sync' \in [hash : SyncOf(NumHashBlocks), bt : SyncOf(NumBtBlocks)]
      /\ sync'.hash = StopWriting(sync.hash) /\ sync'.bt = sync.bt
      /\ pc' = [pc EXCEPT !.bt = "stopping"] /\ UNCHANGED mode
  BY <1>1, StopWritingIs DEF Typed, BtStop
<1> USE DEF SyncOf, Holders, LzPlaces, BtPlaces, HashPlaces
<1>3. pc' \in [lz : LzPlaces, bt : BtPlaces, hash : HashPlaces]
  BY <1>2 DEF Typed
<1>4. Typed'
  BY <1>1, <1>2, <1>3, StopWritingIs DEF Typed, HashControl, BtControl, BtStop
<1>5. HashControl'
  BY <1>1, <1>2, <1>3, StopWritingIs DEF Typed, HashControl, BtControl, Locks, BtStop
<1>6. BtControl'
  BY <1>1, <1>2, <1>3, StopWritingIs DEF Typed, HashControl, BtControl, Locks, BtStop
<1>7. Locks'
  BY <1>1, <1>2, <1>3, StopWritingIs DEF Typed, HashControl, BtControl, Locks, BtStop
<1>8. Fresh'
  BY <1>1, <1>2, <1>3, StopWritingIs DEF Typed, HashControl, BtControl, Fresh, MayAskHash,
     BtStop
<1>9. BlocksKept'
  BY <1>1, <1>2, <1>3, StopWritingIs DEF Typed, HashControl, BtControl, Fresh, MayAskHash,
     BlocksKept, BtStop
<1>10. Stopping'
  BY <1>1, <1>2, <1>3, StopWritingIs DEF Typed, HashControl, BtControl, BlocksKept, Stopping,
     BtStop
<1> QED BY <1>4, <1>5, <1>6, <1>7, <1>8, <1>9, <1>10

(* Nothing to stop when the hash thread was never started.                 *)
LEMMA BtStopsAlone == ASSUME Inv, BtStop, sync.hash.needStart PROVE Inv'
<1> USE LzFindMtAssumption DEF Inv, SyncOf, Holders, LzPlaces, BtPlaces, HashPlaces
<1>1. Typed'
  <2> DEFINE u == [sync.bt EXCEPT !.wasStopped = TRUE]
  <2>1. u \in SyncOf(NumBtBlocks)
    BY DEF Typed
  <2>2. sync' = [sync EXCEPT !.bt = u] /\ pc' = [pc EXCEPT !.bt = "start"]
    BY DEF BtStop
  <2> HIDE DEF u
  <2> QED BY <2>1, <2>2 DEF Typed
<1>2. HashControl'
  BY DEF Typed, HashControl, BtControl, Locks, BtStop
<1>3. BtControl'
  BY DEF Typed, HashControl, BtControl, Locks, BtStop
<1>4. Locks'
  BY DEF Typed, HashControl, BtControl, Locks, BtStop
<1>5. Fresh'
  BY DEF Typed, HashControl, BtControl, Fresh, MayAskHash, BtStop
<1>6. BlocksKept'
  BY DEF Typed, HashControl, BtControl, Fresh, MayAskHash, BlocksKept, BtStop
<1>7. Stopping'
  BY DEF Typed, HashControl, BtControl, BlocksKept, Stopping, BtStop
<1> QED BY <1>1, <1>2, <1>3, <1>4, <1>5, <1>6, <1>7

(* Either way the invariant is kept.                                       *)
LEMMA BtStopKeeps == ASSUME Inv, BtStop PROVE Inv'
  BY BtStopsHash, BtStopsAlone

(* The hash thread has stopped, and so does the bt thread.                 *)
LEMMA BtStoppedKeeps == ASSUME Inv, BtStopped PROVE Inv'
<1> USE LzFindMtAssumption DEF Inv, SyncOf, Holders, LzPlaces, BtPlaces, HashPlaces
<1>1. Typed'
  BY DEF Typed, HashControl, BtControl, BtStopped
<1>2. HashControl'
  BY DEF Typed, HashControl, BtControl, Locks, BtStopped
<1>3. BtControl'
  BY DEF Typed, HashControl, BtControl, Locks, BtStopped
<1>4. Locks'
  BY DEF Typed, HashControl, BtControl, Locks, BtStopped
<1>5. Fresh'
  BY DEF Typed, HashControl, BtControl, Fresh, MayAskHash, BtStopped
<1>6. BlocksKept'
  BY DEF Typed, HashControl, BtControl, Fresh, MayAskHash, BlocksKept, BtStopped
<1>7. Stopping'
  <2>1. /\ pc.bt = "stopping" /\ pc' = [pc EXCEPT !.bt = "start"]
        /\ sync'.hash.needStart /\ sync'.bt.free = sync.bt.free /\ sync'.bt.filled = sync.bt.filled
        /\ sync'.bt.needStart <=> sync.bt.needStart
        /\ sync'.bt.stopWriting <=> sync.bt.stopWriting
        /\ sync.bt.free \in Nat /\ sync.bt.filled \in Nat
    BY DEF Typed, BtStopped
  <2> QED BY <2>1 DEF Typed, Stopping
<1> QED BY <1>1, <1>2, <1>3, <1>4, <1>5, <1>6, <1>7


(* A stream begins: both rings are free again, and both threads stopped.   *)
LEMMA LzBeginsMt == ASSUME Inv, LzBegin, mode # "st" PROVE Inv'
<1> USE LzFindMtAssumption DEF Inv
<1>1. sync.hash \in SyncOf(NumHashBlocks) /\ sync.bt \in SyncOf(NumBtBlocks)
  BY DEF Typed
<1>2. /\ sync' \in [hash : SyncOf(NumHashBlocks), bt : SyncOf(NumBtBlocks)]
      /\ sync'.hash = MtSync_Init(sync.hash) /\ sync'.bt = MtSync_Init(sync.bt)
      /\ pc' = [pc EXCEPT !.lz = "idle"] /\ UNCHANGED mode
  BY <1>1, MtSync_InitIs DEF Typed, LzBegin, HashControl, BtControl, Locks, Unready
<1> USE DEF SyncOf, Holders, LzPlaces, BtPlaces, HashPlaces
<1>3. pc' \in [lz : LzPlaces, bt : BtPlaces, hash : HashPlaces]
  BY <1>2 DEF Typed
<1>4. Typed'
  BY <1>1, <1>2, <1>3, MtSync_InitIs DEF Typed, HashControl, BtControl, LzBegin
<1>5. HashControl'
  BY <1>1, <1>2, <1>3, MtSync_InitIs DEF Typed, HashControl, BtControl, Locks, LzBegin
<1>6. BtControl'
  BY <1>1, <1>2, <1>3, MtSync_InitIs DEF Typed, HashControl, BtControl, Locks, LzBegin
<1>7. Locks'
  BY <1>1, <1>2, <1>3, MtSync_InitIs DEF Typed, HashControl, BtControl, Locks, LzBegin
<1>8. Fresh'
  BY <1>1, <1>2, <1>3, MtSync_InitIs DEF Typed, HashControl, BtControl, Fresh, MayAskHash,
     LzBegin
<1>9. BlocksKept'
  BY <1>1, <1>2, <1>3, MtSync_InitIs DEF Typed, HashControl, BtControl, Fresh, MayAskHash,
     BlocksKept, LzBegin
<1>10. Stopping'
  BY <1>1, <1>2, <1>3, MtSync_InitIs DEF Typed, HashControl, BtControl, BlocksKept, Stopping,
     LzBegin
<1> QED BY <1>4, <1>5, <1>6, <1>7, <1>8, <1>9, <1>10

(* Without threads nothing is asked of them.                               *)
LEMMA LzBeginsSt == ASSUME Inv, LzBegin, mode = "st" PROVE Inv'
<1> USE LzFindMtAssumption DEF Inv, SyncOf, Holders, LzPlaces, BtPlaces, HashPlaces
<1>1. Typed'
  BY DEF Typed, HashControl, BtControl, LzBegin
<1>2. HashControl'
  BY DEF Typed, HashControl, BtControl, Locks, LzBegin
<1>3. BtControl'
  BY DEF Typed, HashControl, BtControl, Locks, LzBegin
<1>4. Locks'
  BY DEF Typed, HashControl, BtControl, Locks, LzBegin
<1>5. Fresh'
  BY DEF Typed, HashControl, BtControl, Fresh, MayAskHash, LzBegin
<1>6. BlocksKept'
  BY DEF Typed, HashControl, BtControl, Fresh, MayAskHash, BlocksKept, LzBegin
<1>7. Stopping'
  BY DEF Typed, HashControl, BtControl, BlocksKept, Stopping, LzBegin
<1> QED BY <1>1, <1>2, <1>3, <1>4, <1>5, <1>6, <1>7

(* Either way the invariant is kept.                                       *)
LEMMA LzBeginKeeps == ASSUME Inv, LzBegin PROVE Inv'
  BY LzBeginsMt, LzBeginsSt

(* A call of the encoder leaves the semaphores and the locks alone.        *)
LEMMA LzCalls ==
  ASSUME LzCall
  PROVE  /\ UNCHANGED <<sync, mode>> /\ pc.lz = "idle" /\ mode = "mt"
         /\ pc' = pc \/ pc' = [pc EXCEPT !.lz = "run"]
  BY DEF LzCall

(* A call that needs a block goes on, another is done at once.             *)
LEMMA LzCallKeeps == ASSUME Inv, LzCall PROVE Inv'
<1>1. CASE pc' = pc
  BY <1>1, LzCalls DEF Inv, Typed, HashControl, BtControl, Locks, Fresh, MayAskHash,
     BlocksKept, Stopping
<1>2. CASE pc' = [pc EXCEPT !.lz = "run"]
  <2> USE DEF Inv, SyncOf, Holders, LzPlaces, BtPlaces, HashPlaces
  <2>1. Typed'
    BY <1>2, LzCalls DEF Typed, HashControl, BtControl
  <2>2. HashControl'
    BY <1>2, LzCalls DEF Typed, HashControl, BtControl, Locks
  <2>3. BtControl'
    BY <1>2, LzCalls DEF Typed, HashControl, BtControl, Locks
  <2>4. Locks'
    BY <1>2, LzCalls DEF Typed, HashControl, BtControl, Locks
  <2>5. Fresh'
    BY <1>2, LzCalls DEF Typed, HashControl, BtControl, Fresh, MayAskHash
  <2>6. BlocksKept'
    BY <1>2, LzCalls DEF Typed, HashControl, BtControl, Fresh, MayAskHash, BlocksKept
  <2>7. Stopping'
    BY <1>2, LzCalls DEF Typed, HashControl, BtControl, BlocksKept, Stopping
  <2> QED BY <2>1, <2>2, <2>3, <2>4, <2>5, <2>6, <2>7
<1> QED BY <1>1, <1>2, LzCalls

(* Positions are passed within the block.                                  *)
LEMMA LzRunKeeps == ASSUME Inv, LzRun PROVE Inv'
<1> USE LzFindMtAssumption DEF Inv, SyncOf, Holders, LzPlaces, BtPlaces, HashPlaces
<1>1. Typed'
  BY DEF Typed, HashControl, BtControl, LzRun
<1>2. HashControl'
  BY DEF Typed, HashControl, BtControl, Locks, LzRun
<1>3. BtControl'
  BY DEF Typed, HashControl, BtControl, Locks, LzRun
<1>4. Locks'
  BY DEF Typed, HashControl, BtControl, Locks, LzRun
<1>5. Fresh'
  BY DEF Typed, HashControl, BtControl, Fresh, MayAskHash, LzRun
<1>6. BlocksKept'
  BY DEF Typed, HashControl, BtControl, Fresh, MayAskHash, BlocksKept, LzRun
<1>7. Stopping'
  BY DEF Typed, HashControl, BtControl, BlocksKept, Stopping, LzRun
<1> QED BY <1>1, <1>2, <1>3, <1>4, <1>5, <1>6, <1>7

(* The encoder gives back a block of matches and asks for the next.        *)
LEMMA LzAsks == ASSUME Inv, LzNextBlock, ~lz.failure PROVE Inv'
<1> USE LzFindMtAssumption DEF Inv
<1>1. sync.hash \in SyncOf(NumHashBlocks) /\ sync.bt \in SyncOf(NumBtBlocks)
  BY DEF Typed
<1>2. /\ sync' \in [hash : SyncOf(NumHashBlocks), bt : SyncOf(NumBtBlocks)]
      /\ sync'.hash = sync.hash /\ sync'.bt = GetNextBlock(sync.bt)
      /\ pc' = [pc EXCEPT !.lz = "wait"] /\ UNCHANGED mode
  BY <1>1, GetNextBlockIs DEF Typed, LzNextBlock
<1> USE DEF SyncOf, Holders, LzPlaces, BtPlaces, HashPlaces
<1>3. pc' \in [lz : LzPlaces, bt : BtPlaces, hash : HashPlaces]
  BY <1>2 DEF Typed
<1>4. Typed'
  BY <1>1, <1>2, <1>3, GetNextBlockIs DEF Typed, HashControl, BtControl, LzNextBlock
<1>5. HashControl'
  BY <1>1, <1>2, <1>3, GetNextBlockIs DEF Typed, HashControl, BtControl, Locks, LzNextBlock
<1>6. BtControl'
  BY <1>1, <1>2, <1>3, GetNextBlockIs DEF Typed, HashControl, BtControl, Locks, LzNextBlock
<1>7. Locks'
  BY <1>1, <1>2, <1>3, GetNextBlockIs DEF Typed, HashControl, BtControl, Locks, LzNextBlock
<1>8. Fresh'
  BY <1>1, <1>2, <1>3, GetNextBlockIs DEF Typed, HashControl, BtControl, Fresh, MayAskHash,
     LzNextBlock
<1>9. BlocksKept'
  BY <1>1, <1>2, <1>3, GetNextBlockIs DEF Typed, HashControl, BtControl, Fresh, MayAskHash,
     BlocksKept, LzNextBlock
<1>10. Stopping'
  BY <1>1, <1>2, <1>3, GetNextBlockIs DEF Typed, HashControl, BtControl, BlocksKept, Stopping,
     LzNextBlock
<1> QED BY <1>4, <1>5, <1>6, <1>7, <1>8, <1>9, <1>10

(* After a failure it asks for none.                                       *)
LEMMA LzRepeats == ASSUME Inv, LzNextBlock, lz.failure PROVE Inv'
<1> USE LzFindMtAssumption DEF Inv, SyncOf, Holders, LzPlaces, BtPlaces, HashPlaces
<1>1. Typed'
  BY DEF Typed, HashControl, BtControl, LzNextBlock
<1>2. HashControl'
  BY DEF Typed, HashControl, BtControl, Locks, LzNextBlock
<1>3. BtControl'
  BY DEF Typed, HashControl, BtControl, Locks, LzNextBlock
<1>4. Locks'
  BY DEF Typed, HashControl, BtControl, Locks, LzNextBlock
<1>5. Fresh'
  BY DEF Typed, HashControl, BtControl, Fresh, MayAskHash, LzNextBlock
<1>6. BlocksKept'
  BY DEF Typed, HashControl, BtControl, Fresh, MayAskHash, BlocksKept, LzNextBlock
<1>7. Stopping'
  BY DEF Typed, HashControl, BtControl, BlocksKept, Stopping, LzNextBlock
<1> QED BY <1>1, <1>2, <1>3, <1>4, <1>5, <1>6, <1>7

(* Either way the invariant is kept.                                       *)
LEMMA LzNextBlockKeeps == ASSUME Inv, LzNextBlock PROVE Inv'
  BY LzAsks, LzRepeats

(* A block of matches has come.                                            *)
LEMMA LzWaitKeeps == ASSUME Inv, LzWait PROVE Inv'
<1> USE LzFindMtAssumption DEF Inv, SyncOf, Holders, LzPlaces, BtPlaces, HashPlaces
<1>1. Typed'
  BY DEF Typed, HashControl, BtControl, LzWait
<1>2. HashControl'
  BY DEF Typed, HashControl, BtControl, Locks, LzWait
<1>3. BtControl'
  BY DEF Typed, HashControl, BtControl, Locks, LzWait
<1>4. Locks'
  BY DEF Typed, HashControl, BtControl, Locks, LzWait
<1>5. Fresh'
  BY DEF Typed, HashControl, BtControl, Fresh, MayAskHash, LzWait
<1>6. BlocksKept'
  BY DEF Typed, HashControl, BtControl, Fresh, MayAskHash, BlocksKept, LzWait
<1>7. Stopping'
  BY DEF Typed, HashControl, BtControl, BlocksKept, Stopping, LzWait
<1> QED BY <1>1, <1>2, <1>3, <1>4, <1>5, <1>6, <1>7

(* The encoder enters it, under its lock.                                  *)
LEMMA LzBlockKeeps == ASSUME Inv, LzBlock PROVE Inv'
<1> USE LzFindMtAssumption DEF Inv, SyncOf, Holders, LzPlaces, BtPlaces, HashPlaces
<1>1. Typed'
  BY DEF Typed, HashControl, BtControl, LzBlock, Lock
<1>2. HashControl'
  BY DEF Typed, HashControl, BtControl, Locks, LzBlock, Lock
<1>3. BtControl'
  BY DEF Typed, HashControl, BtControl, Locks, LzBlock, Lock
<1>4. Locks'
  BY DEF Typed, HashControl, BtControl, Locks, LzBlock, Lock
<1>5. Fresh'
  BY DEF Typed, HashControl, BtControl, Fresh, MayAskHash, LzBlock, Lock
<1>6. BlocksKept'
  BY DEF Typed, HashControl, BtControl, Fresh, MayAskHash, BlocksKept, LzBlock, Lock
<1>7. Stopping'
  BY DEF Typed, HashControl, BtControl, BlocksKept, Stopping, LzBlock, Lock
<1> QED BY <1>1, <1>2, <1>3, <1>4, <1>5, <1>6, <1>7

(* The bt thread has stopped.                                              *)
LEMMA LzReleasedKeeps == ASSUME Inv, LzReleased PROVE Inv'
<1> USE LzFindMtAssumption DEF Inv, SyncOf, Holders, LzPlaces, BtPlaces, HashPlaces
<1>1. Typed'
  BY DEF Typed, HashControl, BtControl, LzReleased
<1>2. HashControl'
  BY DEF Typed, HashControl, BtControl, Locks, LzReleased
<1>3. BtControl'
  BY DEF Typed, HashControl, BtControl, Locks, LzReleased
<1>4. Locks'
  BY DEF Typed, HashControl, BtControl, Locks, LzReleased
<1>5. Fresh'
  BY DEF Typed, HashControl, BtControl, Fresh, MayAskHash, LzReleased
<1>6. BlocksKept'
  BY DEF Typed, HashControl, BtControl, Fresh, MayAskHash, BlocksKept, LzReleased
<1>7. Stopping'
  BY DEF Typed, HashControl, BtControl, BlocksKept, Stopping, LzReleased
<1> QED BY <1>1, <1>2, <1>3, <1>4, <1>5, <1>6, <1>7

(* The bt thread has ended; now the hash thread is to end.                 *)
LEMMA LzJoinBtKeeps == ASSUME Inv, LzJoinBt PROVE Inv'
<1> USE LzFindMtAssumption DEF Inv, SyncOf, Holders, LzPlaces, BtPlaces, HashPlaces
<1>1. Typed'
  BY DEF Typed, HashControl, BtControl, LzJoinBt
<1>2. HashControl'
  BY DEF Typed, HashControl, BtControl, Locks, LzJoinBt
<1>3. BtControl'
  BY DEF Typed, HashControl, BtControl, Locks, LzJoinBt
<1>4. Locks'
  BY DEF Typed, HashControl, BtControl, Locks, LzJoinBt
<1>5. Fresh'
  BY DEF Typed, HashControl, BtControl, Fresh, MayAskHash, LzJoinBt
<1>6. BlocksKept'
  BY DEF Typed, HashControl, BtControl, Fresh, MayAskHash, BlocksKept, LzJoinBt
<1>7. Stopping'
  BY DEF Typed, HashControl, BtControl, BlocksKept, Stopping, LzJoinBt
<1> QED BY <1>1, <1>2, <1>3, <1>4, <1>5, <1>6, <1>7

(* The hash thread has ended.                                              *)
LEMMA LzJoinHashKeeps == ASSUME Inv, LzJoinHash PROVE Inv'
<1> USE LzFindMtAssumption DEF Inv, SyncOf, Holders, LzPlaces, BtPlaces, HashPlaces
<1>1. Typed'
  BY DEF Typed, HashControl, BtControl, LzJoinHash
<1>2. HashControl'
  BY DEF Typed, HashControl, BtControl, Locks, LzJoinHash
<1>3. BtControl'
  BY DEF Typed, HashControl, BtControl, Locks, LzJoinHash
<1>4. Locks'
  BY DEF Typed, HashControl, BtControl, Locks, LzJoinHash
<1>5. Fresh'
  BY DEF Typed, HashControl, BtControl, Fresh, MayAskHash, LzJoinHash
<1>6. BlocksKept'
  BY DEF Typed, HashControl, BtControl, Fresh, MayAskHash, BlocksKept, LzJoinHash
<1>7. Stopping'
  BY DEF Typed, HashControl, BtControl, BlocksKept, Stopping, LzJoinHash
<1> QED BY <1>1, <1>2, <1>3, <1>4, <1>5, <1>6, <1>7

(* The finder without threads leaves theirs alone.                         *)
LEMMA StGetKeeps == ASSUME Inv, StGet PROVE Inv'
<1> USE LzFindMtAssumption DEF Inv, SyncOf, Holders, LzPlaces, BtPlaces, HashPlaces
<1>1. Typed'
  BY DEF Typed, HashControl, BtControl, StGet
<1>2. HashControl'
  BY DEF Typed, HashControl, BtControl, Locks, StGet
<1>3. BtControl'
  BY DEF Typed, HashControl, BtControl, Locks, StGet
<1>4. Locks'
  BY DEF Typed, HashControl, BtControl, Locks, StGet
<1>5. Fresh'
  BY DEF Typed, HashControl, BtControl, Fresh, MayAskHash, StGet
<1>6. BlocksKept'
  BY DEF Typed, HashControl, BtControl, Fresh, MayAskHash, BlocksKept, StGet
<1>7. Stopping'
  BY DEF Typed, HashControl, BtControl, BlocksKept, Stopping, StGet
<1> QED BY <1>1, <1>2, <1>3, <1>4, <1>5, <1>6, <1>7

(* So does its Skip.                                                       *)
LEMMA StSkipKeeps == ASSUME Inv, StSkip PROVE Inv'
<1> USE LzFindMtAssumption DEF Inv, SyncOf, Holders, LzPlaces, BtPlaces, HashPlaces
<1>1. Typed'
  BY DEF Typed, HashControl, BtControl, StSkip
<1>2. HashControl'
  BY DEF Typed, HashControl, BtControl, Locks, StSkip
<1>3. BtControl'
  BY DEF Typed, HashControl, BtControl, Locks, StSkip
<1>4. Locks'
  BY DEF Typed, HashControl, BtControl, Locks, StSkip
<1>5. Fresh'
  BY DEF Typed, HashControl, BtControl, Fresh, MayAskHash, StSkip
<1>6. BlocksKept'
  BY DEF Typed, HashControl, BtControl, Fresh, MayAskHash, BlocksKept, StSkip
<1>7. Stopping'
  BY DEF Typed, HashControl, BtControl, BlocksKept, Stopping, StSkip
<1> QED BY <1>1, <1>2, <1>3, <1>4, <1>5, <1>6, <1>7

(* A stream is dropped: the bt thread is told to stop.                     *)
LEMMA LzStopsBt ==
  ASSUME Inv, LzRelease, mode # "st" /\ ~sync.bt.needStart
  PROVE  Inv'
<1> USE LzFindMtAssumption DEF Inv
<1>1. sync.hash \in SyncOf(NumHashBlocks) /\ sync.bt \in SyncOf(NumBtBlocks)
  BY DEF Typed
<1>2. /\ sync' \in [hash : SyncOf(NumHashBlocks), bt : SyncOf(NumBtBlocks)]
      /\ sync'.hash = sync.hash /\ sync'.bt = StopWriting(sync.bt)
      /\ pc' = [pc EXCEPT !.lz = "stopping"] /\ UNCHANGED mode
  BY <1>1, StopWritingIs DEF Typed, LzRelease
<1> USE DEF SyncOf, Holders, LzPlaces, BtPlaces, HashPlaces
<1>3. pc' \in [lz : LzPlaces, bt : BtPlaces, hash : HashPlaces]
  BY <1>2 DEF Typed
<1>4. Typed'
  BY <1>1, <1>2, <1>3, StopWritingIs DEF Typed, HashControl, BtControl, LzRelease
<1>5. HashControl'
  BY <1>1, <1>2, <1>3, StopWritingIs DEF Typed, HashControl, BtControl, Locks, LzRelease
<1>6. BtControl'
  BY <1>1, <1>2, <1>3, StopWritingIs DEF Typed, HashControl, BtControl, Locks, LzRelease
<1>7. Locks'
  BY <1>1, <1>2, <1>3, StopWritingIs DEF Typed, HashControl, BtControl, Locks, LzRelease
<1>8. Fresh'
  BY <1>1, <1>2, <1>3, StopWritingIs DEF Typed, HashControl, BtControl, Fresh, MayAskHash,
     LzRelease
<1>9. BlocksKept'
  BY <1>1, <1>2, <1>3, StopWritingIs DEF Typed, HashControl, BtControl, Fresh, MayAskHash,
     BlocksKept, LzRelease
<1>10. Stopping'
  BY <1>1, <1>2, <1>3, StopWritingIs DEF Typed, HashControl, BtControl, BlocksKept, Stopping,
     LzRelease
<1> QED BY <1>4, <1>5, <1>6, <1>7, <1>8, <1>9, <1>10

(* Nothing to stop when it was never started.                              *)
LEMMA LzLeaves ==
  ASSUME Inv, LzRelease, mode = "st" \/ sync.bt.needStart
  PROVE  Inv'
<1> USE LzFindMtAssumption DEF Inv, SyncOf, Holders, LzPlaces, BtPlaces, HashPlaces
<1>1. Typed'
  BY DEF Typed, HashControl, BtControl, LzRelease
<1>2. HashControl'
  BY DEF Typed, HashControl, BtControl, Locks, LzRelease
<1>3. BtControl'
  BY DEF Typed, HashControl, BtControl, Locks, LzRelease
<1>4. Locks'
  BY DEF Typed, HashControl, BtControl, Locks, LzRelease
<1>5. Fresh'
  BY DEF Typed, HashControl, BtControl, Fresh, MayAskHash, LzRelease
<1>6. BlocksKept'
  BY DEF Typed, HashControl, BtControl, Fresh, MayAskHash, BlocksKept, LzRelease
<1>7. Stopping'
  BY DEF Typed, HashControl, BtControl, BlocksKept, Stopping, LzRelease
<1> QED BY <1>1, <1>2, <1>3, <1>4, <1>5, <1>6, <1>7

(* Either way the invariant is kept.                                       *)
LEMMA LzReleaseKeeps == ASSUME Inv, LzRelease PROVE Inv'
  BY LzStopsBt, LzLeaves

(* The threads are told to end.                                            *)
LEMMA LzDestructKeeps == ASSUME Inv, LzDestruct PROVE Inv'
<1> USE LzFindMtAssumption DEF Inv, SyncOf, Holders, LzPlaces, BtPlaces, HashPlaces
<1>1. Typed'
  BY DEF Typed, HashControl, BtControl, LzDestruct
<1>2. HashControl'
  BY DEF Typed, HashControl, BtControl, Locks, LzDestruct
<1>3. BtControl'
  BY DEF Typed, HashControl, BtControl, Locks, LzDestruct
<1>4. Locks'
  BY DEF Typed, HashControl, BtControl, Locks, LzDestruct
<1>5. Fresh'
  BY DEF Typed, HashControl, BtControl, Fresh, MayAskHash, LzDestruct
<1>6. BlocksKept'
  BY DEF Typed, HashControl, BtControl, Fresh, MayAskHash, BlocksKept, LzDestruct
<1>7. Stopping'
  BY DEF Typed, HashControl, BtControl, BlocksKept, Stopping, LzDestruct
<1> QED BY <1>1, <1>2, <1>3, <1>4, <1>5, <1>6, <1>7

(* The invariant holds at the start, where no thread was started yet.      *)
LEMMA InitInv == Init => Inv
<1> SUFFICES ASSUME Init PROVE Inv
  OBVIOUS
<1> USE LzFindMtAssumption DEF Init, NoSync
<1>1. Typed
  BY DEF Typed, SyncOf, Holders, LzPlaces, BtPlaces, HashPlaces
<1>2. HashControl /\ BtControl /\ Locks
  BY DEF HashControl, BtControl, Locks
<1>3. Fresh /\ BlocksKept /\ Stopping
  BY DEF Fresh, MayAskHash, BlocksKept, Stopping
<1> QED BY <1>1, <1>2, <1>3 DEF Inv

(* Every step of every thread keeps it.                                    *)
LEMMA StepInv == Inv /\ [Next]_vars => Inv'
<1> SUFFICES ASSUME Inv, [Next]_vars PROVE Inv'
  OBVIOUS
<1>1. CASE UNCHANGED vars
  BY <1>1 DEF vars, Inv, Typed, HashControl, BtControl, Locks, Fresh, MayAskHash, BlocksKept,
     Stopping
<1>2. CASE Hash
  BY <1>2, HashStartKeeps, HashLockKeeps, HashMoveKeeps, HashFreeKeeps, HashFillKeeps DEF Hash
<1>3. CASE Bt
  BY <1>3, BtStartKeeps, BtFreeKeeps, BtLockKeeps, BtBeginKeeps, BtNextBlockKeeps, BtWaitKeeps,
     BtHeadsKeeps, BtMatchKeeps, BtStopKeeps, BtStoppedKeeps DEF Bt
<1>4. CASE Lz
  BY <1>4, LzBeginKeeps, LzCallKeeps, LzRunKeeps, LzNextBlockKeeps, LzWaitKeeps, LzBlockKeeps,
     LzReleasedKeeps, LzJoinBtKeeps, LzJoinHashKeeps, StGetKeeps, StSkipKeeps, LzReleaseKeeps,
     LzDestructKeeps DEF Lz, LzContinues
<1> QED BY <1>1, <1>2, <1>3, <1>4 DEF Next

(* What every run keeps true, from which the theorems below follow.        *)
THEOREM Invariant == Spec => []Inv
<1>1. Init /\ [][Next]_vars => []Inv
  BY InitInv, StepInv, PTL
<1> QED BY <1>1, PTL DEF Spec

(* The semaphores of the two rings (LzFindMt.c: MtSync_GetNextBlock,       *)
(* MtSync_StopWriting, MtSync_Init) lose and make no block: each is free,  *)
(* filled, or in the hands of its writer or of its reader.                 *)
THEOREM KeepsBlocks == Spec => []BlocksKept
<1>1. Inv => BlocksKept
  BY DEF Inv
<1> QED BY <1>1, Invariant, PTL

(* Semaphore_Release1, whose result LzFindMt.c does not look at, never     *)
(* fails: also when a stream is dropped half way and the threads are       *)
(* stopped while they hold blocks.                                         *)
THEOREM ReleasesNeverFail == Spec => []ReleasesFit
<1>1. Inv => ReleasesFit
  BY LzFindMtAssumption
     DEF Inv, Typed, SyncOf, HashControl, BtControl, BlocksKept, Stopping, ReleasesFit,
         LzPlaces, BtPlaces, HashPlaces
<1> QED BY <1>1, Invariant, PTL

(* HashThreadFunc moves the window while neither the bt thread nor the     *)
(* encoder looks into it or uses a pointer it has.                         *)
THEOREM MovesTheWindowAlone == Spec => []MovesAlone
<1>1. Inv => MovesAlone
  BY DEF Inv, Typed, HashControl, BtControl, Locks, MovesAlone
<1> QED BY <1>1, Invariant, PTL

(* MtSync_Init finds both threads stopped whenever a stream begins.        *)
THEOREM AlwaysReady == Spec => []NeverUnready
<1>1. Inv => NeverUnready
  BY DEF Inv, Typed, BtControl, NeverUnready, LzPlaces, BtPlaces, HashPlaces
<1> QED BY <1>1, Invariant, PTL

=============================================================================
