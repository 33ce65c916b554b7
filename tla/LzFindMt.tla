------------------------------ MODULE LzFindMt ------------------------------
(***************************************************************************)
(* The match finder as LzmaEnc.c drives it: LzFind.c alone (mode "st"), or *)
(* LzFindMt.c (mode "mt"), where the hash thread reads the input and fills *)
(* blocks of hash heads, the bt thread turns them into blocks of matches,  *)
(* and the encoder's thread (lz) consumes these.  A step of a thread is    *)
(* what it does between two waits.  The records lz, bt and hs are the      *)
(* fields of CMatchFinderMt that the three threads keep to themselves;     *)
(* mf is the CMatchFinder they share; sync holds the two CMtSync.          *)
(***************************************************************************)
EXTENDS LzFind

CONSTANTS
  HashBlockSize,  (* kMtHashBlockSize, in words                            *)
  NumHashBlocks,  (* kMtHashNumBlocks                                      *)
  BtBlockSize,    (* kMtBtBlockSize, in words                              *)
  NumBtBlocks,    (* kMtBtNumBlocks                                        *)
  Cases,          (* the finders tried, each with its input:               *)
                  (* [mode, n, btMode, cutValue, matchMaxLen, input]       *)
  AddBefore, AddAfter, (* what LzmaEnc_Alloc asks to keep around the window *)
  SkipNums,       (* how many positions a Skip may pass                    *)
  RestartAt,      (* where the encoder may drop a stream to start again    *)
  MaxSessions     (* streams given to one match finder; bounds the model   *)

ASSUME LzFindMtAssumption ==
  /\ HashBlockSize \in Nat /\ HashBlockSize > 2
  /\ NumHashBlocks \in Nat \ {0, 1} /\ NumBtBlocks \in Nat \ {0, 1}
  /\ BtBlockSize \in Nat /\ BtBlockSize < Word - HistorySize
  /\ \A x \in Cases : x.mode = "mt" => x.btMode /\ BtBlockSize > 4 * x.matchMaxLen

VARIABLES
  input, mode, mf,
  sync,      (* sync.hash: bt reads what hash writes; sync.bt: lz reads bt  *)
  hashBuf, btBuf,
  lz, bt, hs,
  pc,        (* where each of the threads is                               *)
  at,        (* how many bytes of the stream the encoder has passed        *)
  sessions

vars == <<input, mode, mf, sync, hashBuf, btBuf, lz, bt, hs, pc, at, sessions>>

kMtMaxValForNormalize == Word - 1

NoSync(numBlocks) ==
  [needStart |-> TRUE, csWasEntered |-> FALSE, cs |-> "none", exit |-> TRUE, stopWriting |-> FALSE,
   numProcessedBlocks |-> 0, canStart |-> FALSE, wasStopped |-> FALSE,
   free |-> 0, filled |-> 0, max |-> numBlocks]

(* Semaphore_Release1: at the maximum it fails and changes nothing.        *)
Released(count, max) == IF count < max THEN count + 1 ELSE count
FreeOne(y) == [y EXCEPT !.free = Released(@, y.max)]
FillOne(y) == [y EXCEPT !.filled = Released(@, y.max)]
Lock(y, thread) == [y EXCEPT !.cs = thread, !.csWasEntered = TRUE]
Unlock(y) == [y EXCEPT !.cs = "none", !.csWasEntered = FALSE]

(* MtSync_GetNextBlock up to its wait; the index of the block is           *)
(* numProcessedBlocks - 1 afterwards.                                      *)
GetNextBlock(y) ==
  IF y.needStart
  THEN [y EXCEPT !.numProcessedBlocks = 1, !.needStart = FALSE, !.stopWriting = FALSE,
                 !.exit = FALSE, !.wasStopped = FALSE, !.canStart = TRUE]
  ELSE FreeOne([Unlock(y) EXCEPT !.numProcessedBlocks = @ + 1])

(* MtSync_StopWriting up to its wait, of a thread that was started.        *)
StopWriting(y) ==
  FreeOne([(IF y.csWasEntered THEN Unlock(y) ELSE y) EXCEPT !.stopWriting = TRUE])

(* MtSync_Init, which fails when the thread was not stopped.               *)
Unready(y) == ~y.needStart \/ y.csWasEntered

MtSync_Init_KeepFilled(y) == [y EXCEPT !.free = y.max]

MtSync_Init(y) == [y EXCEPT !.free = y.max, !.filled = 0]

-----------------------------------------------------------------------------
KeepBefore == AddBefore + NumHashBlocks * HashBlockSize + NumBtBlocks * BtBlockSize
KeepAfter == AddAfter + HashBlockSize

(* MatchFinderMt_Create or, for mode "st", MatchFinder_Create.             *)
Created(x) ==
  IF x.mode = "mt" THEN MatchFinder_Create(x.n, x.btMode, x.cutValue, x.matchMaxLen, KeepBefore, KeepAfter, x.input)
  ELSE MatchFinder_Create(x.n, x.btMode, x.cutValue, x.matchMaxLen, AddBefore, AddAfter, x.input)

(* The window is smaller than the numbers: MatchFinder_Create refuses a    *)
(* dictionary too large for that.                                          *)
ASSUME LzFindMtWindow == \A x \in Cases : Created(x).blockSize < Word

NoLz == [ptr |-> 0, block |-> 0, pos |-> 0, lim |-> 0, lzPos |-> 1, avail |-> 0,
         failure |-> FALSE, op |-> "none", num |-> 0]
NoBt == [pos |-> 1, ptr |-> 0, cyc |-> 1, block |-> 0, hashPos |-> 0, hashLim |-> 0, hashBlock |-> 0,
         hashAvail |-> 0, failure |-> FALSE, numProcessed |-> 0, curPos |-> 0]

Init ==
  /\ \E x \in Cases : mode = x.mode /\ mf = Created(x) /\ input = x.input
  /\ sync = [hash |-> NoSync(NumHashBlocks), bt |-> NoSync(NumBtBlocks)]
  /\ hashBuf = [k \in 0 .. NumHashBlocks - 1 |-> [heads |-> << >>, avail |-> 0]]
  /\ btBuf = [k \in 0 .. NumBtBlocks - 1 |-> [size |-> 0, avail |-> 0, items |-> << >>]]
  /\ lz = NoLz /\ bt = NoBt /\ hs = 0
  /\ pc = [lz |-> "off", bt |-> "start", hash |-> "start"]
  /\ at = 0 /\ sessions = 0

-----------------------------------------------------------------------------
(* HashThreadFunc: hs is its blockIndex.                                   *)
HashStart ==
  /\ pc.hash = "start" /\ sync.hash.canStart
  /\ sync' = [sync EXCEPT !.hash.canStart = FALSE]
  /\ IF sync.hash.exit THEN pc' = [pc EXCEPT !.hash = "ended"] /\ UNCHANGED <<mf, hs>>
     ELSE /\ pc' = [pc EXCEPT !.hash = "loop"]
          /\ mf' = MatchFinder_Init_HighHash(mf) /\ hs' = 0
  /\ UNCHANGED <<input, mode, hashBuf, btBuf, lz, bt, at, sessions>>

(* The window is moved only when neither the bt nor the lz thread is in a  *)
(* buffer; their pointers into it are moved along.                         *)
HashLock ==
  /\ pc.hash = "loop" /\ MatchFinder_NeedMove(mf) /\ sync.bt.cs = "none"
  /\ sync' = [sync EXCEPT !.bt.cs = "hash"]
  /\ pc' = [pc EXCEPT !.hash = "move"]
  /\ UNCHANGED <<input, mode, mf, hashBuf, btBuf, lz, bt, hs, at, sessions>>

HashMove_KeepLz ==
  /\ pc.hash = "move" /\ sync.hash.cs = "none"
  /\ \E moved \in {MatchFinder_MoveBlock(mf)} :
       /\ mf' = moved
       /\ bt' = [bt EXCEPT !.ptr = @ - (mf.buffer - moved.buffer)]
  /\ sync' = [sync EXCEPT !.bt.cs = "none"]
  /\ pc' = [pc EXCEPT !.hash = "loop"]
  /\ UNCHANGED <<input, mode, hashBuf, btBuf, lz, hs, at, sessions>>

HashMove ==
  /\ pc.hash = "move" /\ sync.hash.cs = "none"
  /\ \E moved \in {MatchFinder_MoveBlock(mf)} :
       /\ mf' = moved
       /\ lz' = [lz EXCEPT !.ptr = @ - (mf.buffer - moved.buffer)]
       /\ bt' = [bt EXCEPT !.ptr = @ - (mf.buffer - moved.buffer)]
  /\ sync' = [sync EXCEPT !.bt.cs = "none"]
  /\ pc' = [pc EXCEPT !.hash = "loop"]
  /\ UNCHANGED <<input, mode, hashBuf, btBuf, hs, at, sessions>>

HashFree ==
  /\ pc.hash = "loop" /\ ~MatchFinder_NeedMove(mf) /\ sync.hash.free > 0
  /\ sync' = [sync EXCEPT !.hash.free = @ - 1,
                          !.hash.wasStopped = @ \/ (~sync.hash.exit /\ sync.hash.stopWriting)]
  /\ pc' = [pc EXCEPT !.hash = IF sync.hash.exit THEN "ended"
                               ELSE IF sync.hash.stopWriting THEN "start" ELSE "fill"]
  /\ UNCHANGED <<input, mode, mf, hashBuf, btBuf, lz, bt, hs, at, sessions>>

(* The heads of num positions: how far back the last one with the same     *)
(* hash is, in the numbering of mf->pos (GetHeads2 ... GetHeads5b).        *)
GetHead(x) ==
  LET With(k) == [p |-> [x.p EXCEPT !.hash[k] = x.p.pos, !.pos = Wrap(@ + 1), !.buffer = @ + 1],
                  heads |-> Append(x.heads, Wrap(x.p.pos - x.p.hash[k]))]
  IN With(HV(x.p.numHashBytes, CurBytes(x.p, input, x.p.numHashBytes)))

GetHeads(p, num) == Repeated(GetHead, [p |-> p, heads |-> << >>], num)

HashNormalized_KeepHash(p, num) ==
  LET subValue == p.pos - HistorySize - 1
  IN IF p.pos > kMtMaxValForNormalize - num
     THEN [p EXCEPT !.pos = @ - subValue, !.streamPos = Wrap(@ - subValue)]
     ELSE p

HashNormalized(p, num) ==
  LET subValue == p.pos - HistorySize - 1
  IN IF p.pos > kMtMaxValForNormalize - num
     THEN [p EXCEPT !.pos = @ - subValue, !.streamPos = Wrap(@ - subValue),
                    !.hash = Normalized(subValue, @)]
     ELSE p

(* What a block of heads gets from p, with avail bytes to come.            *)
HeadsFilled(p, num) == GetHeads(HashNormalized(p, num), num)
HashBlockOf(p, avail) ==
  IF avail >= p.numHashBytes THEN HeadsFilled(p, Smaller(avail - p.numHashBytes + 1, HashBlockSize - 2))
  ELSE [p |-> [p EXCEPT !.pos = Wrap(@ + avail), !.buffer = @ + avail], heads |-> << >>]

HashFill ==
  /\ pc.hash = "fill"
  /\ \E p \in {MatchFinder_ReadIfRequired(mf, input)} :
       \E filled \in {HashBlockOf(p, GetAvailBytes(p))} :
         /\ hashBuf' = [hashBuf EXCEPT ![hs % NumHashBlocks] =
                          [heads |-> filled.heads, avail |-> GetAvailBytes(p)]]
         /\ mf' = filled.p
  /\ hs' = hs + 1
  /\ sync' = [sync EXCEPT !.hash = FillOne(@)]
  /\ pc' = [pc EXCEPT !.hash = "loop"]
  /\ UNCHANGED <<input, mode, btBuf, lz, bt, at, sessions>>

-----------------------------------------------------------------------------
(* BtThreadFunc *)
BtStart ==
  /\ pc.bt = "start" /\ sync.bt.canStart
  /\ sync' = [sync EXCEPT !.bt.canStart = FALSE]
  /\ pc' = [pc EXCEPT !.bt = IF sync.bt.exit THEN "ended" ELSE "free"]
  /\ bt' = [bt EXCEPT !.block = 0]
  /\ UNCHANGED <<input, mode, mf, hashBuf, btBuf, lz, hs, at, sessions>>

BtFree ==
  /\ pc.bt = "free" /\ sync.bt.free > 0
  /\ sync' = [sync EXCEPT !.bt.free = @ - 1]
  /\ pc' = [pc EXCEPT !.bt = IF sync.bt.stopWriting THEN "stop"
                             ELSE IF sync.hash.needStart THEN "begin" ELSE "lock"]
  /\ UNCHANGED <<input, mode, mf, hashBuf, btBuf, lz, bt, hs, at, sessions>>

BtLock ==
  /\ pc.bt = "lock" /\ sync.hash.cs = "none"
  /\ sync' = [sync EXCEPT !.hash = Lock(@, "bt")]
  /\ pc' = [pc EXCEPT !.bt = "begin"]
  /\ UNCHANGED <<input, mode, mf, hashBuf, btBuf, lz, bt, hs, at, sessions>>

BtBlock == bt.block % NumBtBlocks
BtLimit == BtBlockSize - mf.matchMaxLen * 2

(* The end of BtFillBlock, and the block sent.                             *)
BtSent(blk) ==
  /\ btBuf' = [btBuf EXCEPT ![BtBlock] = blk]
  /\ sync' = [sync EXCEPT !.hash = Unlock(@), !.bt = FillOne(@)]
  /\ pc' = [pc EXCEPT !.bt = IF sync.bt.exit THEN "ended" ELSE "free"]

(* BtGetMatches: start of a block.                                         *)
BtBegin ==
  /\ pc.bt = "begin"
  /\ IF bt.failure
     THEN /\ BtSent([size |-> 0, avail |-> bt.hashAvail, items |-> << >>])
          /\ bt' = [bt EXCEPT !.block = @ + 1]
     ELSE /\ bt' = [bt EXCEPT !.numProcessed = 0, !.curPos = 2]
          /\ btBuf' = [btBuf EXCEPT ![BtBlock] = [size |-> 0, avail |-> bt.hashAvail, items |-> << >>]]
          /\ pc' = [pc EXCEPT !.bt = "match"]
          /\ UNCHANGED sync
  /\ UNCHANGED <<input, mode, mf, hashBuf, lz, hs, at, sessions>>

BtNeedsHeads == bt.curPos < BtLimit /\ bt.hashPos = bt.hashLim

BtNextBlock ==
  /\ pc.bt = "match" /\ BtNeedsHeads
  /\ sync' = [sync EXCEPT !.hash = GetNextBlock(@)]
  /\ pc' = [pc EXCEPT !.bt = "wait"]
  /\ UNCHANGED <<input, mode, mf, hashBuf, btBuf, lz, bt, hs, at, sessions>>

BtWait ==
  /\ pc.bt = "wait" /\ sync.hash.filled > 0
  /\ sync' = [sync EXCEPT !.hash.filled = @ - 1]
  /\ pc' = [pc EXCEPT !.bt = "heads"]
  /\ UNCHANGED <<input, mode, mf, hashBuf, btBuf, lz, bt, hs, at, sessions>>

(* A block of heads; one with fewer bytes than a hash takes is the last.   *)
BtHeads ==
  /\ pc.bt = "heads" /\ sync.hash.cs = "none"
  /\ \E k \in {(sync.hash.numProcessedBlocks - 1) % NumHashBlocks} :
       \E h \in {hashBuf[k]} :
         \E blk \in {[btBuf[BtBlock] EXCEPT !.avail = bt.numProcessed + h.avail]} :
           IF h.avail >= mf.numHashBytes
           THEN /\ bt' = [bt EXCEPT !.hashBlock = k, !.hashPos = 0, !.hashLim = Len(h.heads),
                                    !.hashAvail = h.avail]
                /\ btBuf' = [btBuf EXCEPT ![BtBlock] = blk]
                /\ sync' = [sync EXCEPT !.hash = Lock(@, "bt")]
                /\ pc' = [pc EXCEPT !.bt = "match"]
           ELSE /\ bt' = [bt EXCEPT !.hashBlock = k, !.hashPos = 0, !.hashLim = 0,
                                    !.hashAvail = 0, !.block = @ + 1]
                /\ BtSent([blk EXCEPT !.size = bt.curPos + h.avail,
                                      !.items = @ \o [i \in 1 .. h.avail |-> << >>]])
  /\ UNCHANGED <<input, mode, mf, hashBuf, lz, hs, at, sessions>>

(* GetMatchesSpecN_2 for one head: p is the finder as the bt thread sees   *)
(* it, where its tables, window and position are.                          *)
BtView == [mf EXCEPT !.pos = bt.pos, !.buffer = bt.ptr, !.cyclicBufferPos = bt.cyc]

BtTree(p, lenLimit, delta) ==
  GetMatchesSpec1(p, input, lenLimit,
    IF delta >= Smaller(p.pos, CyclicBufferSize) THEN 0 ELSE p.pos - delta, p.numHashBytes - 1)

BtStepped(p, t) ==
  [failure |-> t.failure, d |-> t.d,
   p |-> [p EXCEPT !.son = t.son, !.pos = @ + 1, !.buffer = @ + 1, !.cyclicBufferPos = @ + 1]]

BtPosition(p, lenLimit, delta) ==
  IF delta = 0 \/ (p.pos < CyclicBufferSize /\ delta > p.pos)
  THEN [failure |-> TRUE, p |-> p, d |-> << >>]
  ELSE BtStepped(p, BtTree(p, lenLimit, delta))

BtPassed(x, lenLimit, heads) ==
  LET After(y) == [p |-> y.p, failure |-> y.failure, done |-> x.done + 1,
                   curPos |-> x.curPos + 1 + 2 * Len(y.d), items |-> Append(x.items, y.d)]
  IN IF x.curPos >= BtLimit \/ x.failure THEN x
     ELSE After(BtPosition(x.p, lenLimit, heads[bt.hashPos + x.done + 1]))

BtPositions(x, lenLimit, size, heads) == Repeated(LAMBDA y : BtPassed(y, lenLimit, heads), x, size)

BtNormalized(p, size) ==
  LET subValue == p.pos - CyclicBufferSize
  IN IF p.pos > kMtMaxValForNormalize - size
     THEN [p EXCEPT !.pos = @ - subValue, !.son = Normalized(subValue, @)]
     ELSE p

BtLenLimit == Smaller(mf.matchMaxLen, bt.hashAvail)
BtSize == Smaller(Smaller(bt.hashLim - bt.hashPos, bt.hashAvail - BtLenLimit + 1),
                  CyclicBufferSize - bt.cyc)
BtRun(p, size) ==
  BtPositions([p |-> p, failure |-> FALSE, done |-> 0, curPos |-> bt.curPos,
               items |-> btBuf[BtBlock].items], BtLenLimit, size, hashBuf[bt.hashBlock].heads)

BtMatch ==
  /\ pc.bt = "match" /\ ~BtNeedsHeads
  /\ IF bt.curPos >= BtLimit
     THEN /\ BtSent([btBuf[BtBlock] EXCEPT !.size = bt.curPos])
          /\ bt' = [bt EXCEPT !.block = @ + 1] /\ UNCHANGED mf
     ELSE \E size \in {BtSize} : \E p \in {BtNormalized(BtView, size)} : \E x \in {BtRun(p, size)} :
            /\ mf' = [mf EXCEPT !.son = x.p.son]
            /\ IF x.failure
               THEN /\ BtSent([btBuf[BtBlock] EXCEPT !.size = 0])
                    /\ bt' = [bt EXCEPT !.block = @ + 1, !.pos = p.pos, !.failure = TRUE]
               ELSE /\ btBuf' = [btBuf EXCEPT ![BtBlock].items = x.items]
                    /\ bt' = [bt EXCEPT !.curPos = x.curPos, !.hashPos = @ + x.done, !.pos = x.p.pos,
                                   !.ptr = @ + x.done, !.numProcessed = @ + x.done, !.hashAvail = @ - x.done,
                                   !.cyc = IF @ + x.done = CyclicBufferSize THEN 0 ELSE @ + x.done]
                    /\ UNCHANGED <<sync, pc>>
  /\ UNCHANGED <<input, mode, hashBuf, lz, hs, at, sessions>>

(* The bt thread is to stop: it stops the hash thread first.               *)
BtStop_LeaveHash ==
  /\ pc.bt = "stop"
  /\ pc' = [pc EXCEPT !.bt = "start"]
  /\ sync' = [sync EXCEPT !.bt.wasStopped = TRUE]
  /\ UNCHANGED <<input, mode, mf, hashBuf, btBuf, lz, bt, hs, at, sessions>>

BtStop ==
  /\ pc.bt = "stop"
  /\ IF sync.hash.needStart
     THEN /\ pc' = [pc EXCEPT !.bt = "start"]
          /\ sync' = [sync EXCEPT !.bt.wasStopped = TRUE]
     ELSE /\ pc' = [pc EXCEPT !.bt = "stopping"]
          /\ sync' = [sync EXCEPT !.hash = StopWriting(@)]
  /\ UNCHANGED <<input, mode, mf, hashBuf, btBuf, lz, bt, hs, at, sessions>>

BtStopped ==
  /\ pc.bt = "stopping" /\ sync.hash.wasStopped
  /\ sync' = [sync EXCEPT !.hash.wasStopped = FALSE, !.hash.needStart = TRUE, !.bt.wasStopped = TRUE]
  /\ pc' = [pc EXCEPT !.bt = "start"]
  /\ UNCHANGED <<input, mode, mf, hashBuf, btBuf, lz, bt, hs, at, sessions>>

-----------------------------------------------------------------------------
(* The encoder's thread.  A stream begins with MatchFinderMt_InitMt and    *)
(* MatchFinderMt_Init, or MatchFinder_Init.                                *)
LzBegin ==
  /\ pc.lz = "off" /\ sessions < MaxSessions
  /\ sessions' = sessions + 1 /\ at' = 0
  /\ IF mode = "st" THEN mf' = MatchFinder_Init(mf, input) /\ UNCHANGED sync
     ELSE /\ sync' = [hash |-> MtSync_Init(sync.hash), bt |-> MtSync_Init(sync.bt)]
          /\ mf' = MatchFinder_Init_LowHash(MatchFinder_Init_4(mf))
  /\ lz' = NoLz
  /\ bt' = [NoBt EXCEPT !.block = bt.block, !.curPos = bt.curPos, !.numProcessed = bt.numProcessed]
  /\ pc' = [pc EXCEPT !.lz = IF mode = "mt" /\ (Unready(sync.hash) \/ Unready(sync.bt)) THEN "failed" ELSE "idle"]
  /\ UNCHANGED <<input, mode, hashBuf, btBuf, hs>>

LzAvail == IF mode = "mt" THEN lz.avail ELSE GetAvailBytes(mf)
LzNeedsBlock(x) == x.pos = x.lim

(* MixMatches2, 3 and 4: matches of two to four bytes from the tables the  *)
(* lz thread keeps itself, none further than matchMinPos.  view is the     *)
(* finder as the lz thread sees it.                                        *)
MixMatches(view, matchMinPos) ==
  LET m == view.pos
      Same(c, i) == Cur(view, input, c - m + i) = Cur(view, input, i)
      Most(c) == IF view.numHashBytes > 4 /\ Same(c, 3) THEN 4 ELSE 3
      Longer(first, c3) ==
        IF view.numHashBytes > 3 /\ c3 >= matchMinPos /\ Same(c3, 0)
        THEN Append(first, <<Most(c3), m - c3 - 1>>) ELSE first
      Mixed(c2, c3) ==
        IF c2 >= matchMinPos /\ Same(c2, 0)
        THEN IF view.numHashBytes > 3 /\ Same(c2, 2) THEN << <<Most(c2), m - c2 - 1>> >>
             ELSE Longer(<< <<2, m - c2 - 1>> >>, c3)
        ELSE Longer(<< >>, c3)
      At(b) == Mixed(view.hash2[H2(b)], IF view.numHashBytes > 3 THEN view.hash3[H3(b)] ELSE 0)
  IN At(CurBytes(view, input, Smaller(view.numHashBytes, 4)))

Viewed(p, x) == [p EXCEPT !.pos = x.lzPos, !.buffer = x.ptr]
LzView == Viewed(mf, lz)

(* The tables of MixMatches with the current position entered.             *)
LowEntered(p, x) ==
  LET With(b) == [p EXCEPT !.hash2 = IF p.numHashBytes > 2 THEN [@ EXCEPT ![H2(b)] = x.lzPos] ELSE @,
                           !.hash3 = IF p.numHashBytes > 3 THEN [@ EXCEPT ![H3(b)] = x.lzPos] ELSE @]
  IN With(CurBytes(Viewed(p, x), input, 3))

(* One position passed: btBufPos, btNumAvailBytes, INCREASE_LZ_POS.        *)
LzPassed(x) == [x EXCEPT !.pos = @ + 1, !.avail = @ - 1, !.lzPos = @ + 1, !.ptr = @ + 1]

LzItem(x) == IF x.failure THEN << >> ELSE btBuf[x.block].items[x.pos + 1]

(* MatchFinderMt_GetMatches, MatchFinderMt2_GetMatches: what they return.  *)
LzMixes == mf.numHashBytes > 2 /\ (LzItem(lz) # << >> \/ lz.avail >= 4)
LzMinPos(item) ==
  IF item # << >> THEN lz.lzPos - item[1][2]
  ELSE IF lz.lzPos > HistorySize THEN lz.lzPos - HistorySize ELSE 1
LzFound == (IF LzMixes THEN MixMatches(LzView, LzMinPos(LzItem(lz))) ELSE << >>) \o LzItem(lz)

LzGetMatches ==
  /\ mf' = IF LzMixes THEN LowEntered(mf, lz) ELSE mf
  /\ lz' = LzPassed(lz)
  /\ at' = at + 1

(* MatchFinderMt0_Skip, MatchFinderMt2_Skip, MatchFinderMt3_Skip: as far   *)
(* as the block goes.                                                      *)
SkipLeast(n) == CASE n = 2 -> Word [] n = 3 -> 2 [] OTHER -> 3

LzSkipOne(x) ==
  IF LzNeedsBlock(x.lz) THEN x
  ELSE [mf |-> IF x.lz.avail >= SkipLeast(mf.numHashBytes) THEN LowEntered(x.mf, x.lz) ELSE x.mf,
        lz |-> [LzPassed(x.lz) EXCEPT !.num = @ - 1]]

LzSkip(x) == Repeated(LzSkipOne, x, x.lz.num)

(* The calls LzmaEnc.c makes: GetNumAvailableBytes, then GetMatches when   *)
(* there is something left, or Skip within what is left; none after it was *)
(* told that nothing is.                                                   *)
LzCall ==
  /\ pc.lz = "idle" /\ mode = "mt" /\ lz.op # "end"
  /\ \/ /\ LzNeedsBlock(lz)
        /\ lz' = [lz EXCEPT !.op = "avail"]
        /\ pc' = [pc EXCEPT !.lz = "run"] /\ UNCHANGED <<mf, at>>
     \/ lz.avail > 0 /\ ~LzNeedsBlock(lz) /\ LzGetMatches /\ UNCHANGED pc
     \/ \E num \in SkipNums :
          /\ num <= lz.avail /\ lz' = [lz EXCEPT !.op = "skip", !.num = num]
          /\ pc' = [pc EXCEPT !.lz = "run"] /\ UNCHANGED <<mf, at>>
  /\ UNCHANGED <<input, mode, sync, hashBuf, btBuf, bt, hs, sessions>>

LzRun ==
  /\ pc.lz = "run" /\ ~LzNeedsBlock(lz)
  /\ \E x \in {LzSkip([mf |-> mf, lz |-> lz])} :
       /\ mf' = x.mf /\ at' = at + lz.num - x.lz.num
       /\ lz' = [x.lz EXCEPT !.op = IF x.lz.num = 0 THEN "none" ELSE @]
       /\ pc' = [pc EXCEPT !.lz = IF x.lz.num = 0 THEN "idle" ELSE "run"]
  /\ UNCHANGED <<input, mode, sync, hashBuf, btBuf, bt, hs, sessions>>

(* MatchFinderMt_GetNextBlock_Bt; after a failure the one word of          *)
(* failureBuf, no match, serves every position.                            *)
LzNextBlock ==
  /\ pc.lz = "run" /\ LzNeedsBlock(lz)
  /\ IF lz.failure
     THEN lz' = [lz EXCEPT !.pos = 0, !.lim = 1] /\ UNCHANGED <<sync, pc>>
     ELSE /\ sync' = [sync EXCEPT !.bt = GetNextBlock(@)]
          /\ pc' = [pc EXCEPT !.lz = "wait"]
          /\ UNCHANGED lz
  /\ UNCHANGED <<input, mode, mf, hashBuf, btBuf, bt, hs, at, sessions>>

LzWait ==
  /\ pc.lz = "wait" /\ sync.bt.filled > 0
  /\ sync' = [sync EXCEPT !.bt.filled = @ - 1]
  /\ pc' = [pc EXCEPT !.lz = "block"]
  /\ UNCHANGED <<input, mode, mf, hashBuf, btBuf, lz, bt, hs, at, sessions>>

LzBlock ==
  /\ pc.lz = "block" /\ sync.bt.cs = "none"
  /\ LET k == (sync.bt.numProcessedBlocks - 1) % NumBtBlocks
         broken == btBuf[k].size < 2 \/ btBuf[k].size > BtBlockSize
         subValue == lz.lzPos - HistorySize - 1
         late == lz.lzPos >= kMtMaxValForNormalize - BtBlockSize
     IN /\ lz' = [lz EXCEPT !.block = k, !.avail = btBuf[k].avail, !.pos = 0, !.failure = broken,
                            !.lim = IF broken THEN 1 ELSE Len(btBuf[k].items),
                            !.lzPos = IF late THEN @ - subValue ELSE @,
                            !.op = CASE @ = "skip" -> @
                                     [] @ = "avail" /\ btBuf[k].avail = 0 -> "end"
                                     [] OTHER -> "none"]
        /\ mf' = IF late THEN [mf EXCEPT !.hash2 = Normalized(subValue, @), !.hash3 = Normalized(subValue, @)]
                 ELSE mf
  /\ sync' = [sync EXCEPT !.bt = Lock(@, "lz")]
  /\ pc' = [pc EXCEPT !.lz = IF lz.op = "avail" THEN "idle" ELSE "run"]
  /\ UNCHANGED <<input, mode, hashBuf, btBuf, bt, hs, at, sessions>>

(* The same calls on the finder of LzFind.c.                               *)
StGet ==
  /\ pc.lz = "idle" /\ mode = "st" /\ LzAvail > 0
  /\ mf' = MatchFinder_GetMatches(mf, input)
  /\ at' = at + 1
  /\ UNCHANGED <<input, mode, sync, hashBuf, btBuf, lz, bt, hs, pc, sessions>>

StSkip ==
  /\ pc.lz = "idle" /\ mode = "st"
  /\ \E num \in SkipNums :
       num <= LzAvail /\ mf' = MatchFinder_Skip(mf, input, num) /\ at' = at + num
  /\ UNCHANGED <<input, mode, sync, hashBuf, btBuf, lz, bt, hs, pc, sessions>>

(* MatchFinderMt_ReleaseStream: when the encoder has finished, or gives up *)
(* half way.                                                               *)
LzRelease ==
  /\ pc.lz = "idle" /\ (at \in RestartAt \/ at = ReadableBytes(input))
  /\ IF mode = "st" \/ sync.bt.needStart
     THEN pc' = [pc EXCEPT !.lz = "off"] /\ UNCHANGED sync
     ELSE /\ pc' = [pc EXCEPT !.lz = "stopping"]
          /\ sync' = [sync EXCEPT !.bt = StopWriting(@)]
  /\ UNCHANGED <<input, mode, mf, hashBuf, btBuf, lz, bt, hs, at, sessions>>

LzReleased ==
  /\ pc.lz = "stopping" /\ sync.bt.wasStopped
  /\ sync' = [sync EXCEPT !.bt.wasStopped = FALSE, !.bt.needStart = TRUE]
  /\ pc' = [pc EXCEPT !.lz = "off"]
  /\ UNCHANGED <<input, mode, mf, hashBuf, btBuf, lz, bt, hs, at, sessions>>

(* MatchFinderMt_Destruct: MtSync_Destruct of btSync, then of hashSync.    *)
LzDestruct ==
  /\ pc.lz = "off" /\ sessions = MaxSessions
  /\ pc' = [pc EXCEPT !.lz = "joinBt"]
  /\ sync' = [sync EXCEPT !.bt.exit = TRUE, !.bt.canStart = TRUE]
  /\ UNCHANGED <<input, mode, mf, hashBuf, btBuf, lz, bt, hs, at, sessions>>

LzJoinBt ==
  /\ pc.lz = "joinBt" /\ pc.bt = "ended"
  /\ pc' = [pc EXCEPT !.lz = "joinHash"]
  /\ sync' = [sync EXCEPT !.hash.exit = TRUE, !.hash.canStart = TRUE]
  /\ UNCHANGED <<input, mode, mf, hashBuf, btBuf, lz, bt, hs, at, sessions>>

LzJoinHash ==
  /\ pc.lz = "joinHash" /\ pc.hash = "ended"
  /\ pc' = [pc EXCEPT !.lz = "ended"]
  /\ UNCHANGED <<input, mode, mf, sync, hashBuf, btBuf, lz, bt, hs, at, sessions>>

Hash == HashStart \/ HashLock \/ HashMove \/ HashFree \/ HashFill
Bt == BtStart \/ BtFree \/ BtLock \/ BtBegin \/ BtNextBlock \/ BtWait \/ BtHeads \/ BtMatch
        \/ BtStop \/ BtStopped
LzContinues == LzRun \/ LzNextBlock \/ LzWait \/ LzBlock \/ LzReleased \/ LzJoinBt \/ LzJoinHash
Lz == LzBegin \/ LzCall \/ LzContinues \/ StGet \/ StSkip \/ LzRelease \/ LzDestruct

Next == Hash \/ Bt \/ Lz

(* The scheduler runs every thread that can run.  The encoder need not     *)
(* call again; a call it has made goes on.  Weak fairness with its ENABLED *)
(* written out: a thread stops only at its events, locks and semaphores.   *)
HashCanStep ==
  \/ pc.hash = "start" /\ sync.hash.canStart
  \/ pc.hash = "loop" /\ IF MatchFinder_NeedMove(mf) THEN sync.bt.cs = "none" ELSE sync.hash.free > 0
  \/ pc.hash = "move" /\ sync.hash.cs = "none"
  \/ pc.hash = "fill"

BtCanStep ==
  \/ pc.bt = "start" /\ sync.bt.canStart
  \/ pc.bt = "free" /\ sync.bt.free > 0
  \/ pc.bt \in {"lock", "heads"} /\ sync.hash.cs = "none"
  \/ pc.bt = "wait" /\ sync.hash.filled > 0
  \/ pc.bt = "stopping" /\ sync.hash.wasStopped
  \/ pc.bt \in {"begin", "match", "stop"}

LzCanContinue ==
  \/ pc.lz = "run"
  \/ pc.lz = "wait" /\ sync.bt.filled > 0
  \/ pc.lz = "block" /\ sync.bt.cs = "none"
  \/ pc.lz = "stopping" /\ sync.bt.wasStopped
  \/ pc.lz = "joinBt" /\ pc.bt = "ended"
  \/ pc.lz = "joinHash" /\ pc.hash = "ended"

Spec ==
  /\ Init /\ [][Next]_vars
  /\ []<> ~ HashCanStep \/ []<> <<Hash>>_vars
  /\ []<> ~ BtCanStep \/ []<> <<Bt>>_vars
  /\ []<> ~ LzCanContinue \/ []<> <<LzContinues>>_vars
-----------------------------------------------------------------------------
Remaining(i) == ReadableBytes(input) - i
Repeats(i, dist, len) == \A j \in 1 .. len : input.data[i - dist + j] = input.data[i + j]
Reach(i) == Smaller(i, HistorySize)
Most(i) == Smaller(mf.matchMaxLen, Remaining(i))
(* The longest repetition at i, and how near it is.                        *)
Longest(i) ==
  CHOOSE l \in 0 .. Most(i) :
    /\ \A e \in 1 .. Reach(i) : l < Most(i) => ~Repeats(i, e, l + 1)
    /\ l = 0 \/ \E e \in 1 .. Reach(i) : Repeats(i, e, l)
Nearest(i, l) == CHOOSE e \in 1 .. Reach(i) : Repeats(i, e, l) /\ \A f \in 1 .. e - 1 : ~Repeats(i, f, l)

(* GetMatches may be called, and what it would return.                     *)
MayGet == pc.lz = "idle" /\ LzAvail > 0 /\ (mode = "st" \/ ~LzNeedsBlock(lz))
Result == IF mode = "mt" THEN LzFound ELSE Matches(mf, input).d

(* Every pair a finder returns is a repetition that is there, within the   *)
(* dictionary and the input, and the pairs grow in length and in distance, *)
(* as the parser of LzmaEnc.c takes for granted: whatever was moved or     *)
(* renumbered meanwhile, by whichever thread.                              *)
MatchesReal ==
  MayGet => \A r \in {Result} : \A k \in DOMAIN r :
    /\ r[k][1] \in 2 .. Remaining(at) /\ r[k][2] + 1 \in 1 .. Reach(at)
    /\ Repeats(at, r[k][2] + 1, r[k][1])
    /\ k < Len(r) => r[k][1] < r[k + 1][1] /\ r[k][2] < r[k + 1][2]

(* With no limit on the search, a repetition as long as the hashed bytes   *)
(* is never missed: the last pair is the longest one, at its nearest.      *)
LongestFound ==
  MayGet /\ mf.cutValue > HistorySize =>
    \A l \in {Longest(at)} : l >= mf.numHashBytes =>
      \A r \in {Result} : r # << >> /\ r[Len(r)] = <<l, Nearest(at, l) - 1>>

(* What the encoder is told is available is there, and it is told that     *)
(* nothing is left only at the end of what can be read; its pointer is at  *)
(* the byte it has reached, and the window still holds, before it, the     *)
(* dictionary and what LzmaEnc_Alloc asked for besides.                    *)
AvailRight ==
  pc.lz = "idle" /\ (mode = "st" \/ ~LzNeedsBlock(lz)) =>
    LET ptr == IF mode = "mt" THEN lz.ptr ELSE mf.buffer
    IN /\ LzAvail <= Remaining(at) /\ (LzAvail = 0 => Remaining(at) = 0)
       /\ mf.base + ptr = at
       /\ ptr >= Smaller(at, HistorySize + AddBefore)

(* No block is lost or made by the semaphores while the threads run: each  *)
(* is free, filled, or in the hands of its writer or of its reader; so     *)
(* Semaphore_Release1, whose result nobody looks at, never fails.          *)
BlocksKept ==
  LET Held(c) == IF c THEN 1 ELSE 0
  IN /\ ~sync.hash.needStart /\ ~sync.hash.stopWriting =>
          sync.hash.free + sync.hash.filled + Held(pc.hash = "fill")
            + Held(pc.bt # "wait") = NumHashBlocks
     /\ ~sync.bt.needStart /\ ~sync.bt.stopWriting =>
          sync.bt.free + sync.bt.filled + Held(pc.bt \notin {"free", "start"})
            + Held(pc.lz # "wait") = NumBtBlocks

(* A call the encoder has made returns, a stream it releases is released,  *)
(* the next one can begin, and the threads end: nobody waits for a lock,   *)
(* an event or a block that never comes.                                                            *)
CallsReturn ==
  pc.lz \notin {"idle", "off", "ended"} ~> pc.lz \in {"idle", "off", "ended"}
=============================================================================
