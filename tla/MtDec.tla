------------------------------- MODULE MtDec -------------------------------
(***************************************************************************)
(* MtDec.c with its client Lzma2DecMt.c: threads in a ring pass on the     *)
(* right to read (canRead) and the right to write (canWrite).  Whoever     *)
(* reads parses one block of the input out of the stream, lets the next    *)
(* thread read, decodes the block, and writes it when its turn comes.      *)
(* When a block cannot be decoded this way (no memory, no thread, a block  *)
(* too large) the input that was read and not yet decoded is handed to a   *)
(* single-threaded decoder, which goes on from there.                      *)
(*                                                                         *)
(* A step of a thread is what it does between two waits or callbacks.  The *)
(* events and the critical section do not fail, so that MtDec_ThreadFunc2  *)
(* returns 0.  Thread 0 is the thread that called MtDec_Code.              *)
(***************************************************************************)
EXTENDS Lzma2Blocks

CONSTANTS
  MaxThreads,   (* MTDEC_THREADS_MAX                                       *)
  InBufSize,    (* p->inBufSize: bytes in a link of t->inBuf               *)
  Inputs,       (* for each call of Lzma2DecMt_Decode on a handle, what it *)
                (* may be given: the stream's bytes, outSize (or NoSize),  *)
                (* finishMode, and numThreads                              *)
  MayFail       (* which of "read", "mem", "thread", "write", "progress"   *)

ASSUME MtDecAssumption ==
  /\ MaxThreads \in Nat \ {0} /\ InBufSize \in Nat \ {0} /\ Inputs # << >>
  /\ Inputs \in Seq(SUBSET [bytes : Streams, outSize : Nat \cup {NoSize},
                             finishMode : BOOLEAN, threads : 1 .. MaxThreads])
  /\ MayFail \subseteq {"read", "mem", "thread", "write", "progress"}

VARIABLES
  input,        (* the input of the call                                   *)
  rd,           (* what only the reader changes: blockIndex,               *)
                (* readWasFinished, readRes, readProcessed, the crossBlock *)
                (* (allocated, and its bytes between crossStart and        *)
                (* crossEnd), the threads, and outProcessed_Parse          *)
  wr,           (* what only the writer changes                            *)
  sync,         (* what mtProgress.cs guards                               *)
  exitThread,
  canRead, canWrite,
  pc,           (* where each thread is                                    *)
  th,           (* the thread's CMtDecThread, coder and locals             *)
  st,           (* the single-threaded decoder                             *)
  out,          (* what the output stream got, and whether it failed       *)
  mainPc, result, calls

vars == <<input, rd, wr, sync, exitThread, canRead, canWrite, pc, th, st, out,
          mainPc, result, calls>>
caller == <<input, st, mainPc, result, calls>>

Threads == 0 .. MaxThreads - 1
Junk == -1
OK == "OK"
Fails(what) == what \in MayFail

Smaller(a, b) == IF a < b THEN a ELSE b
FirstBytes(s, k) == SubSeq(s, 1, k)
RestOf(s, k) == SubSeq(s, k + 1, Len(s))

(* The locals of an iteration of ThreadFunc2 and the coder's fields.       *)
Fresh == [blockIndex |-> 0, res |-> OK, codeRes |-> OK, wasInterrupted |-> FALSE,
          finish |-> FALSE, needCode |-> FALSE, needWrite |-> FALSE,
          isAllocError |-> FALSE, overflow |-> FALSE, threadingError |-> FALSE,
          start |-> 0, size |-> 0, checked |-> 0, links |-> 0, last |-> 0, link |-> 1, next |-> 0,
          state |-> "CONTINUE", inPreSize |-> 0, outPreSize |-> 0, prepared |-> FALSE,
          inCodeSize |-> 0, outBuf |-> << >>, coderRes |-> OK]

NewThread == [l |-> Fresh, inBuf |-> << >>, start |-> 0, size |-> 0]

Rd0 == [blockIndex |-> 1, finished |-> FALSE, res |-> OK, pos |-> 0, crossBlock |-> FALSE,
        cross |-> << >>, started |-> 1, limit |-> 0, outParsed |-> 0]
Wr0 == [interrupted |-> FALSE, allocError |-> FALSE, threadingError |-> FALSE,
        overflow |-> FALSE, filledStart |-> 0, numFilled |-> 0, inProcessed |-> 0]
Sync0 == [res |-> OK, needInterrupt |-> FALSE, index |-> 0]
St0 == [tMode |-> FALSE, inLim |-> 0, src |-> << >>, expect |-> 0, inOrder |-> TRUE]

Init ==
  /\ input \in Inputs[1]
  /\ rd = Rd0 /\ wr = Wr0 /\ sync = Sync0 /\ exitThread = FALSE
  /\ canRead = [t \in Threads |-> FALSE] /\ canWrite = [t \in Threads |-> FALSE]
  /\ pc = [t \in Threads |-> "none"] /\ th = [t \in Threads |-> NewThread]
  /\ st = St0 /\ out = [bytes |-> << >>, failed |-> FALSE]
  /\ mainPc = "idle" /\ result = OK /\ calls = 0

-----------------------------------------------------------------------------
(* The critical section: the progress callback is called unless something  *)
(* failed before, and a thread learns if a block before its own failed.    *)
ProgressResults == IF sync.res = OK /\ Fails("progress") THEN {OK, "PROGRESS"} ELSE {sync.res}

InterruptedBefore(index) == sync.needInterrupt /\ index > sync.index

(* MtDec_Interrupt, together with the result of the progress callback. *)
Interrupts(res, index) ==
  sync' = [res |-> res, needInterrupt |-> TRUE,
           index |-> IF ~ sync.needInterrupt \/ index < sync.index THEN index
                     ELSE sync.index]

SetLocals(t, l) == th' = [th EXCEPT ![t].l = l]

(* Event_Wait(&t->canRead), and the end or the start of an iteration. *)
WaitRead(t) ==
  /\ pc[t] = "wait_read" /\ canRead[t]
  /\ canRead' = [canRead EXCEPT ![t] = FALSE]
  /\ \/ /\ exitThread
        /\ pc' = [pc EXCEPT ![t] = "none"]
        /\ UNCHANGED <<rd, sync, th>>
     \/ /\ ~ exitThread
        /\ rd' = [rd EXCEPT !.blockIndex = @ + 1]
        /\ \E r \in ProgressResults :
             LET was == InterruptedBefore(rd.blockIndex)
             IN  /\ sync' = [sync EXCEPT !.res = r]
                 /\ SetLocals(t, [Fresh EXCEPT !.blockIndex = rd.blockIndex, !.res = r,
                                               !.wasInterrupted = was, !.finish = rd.finished])
                 /\ pc' = [pc EXCEPT ![t] = IF r = OK /\ ~ was THEN "read" ELSE "pass"]
  /\ UNCHANGED <<wr, exitThread, canWrite, out, caller>>

-----------------------------------------------------------------------------
Links(t) == th[t].l.links
FromCross(t) == Links(t) = 0 /\ rd.cross # << >>
NeedsLink(t) == Links(t) >= Len(th[t].inBuf)

BlankLink == [j \in 1 .. InBufSize |-> Junk]
CopiedTo(link, s) == [j \in 1 .. InBufSize |-> IF j <= Len(s) THEN s[j] ELSE link[j]]

(* The thread's links, the one in use overwritten with s from its start.   *)
LinkFilled(t, s) ==
  LET k == Links(t) + 1
  IN  IF NeedsLink(t) THEN Append(th[t].inBuf, CopiedTo(BlankLink, s))
      ELSE [th[t].inBuf EXCEPT ![k] = CopiedTo(@, s)]

NextBytes(k) == [j \in 1 .. k |-> rd.pos + j]

(* SeqInStream_ReadMax: a full link, or what is left, or less and an error. *)
(* A stream that has failed gives nothing more.                            *)
ReadMax(k, ok) ==
  LET left == IF rd.res = OK THEN Len(input.bytes) - rd.pos ELSE 0
      all  == Smaller(InBufSize, left)
  IN  IF ok THEN k = all ELSE Fails("read") /\ k <= all

(* The next link cannot be allocated. *)
ReadNoLink(t) ==
  /\ pc[t] = "read" /\ NeedsLink(t) /\ Fails("mem")
  /\ SetLocals(t, [th[t].l EXCEPT !.finish = TRUE, !.isAllocError = TRUE])
  /\ pc' = [pc EXCEPT ![t] = "parsed"]
  /\ UNCHANGED <<rd, wr, sync, exitThread, canRead, canWrite, out, caller>>

(* The first data of a block may be what the block before left over ...    *)
ReadCross(t) ==
  LET size == Len(rd.cross)
  IN  /\ pc[t] = "read" /\ FromCross(t)
      /\ th' = [th EXCEPT ![t] = [@ EXCEPT !.l.size = size, !.l.start = size,
                                           !.inBuf = LinkFilled(t, << >>)]]
      /\ pc' = [pc EXCEPT ![t] = "parse"]
      /\ UNCHANGED <<rd, wr, sync, exitThread, canRead, canWrite, out, caller>>

(* ... otherwise it is read, and afterwards there is a look at whether the *)
(* decoding goes on.  After a read error what was read is still decoded.   *)
ReadLink(t) ==
  /\ pc[t] = "read" /\ ~ FromCross(t)
  /\ \E k \in 0 .. InBufSize, ok \in BOOLEAN, r \in ProgressResults :
       LET size   == th[t].l.size + k
           finish == ~ ok \/ k # InBufSize
           checks == size # th[t].l.checked
           was    == checks /\ InterruptedBefore(th[t].l.blockIndex)
           res    == IF checks THEN r ELSE OK
       IN  /\ ReadMax(k, ok)
           /\ checks \/ r = sync.res
           /\ rd' = [rd EXCEPT !.pos = @ + k, !.finished = @ \/ finish,
                               !.res = IF ok THEN @ ELSE "READ"]
           /\ sync' = [sync EXCEPT !.res = r]
           /\ th' = [th EXCEPT ![t] =
                [@ EXCEPT !.inBuf = LinkFilled(t, NextBytes(k)),
                          !.l = [th[t].l EXCEPT !.size = size, !.checked = size, !.last = k,
                                                !.start = IF Links(t) = 0 THEN k ELSE @,
                                                !.finish = finish, !.res = res,
                                                !.wasInterrupted = was]]]
           /\ pc' = [pc EXCEPT ![t] = IF res = OK /\ ~ was THEN "parse" ELSE "parsed"]
  /\ UNCHANGED <<wr, exitThread, canRead, canWrite, out, caller>>

-----------------------------------------------------------------------------
(* The Parse callback: how far the block may reach in the output, and what *)
(* the parser finds.                                                       *)
OutRemains == input.outSize - rd.outParsed
OutLimited == input.outSize # NoSize /\ OutBlockMax >= OutRemains
OutLimit == IF OutLimited THEN OutRemains ELSE OutBlockMax

Src(t) == IF FromCross(t) THEN rd.cross ELSE FirstBytes(th[t].inBuf[Links(t) + 1], th[t].l.last)

Parsed(t) == Parse(input.bytes, Src(t), th[t].l.outPreSize, OutLimit,
                   ~ OutLimited \/ input.finishMode)

AfterParse(l, p) ==
  [l EXCEPT !.needWrite = TRUE, !.state = p.state, !.inPreSize = @ + p.used,
            !.outPreSize = p.out]

(* The rest of the link is not the block's: sizes are cut to what is.      *)
CutSizes(t, l, used, rest) ==
  [l EXCEPT !.size = @ - rest, !.start = IF Links(t) = 0 THEN used ELSE @]

(* Data of the crossBlock is copied to the thread's own link. *)
OwnLinks(t, k) ==
  IF FromCross(t) THEN LinkFilled(t, FirstBytes(rd.cross, k)) ELSE th[t].inBuf

StoreParsed(t, k, l, next) ==
  /\ th' = [th EXCEPT ![t] = [@ EXCEPT !.l = l, !.inBuf = OwnLinks(t, k)]]
  /\ pc' = [pc EXCEPT ![t] = next]
  /\ UNCHANGED <<wr, sync, exitThread, canRead, canWrite, out, caller>>

(* The block is too large: all of it is left for the other decoder. *)
ParseOverflow(t) ==
  LET p == Parsed(t)
  IN  /\ pc[t] = "parse" /\ p.state = "OVERFLOW"
      /\ StoreParsed(t, Len(Src(t)),
           [AfterParse(th[t].l, p) EXCEPT !.finish = TRUE, !.overflow = TRUE], "parsed")
      /\ rd' = [rd EXCEPT !.cross = << >>]

(* The block goes on in the next link. *)
ParseContinue(t) ==
  LET p == Parsed(t)
  IN  /\ pc[t] = "parse" /\ p.state = "CONTINUE" /\ ~ th[t].l.finish
      /\ StoreParsed(t, p.used, [AfterParse(th[t].l, p) EXCEPT !.links = @ + 1], "read")
      /\ rd' = [rd EXCEPT !.cross = << >>]

(* The last block of the input.  Data after its end is dropped with the    *)
(* link, or stays in the crossBlock.                                       *)
ParseEnd(t) ==
  LET p    == Parsed(t)
      rest == RestOf(Src(t), p.used)
  IN  /\ pc[t] = "parse"
      /\ \/ p.state \in {"MARK", "STOP", "ERROR"}
         \/ p.state = "CONTINUE" /\ th[t].l.finish
      /\ StoreParsed(t, p.used,
           [CutSizes(t, AfterParse(th[t].l, p), p.used, Len(rest)) EXCEPT
              !.needCode = TRUE, !.finish = TRUE], "parsed")
      /\ rd' = [rd EXCEPT !.cross = IF FromCross(t) THEN rest ELSE @,
                          !.outParsed = IF p.state = "CONTINUE" THEN @ ELSE @ + p.out]

(* The rest of the data belongs to the next block and goes to the          *)
(* crossBlock, in place if it is there already.                            *)
ParseNew_KeepSizes(t) ==
  LET p    == Parsed(t)
      rest == RestOf(Src(t), p.used)
  IN  /\ pc[t] = "parse" /\ p.state = "NEW"
      /\ StoreParsed(t, p.used,
           [AfterParse(th[t].l, p) EXCEPT !.needCode = TRUE, !.finish = FALSE], "parsed")
      /\ rd' = [rd EXCEPT !.cross = rest, !.crossBlock = TRUE, !.outParsed = @ + p.out]

ParseNew(t) ==
  LET p    == Parsed(t)
      rest == RestOf(Src(t), p.used)
  IN  /\ pc[t] = "parse" /\ p.state = "NEW"
      /\ \/ /\ StoreParsed(t, p.used,
                 [CutSizes(t, AfterParse(th[t].l, p), p.used, Len(rest)) EXCEPT
                    !.needCode = TRUE, !.finish = FALSE], "parsed")
            /\ rd' = [rd EXCEPT !.cross = rest, !.crossBlock = TRUE, !.outParsed = @ + p.out]
         \/ /\ ~ FromCross(t) /\ ~ rd.crossBlock /\ Fails("mem")
            /\ StoreParsed(t, 0,
                 [AfterParse(th[t].l, p) EXCEPT
                    !.needCode = TRUE, !.finish = TRUE, !.isAllocError = TRUE], "parsed")
            /\ rd' = [rd EXCEPT !.outParsed = @ + p.out]

-----------------------------------------------------------------------------
(* A last look at the others (unless there was one already), and the       *)
(* PreCode callback: an empty block is an error, and memory may lack.      *)
PreCode(t) ==
  LET l == th[t].l
      looks == pc[t] = "parsed" /\ l.res = OK
      res == IF looks THEN sync.res ELSE l.res
      was == IF looks THEN InterruptedBefore(l.blockIndex) ELSE l.wasInterrupted
      called == res = OK /\ l.needCode /\ ~ was
  IN  /\ pc[t] \in {"parsed", "pass"}
      /\ \E code \in {OK, "DATA", "MEM"} :
           /\ code = "DATA" <=> called /\ l.inPreSize = 0
           /\ code = "MEM" => called /\ Fails("mem")
           /\ SetLocals(t, [l EXCEPT !.res = res, !.wasInterrupted = was, !.codeRes = code,
                                     !.prepared = called /\ code = OK,
                                     !.coderRes = IF code = "DATA" THEN code ELSE @,
                                     !.needCode = @ /\ code = OK,
                                     !.finish = @ \/ code # OK \/ res # OK \/ was])
      /\ pc' = [pc EXCEPT ![t] = "start_next"]
      /\ UNCHANGED <<rd, wr, sync, exitThread, canRead, canWrite, out, caller>>

AfterStart(l) == IF l.res = OK /\ l.needCode /\ l.codeRes = OK THEN "code" ELSE "wait_write"

NextThread(t, started) == IF t + 1 >= started THEN 0 ELSE t + 1

(* Unless this is the last block one more thread is started, if there may  *)
(* be more, and the next thread in the ring may read.  MtDecThread_-       *)
(* CreateAndStart resets the events also of a thread that exists.          *)
StartNext(t) ==
  LET l     == th[t].l
      new   == rd.started
      more  == new < rd.limit
      lets(started) ==
        /\ SetLocals(t, [l EXCEPT !.next = NextThread(t, started)])
        /\ canRead' = [canRead EXCEPT ![NextThread(t, started)] = TRUE]
  IN  /\ pc[t] = "start_next" /\ ~ l.finish
      /\ \/ /\ ~ more
            /\ lets(rd.started)
            /\ pc' = [pc EXCEPT ![t] = AfterStart(l)]
            /\ UNCHANGED <<rd, canWrite>>
         \/ /\ more
            /\ lets(rd.started + 1)
            /\ canWrite' = [canWrite EXCEPT ![new] = FALSE]
            /\ rd' = [rd EXCEPT !.started = @ + 1]
            /\ pc' = [pc EXCEPT ![t] = AfterStart(l),
                                ![new] = IF @ = "none" THEN "wait_read" ELSE @]
         \/ /\ more /\ rd.started # 1 /\ Fails("thread")
            /\ lets(rd.started)
            /\ rd' = [rd EXCEPT !.limit = rd.started]
            /\ pc' = [pc EXCEPT ![t] = AfterStart(l)]
            /\ UNCHANGED canWrite
         \/ /\ more /\ rd.started = 1 /\ Fails("thread")
            /\ SetLocals(t, [l EXCEPT !.finish = TRUE, !.needCode = FALSE,
                                      !.threadingError = TRUE])
            /\ pc' = [pc EXCEPT ![t] = "wait_write"]
            /\ UNCHANGED <<rd, canRead, canWrite>>
      /\ UNCHANGED <<wr, sync, exitThread, out, caller>>

(* The last block: no thread reads after this one. *)
StartNone(t) ==
  /\ pc[t] = "start_next" /\ th[t].l.finish
  /\ pc' = [pc EXCEPT ![t] = AfterStart(th[t].l)]
  /\ UNCHANGED <<rd, wr, sync, exitThread, canRead, canWrite, th, out, caller>>

-----------------------------------------------------------------------------
(* The Code callback on the block's next link, in a coder that PreCode has *)
(* made ready.  A failure interrupts the blocks after this one.            *)
BlockFinished(l) == l.state \in {"MARK", "NEW"}

Coded(t) ==
  LET l    == th[t].l
      size == IF l.link = 1 THEN l.start ELSE Smaller(InBufSize, l.size - l.inCodeSize)
      d    == Decode(input.bytes, FirstBytes(th[t].inBuf[l.link], size), Len(l.outBuf),
                     l.outPreSize, ~ BlockFinished(l))
      pos  == l.inCodeSize + d.used
      buf  == l.outBuf \o d.out
  IN  [buf |-> buf, pos |-> pos, ok |-> d.ok,
       fits |-> BlockFinished(l) =>
                  /\ d.used = size
                  /\ pos = l.inPreSize => Len(buf) = l.outPreSize,
       stop |-> \/ pos = l.size
                \/ IF BlockFinished(l) THEN pos = l.inPreSize
                   ELSE d.used # size \/ Len(buf) = l.outPreSize]

AfterCode(l, c) == [l EXCEPT !.inCodeSize = c.pos, !.outBuf = c.buf, !.link = @ + 1]

CodeFails(t) ==
  LET l == th[t].l
      c == Coded(t)
  IN  /\ pc[t] = "code" /\ l.prepared /\ ~ (c.ok /\ c.fits)
      /\ SetLocals(t, [AfterCode(l, c) EXCEPT
                         !.codeRes  = IF c.ok THEN "FAIL" ELSE "DATA",
                         !.coderRes = IF c.ok THEN OK ELSE "DATA"])
      /\ Interrupts(sync.res, l.blockIndex)
      /\ pc' = [pc EXCEPT ![t] = "wait_write"]
      /\ UNCHANGED <<rd, wr, exitThread, canRead, canWrite, out, caller>>

CodeLink(t) ==
  LET l == th[t].l
      c == Coded(t)
  IN  /\ pc[t] = "code" /\ l.prepared /\ c.ok /\ c.fits
      /\ \/ /\ c.stop
            /\ SetLocals(t, AfterCode(l, c))
            /\ pc' = [pc EXCEPT ![t] = "wait_write"]
            /\ UNCHANGED sync
         \/ /\ ~ c.stop
            /\ \E r \in ProgressResults :
                 LET was == InterruptedBefore(l.blockIndex)
                 IN  /\ sync' = [sync EXCEPT !.res = r]
                     /\ SetLocals(t, [AfterCode(l, c) EXCEPT !.res = r, !.wasInterrupted = was])
                     /\ pc' = [pc EXCEPT ![t] = IF r = OK /\ ~ was THEN "code" ELSE "wait_write"]
      /\ UNCHANGED <<rd, wr, exitThread, canRead, canWrite, out, caller>>

(* A thread interrupted after it parsed its block skips PreCode, and calls *)
(* Code all the same: the coder is whatever the parser or an earlier block *)
(* left, or was never set up (t->needInit, t->dec.decoder.probs).          *)
CodeUnprepared(t) ==
  LET l == th[t].l
  IN  /\ pc[t] = "code" /\ ~ l.prepared
      /\ \/ /\ SetLocals(t, [l EXCEPT !.codeRes = "DATA", !.coderRes = "DATA"])
            /\ Interrupts(sync.res, l.blockIndex)
         \/ UNCHANGED <<th, sync>>
      /\ pc' = [pc EXCEPT ![t] = "wait_write"]
      /\ UNCHANGED <<rd, wr, exitThread, canRead, canWrite, out, caller>>

-----------------------------------------------------------------------------
(* What went wrong with the block, if nothing did with one before it. *)
NoMemory(l) == l.isAllocError \/ l.codeRes = "MEM"
LeftToOther(l) == l.threadingError \/ NoMemory(l) \/ l.overflow

Recorded_Decoding(l) ==
  IF wr.interrupted THEN wr
  ELSE [wr EXCEPT !.interrupted = LeftToOther(l),
                  !.allocError = NoMemory(l), !.threadingError = l.threadingError,
                  !.overflow = l.overflow]

Recorded(l) ==
  IF wr.interrupted THEN wr
  ELSE [wr EXCEPT !.interrupted = l.codeRes # OK \/ LeftToOther(l),
                  !.allocError = NoMemory(l), !.threadingError = l.threadingError,
                  !.overflow = l.overflow]

(* The Write callback: what the block decoded to goes to the stream, which *)
(* may take less of it than it was given.  recode: nothing was given to it. *)
Kept(res, cont) == [res |-> res, cont |-> cont, recode |-> TRUE, out |-> out, used |-> 0]

WriteResults(l, toStream) ==
  LET wrote(res, bytes, cont) ==
        [res |-> res, cont |-> cont, recode |-> FALSE, used |-> l.inCodeSize,
         out |-> [bytes |-> out.bytes \o bytes, failed |-> out.failed \/ res # OK]]
  IN  IF ~ l.needWrite THEN {Kept(l.res, ~ l.finish)}
      ELSE IF ~ toStream THEN {Kept(OK, FALSE)}
      ELSE IF /\ l.coderRes = OK /\ BlockFinished(l)
              /\ l.outPreSize # Len(l.outBuf) \/ l.inPreSize # l.inCodeSize
      THEN {[Kept("FAIL", FALSE) EXCEPT !.used = l.inCodeSize]}
      ELSE {wrote(OK, l.outBuf, l.state \in {"CONTINUE", "NEW"})}
           \cup IF Fails("write")
                THEN {wrote("WRITE", FirstBytes(l.outBuf, k), FALSE) :
                        k \in 0 .. Len(l.outBuf) - 1}
                ELSE {}

(* The input of a block that was not written is kept, and from then on     *)
(* that of every block: t->inDataSize and t->inDataSize_Start.             *)
Filled(t, w, keep) ==
  LET l == th[t].l
  IN  IF ~ keep THEN w
      ELSE [w EXCEPT !.filledStart = IF w.numFilled = 0 THEN t ELSE @,
                     !.numFilled = IF l.size # 0 \/ ~ l.finish THEN @ + 1 ELSE @]

(* Whom the end of the iteration wakes: the next thread may write; or, the *)
(* last block being done, a new iteration begins with thread 0; or thread  *)
(* 0 leaves, and with it the call.                                         *)
HandOn_Itself(t, cont) ==
  LET l == th[t].l
  IN  /\ canWrite' = [canWrite EXCEPT ![IF l.finish THEN 0 ELSE t] = TRUE]
      /\ canRead' = IF l.finish THEN [canRead EXCEPT ![0] = TRUE] ELSE canRead
      /\ exitThread' = (l.finish /\ ~ cont)
      /\ pc' = [pc EXCEPT ![t] = "wait_read"]

HandOn(t, cont) ==
  LET l == th[t].l
  IN  \/ /\ ~ l.finish
         /\ canWrite' = [canWrite EXCEPT ![t] = FALSE, ![l.next] = TRUE]
         /\ pc' = [pc EXCEPT ![t] = "wait_read"]
         /\ UNCHANGED <<canRead, exitThread>>
      \/ /\ l.finish /\ cont
         /\ canWrite' = [canWrite EXCEPT ![t] = FALSE, ![0] = TRUE]
         /\ canRead' = [canRead EXCEPT ![0] = TRUE]
         /\ pc' = [pc EXCEPT ![t] = "wait_read"]
         /\ UNCHANGED exitThread
      \/ /\ l.finish /\ ~ cont /\ t # 0
         /\ canWrite' = [canWrite EXCEPT ![t] = FALSE]
         /\ canRead' = [canRead EXCEPT ![0] = TRUE]
         /\ exitThread' = TRUE
         /\ pc' = [pc EXCEPT ![t] = "wait_read"]
      \/ /\ l.finish /\ ~ cont /\ t = 0
         /\ canWrite' = [canWrite EXCEPT ![t] = FALSE]
         /\ pc' = [pc EXCEPT ![t] = "none"]
         /\ UNCHANGED <<canRead, exitThread>>

(* Event_Wait(&t->canWrite) and the rest of the iteration. *)
Write(t) ==
  LET l   == th[t].l
      was == l.wasInterrupted \/ wr.interrupted
      w   == Recorded(l)
      wants == l.needWrite /\ (wr.interrupted \/ ~ LeftToOther(l))
  IN  /\ pc[t] = "wait_write" /\ canWrite[t]
      /\ \E r \in IF l.needCode THEN ProgressResults ELSE {sync.res} :
           LET res == IF l.needCode THEN r ELSE l.res
           IN  \E cb \in WriteResults([l EXCEPT !.res = res], res = OK /\ wants /\ ~ was) :
                 LET failed == l.needWrite /\ cb.res # OK
                     w1   == [w EXCEPT !.interrupted = @ \/ failed, !.inProcessed = @ + cb.used]
                     keep == /\ cb.recode
                             /\ \/ ~ l.needCode \/ cb.res # OK \/ w1.interrupted
                                \/ l.codeRes # OK \/ was \/ w.numFilled # 0
                 IN  /\ wr' = Filled(t, w1, keep)
                     /\ th' = IF keep /\ (l.size # 0 \/ ~ l.finish)
                              THEN [th EXCEPT ![t] = [@ EXCEPT !.l = Fresh, !.start = l.start,
                                                               !.size = l.size]]
                              ELSE [th EXCEPT ![t].l = Fresh]
                     /\ out' = cb.out
                     /\ IF failed \/ (l.needWrite /\ ~ cb.cont /\ ~ l.finish)
                        THEN Interrupts(r, l.blockIndex)
                        ELSE sync' = [sync EXCEPT !.res = r]
                     /\ HandOn(t, cb.cont)
      /\ UNCHANGED <<rd, caller>>

Thread(t) ==
  \/ WaitRead(t) \/ ReadNoLink(t) \/ ReadCross(t) \/ ReadLink(t)
  \/ ParseOverflow(t) \/ ParseContinue(t) \/ ParseEnd(t) \/ ParseNew(t)
  \/ PreCode(t) \/ StartNext(t) \/ StartNone(t)
  \/ CodeFails(t) \/ CodeLink(t) \/ CodeUnprepared(t) \/ Write(t)

-----------------------------------------------------------------------------
(* Lzma2DecMt_Decode: with one thread the single-threaded decoder is all   *)
(* there is, otherwise MtDec_Code begins, with thread 0 as its own.        *)
(* Threads, links and the crossBlock are those of the call before; what    *)
(* the links held is of no use any more.                                   *)
Call ==
  /\ mainPc = "idle" /\ calls < Len(Inputs)
  /\ calls' = calls + 1
  /\ input' \in Inputs[calls']
  /\ rd' = [Rd0 EXCEPT !.limit = input'.threads, !.crossBlock = rd.crossBlock]
  /\ wr' = Wr0 /\ sync' = Sync0 /\ exitThread' = FALSE
  /\ st' = St0 /\ out' = [bytes |-> << >>, failed |-> FALSE]
  /\ result' = OK
  /\ \/ /\ input'.threads = 1
        /\ mainPc' = "prepare"
        /\ UNCHANGED <<canRead, canWrite, pc>>
     \/ /\ input'.threads # 1
        /\ canRead' = [canRead EXCEPT ![0] = TRUE]
        /\ canWrite' = [canWrite EXCEPT ![0] = TRUE]
        /\ pc' = [pc EXCEPT ![0] = "wait_read"]
        /\ mainPc' = "run"
  /\ th' = [t \in Threads |->
             [NewThread EXCEPT !.inBuf = [k \in DOMAIN th[t].inBuf |-> BlankLink]]]

Return(r) == mainPc' = "idle" /\ result' = r

(* Thread 0 has left: the call goes on with the other decoder if a block   *)
(* was left to it.                                                         *)
NeedContinue_Memory == wr.allocError \/ wr.threadingError
NeedContinue == wr.allocError \/ wr.threadingError \/ wr.overflow

CodeReturns ==
  /\ mainPc = "run" /\ pc[0] = "none"
  /\ \/ sync.res # OK /\ Return(sync.res)
     \/ sync.res = OK /\ ~ NeedContinue /\ Return(rd.res)
     \/ sync.res = OK /\ NeedContinue /\ mainPc' = "prepare" /\ UNCHANGED result
  /\ UNCHANGED <<input, rd, wr, sync, exitThread, canRead, canWrite, pc, th, st, out, calls>>

(* MtDec_PrepareRead frees the links of threads that hold no input.        *)
Distance(t) == IF t >= wr.filledStart THEN t - wr.filledStart
               ELSE t + rd.started - wr.filledStart
HoldsInput(t) == t <= rd.started /\ Distance(t) < wr.numFilled

Prepare_FreeCross ==
  /\ mainPc = "prepare" /\ mainPc' = "read"
  /\ rd' = [rd EXCEPT !.crossBlock = FALSE]
  /\ st' = [st EXCEPT !.tMode = input.threads # 1, !.expect = wr.inProcessed + 1]
  /\ UNCHANGED <<input, wr, sync, exitThread, canRead, canWrite, pc, th, out, result, calls>>

Prepare ==
  LET tMode == input.threads # 1
  IN  /\ mainPc = "prepare"
      /\ \/ /\ mainPc' = "read"
            /\ UNCHANGED result
         \/ /\ Fails("mem")
            /\ Return("MEM")
      /\ th' = IF tMode THEN [t \in Threads |-> IF HoldsInput(t) THEN th[t]
                                                ELSE [th[t] EXCEPT !.inBuf = << >>]]
               ELSE th
      /\ rd' = IF tMode /\ rd.cross = << >> THEN [rd EXCEPT !.crossBlock = FALSE] ELSE rd
      /\ st' = [st EXCEPT !.tMode = tMode /\ (wr.numFilled # 0 \/ rd.cross # << >>),
                          !.expect = wr.inProcessed + 1]
      /\ UNCHANGED <<input, wr, sync, exitThread, canRead, canWrite, pc, out, calls>>

(* MtDec_Read: the links of the thread at filledThreadStart, one a call,   *)
(* then those of the next thread, and at last the crossBlock.  Whether the *)
(* link is done with is told from the size the call before returned.       *)
Served(data) ==
  /\ st' = [st EXCEPT !.src = data, !.inLim = Len(data), !.expect = @ + Len(data),
                      !.inOrder = @ /\ \A k \in 1 .. Len(data) : data[k] = st.expect + k - 1]
  /\ mainPc' = IF data = << >> THEN "read" ELSE "decode"

MtDec_Read_SameThread ==
  LET t == wr.filledStart
  IN  /\ mainPc = "read" /\ st.tMode
      /\ Served(IF th[t].start = 0 THEN << >> ELSE FirstBytes(th[t].inBuf[1], th[t].start))
      /\ th' = [th EXCEPT ![t].start = 0, ![t].size = @ - th[t].start]
      /\ UNCHANGED <<input, rd, wr, sync, exitThread, canRead, canWrite, pc, out, result, calls>>

MtDec_Read ==
  LET cur   == wr.filledStart
      used  == st.inLim # 0
      empty == used /\ th[cur].size = 0
      t     == IF empty THEN (IF cur + 1 = rd.started THEN 0 ELSE cur + 1) ELSE cur
      links == IF used /\ ~ empty THEN RestOf(th[t].inBuf, 1) ELSE th[t].inBuf
      lim   == IF th[t].start # 0 THEN th[t].start ELSE Smaller(InBufSize, th[t].size)
      freed == IF empty THEN [th EXCEPT ![cur].inBuf = << >>] ELSE th
      last  == empty /\ wr.numFilled = 1
  IN  /\ mainPc = "read" /\ st.tMode
      /\ \/ /\ wr.numFilled # 0 /\ ~ last
            /\ Served(FirstBytes(links[1], lim))
            /\ th' = [freed EXCEPT ![t] = [freed[t] EXCEPT !.inBuf = links, !.start = 0,
                                                           !.size = @ - lim]]
            /\ wr' = IF empty THEN [wr EXCEPT !.numFilled = @ - 1, !.filledStart = t] ELSE wr
            /\ UNCHANGED rd
         \/ /\ wr.numFilled = 0 \/ last
            /\ th' = IF last THEN freed ELSE th
            /\ wr' = [wr EXCEPT !.numFilled = 0]
            /\ rd' = [rd EXCEPT !.cross = << >>, !.crossBlock = rd.cross # << >>]
            /\ \/ rd.cross # << >> /\ Served(rd.cross)
               \/ /\ rd.cross = << >>
                  /\ st' = [st EXCEPT !.tMode = FALSE, !.src = << >>, !.inLim = 0]
                  /\ UNCHANGED mainPc
      /\ UNCHANGED <<input, sync, exitThread, canRead, canWrite, pc, out, result, calls>>

(* Lzma2Dec_Decode_ST reads the stream itself once there is nothing else.  *)
StRead ==
  /\ mainPc = "read" /\ ~ st.tMode
  /\ \/ /\ rd.finished
        /\ st' = [st EXCEPT !.src = << >>]
        /\ UNCHANGED rd
     \/ /\ ~ rd.finished
        /\ \E k \in 0 .. InBufSize, ok \in BOOLEAN :
             /\ ReadMax(k, ok)
             /\ rd' = [rd EXCEPT !.pos = @ + k, !.finished = k = 0 \/ ~ ok,
                                 !.res = IF ok THEN OK ELSE "READ"]
             /\ st' = [st EXCEPT !.src = NextBytes(k), !.expect = @ + k,
                         !.inOrder = @ /\ (k # 0 => rd.pos + 1 = st.expect)]
  /\ mainPc' = "decode"
  /\ UNCHANGED <<input, wr, sync, exitThread, canRead, canWrite, pc, th, out, result, calls>>

(* One Lzma2Dec_DecodeToDic of what was read, and its output written.      *)
StAnswer(d, size) ==
  LET outFinished == input.outSize # NoSize /\ input.outSize <= size
      res == IF ~ d.ok THEN "DATA"
             ELSE IF d.mark
             THEN IF input.finishMode /\ input.outSize # NoSize /\ input.outSize # size
                  THEN "DATA" ELSE OK
             ELSE IF ~ input.finishMode /\ outFinished THEN OK
             ELSE IF st.src = << >> THEN "EOF"
             ELSE "more"
  IN  IF res \in {OK, "EOF"} /\ rd.res # OK THEN rd.res ELSE res

StDecode ==
  LET n == Len(out.bytes)
      d == Decode(input.bytes, st.src, n, input.outSize, ~ input.finishMode)
      answer == StAnswer(d, n + Len(d.out))
  IN  /\ mainPc = "decode"
      /\ \/ /\ out' = [out EXCEPT !.bytes = @ \o d.out]
            /\ \/ answer # "more" /\ Return(answer)
               \/ answer = "more" /\ mainPc' = "read" /\ UNCHANGED result
               \/ answer = "more" /\ Fails("progress") /\ Return("PROGRESS")
         \/ /\ d.out # << >> /\ Fails("write")
            /\ \E k \in 0 .. Len(d.out) - 1 :
                 out' = [bytes |-> out.bytes \o FirstBytes(d.out, k), failed |-> TRUE]
            /\ Return("WRITE")
      /\ UNCHANGED <<input, rd, wr, sync, exitThread, canRead, canWrite, pc, th, st, calls>>

(* Lzma2DecMt_Destroy: every thread is woken to leave, one by one.         *)
Destroy ==
  /\ \/ /\ mainPc = "idle"
        /\ mainPc' = "destroy" /\ exitThread' = TRUE
        /\ UNCHANGED <<canRead, canWrite>>
     \/ /\ mainPc = "destroy"
        /\ \E t \in Threads :
             /\ pc[t] # "none" /\ \A u \in 0 .. t - 1 : pc[u] = "none"
             /\ ~ canRead[t]
             /\ canRead' = [canRead EXCEPT ![t] = TRUE]
             /\ canWrite' = [canWrite EXCEPT ![t] = TRUE]
        /\ UNCHANGED <<mainPc, exitThread>>
     \/ /\ mainPc = "destroy" /\ \A t \in Threads : pc[t] = "none"
        /\ mainPc' = "end"
        /\ UNCHANGED <<canRead, canWrite, exitThread>>
  /\ UNCHANGED <<input, rd, wr, sync, pc, th, st, out, result, calls>>

Main == Call \/ CodeReturns \/ Prepare \/ MtDec_Read \/ StRead \/ StDecode
Done == mainPc = "end" /\ UNCHANGED vars
Next == Main \/ Destroy \/ Done \/ \E t \in Threads : Thread(t)

(* Weak fairness of Thread(t), its ENABLED written out: a thread stops only *)
(* at its events.                                                          *)
CanStep(t) ==
  \/ pc[t] = "wait_read" /\ canRead[t]
  \/ pc[t] = "wait_write" /\ canWrite[t]
  \/ pc[t] \notin {"none", "wait_read", "wait_write"}

Runs(t) == []<> ~ CanStep(t) \/ []<> <<Thread(t)>>_vars

(* Threads run, callbacks return, and a handle is destroyed in the end.    *)
Spec == Init /\ [][Next]_vars /\ WF_vars(Main \/ Destroy) /\ \A t \in Threads : Runs(t)

-----------------------------------------------------------------------------
Labels == {"none", "wait_read", "read", "parse", "parsed", "pass", "start_next", "code",
           "wait_write"}
Errors == {OK, "PROGRESS", "MEM", "DATA", "FAIL", "READ", "WRITE", "EOF"}

TypeOK ==
  /\ rd.blockIndex \in Nat /\ rd.pos \in 0 .. Len(input.bytes) /\ rd.res \in {OK, "READ"}
  /\ Len(rd.cross) <= InBufSize /\ (rd.cross # << >> => rd.crossBlock)
  /\ rd.started \in 1 .. MaxThreads /\ rd.limit \in 0 .. MaxThreads
  /\ wr.filledStart \in Threads /\ wr.numFilled \in 0 .. MaxThreads
  /\ sync.res \in {OK, "PROGRESS"}
  /\ pc \in [Threads -> Labels]
  /\ canRead \in [Threads -> BOOLEAN] /\ canWrite \in [Threads -> BOOLEAN]
  /\ \A t \in Threads : th[t].l.res \in Errors /\ th[t].l.codeRes \in Errors
  /\ mainPc \in {"idle", "run", "prepare", "read", "decode", "destroy", "end"}
  /\ result \in Errors

Reading(t) == pc[t] \in {"read", "parse", "parsed", "pass", "start_next"}
Working(t) == Reading(t) \/ pc[t] \in {"code", "wait_write"}

(* The right to read and the right to write are each in one place: with a  *)
(* thread or in the event that gives it to one.  Threads work on blocks in *)
(* the order of the ring, and the right to write is with the oldest.  When *)
(* MtDec_Code has returned no thread works on, so that the threads' buffers *)
(* can be read, freed and used by the next call.                           *)
TokensUnique ==
  /\ mainPc = "run" =>
       /\ Cardinality({t \in Threads : canRead[t] \/ Reading(t)}) <= 1
       /\ Cardinality({t \in Threads : canWrite[t]}) <= 1
       /\ \A t, u \in Threads : Working(t) /\ Working(u) /\ canWrite[t] =>
            th[t].l.blockIndex <= th[u].l.blockIndex
  /\ mainPc # "run" => \A t \in Threads : ~ Working(t)
  /\ mainPc \notin {"run", "destroy", "end"} => \A t \in Threads : ~ canWrite[t]

(* The single-threaded decoder is given the input from where the written   *)
(* blocks ended, every byte once and in order, first from the buffers of   *)
(* the threads that read ahead, then from the stream.                      *)
SwitchKeepsInput == st.inOrder

Full == Whole(input.bytes, input.outSize, input.finishMode).out
SoundInput == Sound(input.bytes, input.outSize, input.finishMode)

(* The output stream gets what one thread would write, in that order and   *)
(* nothing else, however the blocks were decoded and wherever it stopped.  *)
WritesInOrder ==
  /\ Len(out.bytes) <= Len(Full)
  /\ out.bytes = FirstBytes(Full, Len(out.bytes))

(* A sound input is decoded whole or a failure of the surroundings is      *)
(* reported, whichever threads met it; the exception is a failed write.    *)
(* From one thread SZ_OK is never the answer for an input that is not.     *)
AnswerRight ==
  mainPc = "idle" /\ calls > 0 =>
    /\ SoundInput => /\ result \in {OK, "MEM", "PROGRESS", "READ", "WRITE"}
                     /\ result = OK /\ ~ out.failed => out.bytes = Full
    /\ result = OK /\ (input.threads = 1 \/ NeedContinue) => SoundInput

(* Lzma2DecMt.h:35 "SZ_ERROR_WRITE  - ISeqOutStream write callback error": *)
(* a failed write is not answered with SZ_OK.                              *)
WriteErrorReported == mainPc = "idle" /\ out.failed => result # OK

(* Every call returns and every thread leaves a handle that is destroyed.  *)
CallReturns == mainPc \notin {"idle", "end"} ~> mainPc \in {"idle", "end"}
=============================================================================
