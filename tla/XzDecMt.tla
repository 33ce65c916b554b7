------------------------------ MODULE XzDecMt -------------------------------
(* XzDecMt_Decode, XzDec.c: a whole .xz file from a stream to a stream, with  *)
(* one thread or with several over MtDec.c.  Of MtDec.c this module keeps the *)
(* order of the callbacks: one thread at a time reads and parses, each codes  *)
(* its own block, the blocks are written in their order; its events and       *)
(* threads are those of the module MtDec.                                     *)
EXTENDS XzDec, XzIn

CONSTANT Jobs

(* A job is a call: the file, the properties, the output size (NoSize when    *)
(* not defined), finishMode, and what may fail: reads of more than readLimit  *)
(* bytes, writes of more than writeLimit, and PreCode's allocation for the    *)
(* blocks numbered in allocFails.  Only the properties look at the rest: data *)
(* is what the streams of the file hold, whole how many of them it has from   *)
(* end to end, damaged that a byte was changed, want what one call gives.     *)
VARIABLES
  job,
  io,     \* the streams: bytes read, end or error of the input seen, bytes written
  me,     \* CXzDecMt
  coders, \* CXzDecMtThread, by thread
  mtc,    \* CMtDec
  st,     \* the variables of XzDecMt_Decode_ST
  stat,   \* CXzStatInfo, with the result
  pc      \* "MT", "ST" or "done"

vars == <<job, io, me, coders, mtc, st, stat, pc>>

-----------------------------------------------------------------------------
NoThread == -1

(* The streams: ISeqInStream_Read gives one byte or more while it has any,    *)
(* here up to readMax, SeqInStream_ReadMax all that is asked for.             *)
Readable(limit) == Smaller(limit, Smaller(Len(job.file), job.readLimit) - io.pos)

AfterRead(n, ended) ==
  [io EXCEPT !.pos = @ + n, !.finished = @ \/ ended, !.readRes = IF ended /\ io.pos + n = job.readLimit THEN "READ" ELSE @]

ReadBytes(n) == SubSeq(job.file, io.pos + 1, io.pos + n)

(* ISeqOutStream_Write: fewer bytes than it was given are an error.           *)
Written(o, bytes) ==
  LET n == Smaller(Len(bytes), job.writeLimit - Len(o.out)) IN
  [o EXCEPT !.out = @ \o Taken(bytes, n), !.writeRes = IF n < Len(bytes) THEN "WRITE" ELSE @]

-----------------------------------------------------------------------------
(* XzStatInfo_Clear, XzStatInfo_SetStat and the end of XzDecMt_Decode.        *)
StatClear ==
  [InSize |-> 0, OutSize |-> 0, NumStreams |-> 0, NumBlocks |-> 0, DataAfterEnd |-> FALSE, DecodingTruncated |-> FALSE,
   DecodeRes |-> "OK", ReadRes |-> "OK", res |-> "OK"]

(* The unpacker's result as a verdict on the file, and the bytes at the end   *)
(* that belong to no stream.                                                  *)
Verdict(dec, inProcessed, extraSize, finishMode, res, status, truncated) ==
  CASE res = "OK" /\ status = "NEEDS_MORE_INPUT" ->
         [res |-> IF XzUnpacker_IsStreamWasFinished(dec) THEN "OK" ELSE "INPUT_EOF", extra |-> 0, after |-> FALSE]
    [] res = "OK" /\ status # "NEEDS_MORE_INPUT" ->
         [res |-> IF ~truncated \/ finishMode THEN "DATA" ELSE "OK", extra |-> extraSize, after |-> FALSE]
    [] res = "NO_ARCHIVE" /\ inProcessed # extraSize -> [res |-> "OK", extra |-> extraSize, after |-> TRUE]
    [] OTHER -> [res |-> res, extra |-> extraSize, after |-> FALSE]

XzStatInfo_SetStat(s, dec, finishMode, inProcessed, res, status, truncated) ==
  LET Set(v) == [s EXCEPT !.DecodingTruncated = truncated, !.InSize = inProcessed - v.extra,
                          !.NumStreams = dec.numStartedStreams, !.NumBlocks = dec.numTotalBlocks,
                          !.DataAfterEnd = v.after, !.DecodeRes = IF @ = "OK" THEN v.res ELSE @]
  IN  Set(Verdict(dec, inProcessed, XzUnpacker_GetExtraSize(dec), finishMode, res, status, truncated))

(* A read error is the answer only if the data it kept back was missed.       *)
CombinedRes(s, readRes, writeRes) ==
  [s EXCEPT !.ReadRes = readRes, !.res = CASE writeRes # "OK" -> writeRes
                                           [] writeRes = "OK" /\ readRes # "OK" /\ s.DecodeRes = "INPUT_EOF" -> readRes
                                           [] OTHER -> s.DecodeRes]

-----------------------------------------------------------------------------
(* The callbacks of several threads.  c is the thread's coder.                *)

CoderConstruct ==
  [dec |-> XzUnpacker_Construct, outBuf |-> NoBuf, outPreSize |-> 0, inPreSize |-> 0, inPreHeaderSize |-> 0,
   blockPackSize_for_Index |-> 0, blockPackTotal |-> 0, inCodeSize |-> 0, outCodeSize |-> 0,
   status |-> "NOT_SPECIFIED", codeRes |-> "OK", skipMode |-> FALSE, parseState |-> "CONTINUE",
   parsing_Truncated |-> FALSE, streamFlags |-> 0]

(* XzDecMt_Callback_Parse at a block's start, the first time in a stream at   *)
(* the stream's header.                                                       *)
ParseStart(c) ==
  LET At(u) == IF me.isBlockHeaderState_Parse
               THEN XzUnpacker_PrepareToRandomBlockDecoding([u EXCEPT !.streamFlags = me.streamFlags]) ELSE u
  IN  [CoderConstruct EXCEPT !.outBuf = c.outBuf, !.dec =
         [At(XzUnpacker_Init(c.dec)) EXCEPT !.numStartedStreams = me.numStreams, !.numTotalBlocks = me.numTotalBlocks,
                                            !.numBlocks = me.numBlocks, !.parseMode = TRUE, !.headerParsedOk = FALSE]]

(* What Parse returns: the bytes that are this block's, and what comes next.  *)
Parsed(c, m, used, state, create) ==
  [c |-> [c EXCEPT !.parseState = IF state \in {"NEW", "END"} THEN state ELSE @], m |-> m, used |-> used,
   state |-> state, create |-> create]

(* In skipMode the rest of the block, whose size its header says.             *)
NextBlock(c, m, used, create) ==
  LET Truncated == job.outSize # NoSize /\ job.outSize - m.outProcessed_Parse < c.outPreSize
  IN  Parsed([c EXCEPT !.parsing_Truncated = Truncated],
             [m EXCEPT !.outProcessed_Parse = IF job.outSize # NoSize THEN @ + c.outPreSize ELSE @],
             used, IF Truncated THEN "END" ELSE "NEW", create)

Larger(a, b) == IF a < b THEN b ELSE a

ParseSkip(c, m, src, srcFinished, used) ==
  LET Rem == c.blockPackTotal - c.inPreSize
      Cur == Smaller(Len(src) - used, Rem)
      Whole == Cur = Rem
      More == Len(src) - used > Cur
      Required == Larger(m.unpackBlockMaxSize, c.outPreSize) * (mtc.numStarted + 1) * 2
      Sums(n) == [n EXCEPT !.numStreams = c.dec.numStartedStreams, !.numTotalBlocks = c.dec.numTotalBlocks,
                           !.numBlocks = c.dec.numBlocks + 1]
      Taking(d) ==
        CASE Whole /\ More /\ src[used + Cur + 1] # 0 -> NextBlock(d, Sums(m), used + Cur, job.memUseMax >= Required)
          [] (Whole /\ More /\ src[used + Cur + 1] = 0) \/ (srcFinished /\ ~More) -> Parsed(d, Sums(m), used + Cur, "END", TRUE)
          [] ~More /\ ~srcFinished -> Parsed(d, m, used + Cur, "CONTINUE", TRUE)
  IN  Taking([c EXCEPT !.inPreSize = @ + Cur])

ParseHeader(c, m, src, srcFinished) ==
  LET Sized(d, b) ==
        IF mtc.numStarted # 0 /\ b.unpackSize > (job.memUseMax \div 2) \div mtc.numStarted
          THEN Parsed(d, m, d.inPreHeaderSize - c.inPreHeaderSize, "OVERFLOW", TRUE)
          ELSE ParseSkip([d EXCEPT !.skipMode = TRUE, !.streamFlags = d.dec.streamFlags, !.outPreSize = b.unpackSize,
                            !.blockPackSize_for_Index = d.dec.blockHeaderSize + b.packSize + XzFlags_GetCheckSize(d.dec.streamFlags),
                            !.blockPackTotal = d.inPreSize + b.packSize + Pad(b.packSize) + XzFlags_GetCheckSize(d.dec.streamFlags)],
                         [m EXCEPT !.streamFlags = d.dec.streamFlags], src, srcFinished, d.inPreHeaderSize - c.inPreHeaderSize)
      Coded(r, d) ==
        CASE r.res # "OK" -> Parsed(d, m, r.used, "END", TRUE)
          [] r.res = "OK" /\ d.dec.headerParsedOk ->
               IF d.dec.block.unpackSize # NoSize /\ d.dec.block.packSize # NoSize THEN Sized(d, d.dec.block)
               ELSE Parsed(d, m, r.used, "OVERFLOW", TRUE)
          [] r.res = "OK" /\ ~d.dec.headerParsedOk -> Parsed(d, m, r.used, IF srcFinished THEN "END" ELSE "CONTINUE", TRUE)
      Code(r) == Coded(r, [c EXCEPT !.dec = r.u, !.codeRes = r.res, !.status = r.status,
                                    !.inPreHeaderSize = @ + r.used, !.inPreSize = c.inPreHeaderSize + r.used])
  IN  Code(XzUnpacker_Code(c.dec, 0, src, srcFinished, "END"))

Parse(c, m, src, srcFinished) ==
  IF c.skipMode THEN ParseSkip(c, m, src, srcFinished, 0) ELSE ParseHeader(c, m, src, srcFinished)

XzDecMt_Callback_Parse(c, startCall, src, srcFinished) ==
  Parse(IF startCall THEN ParseStart(c) ELSE c, [me EXCEPT !.isBlockHeaderState_Parse = @ \/ startCall], src, srcFinished)

(* XzDecMt_Callback_PreCode: the block is decoded into a buffer of its own.   *)
XzDecMt_Callback_PreCode(c, m, allocFails) ==
  LET Kept == c.outBuf # NoBuf /\ SizeOf(c.outBuf) >= c.outPreSize
      Init(d) ==
        IF MixPropsOk(d.dec.block)
          THEN [c |-> [d EXCEPT !.codeRes = "OK", !.dec = [@ EXCEPT !.outBuf = d.outBuf,
                                                             !.decoder = XzDecMix_Init(@, d.dec.block, d.outBuf)]],
                m |-> [m EXCEPT !.unpackBlockMaxSize = IF Kept THEN @ ELSE Larger(@, c.outPreSize)], res |-> "OK"]
          ELSE [c |-> [d EXCEPT !.codeRes = "UNSUPPORTED"], m |-> m, res |-> IF job.ignoreErrors THEN "OK" ELSE "UNSUPPORTED"]
  IN  CASE ~c.dec.headerParsedOk -> [c |-> c, m |-> m, res |-> "OK"]
        [] c.dec.headerParsedOk /\ ~Kept /\ allocFails -> [c |-> [c EXCEPT !.outBuf = NoBuf], m |-> m, res |-> "MEM"]
        [] OTHER -> Init([c EXCEPT !.outBuf = IF Kept THEN @ ELSE OutBuf(c.outPreSize)])

(* XzDecMt_Callback_Code on one part of the block: the header is skipped.     *)
CodeIgnored(c) == [c |-> c, res |-> IF job.ignoreErrors THEN "OK" ELSE c.codeRes, stop |-> TRUE]

CodeData(c, skip, data, srcFinished) ==
  LET Done(r, d) == IF r.res = "OK" THEN [c |-> d, res |-> "OK", stop |-> r.used # Len(data)] ELSE CodeIgnored(d)
      Took(r) == Done(r, [c EXCEPT !.dec = r.u, !.codeRes = r.res, !.status = r.status, !.outBuf = r.u.outBuf,
                                   !.inCodeSize = @ + skip + r.used, !.outCodeSize = r.u.outDataWritten])
  IN  Took(XzUnpacker_Code(c.dec, c.outPreSize - c.dec.outDataWritten, data, srcFinished, "END"))

CodePart(c, src, srcFinished) ==
  LET Step == Smaller(Larger(0, c.inPreHeaderSize - c.inCodeSize), Len(src))
      Skip(d) == [c |-> d, res |-> "OK", stop |-> d.inCodeSize >= d.inPreHeaderSize]
  IN  CASE Step < c.inPreHeaderSize - c.inCodeSize \/ ~c.dec.headerParsedOk \/ c.outBuf = NoBuf ->
             Skip([c EXCEPT !.inCodeSize = @ + Step])
        [] OTHER -> IF c.codeRes = "OK" THEN CodeData(c, Step, Skipped(src, Step), srcFinished)
                    ELSE CodeIgnored([c EXCEPT !.inCodeSize = @ + Step])

(* The loop of MtDec_ThreadFunc2 over the parts of the block.                 *)
RECURSIVE CodeParts(_, _)
CodeParts(c, parts) ==
  LET After(r) == IF r.res # "OK" \/ r.stop \/ Len(parts) = 1 THEN r ELSE CodeParts(r.c, Tail(parts))
  IN  IF parts = <<>> THEN [c |-> c, res |-> "OK", stop |-> TRUE] ELSE After(CodePart(c, Head(parts), Len(parts) = 1))

(* XzDecMt_Callback_Write: w is [m, o, cross, inProcessed, and what it        *)
(* returns]; tail says that it goes on reading up to the next stream.         *)
MainDecoder(w, c, b) ==
  LET Placed(m) == IF m.isBlockHeaderState_Write THEN m
                   ELSE [m EXCEPT !.isBlockHeaderState_Write = TRUE, !.dec =
                           [XzUnpacker_PrepareToRandomBlockDecoding(@) EXCEPT !.decodeOnlyOneBlock = FALSE,
                              !.numStartedStreams = c.dec.numStartedStreams, !.streamFlags = c.streamFlags]]
      Error(code) == IF code # "OK" \/ c.outPreSize = c.outCodeSize THEN code
                     ELSE IF c.status = "NEEDS_MORE_INPUT" THEN "INPUT_EOF" ELSE "DATA"
      Index(m) == [m EXCEPT !.dec = XzUnpacker_UpdateIndex([@ EXCEPT !.numTotalBlocks = c.dec.numTotalBlocks],
                                                           c.blockPackSize_for_Index, c.outPreSize),
                            !.mainErrorCode = Error(@)]
  IN  [w EXCEPT !.m = Index(Placed(@)), !.inProcessed = @ + c.inCodeSize, !.canRecode = FALSE]

WriteOut(w, c) ==
  LET Bytes == DicOut(c.outBuf, 0, c.outCodeSize) \o (IF job.ignoreErrors THEN Zeroes(c.outPreSize - c.outCodeSize) ELSE <<>>)
      Wanted == IF job.outSize = NoSize THEN Bytes ELSE Taken(Bytes, Smaller(Len(Bytes), job.outSize - w.m.outProcessed))
      Put(o) == [w EXCEPT !.o = o, !.m.outProcessed = @ + (Len(o.out) - Len(w.o.out)), !.res = o.writeRes]
  IN  IF w.o.writeRes # "OK" THEN [w EXCEPT !.res = w.o.writeRes] ELSE Put(Written(w.o, Wanted))

(* What follows the last block of a stream goes to the main decoder, which    *)
(* stops at the next stream's signature.                                      *)
AtStreamHeader_KeepsParsing(w, rest) ==
  [w EXCEPT !.needContinue = TRUE, !.cross = rest, !.tail = FALSE, !.m.isBlockHeaderState_Write = FALSE]

AtStreamHeader(w, rest) ==
  [w EXCEPT !.needContinue = TRUE, !.cross = rest, !.tail = FALSE,
            !.m.isBlockHeaderState_Parse = FALSE, !.m.isBlockHeaderState_Write = FALSE]

PostSingle(w, src) ==
  LET Ends(v, r) ==
        CASE r.res # "OK" -> v
          [] r.res = "OK" /\ r.u.state = "STREAM_HEADER" -> AtStreamHeader(v, Skipped(src, r.used))
          [] r.res = "OK" /\ r.u.state # "STREAM_HEADER" ->
               IF r.status # "NEEDS_MORE_INPUT" \/ r.used # Len(src) THEN [v EXCEPT !.res = "FAIL"]
               ELSE [v EXCEPT !.tail = ~io.finished]
      Code(r) == Ends([w EXCEPT !.m.dec = r.u, !.m.codeRes = r.res, !.m.status = r.status, !.inProcessed = @ + r.used,
                                !.cross = IF @ = <<>> THEN @ ELSE Skipped(src, r.used)], r)
  IN  Code(XzUnpacker_Code([w.m.dec EXCEPT !.decodeToStreamSignature = TRUE], 0, src, io.finished, "END"))

Finished(w, b) == [w EXCEPT !.m.finishedDecoder = b.t]

AfterLastBlock(w, c, b) ==
  IF c.parsing_Truncated
    THEN [w EXCEPT !.m.parsing_Truncated = TRUE, !.m.mainDecoderWasCalled = TRUE, !.m.dec.decodeToStreamSignature = TRUE]
    ELSE PostSingle([w EXCEPT !.m.mainDecoderWasCalled = TRUE], b.after)

AfterBlock(w, c, b) ==
  CASE w.o.writeRes # "OK" -> w
    [] w.o.writeRes = "OK" /\ c.codeRes # "OK" /\ ~job.ignoreErrors -> Finished(w, b)
    [] OTHER -> IF w.res # "OK" THEN w
                ELSE IF c.inPreSize # c.inCodeSize \/ c.blockPackTotal # c.inCodeSize THEN Finished(w, b)
                ELSE IF c.parseState # "END" THEN [w EXCEPT !.needContinue = TRUE]
                ELSE AfterLastBlock(w, c, b)

XzDecMt_Callback_Write(w, c, b, needWriteToStream) ==
  CASE ~needWriteToStream -> w
    [] needWriteToStream /\ (~c.dec.headerParsedOk \/ c.outBuf = NoBuf) ->
         IF w.m.finishedDecoder = NoThread THEN Finished(w, b) ELSE w
    [] OTHER -> IF w.m.finishedDecoder # NoThread THEN w ELSE AfterBlock(WriteOut(MainDecoder(w, c, b), c), c, b)

-----------------------------------------------------------------------------
(* MtDec_ThreadFunc2.  A block is a turn of a thread: parts are the input     *)
(* read for it, after what was read beyond the end of its stream.             *)
NewBlock(t) ==
  [t |-> t, index |-> mtc.blockIndex, stage |-> "reading", parts |-> <<>>, finish |-> FALSE, needCode |-> FALSE,
   needWrite |-> FALSE, allocError |-> FALSE, overflow |-> FALSE, codeRes |-> "OK", wasInterrupted |-> FALSE,
   create |-> TRUE, after |-> <<>>]

Interrupted(b) == b.wasInterrupted \/ (mtc.interruptIndex # NoSize /\ b.index > mtc.interruptIndex)

(* The thread that canRead is set for takes it, once its last block is        *)
(* written.                                                                   *)
TakeTurn ==
  /\ pc = "MT" /\ mtc.canRead # NoThread /\ \A i \in DOMAIN mtc.blocks : mtc.blocks[i].t # mtc.canRead
  /\ \E b \in {NewBlock(mtc.canRead)} :
       mtc' = [mtc EXCEPT !.canRead = NoThread, !.blockIndex = @ + 1,
                 !.blocks = Append(@, [b EXCEPT !.stage = IF Interrupted(b) THEN "parsed" ELSE "reading",
                                                !.wasInterrupted = Interrupted(b)])]
  /\ UNCHANGED <<job, io, me, coders, st, stat, pc>>

(* One buffer read, or what the turn before left over, and parsed.            *)
LinkParsed(b, p, data, isCross, finish) ==
  LET Rest == Skipped(data, p.used)
      Part(n) == [b EXCEPT !.parts = Append(@, Taken(data, n)), !.needWrite = TRUE, !.create = p.create]
      Became(c, x) == [mtc EXCEPT !.blocks[Len(mtc.blocks)] = c, !.cross = x]
  IN  CASE p.state = "OVERFLOW" ->
             Became([Part(Len(data)) EXCEPT !.stage = "parsed", !.finish = TRUE, !.overflow = TRUE], <<>>)
        [] p.state # "OVERFLOW" /\ (p.state # "CONTINUE" \/ finish) ->
             Became([Part(p.used) EXCEPT !.stage = "parsed", !.needCode = TRUE,
                     !.finish = p.state = "END" \/ (finish /\ Rest = <<>>),
                     !.after = IF p.state = "END" THEN Rest ELSE <<>>],
                  IF p.state = "END" /\ ~isCross THEN <<>> ELSE Rest)
        [] OTHER -> Became(Part(p.used), <<>>)

ReadAndParse ==
  /\ pc = "MT" /\ mtc.blocks # <<>>
  /\ \E b \in {mtc.blocks[Len(mtc.blocks)]} : \E isCross \in {b.parts = <<>> /\ mtc.cross # <<>>} :
       /\ b.stage = "reading"
       /\ \E n \in {IF isCross THEN 0 ELSE Readable(job.inBufSize_MT)} :
          \E data \in {IF isCross THEN mtc.cross ELSE ReadBytes(n)} :
          \E o \in {IF isCross THEN io ELSE AfterRead(n, n # job.inBufSize_MT)} :
          \E p \in {XzDecMt_Callback_Parse(coders[b.t], b.parts = <<>>, data, o.finished)} :
            /\ io' = o
            /\ me' = p.m
            /\ coders' = [coders EXCEPT ![b.t] = p.c]
            /\ mtc' = LinkParsed(b, p, data, isCross, o.finished)
  /\ UNCHANGED <<job, st, stat, pc>>

(* The block is read: its decoder is prepared, and unless this turn is the    *)
(* last the next thread may read, a new one while there are threads to start. *)
PassTurn(b, r) ==
  LET Ends == b.finish \/ r.res # "OK" \/ Interrupted(b)
      Threads(n) == [mtc EXCEPT !.numStarted = n, !.canRead = IF Ends THEN NoThread ELSE (b.t + 1) % n,
                       !.blocks[Len(mtc.blocks)] =
                          [b EXCEPT !.stage = "coding", !.finish = Ends, !.codeRes = r.res,
                                    !.needCode = @ /\ r.res = "OK", !.wasInterrupted = Interrupted(b)]]
  IN  Threads(mtc.numStarted + (IF ~Ends /\ mtc.numStarted < job.numThreads /\ b.create THEN 1 ELSE 0))

PreCode ==
  /\ pc = "MT" /\ mtc.blocks # <<>>
  /\ \E b \in {mtc.blocks[Len(mtc.blocks)]} :
       /\ b.stage = "parsed"
       /\ \E r \in {IF b.needCode /\ ~Interrupted(b) THEN XzDecMt_Callback_PreCode(coders[b.t], me, b.index \in job.allocFails)
                    ELSE [c |-> coders[b.t], m |-> me, res |-> "OK"]} :
            /\ me' = r.m
            /\ coders' = [coders EXCEPT ![b.t] = r.c]
            /\ mtc' = PassTurn(b, r)
  /\ UNCHANGED <<job, io, st, stat, pc>>

(* An error interrupts the blocks after this one.                             *)
Interrupt(m, index) == [m EXCEPT !.interruptIndex = IF @ = NoSize \/ index < @ THEN index ELSE @]

Code(i) ==
  /\ pc = "MT" /\ mtc.blocks[i].stage = "coding"
  /\ \E b \in {mtc.blocks[i]} :
     \E r \in {IF b.needCode /\ b.codeRes = "OK" THEN CodeParts(coders[b.t], b.parts)
               ELSE [c |-> coders[b.t], res |-> b.codeRes, stop |-> TRUE]} :
     \E m \in {[mtc EXCEPT !.blocks[i] = [b EXCEPT !.stage = "coded", !.codeRes = r.res]]} :
       /\ coders' = [coders EXCEPT ![b.t] = r.c]
       /\ mtc' = IF b.needCode /\ r.res # "OK" THEN Interrupt(m, b.index) ELSE m
  /\ UNCHANGED <<job, io, me, st, stat, pc>>

(* The end of a turn: input not decoded yet is kept for one thread, and after *)
(* the last turn the threads start over or the call ends.                     *)
TurnEnds(b, w, interrupted) ==
  LET Stops == w.res # "OK" \/ (~w.needContinue /\ ~b.finish)
      Keep == w.canRecode /\ (\/ ~b.needCode \/ w.res # "OK" \/ w.q.wasInterrupted \/ b.codeRes # "OK"
                              \/ interrupted \/ mtc.filled # <<>>)
      Left(q) == [q EXCEPT !.blocks = Tail(@), !.cross = w.cross, !.inProcessed = w.inProcessed,
                    !.wasInterrupted = @ \/ w.res # "OK", !.filled = IF Keep THEN @ \o SelectSeq(b.parts, LAMBDA x : x # <<>>) ELSE @,
                    !.canRead = IF b.finish /\ w.needContinue THEN 0 ELSE @]
  IN  IF Stops THEN Interrupt(Left(w.q), b.index) ELSE Left(w.q)

Flagged(b) ==
  LET NoMem == b.codeRes = "MEM" IN
  IF mtc.wasInterrupted THEN mtc
  ELSE [mtc EXCEPT !.wasInterrupted = b.codeRes # "OK" \/ b.overflow, !.isAllocError = @ \/ NoMem,
                   !.overflow = @ \/ b.overflow]

BlockWritten(b, w, interrupted) ==
  /\ me' = w.m
  /\ io' = w.o
  /\ mtc' = IF w.tail THEN [w.q EXCEPT !.blocks[1].stage = "tail", !.cross = w.cross, !.inProcessed = w.inProcessed]
            ELSE TurnEnds(b, w, interrupted)

Write ==
  /\ pc = "MT" /\ mtc.blocks # <<>> /\ mtc.blocks[1].stage = "coded"
  /\ \E b \in {mtc.blocks[1]} : \E interrupted \in {mtc.wasInterrupted \/ b.wasInterrupted} :
     \E w \in {[m |-> me, o |-> io, q |-> Flagged(b), cross |-> mtc.cross, inProcessed |-> mtc.inProcessed, res |-> "OK",
                needContinue |-> ~b.needWrite /\ ~b.finish, canRecode |-> TRUE, tail |-> FALSE]} :
       BlockWritten(b, IF b.needWrite THEN XzDecMt_Callback_Write(w, coders[b.t], b,
                                             ~interrupted /\ b.codeRes # "MEM" /\ ~b.overflow) ELSE w, interrupted)
  /\ UNCHANGED <<job, coders, st, stat, pc>>

(* The loop at the end of XzDecMt_Callback_Write, one buffer at a time.       *)
WriteTail ==
  /\ pc = "MT" /\ mtc.blocks # <<>> /\ mtc.blocks[1].stage = "tail"
  /\ \E n \in {IF io.finished THEN 0 ELSE Smaller(job.readMax, Readable(job.inBufSize_MT))} :
     \E o \in {AfterRead(n, n = 0)} : \E r \in {XzUnpacker_Code(me.dec, 0, ReadBytes(n), n = 0, "END")} :
     \E w \in {[m |-> [me EXCEPT !.dec = r.u, !.codeRes = r.res, !.status = r.status], o |-> o, q |-> mtc, cross |-> mtc.cross,
                inProcessed |-> mtc.inProcessed + r.used, res |-> "OK", needContinue |-> FALSE, canRecode |-> FALSE,
                tail |-> FALSE]} :
       BlockWritten(mtc.blocks[1],
         CASE r.res # "OK" -> w
           [] r.res = "OK" /\ r.u.state = "STREAM_HEADER" -> AtStreamHeader(w, Skipped(ReadBytes(n), r.used))
           [] r.res = "OK" /\ r.u.state # "STREAM_HEADER" ->
                IF r.status # "NEEDS_MORE_INPUT" THEN [w EXCEPT !.res = "FAIL"] ELSE [w EXCEPT !.tail = ~o.finished], FALSE)
  /\ UNCHANGED <<job, coders, st, stat, pc>>

(* MtDec_Code has returned: one thread goes on when memory or the threads'    *)
(* limits ran out, otherwise that was all.                                    *)
MtAnswer(s) ==
  LET Stat(dec, res, status, truncated) ==
        CombinedRes(XzStatInfo_SetStat([s EXCEPT !.DecodeRes = me.mainErrorCode, !.OutSize = me.outProcessed],
                                       dec, job.finishMode, mtc.inProcessed, res, status, truncated), io.readRes, io.writeRes)
  IN  CASE me.finishedDecoder # NoThread ->
             Stat(coders[me.finishedDecoder].dec, coders[me.finishedDecoder].codeRes, coders[me.finishedDecoder].status, FALSE)
        [] me.finishedDecoder = NoThread /\ me.mainDecoderWasCalled -> Stat(me.dec, me.codeRes, me.status, me.parsing_Truncated)
        [] OTHER -> [s EXCEPT !.res = "FAIL"]

MtEnds ==
  /\ pc = "MT" /\ mtc.blocks = <<>> /\ mtc.canRead = NoThread
  /\ IF mtc.isAllocError \/ mtc.overflow
       THEN /\ pc' = "ST"
            /\ me' = [me EXCEPT !.inProcessed = mtc.inProcessed, !.dec.decodeToStreamSignature = FALSE, !.dec.outBuf = NoBuf]
            /\ UNCHANGED stat
       ELSE /\ pc' = "done"
            /\ stat' = MtAnswer(stat)
            /\ UNCHANGED me
  /\ UNCHANGED <<job, io, coders, mtc, st>>

-----------------------------------------------------------------------------
(* XzDecMt_Decode_ST: one turn of its loop.                                   *)

(* MtDec_Read gives what the threads had read, then the stream goes on.       *)
Fetched ==
  LET Is(data, q, o) == [data |-> data, q |-> q, o |-> o]
      From(n) == Is(ReadBytes(n), mtc, AfterRead(n, n = 0))
  IN  CASE st.data # <<>> -> Is(st.data, mtc, io)
        [] st.data = <<>> /\ mtc.filled # <<>> -> Is(Head(mtc.filled), [mtc EXCEPT !.filled = Tail(@)], io)
        [] st.data = <<>> /\ mtc.filled = <<>> /\ mtc.cross # <<>> -> Is(mtc.cross, [mtc EXCEPT !.cross = <<>>], io)
        [] OTHER -> IF io.finished THEN Is(<<>>, mtc, io) ELSE From(Smaller(job.readMax, Readable(job.inBufSize_ST)))

StRoom == LET Step == job.outStep_ST - Len(st.pend) IN
          IF job.outSize = NoSize THEN Step ELSE Smaller(Step, job.outSize - me.outProcessed)
StFinish == IF job.outSize # NoSize /\ job.finishMode /\ job.outStep_ST - Len(st.pend) >= job.outSize - me.outProcessed
              THEN "END" ELSE "ANY"

StAnswer(o) ==
  CombinedRes(XzStatInfo_SetStat([stat EXCEPT !.DecodeRes = me'.mainErrorCode], me'.dec, job.finishMode, me'.inProcessed,
                                 me'.codeRes, me'.status, FALSE), o.readRes, o.writeRes)

Decode_ST ==
  /\ pc = "ST"
  /\ \E f \in {Fetched} : \E r \in {XzUnpacker_Code(me.dec, StRoom, f.data, f.data = <<>>, StFinish)} :
     \E finished \in {r.res # "OK" \/ (r.used = 0 /\ r.out = <<>>)} :
     \E o \in {IF finished \/ Len(r.out) >= StRoom THEN Written(f.o, st.pend \o r.out) ELSE f.o} :
       /\ io' = o
       /\ mtc' = f.q
       /\ me' = [me EXCEPT !.dec = r.u, !.codeRes = r.res, !.status = r.status, !.inProcessed = @ + r.used,
                           !.outProcessed = @ + Len(r.out)]
       /\ st' = [data |-> Skipped(f.data, r.used),
                 pend |-> IF finished \/ Len(r.out) >= StRoom THEN <<>> ELSE st.pend \o r.out]
       /\ IF finished \/ o.writeRes # "OK" THEN pc' = "done" /\ stat' = StAnswer(o) ELSE UNCHANGED <<pc, stat>>
  /\ UNCHANGED <<job, coders>>

-----------------------------------------------------------------------------
(* XzDecMt_Decode and XzDecMt_Create.                                         *)

MeInit ==
  [dec |-> XzUnpacker_Init(XzUnpacker_Construct), outProcessed |-> 0, inProcessed |-> 0, codeRes |-> "OK",
   status |-> "NOT_SPECIFIED", mainErrorCode |-> "OK", mainDecoderWasCalled |-> FALSE, finishedDecoder |-> NoThread,
   isBlockHeaderState_Parse |-> FALSE, isBlockHeaderState_Write |-> FALSE, streamFlags |-> 0, numStreams |-> 0,
   numTotalBlocks |-> 0, numBlocks |-> 0, outProcessed_Parse |-> 0, parsing_Truncated |-> FALSE, unpackBlockMaxSize |-> 0]

Init ==
  /\ job \in Jobs
  /\ io = [pos |-> 0, finished |-> FALSE, readRes |-> "OK", out |-> <<>>, writeRes |-> "OK"]
  /\ me = MeInit
  /\ coders = [t \in 0 .. job.numThreads - 1 |-> CoderConstruct]
  /\ mtc = [blocks |-> <<>>, canRead |-> IF job.numThreads > 1 THEN 0 ELSE NoThread, numStarted |-> 1, blockIndex |-> 1,
            cross |-> <<>>, filled |-> <<>>, inProcessed |-> 0, wasInterrupted |-> FALSE, isAllocError |-> FALSE,
            overflow |-> FALSE, interruptIndex |-> NoSize]
  /\ st = [data |-> <<>>, pend |-> <<>>]
  /\ stat = StatClear
  /\ pc = IF job.numThreads > 1 THEN "MT" ELSE "ST"

Done == pc = "done" /\ UNCHANGED vars

Mt == TakeTurn \/ ReadAndParse \/ PreCode \/ (\E i \in DOMAIN mtc.blocks : Code(i)) \/ Write \/ WriteTail \/ MtEnds

Next == Mt \/ Decode_ST \/ Done

Spec == Init /\ [][Next]_vars

-----------------------------------------------------------------------------
(* What the call promises.                                                    *)

(* What XzUnpacker_Code and XzStatInfo_SetStat make of a file given at once.  *)
OneCall(file) ==
  LET Answer(r) == [out |-> r.out,
                    stat |-> XzStatInfo_SetStat(StatClear, r.u, FALSE, r.used, r.res, r.status, FALSE)]
  IN  Answer(XzUnpacker_Code(XzUnpacker_Init(XzUnpacker_Construct), 2^16, file, TRUE, "ANY"))

Holds(n) == Seqs!FlattenSeq(SubSeq(job.data, 1, n))

(* However many threads decode, however the input comes, and whenever the     *)
(* memory limit or a failed allocation makes one thread take over in the      *)
(* middle, the call gives the verdict, the counts and the output that a       *)
(* decoder fed with the whole file gives; a read error counts only when the   *)
(* data before it was not enough.  (Files without a good stream header are    *)
(* left to OkMeansArchive, and InSize leaves out what threads parsed after    *)
(* the last block.)                                                           *)
AnswerIndependent ==
  (pc = "done" /\ ~job.ignoreErrors /\ job.outSize = NoSize /\ Len(job.want.out) <= job.writeLimit /\ job.want.stat.DecodeRes # "NO_ARCHIVE") =>
    /\ stat.res = IF job.want.stat.DecodeRes = "INPUT_EOF" /\ job.readLimit < Len(job.file) THEN "READ"
                  ELSE job.want.stat.DecodeRes
    /\ stat.DataAfterEnd = job.want.stat.DataAfterEnd
    /\ stat.res = "OK" => /\ io.out = job.want.out
                          /\ stat.NumStreams = job.want.stat.NumStreams
                          /\ stat.NumBlocks = job.want.stat.NumBlocks
    /\ stat.res = "OK" /\ ~stat.DataAfterEnd /\ me.finishedDecoder = NoThread => stat.InSize = job.want.stat.InSize

(* SZ_OK is answered only with all the data of the streams that are there,    *)
(* whichever byte of the file was changed or wherever it was cut; a stream    *)
(* that is left out is reported as data after the end.  Where errors are      *)
(* ignored the output keeps its length.                                       *)
OkMeansIntact ==
  (pc = "done" /\ stat.res = "OK" /\ job.outSize = NoSize) =>
    \/ IF job.ignoreErrors THEN Len(io.out) = Len(Holds(job.whole)) ELSE io.out = Holds(job.whole)
    \/ stat.DataAfterEnd /\ \E n \in 0 .. job.whole : io.out = Holds(n)

(* As long as no byte is changed, the output stream has been given the        *)
(* beginning of the data, block after block in order and no more than was     *)
(* asked for; at the end all of it, unless a failure is answered.  (Threads   *)
(* answer SZ_ERROR_FAIL for a failed write before the last block.)            *)
Wanted == IF job.outSize = NoSize THEN Holds(Len(job.data)) ELSE Taken(Holds(Len(job.data)), Smaller(job.outSize, Len(Holds(Len(job.data)))))

OutputInOrder ==
  ~job.damaged =>
    /\ Seqs!IsPrefix(io.out, Wanted)
    /\ pc = "done" /\ job.whole = Len(job.data) =>
         CASE job.writeLimit < Len(Wanted) -> stat.res \in {"WRITE", "FAIL"} /\ Len(io.out) = job.writeLimit
           [] job.writeLimit >= Len(Wanted) /\ job.readLimit >= Len(job.file) -> io.out = Wanted
           [] OTHER -> stat.res \in {"OK", "READ"}

(* Decoding forwards and reading backwards agree: whenever the whole file has *)
(* been decoded with nothing left over, Xzs_ReadBackward, that sees only      *)
(* footers and indexes, finds as many streams, blocks and bytes, and each     *)
(* block's header stands where the records before it say; unless there is     *)
(* more padding than it skips.                                                *)
Index == Xzs_ReadBackward(job.file)

BlockStart(s, k) == s.start + XZ_STREAM_HEADER_SIZE + Xz_GetPackSize(Taken(s.blocks, k - 1))
HeaderFound(b, header) ==
  header.res = "OK" /\ ~header.isIndex /\ header.headerSize < b.totalSize /\ header.block.unpackSize \in {NoSize, b.unpackSize}
IndexFound(s) == XzBlock_ReadHeader(job.file, BlockStart(s, Len(s.blocks) + 1)).isIndex

ManyZeroes == \E i \in 0 .. Len(job.file) - XZ_STREAM_BACKWARD_READING_PAD_MAX - 1 :
                AllZero(Slice(job.file, i, XZ_STREAM_BACKWARD_READING_PAD_MAX + 1))

BackwardAgrees ==
  (pc = "done" /\ stat.res = "OK" /\ ~stat.DataAfterEnd /\ ~job.ignoreErrors /\ job.outSize = NoSize /\ io.pos = Len(job.file)) =>
    \E x \in {Index} :
      \/ /\ x.res = "OK"
         /\ Len(x.streams) = stat.NumStreams
         /\ Xzs_GetNumBlocks(x.streams) = stat.NumBlocks
         /\ Xzs_GetUnpackSize(x.streams) = Len(io.out)
         /\ \A s \in {x.streams[i] : i \in DOMAIN x.streams} :
              /\ \A k \in DOMAIN s.blocks : HeaderFound(s.blocks[k], XzBlock_ReadHeader(job.file, BlockStart(s, k)))
              /\ IndexFound(s)
      \/ x.res = "NO_ARCHIVE" /\ ManyZeroes

(* SZ_OK with data after the end means that there was a good stream before    *)
(* it: "if (inProcessed == extraSize), there was no any good xz stream        *)
(* header, and we keep error" (XzDec.c:2583).                                 *)
OkMeansArchive == pc = "done" /\ stat.res = "OK" => stat.NumStreams > 0
=============================================================================
