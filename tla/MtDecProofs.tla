---------------------------- MODULE MtDecProofs ----------------------------
(***************************************************************************)
(* Proofs about MtDec.tla, for any number of threads, any inputs and any   *)
(* set of failures, in every call on a handle.                             *)
(*                                                                         *)
(* OneReaderOneWriter: the right to read and the right to write are in one *)
(* place each.  What makes it so (Tokens): the threads that work on a      *)
(* block are the n threads of the ring from the writer w on, in the order  *)
(* of their blocks.  The right to read is with the last of them or waits   *)
(* for the thread after it, and goes no further than once around; after    *)
(* the last block it is nowhere until that block was written.  New threads *)
(* join while the ring has not been gone around.                           *)
(*                                                                         *)
(* Types: the handle's fields keep their types, TypeOK.  Most of that is   *)
(* Control, the types of what each thread keeps, with what its flags say   *)
(* at each label.  That no more input is put aside than there are threads  *)
(* takes more: every interruption has a cause that is not written yet or   *)
(* was recorded (Blamed), and once a thread's input is kept, the writer is *)
(* the thread after the kept ones and who works is either not one of them  *)
(* or passes, because of the interruption (Chain).                         *)
(*                                                                         *)
(* The last part is about the input: where its bytes can be, and what the  *)
(* two passes of Lzma2Blocks over a run of it find.  TextTo(b, a, c): the  *)
(* input from a to c is not damaged and decodes to b.  It is stated of     *)
(* each byte of b, as a byte of the input with a number (Nth), so that no  *)
(* induction over the output is needed; ToldInOrder is what that says of   *)
(* the output of MtDec_Code.                                               *)
(***************************************************************************)
EXTENDS MtDec, TLAPS, FiniteSetTheorems, WellFoundedInduction

(* Induction on the natural numbers. *)
LEMMA NatInduct ==
  ASSUME NEW S, 0 \in S, \A n \in Nat : n \in S => n + 1 \in S
  PROVE  Nat \subseteq S
<1> DEFINE less == {ss \in Nat \X Nat : ss[1] < ss[2]}
<1>1. IsWellFoundedOn(less, Nat)
  BY NatLessThanWellFounded DEF OpToRel
<1>2. \A m, n \in Nat : m < n => <<m, n>> \in less
  OBVIOUS
<1> SUFFICES ASSUME Nat \ S # {} PROVE FALSE
  OBVIOUS
<1> HIDE DEF less
<1>3. PICK n \in Nat \ S : \A m \in Nat \ S : <<m, n>> \notin less
  <2>1. Nat \ S \subseteq Nat
    OBVIOUS
  <2> QED BY <1>1, <2>1, WFMin
<1>4. n # 0 /\ n - 1 \in Nat /\ n - 1 < n /\ (n - 1) + 1 = n
  BY <1>3
<1>5. n - 1 \in S
  BY <1>2, <1>3, <1>4
<1> QED BY <1>3, <1>4, <1>5

-----------------------------------------------------------------------------
bi(t) == th[t].l.blockIndex

(* The i-th thread of the ring of s from w on, and how far t is from w.         *)
At(s, w, i) == IF w + i >= s THEN w + i - s ELSE w + i
From(s, w, t) == IF t >= w THEN t - w ELSE t - w + s

(* Thread t let the next thread read, and will let it write.               *)
Passes(t) == ~ th[t].l.finish /\ th[t].l.next = NextThread(t, rd.started)

(* The next block waits for the thread after the last one that works.      *)
Pending(w, n) ==
  /\ \A t \in Threads : canRead[t] <=> t = At(rd.started, w, n)
  /\ \A t \in Threads : Working(t) => ~ Reading(t) /\ Passes(t)
  /\ rd.started < rd.limit => w + n < rd.started

(* The last one that works reads.                                          *)
Current(w, n) ==
  /\ n > 0 /\ \A t \in Threads : ~ canRead[t]
  /\ \A t \in Threads : Working(t) =>
       IF From(rd.started, w, t) = n - 1 THEN Reading(t) ELSE ~ Reading(t) /\ Passes(t)
  /\ rd.started < rd.limit => w + n <= rd.started

(* The last one that works has the last block.                             *)
AtLast(w, n) ==
  /\ n > 0 /\ \A t \in Threads : ~ canRead[t]
  /\ \A t \in Threads : Working(t) =>
       /\ ~ Reading(t)
       /\ IF From(rd.started, w, t) = n - 1 THEN th[t].l.finish ELSE Passes(t)
  /\ rd.started < rd.limit => w + n <= rd.started

Round(w, n) ==
  /\ w \in 0 .. rd.started - 1 /\ n \in 0 .. rd.started
  /\ \A t \in Threads : canWrite[t] <=> t = w
  /\ \A t \in Threads : Working(t) <=> t < rd.started /\ From(rd.started, w, t) < n
  /\ \A t \in Threads : Working(t) => bi(t) = rd.blockIndex - n + From(rd.started, w, t)
  /\ Pending(w, n) \/ Current(w, n) \/ AtLast(w, n)
  /\ ~ exitThread /\ pc[0] # "none"

(* Nobody works any more, and thread 0 leaves or has left.                 *)
Ending ==
  /\ \A t \in Threads : ~ Working(t) /\ ~ canWrite[t]
  /\ \/ exitThread /\ pc[0] = "wait_read" /\ \A t \in Threads : canRead[t] <=> t = 0
     \/ pc[0] = "none" /\ \A t \in Threads : ~ canRead[t]

Tokens ==
  /\ mainPc = "run" => (\E w, n \in 0 .. MaxThreads : Round(w, n)) \/ Ending
  /\ mainPc \in {"idle", "prepare", "read", "decode"} =>
       \A t \in Threads : ~ Working(t) /\ ~ canWrite[t] /\ ~ canRead[t]
  /\ mainPc \in {"destroy", "end"} =>
       exitThread /\ \A t \in Threads : ~ Working(t)

(* As much of the typing as the proof needs.                               *)
IsLocal(l) ==
  /\ {"blockIndex", "finish", "next"} \subseteq DOMAIN l
  /\ l.blockIndex \in Nat /\ l.finish \in BOOLEAN
IsThread(x) == {"l"} \subseteq DOMAIN x /\ IsLocal(x.l)
IsRd(r) ==
  /\ {"blockIndex", "started", "limit", "finished"} \subseteq DOMAIN r
  /\ r.finished \in BOOLEAN
  /\ r.blockIndex \in Nat /\ r.started \in 1 .. MaxThreads /\ r.limit \in 0 .. MaxThreads

Shape ==
  /\ IsRd(rd)
  /\ pc \in [Threads -> Labels]
  /\ canRead \in [Threads -> BOOLEAN] /\ canWrite \in [Threads -> BOOLEAN]
  /\ DOMAIN th = Threads /\ \A t \in Threads : IsThread(th[t])
  /\ exitThread \in BOOLEAN /\ calls \in Nat
  /\ mainPc \in {"idle", "run", "prepare", "read", "decode", "destroy", "end"}

-----------------------------------------------------------------------------
(* The arithmetic of the ring.                                             *)
LEMMA RingTypes ==
  ASSUME NEW s \in Nat, NEW w \in 0 .. s - 1, NEW n \in 0 .. s
  PROVE  /\ At(s, w, n) \in 0 .. s - 1
         /\ \A t \in 0 .. s - 1 : From(s, w, t) \in 0 .. s - 1
         /\ \A t \in 0 .. s - 1 : From(s, w, t) = n => t = At(s, w, n)
         /\ n < s => From(s, w, At(s, w, n)) = n
BY DEF At, From

(* The writer hands on: one step along the ring, seen from the next.       *)
LEMMA RingNext ==
  ASSUME NEW s \in Nat, NEW w \in 0 .. s - 1, NEW n \in 1 .. s
  PROVE  /\ NextThread(w, s) \in 0 .. s - 1
         /\ At(s, NextThread(w, s), n - 1) = At(s, w, n)
         /\ \A t \in 0 .. s - 1 : t # w => From(s, NextThread(w, s), t) = From(s, w, t) - 1
         /\ From(s, NextThread(w, s), w) = s - 1
         /\ NextThread(At(s, w, n - 1), s) = At(s, w, n)
BY DEF At, From, NextThread

(* A thread more in a ring that was not gone around.                       *)
LEMMA RingGrows ==
  ASSUME NEW s \in Nat, NEW w \in 0 .. s - 1, NEW n \in 1 .. s, w + n <= s
  PROVE  /\ At(s + 1, w, n) = NextThread(At(s, w, n - 1), s + 1)
         /\ \A t \in 0 .. s - 1 : From(s, w, t) < n <=> From(s + 1, w, t) < n
         /\ \A t \in 0 .. s - 1 : From(s, w, t) < n => From(s + 1, w, t) = From(s, w, t)
         /\ \A t \in 0 .. s - 1 : From(s, w, t) < n - 1 => NextThread(t, s + 1) = NextThread(t, s)
         /\ ~ (From(s + 1, w, s) < n)
BY DEF At, From, NextThread

-----------------------------------------------------------------------------
(* The records keep their fields.                                          *)
LEMMA FreshLocal == IsLocal(Fresh) /\ Fresh.finish = FALSE
BY DEF Fresh, IsLocal

(* A step of thread t that moves it from label to label and leaves the     *)
(* others, the rights and the ring alone.                                  *)
Moves(t, next) ==
  /\ pc' = [pc EXCEPT ![t] = pc'[t]] /\ pc'[t] \in next
  /\ DOMAIN th' = Threads /\ \A u \in Threads : u # t => th'[u] = th[u]
  /\ IsThread(th'[t]) /\ th'[t].l.blockIndex = th[t].l.blockIndex
  /\ IsRd(rd') /\ rd'.blockIndex = rd.blockIndex /\ rd'.started = rd.started
  /\ rd'.limit = rd.limit
  /\ UNCHANGED <<canRead, canWrite, exitThread, mainPc, calls>>

Reads(t) == Reading(t) /\ Moves(t, {"read", "parse", "parsed", "start_next"})
Codes(t) ==
  /\ pc[t] = "code" /\ Moves(t, {"code", "wait_write"})
  /\ th'[t].l.finish = th[t].l.finish /\ th'[t].l.next = th[t].l.next

(* Every step between ReadData and PreCode is one of a thread that reads.  *)
LEMMA ReadSteps ==
  ASSUME Shape, NEW t \in Threads,
         ReadNoLink(t) \/ ReadCross(t) \/ ReadLink(t) \/ ParseOverflow(t) \/ ParseContinue(t)
           \/ ParseEnd(t) \/ ParseNew(t) \/ PreCode(t)
  PROVE  Reads(t)
<1>a. pc \in [Threads -> Labels] /\ DOMAIN th = Threads /\ IsThread(th[t]) /\ IsRd(rd)
  BY DEF Shape
<1> USE DEF Reads, Moves, Reading, IsThread, IsLocal, SetLocals, caller, IsRd
<1>1. CASE ReadNoLink(t)
  BY <1>1, <1>a DEF ReadNoLink
<1>2. CASE ReadCross(t)
  BY <1>2, <1>a DEF ReadCross
<1>3. CASE ReadLink(t)
  <2> DEFINE size(k)    == th[t].l.size + k
             finish(k, ok) == ~ ok \/ k # InBufSize
             checks(k)  == size(k) # th[t].l.checked
             was(k)     == checks(k) /\ InterruptedBefore(th[t].l.blockIndex)
             res(k, r)  == IF checks(k) THEN r ELSE OK
  <2>2. PICK k \in 0 .. InBufSize, ok \in BOOLEAN, r \in ProgressResults :
          /\ ReadMax(k, ok)
          /\ checks(k) \/ r = sync.res
          /\ rd' = [rd EXCEPT !.pos = @ + k, !.finished = @ \/ finish(k, ok),
                              !.res = IF ok THEN @ ELSE "READ"]
          /\ sync' = [sync EXCEPT !.res = r]
          /\ th' = [th EXCEPT ![t] =
               [@ EXCEPT !.inBuf = LinkFilled(t, NextBytes(k)),
                         !.l = [th[t].l EXCEPT !.size = size(k), !.checked = size(k), !.last = k,
                                               !.start = IF Links(t) = 0 THEN k ELSE @,
                                               !.finish = finish(k, ok), !.res = res(k, r),
                                               !.wasInterrupted = was(k)]]]
          /\ pc' = [pc EXCEPT ![t] = IF res(k, r) = OK /\ ~ was(k) THEN "parse" ELSE "parsed"]
    BY <1>3 DEF ReadLink
  <2>1. finish(k, ok) \in BOOLEAN
    OBVIOUS
  <2>3. /\ DOMAIN th' = Threads /\ \A u \in Threads : u # t => th'[u] = th[u]
        /\ IsThread(th'[t]) /\ th'[t].l.blockIndex = th[t].l.blockIndex
    <3> DEFINE m == [th[t].l EXCEPT !.size = size(k), !.checked = size(k), !.last = k,
                                    !.start = IF Links(t) = 0 THEN k ELSE @,
                                    !.finish = finish(k, ok), !.res = res(k, r),
                                    !.wasInterrupted = was(k)]
    <3>1. th' = [th EXCEPT ![t] = [@ EXCEPT !.inBuf = LinkFilled(t, NextBytes(k)), !.l = m]]
      BY <2>2
    <3>2. IsLocal(m) /\ m.blockIndex = th[t].l.blockIndex
      BY <1>a, <2>1
    <3> HIDE DEF m
    <3> QED BY <1>a, <3>1, <3>2
  <2>4. /\ IsRd(rd') /\ rd'.blockIndex = rd.blockIndex /\ rd'.started = rd.started
        /\ rd'.limit = rd.limit
    BY <2>2, <2>1, <1>a
  <2>5. pc' = [pc EXCEPT ![t] = pc'[t]] /\ pc'[t] \in {"parse", "parsed"}
    BY <2>2, <1>a
  <2> QED BY <1>3, <2>3, <2>4, <2>5 DEF ReadLink
<1>4. CASE ParseOverflow(t)
  BY <1>4, <1>a DEF ParseOverflow, StoreParsed, AfterParse
<1>5. CASE ParseContinue(t)
  BY <1>5, <1>a DEF ParseContinue, StoreParsed, AfterParse
<1>6. CASE ParseEnd(t)
  BY <1>6, <1>a DEF ParseEnd, StoreParsed, AfterParse, CutSizes
<1>7. CASE ParseNew(t)
  <2>1. CASE StoreParsed(t, Parsed(t).used,
                 [CutSizes(t, AfterParse(th[t].l, Parsed(t)), Parsed(t).used,
                           Len(RestOf(Src(t), Parsed(t).used))) EXCEPT
                    !.needCode = TRUE, !.finish = FALSE], "parsed")
    BY <1>7, <2>1, <1>a DEF ParseNew, StoreParsed, AfterParse, CutSizes
  <2>2. CASE StoreParsed(t, 0,
                 [AfterParse(th[t].l, Parsed(t)) EXCEPT
                    !.needCode = TRUE, !.finish = TRUE, !.isAllocError = TRUE], "parsed")
    BY <1>7, <2>2, <1>a DEF ParseNew, StoreParsed, AfterParse
  <2> QED BY <1>7, <2>1, <2>2 DEF ParseNew
<1>8. CASE PreCode(t)
  <2> DEFINE l == th[t].l
             looks == pc[t] = "parsed" /\ l.res = OK
             res == IF looks THEN sync.res ELSE l.res
             was == IF looks THEN InterruptedBefore(l.blockIndex) ELSE l.wasInterrupted
             called == res = OK /\ l.needCode /\ ~ was
             m(code) == [l EXCEPT !.res = res, !.wasInterrupted = was, !.codeRes = code,
                                  !.prepared = called /\ code = OK,
                                  !.coderRes = IF code = "DATA" THEN code ELSE @,
                                  !.needCode = @ /\ code = OK,
                                  !.finish = @ \/ code # OK \/ res # OK \/ was]
  <2>1. PICK code \in {OK, "DATA", "MEM"} : SetLocals(t, m(code))
    BY <1>8 DEF PreCode
  <2>2. IsLocal(m(code)) /\ m(code).blockIndex = th[t].l.blockIndex
    BY <1>a
  <2>3. /\ pc[t] \in {"parsed", "pass"} /\ pc' = [pc EXCEPT ![t] = "start_next"]
        /\ UNCHANGED <<rd, canRead, canWrite, exitThread, mainPc, calls>>
    BY <1>8 DEF PreCode
  <2> HIDE DEF m
  <2> QED BY <2>1, <2>2, <2>3, <1>a
<1> QED BY <1>1, <1>2, <1>3, <1>4, <1>5, <1>6, <1>7, <1>8

(* Every step of the Code callback leaves the hand-over alone.             *)
LEMMA CodeSteps ==
  ASSUME Shape, NEW t \in Threads, CodeFails(t) \/ CodeLink(t) \/ CodeUnprepared(t)
  PROVE  Codes(t)
<1>a. pc \in [Threads -> Labels] /\ DOMAIN th = Threads /\ IsThread(th[t]) /\ IsRd(rd)
  BY DEF Shape
<1> USE DEF Codes, Moves, IsThread, IsLocal, SetLocals, caller, AfterCode
<1>1. CASE CodeFails(t)
  BY <1>1, <1>a DEF CodeFails
<1>2. CASE CodeLink(t)
  <2> DEFINE l == th[t].l
             c == Coded(t)
  <2>1. ASSUME NEW m, IsLocal(m), m.blockIndex = l.blockIndex, m.finish = l.finish,
               m.next = l.next, SetLocals(t, m),
               pc' = [pc EXCEPT ![t] = pc'[t]], pc'[t] \in {"code", "wait_write"}
        PROVE  Codes(t)
    BY <1>2, <1>a, <2>1 DEF CodeLink
  <2>2. CASE c.stop
    <3> DEFINE m == AfterCode(l, c)
    <3>1. SetLocals(t, m) /\ pc' = [pc EXCEPT ![t] = "wait_write"]
      BY <1>2, <2>2 DEF CodeLink
    <3>2. IsLocal(m) /\ m.blockIndex = l.blockIndex /\ m.finish = l.finish /\ m.next = l.next
      BY <1>a
    <3> HIDE DEF m
    <3> QED BY <1>a, <2>1, <3>1, <3>2
  <2>3. CASE ~ c.stop
    <3>1. PICK r \in ProgressResults :
            LET was == InterruptedBefore(l.blockIndex)
            IN  /\ sync' = [sync EXCEPT !.res = r]
                /\ SetLocals(t, [AfterCode(l, c) EXCEPT !.res = r, !.wasInterrupted = was])
                /\ pc' = [pc EXCEPT ![t] = IF r = OK /\ ~ was THEN "code" ELSE "wait_write"]
      BY <1>2, <2>3 DEF CodeLink
    <3> DEFINE m == [AfterCode(l, c) EXCEPT !.res = r,
                                           !.wasInterrupted = InterruptedBefore(l.blockIndex)]
    <3>2. IsLocal(m) /\ m.blockIndex = l.blockIndex /\ m.finish = l.finish /\ m.next = l.next
      BY <1>a
    <3>3. SetLocals(t, m)
      BY <3>1
    <3> HIDE DEF m
    <3> QED BY <1>a, <2>1, <3>1, <3>2, <3>3
  <2> QED BY <2>2, <2>3
<1>3. CASE CodeUnprepared(t)
  <2>1. CASE SetLocals(t, [th[t].l EXCEPT !.codeRes = "DATA", !.coderRes = "DATA"])
    BY <1>3, <2>1, <1>a DEF CodeUnprepared
  <2>2. CASE UNCHANGED th
    BY <1>3, <2>2, <1>a DEF CodeUnprepared
  <2> QED BY <1>3, <2>1, <2>2 DEF CodeUnprepared
<1> QED BY <1>1, <1>2, <1>3
-----------------------------------------------------------------------------
(* There is a thread 0, the caller's.                                      *)
LEMMA ThreadZero == 0 \in Threads /\ MaxThreads \in Nat \ {0}
BY MtDecAssumption DEF Threads

(* A thread works only while MtDec_Code runs.                              *)
LEMMA WorksInRound ==
  ASSUME Shape, Tokens, NEW t \in Threads, Working(t)
  PROVE  mainPc = "run" /\ \E w, n \in 0 .. MaxThreads : Round(w, n)
BY DEF Shape, Tokens, Ending

(* A round goes on if the ring, the right to write and the workers stay.   *)
LEMMA RoundStays ==
  ASSUME NEW w, NEW n, Round(w, n), pc'[0] # "none",
         rd'.started = rd.started, rd'.blockIndex = rd.blockIndex,
         UNCHANGED <<canWrite, exitThread>>,
         \A u \in Threads : (Working(u)' <=> Working(u)) /\ bi(u)' = bi(u),
         Pending(w, n)' \/ Current(w, n)' \/ AtLast(w, n)'
  PROVE  Round(w, n)'
<1>1. /\ w \in 0 .. rd'.started - 1 /\ n \in 0 .. rd'.started
      /\ \A t \in Threads : canWrite'[t] <=> t = w
      /\ ~ exitThread'
  BY DEF Round
<1>2. /\ \A t \in Threads : Working(t)' <=> t < rd'.started /\ From(rd'.started, w, t) < n
      /\ \A t \in Threads : Working(t)' => bi(t)' = rd'.blockIndex - n + From(rd'.started, w, t)
  BY DEF Round
<1> QED BY <1>1, <1>2 DEF Round

(* A step within an iteration leaves every thread where it was in the      *)
(* round.                                                                  *)
LEMMA ReadKeeps ==
  ASSUME Shape, NEW w, NEW n, Round(w, n), NEW t \in Threads, Reads(t)
  PROVE  Shape' /\ Round(w, n)'
<1>1. Shape'
  BY DEF Shape, Reads, Moves, Labels
<1>4. \A u \in Threads : (Reading(u)' <=> Reading(u)) /\ (Working(u)' <=> Working(u))
  BY DEF Reading, Working, Reads, Moves, Shape
<1>5. \A u \in Threads : bi(u)' = bi(u) /\ (u # t => (Passes(u)' <=> Passes(u)))
  BY DEF bi, Passes, Reads, Moves
<1>6. Current(w, n)
  BY DEF Round, Pending, AtLast, Reads, Working
<1>7. Current(w, n)'
  BY <1>4, <1>5, <1>6 DEF Current, Reads, Moves, Working
<1>8. Round(w, n)'
  <2>1. pc'[0] # "none"
    BY ThreadZero DEF Round, Shape, Reads, Moves
  <2> QED BY <1>4, <1>5, <1>7, <2>1, RoundStays DEF Reads, Moves
<1> QED BY <1>1, <1>8

(* A step of the Code callback leaves the rights where they are.           *)
LEMMA CodeKeeps ==
  ASSUME Shape, NEW w, NEW n, Round(w, n), NEW t \in Threads, Codes(t)
  PROVE  Shape' /\ Round(w, n)'
<1>1. Shape'
  BY DEF Shape, Codes, Moves, Labels
<1>4. \A u \in Threads : (Reading(u)' <=> Reading(u)) /\ (Working(u)' <=> Working(u))
  BY DEF Reading, Working, Codes, Moves, Shape
<1>5. \A u \in Threads : /\ bi(u)' = bi(u) /\ (Passes(u)' <=> Passes(u))
                         /\ th'[u].l.finish = th[u].l.finish
  BY DEF bi, Passes, Codes, Moves
<1>6. /\ Pending(w, n) => Pending(w, n)'
      /\ Current(w, n) => Current(w, n)'
      /\ AtLast(w, n) => AtLast(w, n)'
  BY <1>4, <1>5 DEF Pending, Current, AtLast, Codes, Moves
<1>8. Round(w, n)'
  <2>1. pc'[0] # "none"
    BY ThreadZero DEF Round, Shape, Codes, Moves
  <2>2. Pending(w, n) \/ Current(w, n) \/ AtLast(w, n)
    BY DEF Round
  <2> QED BY <1>4, <1>5, <1>6, <2>1, <2>2, RoundStays DEF Codes, Moves
<1> QED BY <1>1, <1>8

(* The last block is in hand: no thread reads after this one.              *)
LEMMA StartNoneKeeps ==
  ASSUME Shape, NEW w, NEW n, Round(w, n), NEW t \in Threads, StartNone(t)
  PROVE  Shape' /\ Round(w, n)'
<1>a. Working(t) /\ Reading(t) /\ th[t].l.finish
  BY DEF StartNone, Working, Reading
<1>b. /\ pc' = [pc EXCEPT ![t] = pc'[t]] /\ pc'[t] \in {"code", "wait_write"}
      /\ UNCHANGED <<rd, exitThread, canRead, canWrite, th, mainPc, calls>>
  BY DEF StartNone, AfterStart, Shape, caller
<1>1. Shape'
  BY <1>b DEF Shape, Labels
<1>4. \A u \in Threads : /\ Working(u)' <=> Working(u)
                         /\ Reading(u)' <=> Reading(u) /\ u # t
  BY <1>a, <1>b DEF Reading, Working, Shape
<1>5. \A u \in Threads : bi(u)' = bi(u) /\ (Passes(u)' <=> Passes(u))
  BY <1>b DEF bi, Passes
<1>6. Current(w, n) /\ From(rd.started, w, t) = n - 1
  BY <1>a DEF Round, Pending, AtLast, Current
<1>7. AtLast(w, n)'
  <2>1. \A u \in Threads : Working(u) => u < rd.started /\ From(rd.started, w, u) < n
    BY DEF Round
  <2>2. \A u \in Threads :
          Working(u) => IF From(rd.started, w, u) = n - 1 THEN Reading(u)
                        ELSE ~ Reading(u) /\ Passes(u)
    BY <1>6 DEF Current
  <2>3. rd.started \in Nat /\ w \in 0 .. rd.started - 1 /\ n \in 0 .. rd.started
    BY DEF Round, Shape, IsRd
  <2>4. \A u \in Threads : Working(u) /\ From(rd.started, w, u) = n - 1 => u = t
    BY <2>1, <2>3, <1>6, <1>a DEF From, Threads
  <2>5. n > 0 /\ \A u \in Threads : ~ canRead'[u]
    BY <1>6, <1>b DEF Current
  <2>6. \A u \in Threads : Working(u)' => ~ Reading(u)'
    BY <1>4, <2>2, <2>4
  <2>7. \A u \in Threads : Working(u)' =>
          IF From(rd'.started, w, u) = n - 1 THEN th'[u].l.finish ELSE Passes(u)'
    BY <1>a, <1>b, <1>4, <1>5, <2>2, <2>4
  <2>8. rd'.started < rd'.limit => w + n <= rd'.started
    BY <1>6, <1>b DEF Current
  <2> QED BY <2>5, <2>6, <2>7, <2>8 DEF AtLast
<1>8. Round(w, n)'
  <2>1. pc'[0] # "none"
    BY <1>b, ThreadZero DEF Round, Shape
  <2> QED BY <1>b, <1>4, <1>5, <1>7, <2>1, RoundStays
<1> QED BY <1>1, <1>8

(* Who reads is the last one that works.                                   *)
LEMMA ReaderIsLast ==
  ASSUME Shape, NEW w \in 0 .. MaxThreads, NEW n \in 0 .. MaxThreads, Round(w, n),
         NEW t \in Threads, Reading(t)
  PROVE  /\ Current(w, n) /\ Working(t) /\ t = At(rd.started, w, n - 1)
         /\ rd.started \in 1 .. MaxThreads /\ w \in 0 .. rd.started - 1
         /\ n \in 1 .. rd.started /\ t < rd.started /\ From(rd.started, w, t) = n - 1
         /\ \A u \in Threads : Working(u) /\ u # t =>
              /\ ~ Reading(u) /\ Passes(u)
              /\ u < rd.started /\ From(rd.started, w, u) < n - 1
<1>1. Working(t) /\ rd.started \in 1 .. MaxThreads /\ w \in 0 .. rd.started - 1
      /\ n \in 0 .. rd.started /\ MaxThreads \in Nat
  BY ThreadZero DEF Working, Round, Shape, IsRd
<1>2. Current(w, n)
  BY <1>1 DEF Round, Pending, AtLast
<1>3. \A u \in Threads : Working(u) => u < rd.started /\ From(rd.started, w, u) < n
  BY DEF Round
<1>4. From(rd.started, w, t) = n - 1 /\ n > 0
  BY <1>1, <1>2 DEF Current
<1>5. \A u \in Threads : u < rd.started /\ From(rd.started, w, u) = n - 1
        => u = At(rd.started, w, n - 1)
  BY <1>1, <1>4 DEF From, At, Threads
<1>6. \A u \in Threads : Working(u) /\ u # t => From(rd.started, w, u) # n - 1
  BY <1>1, <1>3, <1>4, <1>5
<1>7. \A u \in Threads : Working(u) /\ u # t => ~ Reading(u) /\ Passes(u)
  BY <1>2, <1>6 DEF Current
<1>8. \A u \in Threads : u < rd.started => From(rd.started, w, u) \in Nat
  BY <1>1 DEF From, Threads
<1> QED BY <1>1, <1>2, <1>3, <1>4, <1>5, <1>6, <1>7, <1>8

(* The right to read goes to the next thread, an old one or a new one, or, *)
(* if there can be no second thread, nowhere.                              *)
LEMMA StartNextKeeps ==
  ASSUME Shape, mainPc = "run",
         NEW w \in 0 .. MaxThreads, NEW n \in 0 .. MaxThreads, Round(w, n),
         NEW t \in Threads, StartNext(t)
  PROVE  Shape' /\ Round(w, n)'
<1> DEFINE l == th[t].l
           s == rd.started
           lets(k) == /\ SetLocals(t, [l EXCEPT !.next = NextThread(t, k)])
                      /\ canRead' = [canRead EXCEPT ![NextThread(t, k)] = TRUE]
<1>a. Reading(t) /\ pc[t] = "start_next" /\ ~ l.finish /\ AfterStart(l) \in {"code", "wait_write"}
      /\ IsLocal(l) /\ IsRd(rd)
  BY DEF StartNext, Reading, AfterStart, Shape, IsThread
<1>b. exitThread' = exitThread /\ mainPc' = mainPc /\ calls' = calls
  BY DEF StartNext, caller
<1>3. mainPc' = "run"
  BY <1>b
<1>4. /\ Current(w, n) /\ Working(t) /\ t = At(s, w, n - 1)
      /\ s \in 1 .. MaxThreads /\ w \in 0 .. s - 1
      /\ n \in 1 .. s /\ t < s /\ From(s, w, t) = n - 1
      /\ \A u \in Threads : Working(u) /\ u # t =>
           /\ ~ Reading(u) /\ Passes(u)
           /\ u < s /\ From(s, w, u) < n - 1
  BY <1>a, ReaderIsLast
<1>5. \A u \in Threads : ~ canRead[u]
  BY <1>4 DEF Current
<1>6. 0 \in Threads /\ MaxThreads \in Nat /\ \A u \in 0 .. s - 1 : u \in Threads
  BY <1>4, ThreadZero DEF Threads
<1>7. NextThread(t, s) = At(s, w, n) /\ At(s, w, n) \in Threads
  <2>1. s \in Nat /\ w \in 0 .. s - 1 /\ n \in 1 .. s /\ n \in 0 .. s
    BY <1>4, <1>6
  <2>2. NextThread(At(s, w, n - 1), s) = At(s, w, n)
    BY <2>1, RingNext
  <2>3. At(s, w, n) \in 0 .. s - 1
    BY <2>1, RingTypes
  <2> QED BY <1>4, <1>6, <2>2, <2>3
<1> HIDE DEF l, s
<1>8. CASE /\ lets(s) /\ pc' = [pc EXCEPT ![t] = AfterStart(l)]
           /\ UNCHANGED canWrite /\ ~ (rd'.started < rd'.limit)
           /\ IsRd(rd') /\ rd'.started = rd.started /\ rd'.blockIndex = rd.blockIndex
  <2>1. \A u \in Threads : /\ Working(u)' <=> Working(u)
                           /\ Reading(u)' <=> Reading(u) /\ u # t
    BY <1>8, <1>a, <1>4 DEF Working, Reading, Shape
  <2>2. /\ DOMAIN th' = Threads /\ \A u \in Threads : u # t => th'[u] = th[u]
        /\ IsThread(th'[t]) /\ th'[t].l.blockIndex = l.blockIndex
        /\ th'[t].l.finish = FALSE /\ th'[t].l.next = NextThread(t, s)
    BY <1>8, <1>a DEF SetLocals, Shape, IsThread, IsLocal, l, NextThread
  <2>3. \A u \in Threads : bi(u)' = bi(u) /\ (u # t => (Passes(u)' <=> Passes(u)))
    BY <1>8, <2>2 DEF bi, Passes, l
  <2>4. Passes(t)'
    BY <1>8, <2>2 DEF Passes, s
  <2>5. Pending(w, n)'
    <3>1. \A u \in Threads : canRead'[u] <=> u = At(rd'.started, w, n)
      BY <1>8, <1>5, <1>7 DEF Shape, s
    <3>2. \A u \in Threads : Working(u)' => ~ Reading(u)' /\ Passes(u)'
      BY <2>1, <2>3, <2>4, <1>4
    <3> QED BY <3>1, <3>2, <1>8 DEF Pending
  <2>6. pc'[0] # "none"
    BY <1>8, <1>6, <1>a DEF Round, Shape
  <2>7. Shape'
    BY <1>8, <2>2, <1>b, <1>a, <1>7, <1>4 DEF Shape, Labels
  <2> QED BY <1>8, <1>b, <1>3, <2>1, <2>3, <2>5, <2>6, <2>7, RoundStays
<1>9. CASE /\ SetLocals(t, [l EXCEPT !.finish = TRUE, !.needCode = FALSE, !.threadingError = TRUE])
           /\ pc' = [pc EXCEPT ![t] = "wait_write"] /\ rd.started = 1
           /\ UNCHANGED <<rd, canRead, canWrite>>
  <2>1. \A u \in Threads : /\ Working(u)' <=> Working(u)
                           /\ Reading(u)' <=> Reading(u) /\ u # t
    BY <1>9, <1>a, <1>4 DEF Working, Reading, Shape
  <2>2. /\ DOMAIN th' = Threads /\ \A u \in Threads : u # t => th'[u] = th[u]
        /\ IsThread(th'[t]) /\ th'[t].l.blockIndex = l.blockIndex
        /\ th'[t].l.finish = TRUE
    BY <1>9, <1>a DEF SetLocals, Shape, IsThread, IsLocal, l
  <2>3. \A u \in Threads : bi(u)' = bi(u) /\ (u # t => (Passes(u)' <=> Passes(u)))
    BY <1>9, <2>2 DEF bi, Passes, l
  <2>5. AtLast(w, n)'
    <3>1. n > 0 /\ \A u \in Threads : ~ canRead'[u]
      BY <1>9, <1>5, <1>4, <1>6
    <3>2. \A u \in Threads : Working(u)' => ~ Reading(u)' /\ (u # t => Passes(u)')
      BY <2>1, <2>3, <1>4
    <3>3. \A u \in Threads : Working(u) /\ From(s, w, u) # n - 1 => u # t
      BY <1>4
    <3>4. \A u \in Threads : Working(u) /\ From(s, w, u) = n - 1 => u = t
      BY <1>4, <1>6
    <3>5. rd'.started < rd'.limit => w + n <= rd'.started
      BY <1>9, <1>4 DEF Current, s
    <3> QED BY <3>1, <3>2, <3>3, <3>4, <3>5, <2>1, <2>2, <1>9 DEF AtLast, s
  <2>6. pc'[0] # "none"
    BY <1>9, <1>6, <1>a DEF Round, Shape
  <2>7. Shape'
    BY <1>9, <2>2, <1>b, <1>a, <1>7, <1>4 DEF Shape, Labels
  <2> QED BY <1>9, <1>b, <1>3, <2>1, <2>3, <2>5, <2>6, <2>7, RoundStays
<1>10. CASE /\ lets(s + 1) /\ s < rd.limit
            /\ canWrite' = [canWrite EXCEPT ![s] = FALSE]
            /\ rd' = [rd EXCEPT !.started = @ + 1]
            /\ pc' = [pc EXCEPT ![t] = AfterStart(l), ![s] = IF @ = "none" THEN "wait_read" ELSE @]
  <2>1. s \in Threads /\ w + n <= s /\ ~ Working(s) /\ ~ canWrite[s]
    <3>1. s \in Threads /\ w + n <= s
      BY <1>10, <1>4, <1>6, <1>a DEF IsRd, Threads, Current, s
    <3>2. ~ Working(s) /\ ~ canWrite[s]
      BY <3>1, <1>4, <1>6 DEF Round, s
    <3> QED BY <3>1, <3>2
  <2>2. /\ At(s + 1, w, n) = NextThread(t, s + 1)
        /\ \A u \in 0 .. s - 1 : From(s, w, u) < n <=> From(s + 1, w, u) < n
        /\ \A u \in 0 .. s - 1 : From(s, w, u) < n => From(s + 1, w, u) = From(s, w, u)
        /\ \A u \in 0 .. s - 1 : From(s, w, u) < n - 1 => NextThread(u, s + 1) = NextThread(u, s)
        /\ ~ (From(s + 1, w, s) < n)
    BY <1>4, <1>6, <2>1, RingGrows
  <2>3. /\ rd'.started = s + 1 /\ rd'.limit = rd.limit /\ rd'.blockIndex = rd.blockIndex
        /\ IsRd(rd')
    BY <1>10, <1>a, <1>4, <1>6 DEF IsRd, s
  <2>4. /\ pc[s] \in {"none", "wait_read"} /\ pc'[s] = "wait_read" /\ s # t
        /\ pc'[t] = AfterStart(l) /\ \A u \in Threads : u # s /\ u # t => pc'[u] = pc[u]
        /\ pc' \in [Threads -> Labels]
    BY <1>10, <1>a, <1>4, <2>1 DEF Working, Reading, Labels, Shape
  <2>5. \A u \in Threads : /\ Working(u)' <=> Working(u)
                           /\ Reading(u)' <=> Reading(u) /\ u # t
    BY <2>4, <1>a, <1>4 DEF Working, Reading
  <2>6. /\ DOMAIN th' = Threads /\ \A u \in Threads : u # t => th'[u] = th[u]
        /\ IsThread(th'[t]) /\ th'[t].l.blockIndex = l.blockIndex
        /\ th'[t].l.finish = FALSE /\ th'[t].l.next = NextThread(t, s + 1)
    BY <1>10, <1>a DEF SetLocals, Shape, IsThread, IsLocal, l
  <2>7. \A u \in Threads : bi(u)' = bi(u)
    BY <2>6 DEF bi, l
  <2>8. \A u \in Threads : Working(u)' => Passes(u)'
    <3>1. Passes(t)'
      BY <2>6, <2>3 DEF Passes
    <3>2. ASSUME NEW u \in Threads, Working(u), u # t
          PROVE  Passes(u)'
      <4>1. Passes(u) /\ u \in 0 .. s - 1 /\ From(s, w, u) < n - 1
        BY <3>2, <1>4, <1>6 DEF Threads
      <4>2. NextThread(u, s + 1) = NextThread(u, s)
        BY <4>1, <2>2
      <4> QED BY <4>1, <4>2, <2>3, <2>6, <3>2 DEF Passes, s
    <3> QED BY <3>1, <3>2, <2>5
  <2>9. At(s + 1, w, n) \in 0 .. s /\ At(s + 1, w, n) \in Threads
    BY <1>4, <1>6, <2>1 DEF At, Threads
  <2>10. Pending(w, n)'
    <3>1. \A u \in Threads : canRead'[u] <=> u = At(rd'.started, w, n)
      BY <1>10, <1>5, <2>2, <2>3, <2>9 DEF Shape
    <3>2. rd'.started < rd'.limit => w + n < rd'.started
      BY <2>1, <2>3, <1>4, <1>6
    <3> QED BY <3>1, <3>2, <2>5, <2>8, <1>4 DEF Pending
  <2>11. Round(w, n)'
    <3>1. /\ w \in 0 .. rd'.started - 1 /\ n \in 0 .. rd'.started
      BY <2>3, <1>4, <1>6
    <3>2. \A u \in Threads : canWrite'[u] <=> u = w
      BY <1>10, <2>1, <1>4, <1>6 DEF Round, Shape
    <3>3. \A u \in Threads : Working(u)' <=> u < rd'.started /\ From(rd'.started, w, u) < n
      <4>1. \A u \in Threads : Working(u)' <=> u < s /\ From(s, w, u) < n
        BY <2>5 DEF Round, s
      <4>2. \A u \in Threads : u < s + 1 <=> u \in 0 .. s - 1 \/ u = s
        BY <1>4, <1>6 DEF Threads
      <4>3. \A u \in Threads : u < s <=> u \in 0 .. s - 1
        BY <1>4, <1>6 DEF Threads
      <4> QED BY <4>1, <4>2, <4>3, <2>2, <2>3
    <3>5. \A u \in Threads : Working(u)' => bi(u)' = rd'.blockIndex - n + From(rd'.started, w, u)
      <4>1. \A u \in Threads : Working(u) => From(s + 1, w, u) = From(s, w, u)
        <5>1. \A u \in Threads : Working(u) => u \in 0 .. s - 1 /\ From(s, w, u) < n
          BY <1>4, <1>6 DEF Round, Threads, s
        <5> QED BY <5>1, <2>2
      <4> QED BY <4>1, <2>3, <2>5, <2>7 DEF Round, s
    <3>6. ~ exitThread' /\ pc'[0] # "none"
      <4>1. ~ exitThread /\ pc[0] # "none"
        BY DEF Round
      <4> QED BY <4>1, <1>b, <1>a, <1>6, <2>4
    <3> QED BY <3>1, <3>2, <3>3, <3>5, <3>6, <2>10 DEF Round
  <2>12. Shape'
    <3>1. canRead' \in [Threads -> BOOLEAN] /\ canWrite' \in [Threads -> BOOLEAN]
      BY <1>10 DEF Shape
    <3>2. \A u \in Threads : IsThread(th'[u])
      BY <2>6 DEF Shape
    <3>3. exitThread' \in BOOLEAN /\ mainPc' = "run" /\ calls' \in Nat
      BY <1>b, <1>3 DEF Shape
    <3>4. IsRd(rd') /\ pc' \in [Threads -> Labels] /\ DOMAIN th' = Threads
      BY <2>3, <2>4, <2>6
    <3> QED BY <3>1, <3>2, <3>3, <3>4 DEF Shape
  <2> QED BY <2>11, <2>12
<1> QED
  <2>1. \/ /\ lets(s) /\ ~ (s < rd.limit)
           /\ pc' = [pc EXCEPT ![t] = AfterStart(l)] /\ UNCHANGED <<rd, canWrite>>
        \/ /\ lets(s + 1) /\ s < rd.limit
           /\ canWrite' = [canWrite EXCEPT ![s] = FALSE]
           /\ rd' = [rd EXCEPT !.started = @ + 1]
           /\ pc' = [pc EXCEPT ![t] = AfterStart(l), ![s] = IF @ = "none" THEN "wait_read" ELSE @]
        \/ /\ lets(s) /\ rd' = [rd EXCEPT !.limit = rd.started]
           /\ pc' = [pc EXCEPT ![t] = AfterStart(l)] /\ UNCHANGED canWrite
        \/ /\ rd.started = 1
           /\ SetLocals(t, [l EXCEPT !.finish = TRUE, !.needCode = FALSE, !.threadingError = TRUE])
           /\ pc' = [pc EXCEPT ![t] = "wait_write"]
           /\ UNCHANGED <<rd, canRead, canWrite>>
    BY DEF StartNext, l, s
  <2>2. rd' = rd => IsRd(rd') /\ rd'.started = rd.started /\ rd'.limit = rd.limit
                    /\ rd'.blockIndex = rd.blockIndex
    BY <1>a
  <2>3. rd' = [rd EXCEPT !.limit = rd.started] =>
           IsRd(rd') /\ rd'.started = rd.started /\ rd'.limit = rd.started
           /\ rd'.blockIndex = rd.blockIndex
    BY <1>a, <1>6, <1>4 DEF IsRd, s
  <2>4. ~ (rd.started < rd.started)
    BY <1>4 DEF s
  <2> QED BY <1>8, <1>9, <1>10, <2>1, <2>2, <2>3, <2>4 DEF s
-----------------------------------------------------------------------------
(* A thread that was woken to leave leaves. *)
LEMMA WaitReadLeaves ==
  ASSUME Shape, Tokens, NEW t \in Threads, WaitRead(t), exitThread
  PROVE  Shape' /\ Tokens'
<1>a. /\ pc[t] = "wait_read" /\ canRead[t] /\ ~ Working(t)
      /\ canRead' = [canRead EXCEPT ![t] = FALSE]
      /\ UNCHANGED <<exitThread, canWrite, mainPc, calls>>
  BY DEF WaitRead, Working, Reading, caller
<1>1. exitThread /\ pc' = [pc EXCEPT ![t] = "none"] /\ UNCHANGED <<rd, th>>
  BY DEF WaitRead
<1> QED
  <2>1. \A u \in Threads : Working(u)' <=> Working(u)
    BY <1>1, <1>a DEF Working, Reading, Shape
  <2>2. Shape'
    BY <1>1, <1>a DEF Shape, Labels
  <2>3. CASE mainPc = "run"
    <3>1. Ending
      BY <2>3, <1>1 DEF Tokens, Round
    <3>2. t = 0 /\ \A u \in Threads : canRead[u] <=> u = 0
      BY <3>1, <1>a DEF Ending
    <3>3. pc'[0] = "none" /\ \A u \in Threads : ~ canRead'[u]
      BY <3>2, <1>1, <1>a DEF Shape
    <3> QED BY <2>1, <2>2, <2>3, <3>1, <3>3, <1>a DEF Ending, Tokens
  <2>4. CASE mainPc # "run"
    BY <2>1, <2>2, <2>4, <1>a DEF Tokens, Shape
  <2> QED BY <2>3, <2>4

(* The thread after the last one takes the right to read, and the next     *)
(* block with it.                                                          *)
LEMMA WaitReadKeeps ==
  ASSUME Shape, mainPc = "run",
         NEW w \in 0 .. MaxThreads, NEW n \in 0 .. MaxThreads, Round(w, n),
         NEW t \in Threads, WaitRead(t)
  PROVE  /\ Shape' /\ n + 1 \in 0 .. MaxThreads /\ Round(w, n + 1)'
         /\ Pending(w, n) /\ ~ Working(t) /\ From(rd.started, w, t) = n /\ n < rd.started
<1>a. /\ pc[t] = "wait_read" /\ canRead[t] /\ ~ Working(t)
      /\ canRead' = [canRead EXCEPT ![t] = FALSE]
      /\ UNCHANGED <<exitThread, canWrite, mainPc, calls>>
  BY DEF WaitRead, Working, Reading, caller
<1>0. /\ rd' = [rd EXCEPT !.blockIndex = @ + 1]
      /\ \E r \in ProgressResults :
           LET was == InterruptedBefore(rd.blockIndex)
           IN  /\ sync' = [sync EXCEPT !.res = r]
               /\ SetLocals(t, [Fresh EXCEPT !.blockIndex = rd.blockIndex, !.res = r,
                                             !.wasInterrupted = was, !.finish = rd.finished])
               /\ pc' = [pc EXCEPT ![t] = IF r = OK /\ ~ was THEN "read" ELSE "pass"]
  BY DEF WaitRead, Round
<1>3. Pending(w, n) /\ t = At(rd.started, w, n)
  BY <1>a DEF Round, Pending, Current, AtLast
<1>4. /\ rd.started \in 1 .. MaxThreads /\ rd.started \in Nat /\ rd.blockIndex \in Nat
      /\ w \in 0 .. rd.started - 1 /\ n \in 0 .. rd.started /\ MaxThreads \in Nat
      /\ rd.limit \in 0 .. MaxThreads
  BY ThreadZero DEF Round, Shape, IsRd
<1>5. t \in 0 .. rd.started - 1
  BY <1>3, <1>4, RingTypes
<1>6. n < rd.started
  <2>1. ~ (From(rd.started, w, t) < n)
    BY <1>5, <1>4, <1>a DEF Round
  <2> QED BY <2>1, <1>3, <1>4 DEF At, From
<1>7. From(rd.started, w, t) = n
  BY <1>3, <1>4, <1>6 DEF At, From
<1>8. \A u \in 0 .. rd.started - 1 : From(rd.started, w, u) \in Nat
                                     /\ (From(rd.started, w, u) = n => u = t)
  BY <1>3, <1>4, <1>6 DEF At, From
<1>9. /\ rd'.started = rd.started /\ rd'.limit = rd.limit
      /\ rd'.blockIndex = rd.blockIndex + 1 /\ IsRd(rd')
  BY <1>0 DEF Shape, IsRd
<1>10. /\ pc'[t] \in {"read", "pass"} /\ \A u \in Threads : u # t => pc'[u] = pc[u]
       /\ pc' \in [Threads -> Labels]
  BY <1>0 DEF Shape, Labels
<1>11. /\ DOMAIN th' = Threads /\ \A u \in Threads : u # t => th'[u] = th[u]
       /\ IsThread(th'[t]) /\ th'[t].l.blockIndex = rd.blockIndex
  BY <1>0 DEF SetLocals, Shape, IsThread, IsLocal, Fresh, IsRd
<1>12. \A u \in Threads : Working(u)' <=> Working(u) \/ u = t
  BY <1>10 DEF Working, Reading
<1>13. /\ Reading(t)'
       /\ \A u \in Threads : u # t => /\ Reading(u)' <=> Reading(u)
                                      /\ bi(u)' = bi(u)
                                      /\ Passes(u)' <=> Passes(u)
  BY <1>9, <1>10, <1>11 DEF Reading, bi, Passes
<1>14. bi(t)' = rd.blockIndex
  BY <1>11 DEF bi
<1>15. \A u \in Threads : Working(u) => /\ u # t /\ u \in 0 .. rd.started - 1
                                        /\ From(rd.started, w, u) < n
  BY <1>a, <1>4, ThreadZero DEF Round, Threads
<1>16. Current(w, n + 1)'
  <2>1. \A u \in Threads : ~ canRead'[u]
    BY <1>3, <1>a DEF Pending, Shape
  <2>2. \A u \in Threads : Working(u) => ~ Reading(u) /\ Passes(u)
    BY <1>3 DEF Pending
  <2>3. \A u \in Threads : Working(u)' =>
          IF From(rd'.started, w, u) = (n + 1) - 1 THEN Reading(u)' ELSE ~ Reading(u)' /\ Passes(u)'
    BY <2>2, <1>4, <1>7, <1>8, <1>9, <1>12, <1>13, <1>15
  <2>4. rd'.started < rd'.limit => w + (n + 1) <= rd'.started
    BY <1>3, <1>4, <1>9 DEF Pending
  <2> QED BY <2>1, <2>3, <2>4, <1>4 DEF Current
<1>17. Round(w, n + 1)'
  <2>1. w \in 0 .. rd'.started - 1 /\ n + 1 \in 0 .. rd'.started
    BY <1>4, <1>6, <1>9
  <2>2. (\A u \in Threads : canWrite'[u] <=> u = w) /\ ~ exitThread'
    BY <1>a DEF Round
  <2>3. \A u \in Threads : Working(u)' <=> u < rd'.started /\ From(rd'.started, w, u) < n + 1
    <3>1. \A u \in Threads : Working(u) <=> u < rd.started /\ From(rd.started, w, u) < n
      BY DEF Round
    <3>2. \A u \in Threads : u < rd.started => u \in 0 .. rd.started - 1
      BY <1>4 DEF Threads
    <3>3. \A u \in Threads : u < rd.started =>
            (From(rd.started, w, u) < n + 1 <=> From(rd.started, w, u) < n \/ u = t)
      BY <3>2, <1>4, <1>7, <1>8
    <3>4. t < rd.started
      BY <1>4, <1>5
    <3> QED BY <3>1, <3>3, <3>4, <1>9, <1>12
  <2>5. \A u \in Threads : Working(u)' =>
          bi(u)' = rd'.blockIndex - (n + 1) + From(rd'.started, w, u)
    <3>1. \A u \in Threads : Working(u) =>
            bi(u)' = bi(u) /\ bi(u) = rd.blockIndex - n + From(rd.started, w, u)
              /\ From(rd.started, w, u) \in Nat
      BY <1>8, <1>13, <1>15 DEF Round
    <3> QED BY <3>1, <1>4, <1>7, <1>9, <1>12, <1>14
  <2>6. pc'[0] # "none"
    BY <1>10, ThreadZero DEF Round
  <2> QED BY <2>1, <2>2, <2>3, <2>5, <2>6, <1>16 DEF Round
<1>18. Shape'
  <2>1. canRead' \in [Threads -> BOOLEAN]
    BY <1>a DEF Shape
  <2>2. \A u \in Threads : IsThread(th'[u])
    BY <1>11 DEF Shape
  <2>3. IsRd(rd') /\ pc' \in [Threads -> Labels] /\ DOMAIN th' = Threads
    BY <1>9, <1>10, <1>11
  <2> QED BY <2>1, <2>2, <2>3, <1>a DEF Shape
<1>19. n + 1 \in 0 .. MaxThreads
  BY <1>4, <1>6
<1> QED BY <1>3, <1>6, <1>7, <1>17, <1>18, <1>19, <1>a

(* The oldest thread has written and hands the right on: to the next one,  *)
(* or, having done the last block, to a new round; or the round is over.   *)
LEMMA WriteKeeps ==
  ASSUME Shape, mainPc = "run",
         NEW w \in 0 .. MaxThreads, NEW n \in 0 .. MaxThreads, Round(w, n),
         NEW t \in Threads, Write(t), NEW cont, HandOn(t, cont)
  PROVE  /\ Shape' /\ t = w /\ n \in 1 .. rd.started
         /\ ~ th[t].l.finish =>
              \E v \in 0 .. MaxThreads : /\ v = NextThread(w, rd.started) /\ Round(v, n - 1)'
                                         /\ rd.started < rd.limit => w + 1 < rd.started
         /\ th[t].l.finish => /\ n = 1 /\ AtLast(w, n)
                              /\ (cont /\ Round(0, 0)') \/ (~ cont /\ Ending')
<1>a. /\ pc[t] = "wait_write" /\ canWrite[t] /\ Working(t) /\ ~ Reading(t)
      /\ UNCHANGED <<rd, mainPc, calls>>
  BY DEF Write, Working, Reading, caller
<1>b. th' = [th EXCEPT ![t] = th'[t]] /\ th'[t].l = Fresh /\ "l" \in DOMAIN th'[t]
  <2>1. \/ th' = [th EXCEPT ![t] = [@ EXCEPT !.l = Fresh, !.start = th[t].l.start,
                                              !.size = th[t].l.size]]
        \/ th' = [th EXCEPT ![t].l = Fresh]
    BY DEF Write
  <2> QED BY <2>1 DEF Shape, IsThread
<1>c. /\ DOMAIN th' = Threads /\ \A u \in Threads : u # t => th'[u] = th[u]
      /\ IsThread(th'[t])
  BY <1>b, FreshLocal DEF Shape, IsThread
<1> DEFINE l == th[t].l
<1>0. PICK s \in 1 .. MaxThreads : s = rd.started
  BY DEF Shape, IsRd
<1>3. /\ s \in 1 .. MaxThreads /\ s \in Nat /\ w \in 0 .. s - 1 /\ n \in 0 .. s
      /\ MaxThreads \in Nat /\ s = rd.started
  BY <1>0, ThreadZero DEF Round, Shape, IsRd
<1>4. t = w /\ ~ exitThread /\ pc[0] # "none"
  BY <1>a DEF Round
<1>5. n \in 1 .. s /\ From(s, w, t) = 0
  <2>1. From(s, w, t) < n
    BY <1>0, <1>a DEF Round
  <2> QED BY <2>1, <1>3, <1>4 DEF From
<1>6. \A u \in Threads : Working(u) <=> u < s /\ From(s, w, u) < n
  BY <1>0 DEF Round
<1>7. \A u \in Threads : u < s => u \in 0 .. s - 1 /\ From(s, w, u) \in 0 .. s - 1
                                  /\ (From(s, w, u) = 0 => u = t)
  BY <1>3, <1>4 DEF From, Threads
<1>8. \/ ~ l.finish /\ l.next = NextThread(w, s) /\ AtLast(w, n) /\ n # 1
      \/ ~ l.finish /\ l.next = NextThread(w, s) /\ Current(w, n) /\ n # 1
      \/ ~ l.finish /\ l.next = NextThread(w, s) /\ Pending(w, n)
      \/ l.finish /\ n = 1 /\ AtLast(w, n)
  <2>1. CASE Pending(w, n)
    BY <2>1, <1>a, <1>3, <1>4 DEF Pending, Passes
  <2>2. CASE Current(w, n)
    BY <2>2, <1>a, <1>4, <1>5, <1>3 DEF Current, Passes
  <2>3. CASE AtLast(w, n)
    BY <2>3, <1>a, <1>4, <1>5, <1>3 DEF AtLast, Passes
  <2> QED BY <2>1, <2>2, <2>3 DEF Round
<1>9. \A u \in Threads : u # t => bi(u)' = bi(u) /\ (Passes(u)' <=> Passes(u))
                                  /\ th'[u].l.finish = th[u].l.finish
  BY <1>a, <1>c DEF bi, Passes
<1> HIDE DEF l
<1>10. ASSUME pc' = [pc EXCEPT ![t] = pc'[t]], pc'[t] \in {"none", "wait_read"}
       PROVE  /\ pc' \in [Threads -> Labels] /\ ~ Working(t)'
              /\ \A u \in Threads : u # t => /\ Working(u)' <=> Working(u)
                                             /\ Reading(u)' <=> Reading(u)
  BY <1>10 DEF Shape, Labels, Working, Reading
<1>11. ASSUME pc' \in [Threads -> Labels], canRead' \in [Threads -> BOOLEAN],
              canWrite' \in [Threads -> BOOLEAN], exitThread' \in BOOLEAN
       PROVE  Shape'
  <2>1. \A u \in Threads : IsThread(th'[u])
    BY <1>c DEF Shape
  <2>2. IsRd(rd') /\ calls' \in Nat /\ mainPc' = "run"
    BY <1>a DEF Shape
  <2> QED BY <1>11, <1>c, <2>1, <2>2 DEF Shape
<1>12. CASE /\ ~ l.finish
            /\ canWrite' = [canWrite EXCEPT ![t] = FALSE, ![l.next] = TRUE]
            /\ pc' = [pc EXCEPT ![t] = "wait_read"]
            /\ UNCHANGED <<canRead, exitThread>>
  <2> DEFINE v == NextThread(w, s)
             m == n - 1
  <2>1. /\ l.next = v /\ v \in 0 .. s - 1 /\ m \in 0 .. s - 1 /\ v \in Threads
        /\ At(s, v, m) = At(s, w, n) /\ From(s, v, t) = s - 1
        /\ \A u \in 0 .. s - 1 : u # t => From(s, v, u) = From(s, w, u) - 1
    <3>1. v \in 0 .. s - 1 /\ At(s, v, m) = At(s, w, n) /\ From(s, v, w) = s - 1
          /\ \A u \in 0 .. s - 1 : u # w => From(s, v, u) = From(s, w, u) - 1
      BY <1>3, <1>5, RingNext
    <3> QED BY <3>1, <1>3, <1>4, <1>5, <1>8, <1>12 DEF Threads
  <2>2. /\ pc' \in [Threads -> Labels] /\ ~ Working(t)'
        /\ \A u \in Threads : u # t => /\ Working(u)' <=> Working(u)
                                       /\ Reading(u)' <=> Reading(u)
    <3>1. pc' = [pc EXCEPT ![t] = pc'[t]] /\ pc'[t] \in {"none", "wait_read"}
      BY <1>12 DEF Shape
    <3> QED BY <3>1, <1>10
  <2>3. v = w + 1 \/ w + 1 >= s
    BY <1>3 DEF NextThread
  <2> HIDE DEF v
  <2>4. \A u \in Threads : Working(u)' => /\ u # t /\ Working(u) /\ u \in 0 .. s - 1
                                          /\ From(s, v, u) = From(s, w, u) - 1
    BY <2>1, <2>2, <1>6, <1>7
  <2>5. Pending(w, n) => Pending(v, m)'
    <3> SUFFICES ASSUME Pending(w, n) PROVE Pending(v, m)'
      OBVIOUS
    <3>1. \A u \in Threads : canRead'[u] <=> u = At(s, v, m)
      BY <1>12, <2>1, <1>3 DEF Pending
    <3>2. \A u \in Threads : Working(u)' => ~ Reading(u)' /\ Passes(u)'
      BY <2>2, <2>4, <1>9 DEF Pending
    <3>3. s < rd.limit => v + m < s
      BY <2>1, <2>3, <1>3, <1>5 DEF Pending
    <3> QED BY <3>1, <3>2, <3>3, <1>a, <1>3 DEF Pending
  <2>6. Current(w, n) /\ n # 1 => Current(v, m)'
    <3> SUFFICES ASSUME Current(w, n), n # 1 PROVE Current(v, m)'
      OBVIOUS
    <3>1. m > 0 /\ \A u \in Threads : ~ canRead'[u]
      BY <1>12, <1>5, <1>3 DEF Current
    <3>2. \A u \in Threads : Working(u)' =>
            IF From(s, v, u) = m - 1 THEN Reading(u)' ELSE ~ Reading(u)' /\ Passes(u)'
      <4>1. \A u \in Threads : Working(u) =>
              IF From(s, w, u) = n - 1 THEN Reading(u) ELSE ~ Reading(u) /\ Passes(u)
        BY <1>3 DEF Current
      <4> QED BY <4>1, <2>2, <2>4, <1>9, <1>3, <1>7, <1>5
    <3>3. s < rd.limit => v + m <= s
      BY <2>1, <2>3, <1>3, <1>5 DEF Current
    <3> QED BY <3>1, <3>2, <3>3, <1>a, <1>3 DEF Current
  <2>7. AtLast(w, n) /\ n # 1 => AtLast(v, m)'
    <3> SUFFICES ASSUME AtLast(w, n), n # 1 PROVE AtLast(v, m)'
      OBVIOUS
    <3>1. m > 0 /\ \A u \in Threads : ~ canRead'[u]
      BY <1>12, <1>5, <1>3 DEF AtLast
    <3>2. \A u \in Threads : Working(u)' =>
            /\ ~ Reading(u)'
            /\ IF From(s, v, u) = m - 1 THEN th'[u].l.finish ELSE Passes(u)'
      <4>1. \A u \in Threads : Working(u) =>
              /\ ~ Reading(u)
              /\ IF From(s, w, u) = n - 1 THEN th[u].l.finish ELSE Passes(u)
        BY <1>3 DEF AtLast
      <4> QED BY <4>1, <2>2, <2>4, <1>9, <1>3, <1>7, <1>5
    <3>3. s < rd.limit => v + m <= s
      BY <2>1, <2>3, <1>3, <1>5 DEF AtLast
    <3> QED BY <3>1, <3>2, <3>3, <1>a, <1>3 DEF AtLast
  <2>8. Pending(v, m)' \/ Current(v, m)' \/ AtLast(v, m)'
    BY <1>8, <1>12, <2>5, <2>6, <2>7
  <2>9. Round(v, m)'
    <3>1. v \in 0 .. rd'.started - 1 /\ m \in 0 .. rd'.started
      BY <2>1, <1>a, <1>3
    <3>2. \A u \in Threads : canWrite'[u] <=> u = v
      <4>1. \A u \in Threads : canWrite[u] <=> u = t
        BY <1>4 DEF Round
      <4> QED BY <4>1, <1>12, <2>1 DEF Shape
    <3>3. \A u \in Threads : Working(u)' <=> u < s /\ From(s, v, u) < m
      <4>1. \A u \in Threads : u # t /\ u < s => (From(s, v, u) < m <=> From(s, w, u) < n)
        BY <1>7, <2>1, <1>3
      <4>2. ~ (From(s, v, t) < m)
        BY <2>1, <1>3
      <4> QED BY <4>1, <4>2, <2>2, <1>6
    <3>5. \A u \in Threads : Working(u)' => bi(u)' = rd'.blockIndex - m + From(s, v, u)
      <4>1. \A u \in Threads : Working(u) => bi(u) = rd.blockIndex - n + From(s, w, u)
        BY <1>3 DEF Round
      <4>2. rd.blockIndex \in Nat
        BY DEF Shape, IsRd
      <4> QED BY <4>1, <4>2, <2>4, <1>9, <1>3, <1>5, <1>7, <1>a
    <3>6. ~ exitThread' /\ pc'[0] # "none"
      BY <1>12, <1>4, ThreadZero DEF Shape
    <3>7. rd'.started = s
      BY <1>a, <1>3
    <3> QED BY <3>1, <3>2, <3>3, <3>5, <3>6, <3>7, <2>8 DEF Round
  <2>10. Shape'
    <3>1. canRead' \in [Threads -> BOOLEAN] /\ canWrite' \in [Threads -> BOOLEAN]
          /\ exitThread' \in BOOLEAN
      BY <1>12 DEF Shape
    <3> QED BY <3>1, <2>2, <1>11
  <2>11. v \in 0 .. MaxThreads /\ m \in 0 .. MaxThreads
    BY <2>1, <1>3
  <2>12. v = NextThread(w, rd.started)
    BY <1>3 DEF v
  <2>13. rd.started < rd.limit => w + 1 < rd.started
    BY <1>3, <1>5, <1>8, <1>12 DEF Pending, Current, AtLast
  <2> QED BY <2>9, <2>10, <2>11, <2>12, <2>13, <1>4, <1>5, <1>3, <1>12 DEF l
<1>13. CASE l.finish
  <2>1. n = 1 /\ AtLast(w, n)
    BY <1>8, <1>13
  <2>2. \A u \in Threads : u # t => ~ Working(u)
    BY <2>1, <1>3, <1>6, <1>7
  <2>3. \A u \in Threads : ~ canRead[u] /\ (canWrite[u] <=> u = t)
    BY <2>1, <1>4 DEF AtLast, Round
  <2>4. 0 \in Threads /\ pc[0] # "none" /\ (t # 0 => pc[0] = "wait_read")
    BY <2>2, <1>4, ThreadZero DEF Working, Reading, Shape, Labels
  <2>5. CASE /\ cont
             /\ canWrite' = [canWrite EXCEPT ![t] = FALSE, ![0] = TRUE]
             /\ canRead' = [canRead EXCEPT ![0] = TRUE]
             /\ pc' = [pc EXCEPT ![t] = "wait_read"]
             /\ UNCHANGED exitThread
    <3>1. pc' = [pc EXCEPT ![t] = pc'[t]] /\ pc'[t] \in {"none", "wait_read"}
      BY <2>5 DEF Shape
    <3>2. pc' \in [Threads -> Labels] /\ \A u \in Threads : ~ Working(u)'
      BY <3>1, <1>10, <2>2
    <3>3. Shape'
      <4>1. canRead' \in [Threads -> BOOLEAN] /\ canWrite' \in [Threads -> BOOLEAN]
            /\ exitThread' \in BOOLEAN
        BY <2>5 DEF Shape
      <4> QED BY <3>2, <4>1, <1>11
    <3>4. /\ \A u \in Threads : canRead'[u] <=> u = 0
          /\ \A u \in Threads : canWrite'[u] <=> u = 0
      BY <2>3, <2>4, <2>5 DEF Shape
    <3>5. At(s, 0, 0) = 0 /\ \A u \in Threads : u < s => ~ (From(s, 0, u) < 0)
      BY <1>3 DEF At, From, Threads
    <3>6. rd' = rd /\ rd'.started = s
      BY <1>a, <1>3
    <3>7. Pending(0, 0)'
      BY <3>2, <3>4, <3>5, <3>6, <1>3 DEF Pending
    <3>8. pc'[0] # "none" /\ ~ exitThread'
      BY <2>4, <2>5, <1>4 DEF Shape
    <3>9. Round(0, 0)'
      BY <3>2, <3>4, <3>5, <3>6, <3>7, <3>8, <1>3 DEF Round
    <3> QED BY <2>5, <3>3, <3>9, <2>1, <1>13, <1>4, <1>5, <1>3 DEF l
  <2>6. CASE /\ ~ cont /\ t # 0
             /\ canWrite' = [canWrite EXCEPT ![t] = FALSE]
             /\ canRead' = [canRead EXCEPT ![0] = TRUE]
             /\ exitThread' = TRUE
             /\ pc' = [pc EXCEPT ![t] = "wait_read"]
    <3>1. pc' = [pc EXCEPT ![t] = pc'[t]] /\ pc'[t] \in {"none", "wait_read"}
      BY <2>6 DEF Shape
    <3>2. pc' \in [Threads -> Labels] /\ \A u \in Threads : ~ Working(u)'
      BY <3>1, <1>10, <2>2
    <3>3. Shape'
      <4>1. canRead' \in [Threads -> BOOLEAN] /\ canWrite' \in [Threads -> BOOLEAN]
            /\ exitThread' \in BOOLEAN
        BY <2>6 DEF Shape
      <4> QED BY <3>2, <4>1, <1>11
    <3>4. /\ \A u \in Threads : canRead'[u] <=> u = 0
          /\ \A u \in Threads : ~ canWrite'[u]
      BY <2>3, <2>4, <2>6 DEF Shape
    <3>5. pc'[0] = "wait_read"
      BY <2>4, <2>6 DEF Shape
    <3>6. Ending'
      BY <3>2, <3>4, <3>5, <2>6 DEF Ending
    <3> QED BY <2>6, <3>3, <3>6, <2>1, <1>13, <1>4, <1>5, <1>3 DEF l
  <2>7. CASE /\ ~ cont /\ t = 0
             /\ canWrite' = [canWrite EXCEPT ![t] = FALSE]
             /\ pc' = [pc EXCEPT ![t] = "none"]
             /\ UNCHANGED <<canRead, exitThread>>
    <3>1. pc' = [pc EXCEPT ![t] = pc'[t]] /\ pc'[t] \in {"none", "wait_read"}
      BY <2>7 DEF Shape
    <3>2. pc' \in [Threads -> Labels] /\ \A u \in Threads : ~ Working(u)'
      BY <3>1, <1>10, <2>2
    <3>3. Shape'
      <4>1. canRead' \in [Threads -> BOOLEAN] /\ canWrite' \in [Threads -> BOOLEAN]
            /\ exitThread' \in BOOLEAN
        BY <2>7 DEF Shape
      <4> QED BY <3>2, <4>1, <1>11
    <3>4. \A u \in Threads : ~ canRead'[u] /\ ~ canWrite'[u]
      BY <2>3, <2>7 DEF Shape
    <3>5. pc'[0] = "none"
      BY <2>4, <2>7 DEF Shape
    <3>6. Ending'
      BY <3>2, <3>4, <3>5 DEF Ending
    <3> QED BY <2>7, <3>3, <3>6, <2>1, <1>13, <1>4, <1>5, <1>3 DEF l
  <2> QED BY <1>13, <2>5, <2>6, <2>7 DEF HandOn, l
<1> QED BY <1>12, <1>13 DEF HandOn, l
-----------------------------------------------------------------------------
(* What Lzma2DecMt_Decode is given, and so how many threads it may start.  *)
LEMMA CallLimit ==
  ASSUME calls \in Nat, calls < Len(Inputs), input' \in Inputs[calls + 1]
  PROVE  input'.threads \in 1 .. MaxThreads
<1> DEFINE I == [bytes : Streams, outSize : Nat \cup {NoSize}, finishMode : BOOLEAN,
                 threads : 1 .. MaxThreads]
<1>1. Inputs \in Seq(SUBSET I)
  BY MtDecAssumption
<1>2. input' \in I
  <2> HIDE DEF I
  <2> QED BY <1>1
<1> QED BY <1>2

(* MtDec_Code starts its first round with both rights at thread 0.         *)
LEMMA CallKeeps ==
  ASSUME Shape, Tokens, Call
  PROVE  Shape' /\ Tokens'
<1>1. /\ mainPc = "idle" /\ calls' = calls + 1 /\ calls \in Nat /\ exitThread' = FALSE
      /\ rd' = [Rd0 EXCEPT !.limit = input'.threads, !.crossBlock = rd.crossBlock]
      /\ th' = [t \in Threads |->
                  [NewThread EXCEPT !.inBuf = [k \in DOMAIN th[t].inBuf |-> BlankLink]]]
  BY DEF Call, Shape
<1>2. input'.threads \in 1 .. MaxThreads
  BY <1>1, CallLimit DEF Call
<1>3. IsRd(rd') /\ rd'.started = 1
  BY <1>1, <1>2, ThreadZero DEF Rd0, IsRd
<1>4. DOMAIN th' = Threads /\ \A t \in Threads : IsThread(th'[t])
  BY <1>1, FreshLocal DEF IsThread, NewThread
<1>5. \A t \in Threads : ~ Working(t) /\ ~ canWrite[t] /\ ~ canRead[t]
  BY <1>1 DEF Tokens
<1>8. ASSUME pc' \in [Threads -> Labels], canRead' \in [Threads -> BOOLEAN],
             canWrite' \in [Threads -> BOOLEAN], mainPc' \in {"prepare", "run"}
      PROVE  Shape'
  <2>1. exitThread' = FALSE /\ calls' = calls + 1 /\ calls \in Nat
    BY <1>1
  <2>2. calls' \in Nat
    BY <2>1
  <2>3. exitThread' \in BOOLEAN
    BY <2>1, Zenon
  <2> QED BY <1>3, <1>4, <1>8, <2>2, <2>3 DEF Shape
<1>6. CASE mainPc' = "prepare" /\ UNCHANGED <<canRead, canWrite, pc>>
  <2>1. \A t \in Threads : Working(t)' <=> Working(t)
    BY <1>6 DEF Working, Reading
  <2>2. Shape'
    BY <1>6, <1>8 DEF Shape
  <2> QED BY <1>5, <1>6, <2>1, <2>2 DEF Tokens
<1>7. CASE /\ canRead' = [canRead EXCEPT ![0] = TRUE]
           /\ canWrite' = [canWrite EXCEPT ![0] = TRUE]
           /\ pc' = [pc EXCEPT ![0] = "wait_read"]
           /\ mainPc' = "run"
  <2>1. /\ pc' \in [Threads -> Labels] /\ pc'[0] # "none"
        /\ \A t \in Threads : ~ Working(t)'
    BY <1>5, <1>7, ThreadZero DEF Working, Reading, Shape, Labels
  <2>2. /\ \A t \in Threads : canRead'[t] <=> t = 0
        /\ \A t \in Threads : canWrite'[t] <=> t = 0
        /\ canRead' \in [Threads -> BOOLEAN] /\ canWrite' \in [Threads -> BOOLEAN]
    BY <1>5, <1>7, ThreadZero DEF Shape
  <2>3. At(1, 0, 0) = 0 /\ \A t \in Threads : t < 1 => ~ (From(1, 0, t) < 0)
    BY ThreadZero DEF At, From, Threads
  <2>4. Pending(0, 0)'
    BY <1>3, <2>1, <2>2, <2>3 DEF Pending
  <2>5. Round(0, 0)'
    BY <1>1, <1>3, <2>1, <2>2, <2>3, <2>4 DEF Round
  <2>6. Shape'
    BY <1>7, <1>8, <2>1, <2>2
  <2> QED BY <1>7, <2>5, <2>6, ThreadZero DEF Tokens
<1> QED BY <1>6, <1>7 DEF Call

(* Steps of the caller while no thread works.                              *)
Quiet == {"idle", "prepare", "read", "decode"}

(* While no thread works the caller leaves the rights alone.               *)
LEMMA QuietKeeps ==
  ASSUME Shape, Tokens, UNCHANGED <<pc, canRead, canWrite, exitThread, calls>>,
         mainPc \in Quiet \/ (mainPc = "run" /\ Ending /\ pc[0] = "none"),
         mainPc' \in Quiet,
         IsRd(rd'), DOMAIN th' = Threads, \A t \in Threads : IsThread(th'[t])
  PROVE  Shape' /\ Tokens'
<1>1. \A t \in Threads : ~ Working(t) /\ ~ canWrite[t] /\ ~ canRead[t]
  BY DEF Tokens, Ending, Quiet
<1>2. \A t \in Threads : Working(t)' <=> Working(t)
  BY DEF Working, Reading
<1> QED BY <1>1, <1>2 DEF Shape, Tokens, Quiet

(* MtDec_Code returns after the last thread left.                          *)
LEMMA CodeReturnsKeeps ==
  ASSUME Shape, Tokens, CodeReturns
  PROVE  Shape' /\ Tokens'
<1>1. /\ mainPc = "run" /\ pc[0] = "none" /\ mainPc' \in Quiet
      /\ UNCHANGED <<pc, canRead, canWrite, exitThread, calls, rd, th>>
  BY DEF CodeReturns, Return, Quiet
<1>2. Ending
  BY <1>1 DEF Tokens, Round
<1>3. IsRd(rd) /\ DOMAIN th = Threads /\ \A t \in Threads : IsThread(th[t])
  BY DEF Shape
<1> QED BY <1>1, <1>2, <1>3, QuietKeeps

(* The single-threaded calls leave the rights alone.                       *)
LEMMA OtherKeeps ==
  ASSUME Shape, Tokens, Prepare \/ MtDec_Read \/ StRead \/ StDecode
  PROVE  Shape' /\ Tokens'
<1>a. IsRd(rd) /\ DOMAIN th = Threads /\ \A t \in Threads : IsThread(th[t])
  BY DEF Shape
<1>1. CASE Prepare
  <2>1. /\ mainPc \in Quiet /\ mainPc' \in Quiet
        /\ UNCHANGED <<pc, canRead, canWrite, exitThread, calls>>
    BY <1>1 DEF Prepare, Return, Quiet
  <2>2. rd' = rd \/ rd' = [rd EXCEPT !.crossBlock = FALSE]
    BY <1>1 DEF Prepare
  <2>3. IsRd(rd')
    BY <2>2, <1>a DEF IsRd
  <2>4. \/ th' = th
        \/ th' = [t \in Threads |-> IF HoldsInput(t) THEN th[t]
                                    ELSE [th[t] EXCEPT !.inBuf = << >>]]
    BY <1>1 DEF Prepare
  <2>5. DOMAIN th' = Threads /\ \A t \in Threads : IsThread(th'[t])
    BY <2>4, <1>a DEF IsThread
  <2> QED BY <2>1, <2>3, <2>5, QuietKeeps
<1>2. CASE MtDec_Read
  <2>1. /\ mainPc \in Quiet /\ mainPc' \in Quiet
        /\ UNCHANGED <<pc, canRead, canWrite, exitThread, calls>>
    BY <1>2 DEF MtDec_Read, Served, Quiet
  <2>2. rd' = rd \/ \E b : rd' = [rd EXCEPT !.cross = << >>, !.crossBlock = b]
    BY <1>2 DEF MtDec_Read
  <2>3. IsRd(rd')
    BY <2>2, <1>a DEF IsRd
  <2> DEFINE cur   == wr.filledStart
             used  == st.inLim # 0
             empty == used /\ th[cur].size = 0
             t     == IF empty THEN (IF cur + 1 = rd.started THEN 0 ELSE cur + 1) ELSE cur
             links == IF used /\ ~ empty THEN RestOf(th[t].inBuf, 1) ELSE th[t].inBuf
             lim   == IF th[t].start # 0 THEN th[t].start ELSE Smaller(InBufSize, th[t].size)
             freed == IF empty THEN [th EXCEPT ![cur].inBuf = << >>] ELSE th
  <2>4. \/ th' = th \/ th' = freed
        \/ th' = [freed EXCEPT ![t] = [freed[t] EXCEPT !.inBuf = links, !.start = 0, !.size = @ - lim]]
    BY <1>2 DEF MtDec_Read
  <2>5. DOMAIN freed = Threads /\ \A u \in Threads : IsThread(freed[u])
    BY <1>a DEF IsThread
  <2> HIDE DEF freed, t, links, lim
  <2>6. DOMAIN th' = Threads /\ \A u \in Threads : IsThread(th'[u])
    BY <2>4, <2>5, <1>a DEF IsThread
  <2> QED BY <2>1, <2>3, <2>6, QuietKeeps
<1>3. CASE StRead
  <2>1. /\ mainPc \in Quiet /\ mainPc' \in Quiet
        /\ UNCHANGED <<pc, canRead, canWrite, exitThread, calls, th>>
    BY <1>3 DEF StRead, Quiet
  <2>2. \/ rd' = rd
        \/ \E k \in 0 .. InBufSize, ok \in BOOLEAN :
             rd' = [rd EXCEPT !.pos = @ + k, !.finished = k = 0 \/ ~ ok,
                              !.res = IF ok THEN OK ELSE "READ"]
    BY <1>3 DEF StRead
  <2>3. IsRd(rd')
    BY <2>2, <1>a DEF IsRd
  <2> QED BY <2>1, <2>3, <1>a, QuietKeeps
<1>4. CASE StDecode
  <2>1. /\ mainPc \in Quiet /\ mainPc' \in Quiet
        /\ UNCHANGED <<pc, canRead, canWrite, exitThread, calls, th, rd>>
    BY <1>4 DEF StDecode, Return, Quiet
  <2> QED BY <2>1, <1>a, QuietKeeps
<1> QED BY <1>1, <1>2, <1>3, <1>4

(* MtDec_Destruct wakes the threads to leave.                              *)
LEMMA DestroyKeeps ==
  ASSUME Shape, Tokens, Destroy
  PROVE  Shape' /\ Tokens'
<1>1. UNCHANGED <<rd, pc, th, calls>>
  BY DEF Destroy
<1>2. \A t \in Threads : Working(t)' <=> Working(t)
  BY <1>1 DEF Working, Reading
<1>3. /\ mainPc \in {"idle", "destroy"} /\ mainPc' \in {"destroy", "end"}
      /\ canRead' \in [Threads -> BOOLEAN] /\ canWrite' \in [Threads -> BOOLEAN]
      /\ exitThread' = TRUE
  BY DEF Destroy, Shape, Tokens
<1> QED BY <1>1, <1>2, <1>3 DEF Shape, Tokens

(* A stuttering step.                                                      *)
LEMMA NothingKeeps ==
  ASSUME Shape, Tokens, UNCHANGED vars
  PROVE  Shape' /\ Tokens'
<1>1. UNCHANGED <<rd, exitThread, canRead, canWrite, pc, th, mainPc, calls>>
  BY DEF vars
<1>2. \A t \in Threads : (Working(t)' <=> Working(t)) /\ (Reading(t)' <=> Reading(t))
                         /\ bi(t)' = bi(t) /\ (Passes(t)' <=> Passes(t))
  BY <1>1 DEF Working, Reading, bi, Passes
<1>3. ASSUME NEW w \in 0 .. MaxThreads, NEW n \in 0 .. MaxThreads, Round(w, n)
      PROVE  Round(w, n)'
  <2>1. Pending(w, n)' \/ Current(w, n)' \/ AtLast(w, n)'
    BY <1>1, <1>2, <1>3 DEF Round, Pending, Current, AtLast
  <2> QED BY <1>1, <1>2, <1>3, <2>1, RoundStays DEF Round
<1>4. Ending => Ending'
  BY <1>1, <1>2 DEF Ending
<1> QED BY <1>1, <1>2, <1>3, <1>4 DEF Shape, Tokens

(* A thread that does not leave is in the round that is running.           *)
LEMMA ThreadRuns ==
  ASSUME Shape, Tokens, NEW t \in Threads, Thread(t), ~ (WaitRead(t) /\ exitThread)
  PROVE  /\ mainPc = "run" /\ mainPc' = "run"
         /\ \E w, n \in 0 .. MaxThreads : Round(w, n)
<1>1. CASE WaitRead(t)
  <2>1. canRead[t] /\ mainPc' = mainPc
    BY <1>1 DEF WaitRead, caller
  <2> QED BY <1>1, <2>1 DEF Shape, Tokens, Ending
<1>2. CASE ~ WaitRead(t)
  <2>1. CASE \/ ReadNoLink(t) \/ ReadCross(t) \/ ReadLink(t) \/ ParseOverflow(t)
             \/ ParseContinue(t) \/ ParseEnd(t) \/ ParseNew(t) \/ PreCode(t)
    BY <2>1, ReadSteps, WorksInRound DEF Reads, Moves, Working
  <2>2. CASE CodeFails(t) \/ CodeLink(t) \/ CodeUnprepared(t)
    BY <2>2, CodeSteps, WorksInRound DEF Codes, Moves, Working
  <2>3. CASE StartNext(t) \/ StartNone(t) \/ Write(t)
    <3>1. Working(t) /\ mainPc' = mainPc
      BY <2>3 DEF StartNext, StartNone, Write, Working, Reading, caller
    <3> QED BY <3>1, WorksInRound
  <2> QED BY <1>2, <2>1, <2>2, <2>3 DEF Thread
<1> QED BY <1>1, <1>2

(* The handle as MtDec_Construct leaves it.                                *)
LEMMA InitTokens == Init => Shape /\ Tokens
<1> SUFFICES ASSUME Init PROVE Shape /\ Tokens
  OBVIOUS
<1>1. Shape
  BY ThreadZero, FreshLocal DEF Init, Shape, IsRd, IsThread, Rd0, NewThread, Labels
<1> QED BY <1>1 DEF Init, Tokens, Working, Reading

(* Every step keeps the rights in one place each.                          *)
LEMMA NextTokens == Shape /\ Tokens /\ [Next]_vars => Shape' /\ Tokens'
<1> SUFFICES ASSUME Shape, Tokens, [Next]_vars PROVE Shape' /\ Tokens'
  OBVIOUS
<1>1. ASSUME NEW t \in Threads, Thread(t) PROVE Shape' /\ Tokens'
  <2>1. CASE WaitRead(t) /\ exitThread
    BY <2>1, WaitReadLeaves
  <2>2. CASE ~ (WaitRead(t) /\ exitThread)
    <3>1. mainPc = "run" /\ mainPc' = "run"
      BY <1>1, <2>2, ThreadRuns
    <3>2. PICK w, n \in 0 .. MaxThreads : Round(w, n)
      BY <1>1, <2>2, ThreadRuns
    <3>3. CASE WaitRead(t)
      <4>1. Shape' /\ n + 1 \in 0 .. MaxThreads /\ Round(w, n + 1)'
        BY <3>1, <3>2, <3>3, WaitReadKeeps
      <4> QED BY <3>1, <4>1 DEF Tokens
    <3>4. CASE \/ ReadNoLink(t) \/ ReadCross(t) \/ ReadLink(t) \/ ParseOverflow(t)
               \/ ParseContinue(t) \/ ParseEnd(t) \/ ParseNew(t) \/ PreCode(t)
      <4>1. Shape' /\ Round(w, n)'
        BY <3>2, <3>4, ReadSteps, ReadKeeps
      <4> QED BY <3>1, <4>1 DEF Tokens
    <3>5. CASE StartNext(t)
      <4>1. Shape' /\ Round(w, n)'
        BY <3>1, <3>2, <3>5, StartNextKeeps
      <4> QED BY <3>1, <4>1 DEF Tokens
    <3>6. CASE StartNone(t)
      <4>1. Shape' /\ Round(w, n)'
        BY <3>2, <3>6, StartNoneKeeps
      <4> QED BY <3>1, <4>1 DEF Tokens
    <3>7. CASE CodeFails(t) \/ CodeLink(t) \/ CodeUnprepared(t)
      <4>1. Shape' /\ Round(w, n)'
        BY <3>2, <3>7, CodeSteps, CodeKeeps
      <4> QED BY <3>1, <4>1 DEF Tokens
    <3>8. CASE Write(t)
      <4>1. PICK cont : HandOn(t, cont)
        BY <3>8 DEF Write
      <4>2. /\ Shape' /\ n \in 1 .. rd.started
            /\ \/ \E v \in 0 .. MaxThreads : Round(v, n - 1)'
               \/ Round(0, 0)' \/ Ending'
        BY <3>1, <3>2, <3>8, <4>1, WriteKeeps
      <4>3. 0 \in 0 .. MaxThreads /\ n - 1 \in 0 .. MaxThreads
        BY <4>2, ThreadZero DEF Shape, IsRd
      <4> QED BY <3>1, <4>2, <4>3 DEF Tokens
    <3> QED BY <1>1, <3>3, <3>4, <3>5, <3>6, <3>7, <3>8 DEF Thread
  <2> QED BY <2>1, <2>2
<1>2. CASE Call
  BY <1>2, CallKeeps
<1>3. CASE CodeReturns
  BY <1>3, CodeReturnsKeeps
<1>4. CASE Prepare \/ MtDec_Read \/ StRead \/ StDecode
  BY <1>4, OtherKeeps
<1>5. CASE Destroy
  BY <1>5, DestroyKeeps
<1>6. CASE Done \/ UNCHANGED vars
  BY <1>6, NothingKeeps DEF Done
<1> QED BY <1>1, <1>2, <1>3, <1>4, <1>5, <1>6 DEF Next, Main

(* One reader, one writer, in the order of the blocks.                     *)
LEMMA RoundTokens ==
  ASSUME Shape, NEW w \in 0 .. MaxThreads, NEW n \in 0 .. MaxThreads, Round(w, n)
  PROVE  /\ Cardinality({t \in Threads : canRead[t] \/ Reading(t)}) <= 1
         /\ Cardinality({t \in Threads : canWrite[t]}) <= 1
         /\ \A t, u \in Threads : Working(t) /\ Working(u) /\ canWrite[t] => bi(t) <= bi(u)
<1>1. ASSUME NEW S, NEW x, S \subseteq {x}
      PROVE  Cardinality(S) <= 1
  <2>1. IsFiniteSet({x}) /\ Cardinality({x}) = 1
    BY FS_Singleton
  <2> QED BY <1>1, <2>1, FS_Subset
<1>2. \A t \in Threads : Reading(t) => Working(t)
  BY DEF Working
<1>3. PICK x : \A t \in Threads : canRead[t] \/ Reading(t) => t = x
  <2>1. CASE \E t \in Threads : Reading(t)
    <3>1. PICK t \in Threads : Reading(t)
      BY <2>1
    <3>2. Current(w, n) /\ \A u \in Threads : Reading(u) => u = t
      BY <1>2, <3>1, ReaderIsLast
    <3> QED BY <3>2 DEF Current
  <2>2. CASE ~ \E t \in Threads : Reading(t)
    BY <2>2 DEF Round, Pending, Current, AtLast
  <2> QED BY <2>1, <2>2
<1>4. \A t \in Threads : canWrite[t] <=> t = w
  BY DEF Round
<1>5. ASSUME NEW t \in Threads, NEW u \in Threads, Working(t), Working(u), canWrite[t]
      PROVE  bi(t) <= bi(u)
  <2>1. bi(t) \in Nat /\ bi(u) \in Nat
    BY DEF bi, Shape, IsThread, IsLocal
  <2>2. rd.started \in Nat /\ t = w /\ w \in 0 .. rd.started - 1 /\ u \in 0 .. rd.started - 1
    BY <1>4, <1>5, ThreadZero DEF Round, Shape, IsRd, Threads
  <2>3. u # t => From(rd.started, w, t) < From(rd.started, w, u)
    BY <2>2 DEF From
  <2>4. u # t => bi(t) < bi(u)
    <3>1. /\ bi(t) = rd.blockIndex - n + From(rd.started, w, t)
          /\ bi(u) = rd.blockIndex - n + From(rd.started, w, u) /\ rd.blockIndex \in Nat
      BY <1>5 DEF Round, Shape, IsRd
    <3>2. From(rd.started, w, t) \in Nat /\ From(rd.started, w, u) \in Nat
      BY <2>2 DEF From
    <3> QED BY <2>3, <3>1, <3>2
  <2> QED BY <2>1, <2>4
<1>6. /\ {t \in Threads : canRead[t] \/ Reading(t)} \subseteq {x}
      /\ {t \in Threads : canWrite[t]} \subseteq {w}
  BY <1>3, <1>4
<1> QED BY <1>1, <1>5, <1>6

(* One place each is what the data race would need two of.                 *)
LEMMA TokensImply == Shape /\ Tokens => TokensUnique
<1> SUFFICES ASSUME Shape, Tokens PROVE TokensUnique
  OBVIOUS
<1>1. ASSUME mainPc = "run", Ending
      PROVE  /\ Cardinality({t \in Threads : canRead[t] \/ Reading(t)}) <= 1
             /\ {t \in Threads : canWrite[t]} = {}
  <2>1. {t \in Threads : canRead[t] \/ Reading(t)} \subseteq {0}
    BY <1>1 DEF Ending, Working
  <2>2. IsFiniteSet({0}) /\ Cardinality({0}) = 1
    BY FS_Singleton
  <2>3. {t \in Threads : canWrite[t]} = {}
    BY <1>1 DEF Ending
  <2> QED BY <2>1, <2>2, <2>3, FS_Subset
<1>2. Cardinality({}) = 0
  BY FS_EmptySet
<1>3. mainPc = "run" =>
       /\ Cardinality({t \in Threads : canRead[t] \/ Reading(t)}) <= 1
       /\ Cardinality({t \in Threads : canWrite[t]}) <= 1
       /\ \A t, u \in Threads : Working(t) /\ Working(u) /\ canWrite[t] =>
            th[t].l.blockIndex <= th[u].l.blockIndex
  <2>1. CASE mainPc = "run" /\ Ending
    BY <1>1, <1>2, <2>1 DEF Ending
  <2>2. CASE \E w, n \in 0 .. MaxThreads : Round(w, n)
    BY <2>2, RoundTokens DEF bi
  <2> QED BY <2>1, <2>2 DEF Tokens
<1>4. mainPc # "run" => \A t \in Threads : ~ Working(t)
  BY DEF Tokens, Shape
<1>5. mainPc \notin {"run", "destroy", "end"} => \A t \in Threads : ~ canWrite[t]
  BY DEF Tokens, Shape
<1> QED BY <1>3, <1>4, <1>5 DEF TokensUnique

(* In any sequence of calls on a handle the right to read and the right to *)
(* write are each in one place, the oldest block is written first, and no  *)
(* thread works when MtDec_Code has returned: MtDec_ThreadFunc2 and its    *)
(* ring of events, whatever is read, parsed or fails.                      *)
THEOREM OneReaderOneWriter == Spec => []TokensUnique
<1>1. Spec => [](Shape /\ Tokens)
  BY InitTokens, NextTokens, PTL DEF Spec
<1> QED BY <1>1, TokensImply, PTL

-----------------------------------------------------------------------------
(* A set of numbers has a least one, and a bounded one a greatest.         *)
LEMMA MinIs ==
  ASSUME NEW S, S \subseteq Nat, S # {}
  PROVE  Min(S) \in S /\ \A x \in S : Min(S) <= x
<1> DEFINE T == {n \in Nat : \A m \in 0 .. n : m \notin S}
<1>1. ASSUME \A m \in S : \E x \in S : x < m
      PROVE  FALSE
  <2>1. 0 \in T
    BY <1>1
  <2>2. ASSUME NEW n \in Nat, n \in T PROVE n + 1 \in T
    <3>1. n + 1 \notin S
      BY <1>1, <2>2
    <3>2. \A m \in 0 .. n + 1 : m \in 0 .. n \/ m = n + 1
      OBVIOUS
    <3> QED BY <2>2, <3>1, <3>2
  <2> HIDE DEF T
  <2>3. Nat \subseteq T
    BY <2>1, <2>2, NatInduct
  <2>4. PICK x : x \in S
    OBVIOUS
  <2>5. x \in Nat /\ x \in T
    BY <2>3, <2>4
  <2> QED BY <2>4, <2>5 DEF T
<1>2. PICK m \in S : \A x \in S : ~ (x < m)
  BY <1>1
<1>3. \A x \in S : m <= x
  BY <1>2
<1> QED BY <1>3 DEF Min

(* A bounded set of numbers has a greatest one.                            *)
LEMMA MaxIs ==
  ASSUME NEW N \in Nat, NEW S, S \subseteq 0 .. N, S # {}
  PROVE  Max(S) \in S /\ \A x \in S : x <= Max(S)
<1> DEFINE T == {N - x : x \in S}
<1>1. T \subseteq Nat /\ T # {}
  <2>1. PICK x : x \in S
    OBVIOUS
  <2>2. N - x \in T
    BY <2>1
  <2>3. \A x1 \in S : N - x1 \in Nat
    OBVIOUS
  <2> QED BY <2>2, <2>3
<1>2. Min(T) \in T /\ \A y \in T : Min(T) <= y
  BY <1>1, MinIs
<1> HIDE DEF T
<1>3. PICK m \in S : Min(T) = N - m
  BY <1>2 DEF T
<1>4. ASSUME NEW x \in S PROVE x <= m
  <2>1. N - m <= N - x
    BY <1>2, <1>3 DEF T
  <2> QED BY <2>1
<1>5. \A x \in S : m >= x
  BY <1>4
<1> QED BY <1>5 DEF Max

(* A count of data bytes is a number.                                      *)
LEMMA NumDataType ==
  ASSUME NEW bytes, NEW src, NEW k \in Int
  PROVE  NumData(bytes, src, k) \in Nat
<1> DEFINE S == {j \in 1 .. k - 1 : bytes[src[j]] \in {"data", "bad"}}
<1>1. S \subseteq 1 .. k - 1
  OBVIOUS
<1>2. IsFiniteSet(1 .. k - 1)
  BY FS_Interval
<1> HIDE DEF S
<1>3. Cardinality(S) \in Nat
  BY <1>1, <1>2, FS_Subset, FS_CardinalityType
<1> QED BY <1>3 DEF NumData, S

(* One byte more.                                                          *)
LEMMA NumDataNext ==
  ASSUME NEW bytes, NEW src, NEW k \in Nat \ {0}
  PROVE  NumData(bytes, src, k + 1) =
           NumData(bytes, src, k) + IF bytes[src[k]] \in {"data", "bad"} THEN 1 ELSE 0
<1> DEFINE S == {j \in 1 .. k - 1 : bytes[src[j]] \in {"data", "bad"}}
           T == {j \in 1 .. k : bytes[src[j]] \in {"data", "bad"}}
<1>1. IsFiniteSet(S)
  <2>1. S \subseteq 1 .. k - 1
    OBVIOUS
  <2> HIDE DEF S
  <2>2. IsFiniteSet(1 .. k - 1)
    BY FS_Interval
  <2> QED BY <2>1, <2>2, FS_Subset
<1>2. T = IF bytes[src[k]] \in {"data", "bad"} THEN S \cup {k} ELSE S
  OBVIOUS
<1>3. k \notin S
  OBVIOUS
<1>4. k + 1 - 1 = k
  OBVIOUS
<1>5. NumData(bytes, src, k + 1) = Cardinality(T) /\ NumData(bytes, src, k) = Cardinality(S)
  BY <1>4 DEF NumData
<1> HIDE DEF S, T
<1>6. Cardinality(S \cup {k}) = Cardinality(S) + 1
  BY <1>1, <1>3, FS_AddElement
<1>7. Cardinality(S) \in Nat
  BY <1>1, FS_CardinalityType
<1> QED BY <1>2, <1>5, <1>6, <1>7
States == {"CONTINUE", "NEW", "MARK", "STOP", "OVERFLOW", "ERROR"}

(* What Lzma2Dec_Parse answers: how much of src is the block's, how much   *)
(* of the output that is, and which byte ended it.                         *)
Answers(p, bytes, src, d, limit, check) ==
  /\ p.state \in States /\ p.used \in 0 .. Len(src) /\ p.out \in Nat
  /\ p.state # "OVERFLOW" => p.out = d + NumData(bytes, src, p.used + 1)
  /\ p.state = "CONTINUE" =>
       p.used = Len(src) \/ \E k \in 1 .. Len(src) : bytes[src[k]] = "more"
  /\ p.state = "NEW" => p.used < Len(src) /\ p.out > 0
  /\ p.state \in {"MARK", "ERROR"} => p.used > 0 /\ bytes[src[p.used]] \in {"end", "err"}
  /\ p.state = "STOP" => ~ check /\ p.out = limit
  /\ p.state = "OVERFLOW" => p.used > 0

(* What Lzma2Dec_Parse answers, for any input and any limit.               *)
LEMMA ParseIs ==
  ASSUME NEW bytes, NEW src, Len(src) \in Nat, NEW d \in Nat, NEW limit \in Int,
         NEW check \in BOOLEAN
  PROVE  Answers(Parse(bytes, src, d, limit, check), bytes, src, d, limit, check)
<1> DEFINE D(k) == d + NumData(bytes, src, k)
           kind(k) == IF k > Len(src) THEN "more" ELSE bytes[src[k]]
           Stops(k) == \/ kind(k) \in {"more", "end", "err"}
                       \/ kind(k) = "new" /\ D(k) >= SmallBlock
                       \/ D(k) = limit /\ (~ check \/ kind(k) # "new")
           stops == {k \in 1 .. Len(src) + 1 : Stops(k)}
           s == Min(stops)
           points == {k \in 1 .. s - 1 : kind(k) = "new" /\ D(k) # 0}
           full == D(s) = limit
           found == IF full /\ ~ check       THEN "STOP"
                    ELSE IF kind(s) = "more" THEN "CONTINUE"
                    ELSE IF kind(s) = "end"  THEN "MARK"
                    ELSE IF kind(s) = "new"  THEN "NEW"
                    ELSE IF full             THEN "OVERFLOW"
                    ELSE "ERROR"
           revert == points # {} /\ found \in {"STOP", "CONTINUE", "OVERFLOW"}
           p == Parse(bytes, src, d, limit, check)
<1>1. p = IF revert
          THEN [state |-> "NEW", used |-> Max(points) - 1, out |-> D(Max(points))]
          ELSE [state |-> found, out |-> D(s),
                used  |-> IF found \in {"MARK", "OVERFLOW", "ERROR"} THEN s ELSE s - 1]
  BY DEF Parse
<1> SUFFICES Answers(p, bytes, src, d, limit, check)
  OBVIOUS
<1> HIDE DEF p
<1>2. \A k \in Int : D(k) \in Nat
  BY NumDataType
<1>3. s \in 1 .. Len(src) + 1 /\ Stops(s)
  <2>1. Len(src) + 1 \in stops
    OBVIOUS
  <2>2. stops \subseteq Nat /\ stops # {}
    BY <2>1
  <2> HIDE DEF stops
  <2>3. s \in stops
    BY <2>2, MinIs
  <2> QED BY <2>3 DEF stops
<1> HIDE DEF s
<1>4. CASE revert
  <2>1. points \subseteq 0 .. Len(src) + 1 /\ points # {} /\ Len(src) + 1 \in Nat
    BY <1>3, <1>4
  <2> DEFINE m == Max(points)
  <2> HIDE DEF points
  <2>2. m \in points
    BY <2>1, MaxIs
  <2>3. m \in 1 .. s - 1 /\ D(m) # 0
    BY <2>2 DEF points
  <2> HIDE DEF m
  <2>4. p.state = "NEW" /\ p.used = m - 1 /\ p.out = D(m)
    BY <1>1, <1>4 DEF m
  <2>5. D(m) \in Nat
    BY <1>2, <2>3, <1>3
  <2>6. m - 1 + 1 = m
    BY <2>3, <1>3
  <2> QED BY <1>3, <2>3, <2>4, <2>5, <2>6 DEF States, Answers
<1>5. CASE ~ revert
  <2> HIDE DEF revert
  <2>1. /\ p.state = found /\ p.out = D(s) /\ D(s) \in Nat
        /\ p.used = IF found \in {"MARK", "OVERFLOW", "ERROR"} THEN s ELSE s - 1
    BY <1>1, <1>2, <1>3, <1>5
  <2>2. s - 1 + 1 = s
    BY <1>3
  <2>3. SmallBlock \in Nat \ {0}
    BY Lzma2BlocksAssumption
  <2>4. found \in States /\ (found # "CONTINUE" => kind(s) # "more" \/ found = "STOP")
    BY DEF States
  <2>5. found = "NEW" => kind(s) = "new" /\ D(s) > 0
    BY <1>3, <2>3, <2>1
  <2>6. found \in {"MARK", "ERROR"} => s <= Len(src) /\ bytes[src[s]] \in {"end", "err"}
    BY <1>3
  <2>7. found \in {"MARK", "ERROR"} => D(s + 1) = D(s)
    <3>1. s \in Nat \ {0}
      BY <1>3
    <3>2. NumData(bytes, src, s + 1) =
            NumData(bytes, src, s) + IF bytes[src[s]] \in {"data", "bad"} THEN 1 ELSE 0
      BY <3>1, NumDataNext
    <3>3. NumData(bytes, src, s) \in Nat
      BY <3>1, NumDataType
    <3>4. bytes[src[s]] \in {"end", "err"} => NumData(bytes, src, s + 1) = NumData(bytes, src, s)
      BY <3>2, <3>3
    <3> QED BY <3>4, <2>6
  <2>8. found = "STOP" => ~ check /\ D(s) = limit
    OBVIOUS
  <2>9. /\ found = "CONTINUE" => s = Len(src) + 1 \/ \E k \in 1 .. Len(src) : bytes[src[k]] = "more"
        /\ found = "OVERFLOW" => s <= Len(src)
        /\ found = "NEW" => s <= Len(src)
    BY <1>3
  <2> HIDE DEF found, D, kind
  <2> QED BY <1>3, <2>1, <2>2, <2>4, <2>5, <2>6, <2>7, <2>8, <2>9 DEF D, States, Answers
<1> QED BY <1>4, <1>5

-----------------------------------------------------------------------------
(* The types of what the threads and the caller keep.                      *)
Link == [1 .. InBufSize -> Int]

LocalOK(l) ==
  /\ DOMAIN l = {"blockIndex", "res", "codeRes", "wasInterrupted", "finish", "needCode",
                 "needWrite", "isAllocError", "overflow", "threadingError", "start", "size",
                 "checked", "links", "last", "link", "next", "state", "inPreSize",
                 "outPreSize", "prepared", "inCodeSize", "outBuf", "coderRes"}
  /\ l.blockIndex \in Nat /\ l.links \in Nat /\ l.last \in 0 .. InBufSize
  /\ l.start \in Int /\ l.size \in Int /\ l.inPreSize \in Nat /\ l.outPreSize \in Nat
  /\ l.res \in Errors /\ l.codeRes \in Errors /\ l.coderRes \in Errors /\ l.state \in States
  /\ l.wasInterrupted \in BOOLEAN /\ l.finish \in BOOLEAN /\ l.needCode \in BOOLEAN
  /\ l.needWrite \in BOOLEAN /\ l.isAllocError \in BOOLEAN /\ l.overflow \in BOOLEAN
  /\ l.threadingError \in BOOLEAN /\ l.prepared \in BOOLEAN /\ l.inCodeSize \in Int

ThreadOK(x) ==
  /\ DOMAIN x = {"l", "inBuf", "start", "size"}
  /\ LocalOK(x.l) /\ x.inBuf \in Seq(Link) /\ x.start \in Int /\ x.size \in Int

InputOK ==
  input \in [bytes : Streams, outSize : Nat \cup {NoSize}, finishMode : BOOLEAN,
             threads : 1 .. MaxThreads]

RdOK ==
  /\ DOMAIN rd = {"blockIndex", "finished", "res", "pos", "crossBlock", "cross", "started",
                  "limit", "outParsed"}
  /\ rd.pos \in 0 .. Len(input.bytes) /\ rd.res \in {OK, "READ"}
  /\ rd.finished \in BOOLEAN /\ rd.crossBlock \in BOOLEAN /\ rd.outParsed \in Nat
  /\ rd.cross \in Seq(Int) /\ Len(rd.cross) <= InBufSize /\ (rd.cross # << >> => rd.crossBlock)

WrOK ==
  /\ DOMAIN wr = {"interrupted", "allocError", "threadingError", "overflow", "filledStart",
                  "numFilled", "inProcessed"}
  /\ wr.interrupted \in BOOLEAN /\ wr.allocError \in BOOLEAN /\ wr.threadingError \in BOOLEAN
  /\ wr.overflow \in BOOLEAN

SyncOK ==
  /\ DOMAIN sync = {"res", "needInterrupt", "index"}
  /\ sync.res \in {OK, "PROGRESS"} /\ sync.needInterrupt \in BOOLEAN /\ sync.index \in Nat

(* A thread that was told to skip its block, because a block before it     *)
(* failed, goes through the iteration without input.                       *)
Passer(t) ==
  LET l == th[t].l
  IN  /\ pc[t] \in {"pass", "start_next", "wait_write"}
      /\ l.size = 0 /\ ~ l.needCode /\ ~ l.needWrite
      /\ IF pc[t] = "pass" THEN l.res # OK \/ l.wasInterrupted ELSE l.finish

(* What a thread's flags say along the iteration: without finish there is  *)
(* a whole block to decode and to write.                                   *)
Flags(t) ==
  LET l == th[t].l
      Whole_ == l.state = "NEW" /\ l.needWrite /\ l.needCode
  IN  /\ l.wasInterrupted => InterruptedBefore(l.blockIndex)
      /\ pc[t] \in {"read", "parse", "parsed", "pass"} => l.codeRes = OK
      /\ pc[t] = "pass" => Passer(t)
      /\ pc[t] = "parsed" /\ ~ l.finish => Whole_ \/ l.res # OK \/ l.wasInterrupted
      /\ pc[t] \in {"start_next", "code", "wait_write"} /\ ~ l.finish => Whole_

(* The link that is read into, or was.                                     *)
Linked(t) ==
  /\ pc[t] = "read" => Links(t) <= Len(th[t].inBuf)
  /\ pc[t] = "parse" => FromCross(t) \/ Links(t) < Len(th[t].inBuf)

Good(t) == ThreadOK(th[t]) /\ Linked(t) /\ (Working(t) => Flags(t))

Control ==
  /\ InputOK /\ RdOK /\ WrOK /\ SyncOK /\ result \in Errors
  /\ \A t \in Threads : Good(t)

(* An interruption stays, and may come to be that of an earlier block.     *)
Later == sync.needInterrupt => sync'.needInterrupt /\ sync'.index <= sync.index

-----------------------------------------------------------------------------
(* Links, whatever they are filled with.                                   *)
LEMMA LinkTypes ==
  ASSUME NEW s \in Seq(Int), NEW k \in Link
  PROVE  /\ BlankLink \in Link /\ CopiedTo(k, s) \in Link
         /\ \A j \in 1 .. InBufSize : CopiedTo(k, s)[j] = IF j <= Len(s) THEN s[j] ELSE k[j]
         /\ \A j \in 1 .. Len(s) : j <= InBufSize => CopiedTo(k, s)[j] = s[j]
BY MtDecAssumption DEF Link, BlankLink, CopiedTo, Junk

(* A link that is read into becomes that input, and the others stay.       *)
LEMMA FillTypes ==
  ASSUME NEW t \in Threads, ThreadOK(th[t]), Links(t) <= Len(th[t].inBuf), NEW s \in Seq(Int)
  PROVE  /\ LinkFilled(t, s) \in Seq(Link)
         /\ Links(t) < Len(LinkFilled(t, s)) /\ Len(th[t].inBuf) <= Len(LinkFilled(t, s))
         /\ \A k \in 1 .. Len(LinkFilled(t, s)) :
              IF k = Links(t) + 1
              THEN \A j \in 1 .. Len(s) : j <= InBufSize => LinkFilled(t, s)[k][j] = s[j]
              ELSE k <= Len(th[t].inBuf) /\ LinkFilled(t, s)[k] = th[t].inBuf[k]
<1> DEFINE b == th[t].inBuf
           k == Links(t) + 1
<1>1. b \in Seq(Link) /\ Links(t) \in Nat /\ InBufSize \in Nat
  BY MtDecAssumption DEF ThreadOK, LocalOK, Links
<1>2. CopiedTo(BlankLink, s) \in Link /\ \A j \in 1 .. Len(s) : j <= InBufSize => CopiedTo(BlankLink, s)[j] = s[j]
  <2>1. BlankLink \in Link
    BY MtDecAssumption DEF Link, BlankLink, Junk
  <2> QED BY <2>1, LinkTypes
<1>3. CASE NeedsLink(t)
  <2>1. LinkFilled(t, s) = Append(b, CopiedTo(BlankLink, s)) /\ Len(b) = Links(t)
    BY <1>3, <1>1 DEF LinkFilled, NeedsLink
  <2> HIDE DEF b
  <2> QED BY <2>1, <1>1, <1>2 DEF b
<1>4. CASE ~ NeedsLink(t)
  <2>1. LinkFilled(t, s) = [b EXCEPT ![k] = CopiedTo(b[k], s)] /\ k \in 1 .. Len(b)
    BY <1>4, <1>1 DEF LinkFilled, NeedsLink
  <2> HIDE DEF b
  <2>2. b[k] \in Link
    BY <2>1, <1>1
  <2>3. CopiedTo(b[k], s) \in Link /\ \A j \in 1 .. Len(s) : j <= InBufSize => CopiedTo(b[k], s)[j] = s[j]
    BY <2>2, LinkTypes
  <2>4. LinkFilled(t, s) \in Seq(Link) /\ Len(LinkFilled(t, s)) = Len(b)
    BY <2>1, <2>3, <1>1
  <2> QED BY <2>1, <2>3, <2>4, <1>1, <1>4 DEF b
<1> QED BY <1>3, <1>4

(* The first bytes of an input, as many as there are.                      *)
LEMMA BytesType ==
  ASSUME NEW s, NEW k \in Nat, \A j \in 1 .. k : s[j] \in Int
  PROVE  FirstBytes(s, k) \in Seq(Int) /\ Len(FirstBytes(s, k)) = k
         /\ \A j \in 1 .. k : FirstBytes(s, k)[j] = s[j]
BY DEF FirstBytes

(* What is left of an input after its first bytes.                         *)
LEMMA RestType ==
  ASSUME NEW s \in Seq(Int), NEW k \in 0 .. Len(s)
  PROVE  RestOf(s, k) \in Seq(Int) /\ Len(RestOf(s, k)) = Len(s) - k
         /\ \A j \in 1 .. Len(s) - k : RestOf(s, k)[j] = s[k + j]
BY DEF RestOf

(* The bytes a read of the stream returns, by their positions.             *)
LEMMA NextBytesType ==
  ASSUME RdOK, NEW k \in Nat
  PROVE  NextBytes(k) \in Seq(Int) /\ Len(NextBytes(k)) = k
         /\ \A j \in 1 .. k : NextBytes(k)[j] = rd.pos + j
BY DEF NextBytes, RdOK

(* What the parser is given, and what it answers.                          *)
LEMMA SrcType ==
  ASSUME RdOK, NEW t \in Threads, ThreadOK(th[t]), Linked(t), pc[t] = "parse"
  PROVE  /\ Src(t) \in Seq(Int) /\ Len(Src(t)) <= InBufSize
         /\ Len(Src(t)) = IF FromCross(t) THEN Len(rd.cross) ELSE th[t].l.last
<1>1. CASE FromCross(t)
  BY <1>1 DEF Src, RdOK
<1>2. CASE ~ FromCross(t)
  <2> DEFINE k == th[t].inBuf[Links(t) + 1]
  <2>1. k \in Link /\ th[t].l.last \in 0 .. InBufSize /\ InBufSize \in Nat
    <3>1. Links(t) \in Nat /\ th[t].l.last \in 0 .. InBufSize /\ th[t].inBuf \in Seq(Link)
      BY DEF ThreadOK, LocalOK, Links
    <3>2. Links(t) < Len(th[t].inBuf)
      BY <1>2 DEF Linked
    <3> QED BY <3>1, <3>2, MtDecAssumption
  <2> HIDE DEF k
  <2>2. \A j \in 1 .. th[t].l.last : k[j] \in Int
    BY <2>1 DEF Link
  <2>3. Src(t) = FirstBytes(k, th[t].l.last)
    BY <1>2 DEF Src, k
  <2> QED BY <1>2, <2>1, <2>2, <2>3, BytesType
<1> QED BY <1>1, <1>2

(* What the Parse callback answers a thread.                               *)
LEMMA ParsedIs ==
  ASSUME InputOK, RdOK, NEW t \in Threads, ThreadOK(th[t]), Linked(t), pc[t] = "parse"
  PROVE  Answers(Parsed(t), input.bytes, Src(t), th[t].l.outPreSize, OutLimit,
                 ~ OutLimited \/ input.finishMode)
<1>1. Len(Src(t)) \in Nat /\ th[t].l.outPreSize \in Nat
  BY SrcType DEF ThreadOK, LocalOK
<1>2. OutLimit \in Int /\ (~ OutLimited \/ input.finishMode) \in BOOLEAN
  <2>1. /\ input.outSize \in Int /\ input.finishMode \in BOOLEAN /\ rd.outParsed \in Nat
        /\ OutBlockMax \in Nat
    BY Lzma2BlocksAssumption DEF InputOK, RdOK, NoSize
  <2> QED BY <2>1 DEF OutLimit, OutRemains, OutLimited
<1> QED BY <1>1, <1>2, ParseIs DEF Parsed

-----------------------------------------------------------------------------
(* The steps, one by one: a thread that reads, parses and decodes.         *)
LEMMA ErrorsHas == {OK, "PROGRESS", "DATA", "MEM", "FAIL"} \subseteq Errors
BY DEF Errors

(* The progress callback fails once, and then it stays failed.             *)
LEMMA ProgressTypes ==
  ASSUME SyncOK
  PROVE  /\ ProgressResults \subseteq {OK, "PROGRESS"}
         /\ OK \in ProgressResults => sync.res = OK
BY DEF SyncOK, ProgressResults

(* ReadData cannot get a buffer for its link.                              *)
LEMMA ReadNoLinkControl ==
  ASSUME Shape, Control, NEW t \in Threads, ReadNoLink(t)
  PROVE  Good(t)' /\ RdOK' /\ SyncOK' /\ Later
<1>1. Good(t) /\ Flags(t) /\ t \in DOMAIN th /\ t \in DOMAIN pc
  BY DEF Control, Good, ReadNoLink, Working, Reading, Shape
<1>2. RdOK' /\ SyncOK' /\ Later
  BY DEF ReadNoLink, Control, RdOK, SyncOK, Later, caller
<1> DEFINE l == th[t].l
           m == [l EXCEPT !.finish = TRUE, !.isAllocError = TRUE]
<1>3. th' = [th EXCEPT ![t].l = m] /\ pc' = [pc EXCEPT ![t] = "parsed"] /\ sync' = sync
  BY DEF ReadNoLink, SetLocals
<1>4. LocalOK(l)
  BY <1>1 DEF Good, ThreadOK
<1>5. /\ LocalOK(m) /\ m.finish = TRUE /\ m.wasInterrupted = l.wasInterrupted
      /\ m.blockIndex = l.blockIndex /\ m.codeRes = l.codeRes
  BY <1>4 DEF LocalOK
<1>6. l.codeRes = OK /\ (l.wasInterrupted => InterruptedBefore(l.blockIndex))
  BY <1>1 DEF ReadNoLink, Flags
<1> HIDE DEF m, l
<1>7. ThreadOK(th'[t]) /\ th'[t].l = m /\ pc'[t] = "parsed"
  BY <1>1, <1>3, <1>5 DEF Good, ThreadOK
<1>8. Flags(t)'
  BY <1>3, <1>5, <1>6, <1>7 DEF Flags, InterruptedBefore
<1> QED BY <1>2, <1>7, <1>8 DEF Good, Linked

(* ReadData takes the crossBlock instead of reading.                       *)
LEMMA ReadCrossControl ==
  ASSUME Shape, Control, NEW t \in Threads, ReadCross(t)
  PROVE  Good(t)' /\ RdOK' /\ SyncOK' /\ Later
<1>1. Good(t) /\ Flags(t) /\ t \in DOMAIN th /\ t \in DOMAIN pc /\ pc[t] = "read" /\ FromCross(t)
  BY DEF Control, Good, ReadCross, Working, Reading, Shape
<1>2. RdOK' /\ SyncOK' /\ Later
  BY DEF ReadCross, Control, RdOK, SyncOK, Later, caller
<1> DEFINE l == th[t].l
           b == LinkFilled(t, << >>)
           m == [l EXCEPT !.size = Len(rd.cross), !.start = Len(rd.cross)]
<1>3. /\ th' = [th EXCEPT ![t] = [@ EXCEPT !.l = m, !.inBuf = b]]
      /\ pc' = [pc EXCEPT ![t] = "parse"] /\ sync' = sync /\ rd' = rd
  BY <1>1 DEF ReadCross, Good, ThreadOK, LocalOK
<1>4. LocalOK(l) /\ Len(rd.cross) \in Nat
  BY <1>1 DEF Good, ThreadOK, Control, RdOK
<1>5. /\ LocalOK(m) /\ m.wasInterrupted = l.wasInterrupted /\ m.links = l.links
      /\ m.blockIndex = l.blockIndex /\ m.codeRes = l.codeRes
  BY <1>4 DEF LocalOK
<1>6. l.codeRes = OK /\ (l.wasInterrupted => InterruptedBefore(l.blockIndex))
  BY <1>1 DEF Flags
<1>7. b \in Seq(Link)
  <2>1. Links(t) <= Len(th[t].inBuf) /\ ThreadOK(th[t]) /\ << >> \in Seq(Int)
    BY <1>1 DEF Good, Linked
  <2> QED BY <2>1, FillTypes
<1> HIDE DEF m, l, b
<1>8. ThreadOK(th'[t]) /\ th'[t].l = m /\ pc'[t] = "parse"
  BY <1>1, <1>3, <1>5, <1>7 DEF Good, ThreadOK
<1>9. Flags(t)'
  BY <1>3, <1>5, <1>6, <1>8 DEF Flags, InterruptedBefore
<1>10. Linked(t)'
  BY <1>1, <1>3, <1>5, <1>8 DEF Linked, FromCross, Links, l
<1> QED BY <1>2, <1>8, <1>9, <1>10 DEF Good

(* ReadData reads a link, and the progress is reported.                    *)
LEMMA ReadLinkControl ==
  ASSUME Shape, Control, NEW t \in Threads, ReadLink(t)
  PROVE  Good(t)' /\ RdOK' /\ SyncOK' /\ Later
<1>1. Good(t) /\ Flags(t) /\ t \in DOMAIN th /\ t \in DOMAIN pc /\ pc[t] = "read"
      /\ RdOK /\ SyncOK /\ InputOK
  BY DEF Control, Good, ReadLink, Working, Reading, Shape
<1> DEFINE l == th[t].l
           size(k)    == l.size + k
           finish(k, ok) == ~ ok \/ k # InBufSize
           checks(k)  == size(k) # l.checked
           was(k)     == checks(k) /\ InterruptedBefore(l.blockIndex)
           res(k, r)  == IF checks(k) THEN r ELSE OK
           mm(k, ok, r) == [l EXCEPT !.size = size(k), !.checked = size(k), !.last = k,
                                     !.start = IF Links(t) = 0 THEN k ELSE @,
                                     !.finish = finish(k, ok), !.res = res(k, r),
                                     !.wasInterrupted = was(k)]
<1>2. PICK k \in 0 .. InBufSize, ok \in BOOLEAN, r \in ProgressResults :
        /\ ReadMax(k, ok)
        /\ checks(k) \/ r = sync.res
        /\ rd' = [rd EXCEPT !.pos = @ + k, !.finished = @ \/ finish(k, ok),
                            !.res = IF ok THEN @ ELSE "READ"]
        /\ sync' = [sync EXCEPT !.res = r]
        /\ th' = [th EXCEPT ![t] = [@ EXCEPT !.inBuf = LinkFilled(t, NextBytes(k)), !.l = mm(k, ok, r)]]
        /\ pc' = [pc EXCEPT ![t] = IF res(k, r) = OK /\ ~ was(k) THEN "parse" ELSE "parsed"]
  BY DEF ReadLink
<1> DEFINE m == mm(k, ok, r)
           b == LinkFilled(t, NextBytes(k))
<1>3. LocalOK(l) /\ r \in {OK, "PROGRESS"} /\ InBufSize \in Nat /\ k \in Nat
  BY <1>1, ProgressTypes, MtDecAssumption DEF Good, ThreadOK
<1>4. /\ LocalOK(m) /\ m.wasInterrupted = was(k) /\ m.links = l.links /\ m.res = res(k, r)
      /\ m.blockIndex = l.blockIndex /\ m.codeRes = l.codeRes
  <2>1. res(k, r) \in Errors /\ was(k) \in BOOLEAN /\ finish(k, ok) \in BOOLEAN /\ size(k) \in Int
    BY <1>3 DEF Errors, LocalOK, InterruptedBefore
  <2> HIDE DEF res, was, finish, size
  <2> QED BY <1>3, <2>1 DEF LocalOK
<1>5. RdOK'
  <2>1. /\ k <= Len(input.bytes) - rd.pos
    <3>1. Len(input.bytes) \in Nat
      BY <1>1 DEF InputOK, Streams
    <3>2. rd.pos \in 0 .. Len(input.bytes)
      BY <1>1 DEF RdOK
    <3> QED BY <1>2, <1>3, <3>1, <3>2 DEF ReadMax, Smaller
  <2>2. finish(k, ok) \in BOOLEAN /\ input' = input
    BY DEF ReadLink, caller
  <2>3. Len(input.bytes) \in Nat
    BY <1>1 DEF InputOK, Streams
  <2> HIDE DEF finish
  <2> QED BY <1>1, <1>2, <1>3, <2>1, <2>2, <2>3 DEF RdOK
<1>6. SyncOK' /\ Later
  BY <1>1, <1>2, <1>3 DEF SyncOK, Later
<1>7. b \in Seq(Link) /\ Links(t) < Len(b)
  <2>1. Links(t) <= Len(th[t].inBuf) /\ ThreadOK(th[t]) /\ NextBytes(k) \in Seq(Int)
    BY <1>1, <1>3, NextBytesType DEF Good, Linked
  <2> QED BY <2>1, FillTypes
<1>8. /\ th' = [th EXCEPT ![t] = [@ EXCEPT !.inBuf = b, !.l = m]] /\ pc'[t] \in {"parse", "parsed"}
      /\ pc'[t] = "parsed" => m.res # OK \/ m.wasInterrupted
  BY <1>1, <1>2, <1>4
<1>9. l.codeRes = OK /\ (m.wasInterrupted => InterruptedBefore(l.blockIndex))
  BY <1>1, <1>4 DEF Flags
<1>10. sync'.needInterrupt = sync.needInterrupt /\ sync'.index = sync.index
  BY <1>1, <1>2 DEF SyncOK
<1> HIDE DEF m, l, b
<1>11. ThreadOK(th'[t]) /\ th'[t].l = m /\ th'[t].inBuf = b
  BY <1>1, <1>8, <1>4, <1>7 DEF Good, ThreadOK
<1>12. Flags(t)'
  BY <1>4, <1>8, <1>9, <1>10, <1>11 DEF Flags, InterruptedBefore
<1>13. Linked(t)'
  BY <1>4, <1>7, <1>8, <1>11 DEF Linked, Links, l
<1> QED BY <1>5, <1>6, <1>11, <1>12, <1>13 DEF Good

(* The links of a block that begins in the crossBlock.                     *)
LEMMA OwnTypes ==
  ASSUME RdOK, NEW t \in Threads, ThreadOK(th[t]), Linked(t), pc[t] = "parse",
         NEW k \in 0 .. Len(Src(t))
  PROVE  /\ OwnLinks(t, k) \in Seq(Link) /\ Links(t) < Len(OwnLinks(t, k))
         /\ FromCross(t) => FirstBytes(rd.cross, k) \in Seq(Int)
<1>1. CASE FromCross(t)
  <2>1. Links(t) <= Len(th[t].inBuf)
    BY <1>1 DEF FromCross, ThreadOK
  <2>2. FirstBytes(rd.cross, k) \in Seq(Int)
    <3>1. k \in Nat /\ rd.cross \in Seq(Int) /\ k <= Len(rd.cross)
      BY <1>1 DEF Src, RdOK
    <3> QED BY <3>1, BytesType
  <2> QED BY <1>1, <2>1, <2>2, FillTypes DEF OwnLinks
<1>2. CASE ~ FromCross(t)
  BY <1>2 DEF OwnLinks, ThreadOK, Linked
<1> QED BY <1>1, <1>2

(* What each case of the Parse loop stores is of its types.                *)
LEMMA StoreControl ==
  ASSUME Shape, Control, NEW t \in Threads, pc[t] = "parse", NEW k \in 0 .. Len(Src(t)),
         NEW m, NEW next \in {"read", "parsed"}, StoreParsed(t, k, m, next), LocalOK(m),
         m.wasInterrupted = th[t].l.wasInterrupted, m.blockIndex = th[t].l.blockIndex,
         m.codeRes = th[t].l.codeRes,
         next = "read" => m.links = Links(t) + 1,
         next = "parsed" /\ ~ m.finish => m.state = "NEW" /\ m.needWrite /\ m.needCode
  PROVE  Good(t)' /\ SyncOK' /\ Later
<1>1. Good(t) /\ Flags(t) /\ t \in DOMAIN th /\ t \in DOMAIN pc /\ SyncOK /\ RdOK
  BY DEF Control, Good, Working, Reading, Shape
<1>2. SyncOK' /\ Later /\ sync' = sync
  BY <1>1 DEF StoreParsed, SyncOK, Later
<1> DEFINE b == OwnLinks(t, k)
<1>3. /\ th' = [th EXCEPT ![t] = [@ EXCEPT !.l = m, !.inBuf = b]]
      /\ pc' = [pc EXCEPT ![t] = next]
  BY DEF StoreParsed
<1>4. b \in Seq(Link) /\ Links(t) < Len(b) /\ Links(t) \in Nat
  <2>1. ThreadOK(th[t]) /\ Linked(t) /\ Links(t) \in Nat
    BY <1>1 DEF Good, ThreadOK, LocalOK, Links
  <2> QED BY <1>1, <2>1, OwnTypes
<1>5. th[t].l.codeRes = OK /\ (th[t].l.wasInterrupted => InterruptedBefore(th[t].l.blockIndex))
  BY <1>1 DEF Flags
<1> HIDE DEF b
<1>6. ThreadOK(th'[t]) /\ th'[t].l = m /\ th'[t].inBuf = b /\ pc'[t] = next
  BY <1>1, <1>3, <1>4 DEF Good, ThreadOK
<1>7. Flags(t)'
  BY <1>2, <1>5, <1>6 DEF Flags, InterruptedBefore
<1>8. Linked(t)'
  BY <1>4, <1>6 DEF Linked, Links
<1> QED BY <1>2, <1>6, <1>7, <1>8 DEF Good

(* What the parser answered goes into the locals.                          *)
LEMMA AfterParseTypes ==
  ASSUME NEW l, LocalOK(l), NEW p, p.state \in States, p.used \in Nat, p.out \in Nat
  PROVE  LET m == AfterParse(l, p)
         IN  /\ LocalOK(m) /\ m.needWrite = TRUE /\ m.state = p.state
             /\ m.inPreSize = l.inPreSize + p.used /\ m.outPreSize = p.out
             /\ m.wasInterrupted = l.wasInterrupted /\ m.blockIndex = l.blockIndex
             /\ m.codeRes = l.codeRes /\ m.links = l.links /\ m.size = l.size
             /\ m.start = l.start /\ m.res = l.res /\ m.needCode = l.needCode
             /\ m.finish = l.finish
BY DEF AfterParse, LocalOK

(* The crossBlock gets what the parser left, or nothing.                   *)
LEMMA CrossTypes ==
  ASSUME RdOK, NEW t \in Threads, ThreadOK(th[t]), Linked(t), pc[t] = "parse",
         NEW k \in 0 .. Len(Src(t))
  PROVE  LET rest == RestOf(Src(t), k)
         IN  rest \in Seq(Int) /\ Len(rest) = Len(Src(t)) - k /\ Len(rest) <= InBufSize
<1>1. Src(t) \in Seq(Int) /\ Len(Src(t)) <= InBufSize
  BY SrcType
<1> QED BY <1>1, RestType, MtDecAssumption

(* The Parse callback, in each of its cases.                               *)
LEMMA ParseControl ==
  ASSUME Shape, Control, NEW t \in Threads,
         ParseOverflow(t) \/ ParseContinue(t) \/ ParseEnd(t) \/ ParseNew(t)
  PROVE  Good(t)' /\ RdOK' /\ SyncOK' /\ Later
<1> DEFINE p == Parsed(t)
           l == th[t].l
           a == AfterParse(l, p)
           rest == RestOf(Src(t), p.used)
           c == CutSizes(t, a, p.used, Len(rest))
<1>1. pc[t] = "parse"
  BY DEF ParseOverflow, ParseContinue, ParseEnd, ParseNew
<1>2. RdOK /\ InputOK /\ Good(t) /\ Linked(t) /\ ThreadOK(th[t]) /\ LocalOK(l)
  BY DEF Control, Good, ThreadOK
<1>3. p.state \in States /\ p.used \in 0 .. Len(Src(t)) /\ p.out \in Nat
  BY <1>1, <1>2, ParsedIs DEF Answers
<1>4. /\ rest \in Seq(Int) /\ Len(rest) \in Nat /\ Len(rest) <= InBufSize
      /\ Len(Src(t)) \in 0 .. Len(Src(t)) /\ 0 \in 0 .. Len(Src(t)) /\ p.used \in Nat
      /\ << >> \in Seq(Int) /\ Len(<< >>) <= InBufSize
  <2>1. InBufSize \in Nat /\ Len(Src(t)) \in Nat
    BY <1>1, <1>2, SrcType, MtDecAssumption
  <2>2. rest \in Seq(Int) /\ Len(rest) <= InBufSize
    BY <1>1, <1>2, <1>3, CrossTypes
  <2> HIDE DEF rest, p
  <2> QED BY <1>3, <2>1, <2>2
<1> HIDE DEF p, l, rest
<1>5. /\ LocalOK(a) /\ a.needWrite = TRUE /\ a.state = p.state /\ a.links = l.links
      /\ a.wasInterrupted = l.wasInterrupted /\ a.blockIndex = l.blockIndex
      /\ a.codeRes = l.codeRes
  BY <1>2, <1>3, <1>4, AfterParseTypes
<1>6. /\ LocalOK(c) /\ c.needWrite = TRUE /\ c.state = p.state /\ c.links = l.links
      /\ c.wasInterrupted = l.wasInterrupted /\ c.blockIndex = l.blockIndex
      /\ c.codeRes = l.codeRes
  <2> HIDE DEF a
  <2>1. Len(rest) \in Nat /\ p.used \in Nat /\ LocalOK(a)
    BY <1>4, <1>5
  <2>2. /\ LocalOK(c) /\ c.needWrite = a.needWrite /\ c.state = a.state /\ c.links = a.links
        /\ c.wasInterrupted = a.wasInterrupted /\ c.blockIndex = a.blockIndex
        /\ c.codeRes = a.codeRes
    <3>1. c = CutSizes(t, a, p.used, Len(rest))
      OBVIOUS
    <3>2. c = [a EXCEPT !.size = @ - Len(rest), !.start = IF Links(t) = 0 THEN p.used ELSE @]
      BY <3>1 DEF CutSizes
    <3> HIDE DEF c
    <3> QED BY <2>1, <3>2 DEF LocalOK
  <2> HIDE DEF c
  <2> QED BY <1>5, <2>2
<1> HIDE DEF a, c
<1>7. ASSUME input' = input, DOMAIN rd' = DOMAIN rd, rd'.pos = rd.pos, rd'.res = rd.res,
             rd'.finished = rd.finished, rd'.crossBlock \in BOOLEAN, rd'.outParsed \in Nat,
             rd'.cross \in Seq(Int), Len(rd'.cross) <= InBufSize,
             rd'.cross # << >> => rd'.crossBlock
      PROVE  RdOK'
  BY <1>2, <1>7 DEF RdOK
<1>u. input' = input
  BY DEF ParseOverflow, ParseContinue, ParseEnd, ParseNew, StoreParsed, caller
<1>8. CASE ParseOverflow(t)
  <2> DEFINE m == [a EXCEPT !.finish = TRUE, !.overflow = TRUE]
  <2>1. /\ LocalOK(m) /\ m.finish = TRUE /\ m.wasInterrupted = l.wasInterrupted
        /\ m.blockIndex = l.blockIndex /\ m.codeRes = l.codeRes
    BY <1>5 DEF LocalOK
  <2>2. StoreParsed(t, Len(Src(t)), m, "parsed") /\ rd' = [rd EXCEPT !.cross = << >>]
    BY <1>8 DEF ParseOverflow, a, p, l
  <2> HIDE DEF m
  <2>3. Good(t)' /\ SyncOK' /\ Later
    BY <1>1, <1>4, <2>1, <2>2, StoreControl DEF l
  <2>4. RdOK'
    BY <1>2, <1>4, <1>7, <1>u, <2>2 DEF RdOK
  <2> QED BY <2>3, <2>4
<1>9. CASE ParseContinue(t)
  <2> DEFINE m == [a EXCEPT !.links = @ + 1]
  <2>1. /\ LocalOK(m) /\ m.links = Links(t) + 1 /\ m.wasInterrupted = l.wasInterrupted
        /\ m.blockIndex = l.blockIndex /\ m.codeRes = l.codeRes
    BY <1>5 DEF LocalOK, Links, l
  <2>2. StoreParsed(t, p.used, m, "read") /\ rd' = [rd EXCEPT !.cross = << >>]
    BY <1>9 DEF ParseContinue, a, p, l
  <2> HIDE DEF m
  <2>3. Good(t)' /\ SyncOK' /\ Later
    BY <1>1, <1>3, <2>1, <2>2, StoreControl DEF l
  <2>4. RdOK'
    BY <1>2, <1>4, <1>7, <1>u, <2>2 DEF RdOK
  <2> QED BY <2>3, <2>4
<1>10. CASE ParseEnd(t)
  <2> DEFINE m == [c EXCEPT !.needCode = TRUE, !.finish = TRUE]
  <2>1. /\ LocalOK(m) /\ m.finish = TRUE /\ m.wasInterrupted = l.wasInterrupted
        /\ m.blockIndex = l.blockIndex /\ m.codeRes = l.codeRes
    BY <1>6 DEF LocalOK
  <2>2. /\ StoreParsed(t, p.used, m, "parsed")
        /\ rd' = [rd EXCEPT !.cross = IF FromCross(t) THEN rest ELSE @,
                            !.outParsed = IF p.state = "CONTINUE" THEN @ ELSE @ + p.out]
    BY <1>10 DEF ParseEnd, a, c, p, l, rest
  <2> HIDE DEF m
  <2>3. Good(t)' /\ SyncOK' /\ Later
    BY <1>1, <1>3, <2>1, <2>2, StoreControl DEF l
  <2>4. RdOK'
    <3>1. /\ DOMAIN rd' = DOMAIN rd /\ rd'.pos = rd.pos /\ rd'.res = rd.res
          /\ rd'.finished = rd.finished /\ rd'.crossBlock = rd.crossBlock
          /\ rd'.outParsed \in Nat
      BY <1>2, <1>3, <2>2 DEF RdOK
    <3>2. rd'.cross \in Seq(Int) /\ Len(rd'.cross) <= InBufSize
          /\ (rd'.cross # << >> => rd.crossBlock)
      BY <1>2, <1>4, <2>2 DEF RdOK, FromCross
    <3> QED BY <1>2, <1>7, <1>u, <3>1, <3>2 DEF RdOK
  <2> QED BY <2>3, <2>4
<1>11. CASE ParseNew(t)
  <2>0. p.state = "NEW"
    BY <1>11 DEF ParseNew, p
  <2>1. CASE /\ StoreParsed(t, p.used, [c EXCEPT !.needCode = TRUE, !.finish = FALSE], "parsed")
             /\ rd' = [rd EXCEPT !.cross = rest, !.crossBlock = TRUE, !.outParsed = @ + p.out]
    <3> DEFINE m == [c EXCEPT !.needCode = TRUE, !.finish = FALSE]
    <3>1. /\ LocalOK(m) /\ m.state = "NEW" /\ m.needWrite /\ m.needCode
          /\ m.wasInterrupted = l.wasInterrupted
          /\ m.blockIndex = l.blockIndex /\ m.codeRes = l.codeRes
      BY <1>6, <2>0 DEF LocalOK
    <3>2. StoreParsed(t, p.used, m, "parsed")
      BY <2>1
    <3> HIDE DEF m
    <3>3. Good(t)' /\ SyncOK' /\ Later
      BY <1>1, <1>3, <3>1, <3>2, StoreControl DEF l
    <3>4. RdOK'
      BY <1>2, <1>3, <1>4, <1>7, <1>u, <2>1 DEF RdOK
    <3> QED BY <3>3, <3>4
  <2>2. CASE /\ StoreParsed(t, 0, [a EXCEPT !.needCode = TRUE, !.finish = TRUE,
                                            !.isAllocError = TRUE], "parsed")
             /\ rd' = [rd EXCEPT !.outParsed = @ + p.out]
    <3> DEFINE m == [a EXCEPT !.needCode = TRUE, !.finish = TRUE, !.isAllocError = TRUE]
    <3>1. /\ LocalOK(m) /\ m.finish = TRUE /\ m.wasInterrupted = l.wasInterrupted
          /\ m.blockIndex = l.blockIndex /\ m.codeRes = l.codeRes
      BY <1>5 DEF LocalOK
    <3>2. StoreParsed(t, 0, m, "parsed")
      BY <2>2
    <3> HIDE DEF m
    <3>3. Good(t)' /\ SyncOK' /\ Later
      BY <1>1, <1>4, <3>1, <3>2, StoreControl DEF l
    <3>4. RdOK'
      BY <1>2, <1>3, <1>4, <1>7, <1>u, <2>2 DEF RdOK
    <3> QED BY <3>3, <3>4
  <2> QED BY <1>11, <2>1, <2>2 DEF ParseNew, a, c, p, l, rest
<1> QED BY <1>8, <1>9, <1>10, <1>11

(* The PreCode callback, and what is passed when it fails.                 *)
LEMMA PreCodeControl ==
  ASSUME Shape, Control, NEW t \in Threads, PreCode(t)
  PROVE  Good(t)' /\ RdOK' /\ SyncOK' /\ Later /\ (Passer(t) => Passer(t)')
<1> DEFINE l == th[t].l
           looks == pc[t] = "parsed" /\ l.res = OK
           res == IF looks THEN sync.res ELSE l.res
           was == IF looks THEN InterruptedBefore(l.blockIndex) ELSE l.wasInterrupted
           called == res = OK /\ l.needCode /\ ~ was
           mm(code) == [l EXCEPT !.res = res, !.wasInterrupted = was, !.codeRes = code,
                                 !.prepared = called /\ code = OK,
                                 !.coderRes = IF code = "DATA" THEN code ELSE @,
                                 !.needCode = @ /\ code = OK,
                                 !.finish = @ \/ code # OK \/ res # OK \/ was]
<1>1. /\ Good(t) /\ Flags(t) /\ t \in DOMAIN th /\ t \in DOMAIN pc /\ pc[t] \in {"parsed", "pass"}
      /\ SyncOK /\ LocalOK(l)
  BY DEF Control, Good, PreCode, Working, Reading, Shape, ThreadOK
<1>2. RdOK' /\ SyncOK' /\ Later
  BY DEF PreCode, Control, RdOK, SyncOK, Later, caller
<1>3. PICK code \in {OK, "DATA", "MEM"} : SetLocals(t, mm(code))
  BY DEF PreCode
<1> DEFINE m == mm(code)
<1>4. pc' = [pc EXCEPT ![t] = "start_next"] /\ sync' = sync /\ th' = [th EXCEPT ![t].l = m]
  BY <1>3 DEF PreCode, SetLocals
<1>5. res \in Errors /\ was \in BOOLEAN /\ code \in Errors
  BY <1>1 DEF LocalOK, SyncOK, Errors, InterruptedBefore
<1>6. l.wasInterrupted => InterruptedBefore(l.blockIndex)
  BY <1>1 DEF Flags
<1>7. was => InterruptedBefore(l.blockIndex)
  BY <1>6
<1>8. res = OK /\ ~ was /\ ~ l.finish => l.state = "NEW" /\ l.needWrite /\ l.needCode
  BY <1>1, <1>6 DEF Flags, Passer
<1>9. Passer(t) => l.size = 0 /\ ~ l.needCode /\ ~ l.needWrite /\ (res # OK \/ was)
  BY <1>1 DEF Passer
<1> HIDE DEF res, was, l, called
<1>10. /\ LocalOK(m) /\ m.wasInterrupted = was /\ m.blockIndex = l.blockIndex
       /\ m.state = l.state /\ m.needWrite = l.needWrite /\ m.size = l.size
       /\ m.needCode <=> l.needCode /\ code = OK
       /\ m.finish <=> l.finish \/ code # OK \/ res # OK \/ was
  BY <1>1, <1>5 DEF LocalOK
<1> HIDE DEF m
<1>11. ThreadOK(th'[t]) /\ th'[t].l = m /\ pc'[t] = "start_next"
  BY <1>1, <1>4, <1>10 DEF Good, ThreadOK
<1>12. Flags(t)'
  BY <1>4, <1>7, <1>8, <1>10, <1>11 DEF Flags, InterruptedBefore
<1>13. Passer(t) => Passer(t)'
  BY <1>9, <1>10, <1>11 DEF Passer
<1> QED BY <1>2, <1>11, <1>12, <1>13 DEF Good, Linked

(* The next thread is let read, and started if it is new.                  *)
LEMMA StartNextControl ==
  ASSUME Shape, Control, NEW t \in Threads, StartNext(t)
  PROVE  /\ Good(t)' /\ RdOK' /\ SyncOK' /\ Later /\ ~ Passer(t)
         /\ th'[t].l.codeRes = th[t].l.codeRes /\ bi(t)' = bi(t)
         /\ pc'[t] \in {"code", "wait_write"}
<1> DEFINE l == th[t].l
           lets(k) == SetLocals(t, [l EXCEPT !.next = NextThread(t, k)])
<1>1. /\ Good(t) /\ Flags(t) /\ t \in DOMAIN th /\ t \in DOMAIN pc /\ pc[t] = "start_next"
      /\ SyncOK /\ LocalOK(l) /\ RdOK /\ rd.started \in 1 .. MaxThreads /\ ~ l.finish
      /\ pc \in [Threads -> Labels] /\ rd.started \in Int
  BY ThreadZero DEF Control, Good, StartNext, Working, Reading, Shape, ThreadOK, IsRd
<1>2. SyncOK' /\ Later /\ ~ Passer(t) /\ sync' = sync /\ input' = input
  BY <1>1 DEF StartNext, SyncOK, Later, caller, Passer
<1>3. RdOK'
  <2>1. \/ rd' = rd \/ rd' = [rd EXCEPT !.started = @ + 1] \/ rd' = [rd EXCEPT !.limit = rd.started]
    BY DEF StartNext
  <2> QED BY <1>1, <1>2, <2>1 DEF RdOK
<1>4. ASSUME NEW k, lets(k), pc'[t] = AfterStart(l)
      PROVE  /\ Good(t)' /\ th'[t].l.codeRes = l.codeRes /\ bi(t)' = bi(t)
             /\ pc'[t] \in {"code", "wait_write"}
  <2> DEFINE m == [l EXCEPT !.next = NextThread(t, k)]
  <2>1. /\ LocalOK(m) /\ m.wasInterrupted = l.wasInterrupted /\ m.blockIndex = l.blockIndex
        /\ m.state = l.state /\ m.needWrite = l.needWrite /\ m.codeRes = l.codeRes
        /\ m.needCode = l.needCode /\ m.finish = l.finish
    BY <1>1 DEF LocalOK
  <2>2. th' = [th EXCEPT ![t].l = m]
    BY <1>4 DEF SetLocals
  <2> HIDE DEF m
  <2>3. ThreadOK(th'[t]) /\ th'[t].l = m
    BY <1>1, <2>1, <2>2 DEF Good, ThreadOK
  <2>4. pc'[t] \in {"code", "wait_write"}
    BY <1>4 DEF AfterStart
  <2>5. Flags(t)'
    BY <1>1, <1>2, <2>1, <2>3, <2>4 DEF Flags, InterruptedBefore
  <2> QED BY <2>1, <2>3, <2>4, <2>5 DEF Good, Linked, bi
<1>5. CASE SetLocals(t, [l EXCEPT !.finish = TRUE, !.needCode = FALSE, !.threadingError = TRUE])
           /\ pc' = [pc EXCEPT ![t] = "wait_write"]
  <2> DEFINE m == [l EXCEPT !.finish = TRUE, !.needCode = FALSE, !.threadingError = TRUE]
  <2>1. /\ LocalOK(m) /\ m.wasInterrupted = l.wasInterrupted /\ m.blockIndex = l.blockIndex
        /\ m.codeRes = l.codeRes /\ m.finish = TRUE
    BY <1>1 DEF LocalOK
  <2>2. th' = [th EXCEPT ![t].l = m]
    BY <1>5 DEF SetLocals
  <2> HIDE DEF m
  <2>3. ThreadOK(th'[t]) /\ th'[t].l = m
    BY <1>1, <2>1, <2>2 DEF Good, ThreadOK
  <2>4. pc'[t] = "wait_write"
    BY <1>1, <1>5
  <2>5. Flags(t)'
    BY <1>1, <1>2, <2>1, <2>3, <2>4 DEF Flags, InterruptedBefore
  <2> QED BY <1>2, <1>3, <2>1, <2>3, <2>4, <2>5 DEF Good, Linked, bi
<1>6. CASE \E k : lets(k) /\ pc' = [pc EXCEPT ![t] = AfterStart(l)]
  BY <1>1, <1>2, <1>3, <1>4, <1>6
<1>7. CASE /\ lets(rd.started + 1)
           /\ pc' = [pc EXCEPT ![t] = AfterStart(l),
                               ![rd.started] = IF @ = "none" THEN "wait_read" ELSE @]
  <2>1. AfterStart(l) # "none"
    BY DEF AfterStart
  <2>2. pc'[t] = AfterStart(l)
    BY <1>1, <1>7, <2>1
  <2> QED BY <1>2, <1>3, <1>4, <1>7, <2>2
<1> QED BY <1>5, <1>6, <1>7 DEF StartNext

(* No next thread: the block is the last.                                  *)
LEMMA StartNoneControl ==
  ASSUME Shape, Control, NEW t \in Threads, StartNone(t)
  PROVE  Good(t)' /\ RdOK' /\ SyncOK' /\ Later /\ (Passer(t) => Passer(t)')
<1>1. /\ Good(t) /\ Flags(t) /\ t \in DOMAIN pc /\ pc[t] = "start_next"
      /\ th[t].l.finish /\ pc' = [pc EXCEPT ![t] = AfterStart(th[t].l)]
      /\ UNCHANGED <<th, sync, rd, input>>
  BY DEF Control, Good, StartNone, Working, Reading, Shape, caller
<1>2. RdOK' /\ SyncOK' /\ Later
  BY <1>1 DEF Control, RdOK, SyncOK, Later
<1>3. pc'[t] = AfterStart(th[t].l) /\ pc'[t] \in {"code", "wait_write"}
  BY <1>1 DEF AfterStart
<1>4. Flags(t)' /\ Linked(t)' /\ (Passer(t) => Passer(t)')
  BY <1>1, <1>3 DEF Flags, InterruptedBefore, Linked, Passer, AfterStart
<1> QED BY <1>1, <1>2, <1>4 DEF Good

(* MtDec_Interrupt only ever moves the interruption to an earlier block.   *)
LEMMA InterruptsTypes ==
  ASSUME SyncOK, NEW r \in {OK, "PROGRESS"}, NEW i \in Nat, Interrupts(r, i)
  PROVE  /\ SyncOK' /\ Later /\ sync'.needInterrupt /\ sync'.index <= i /\ sync'.res = r
         /\ sync'.index = i \/ (sync.needInterrupt /\ sync'.index = sync.index)
BY DEF SyncOK, Later, Interrupts

(* A block that was to be interrupted still is.                            *)
LEMMA LaterInterrupted ==
  ASSUME SyncOK, SyncOK', Later, NEW i \in Nat, InterruptedBefore(i)
  PROVE  sync'.needInterrupt /\ i > sync'.index
BY DEF SyncOK, Later, InterruptedBefore

(* What the Code callback changes, and what it does not.                   *)
CodedLike(m, l) ==
  /\ LocalOK(m) /\ m.blockIndex = l.blockIndex /\ m.finish = l.finish /\ m.state = l.state
  /\ m.needWrite = l.needWrite /\ m.needCode = l.needCode

(* How much of its input Lzma2Dec_DecodeToDic uses is a number.            *)
LEMMA DecodeUses ==
  ASSUME NEW bytes, NEW src, Len(src) \in Nat, NEW d, NEW limit, NEW any
  PROVE  \E k \in Nat : LET e == Decode(bytes, src, d, limit, any)
                        IN  e.out = Output(bytes, src, k) /\ e.used \in Int
<1> DEFINE D(k) == d + NumData(bytes, src, k)
           full(k) == limit # NoSize /\ D(k) = limit
           kind(k) == IF k > Len(src) THEN "more" ELSE bytes[src[k]]
           Stops(k) == kind(k) \in {"more", "end", "bad", "err"} \/ full(k)
           stops == {k \in 1 .. Len(src) + 1 : Stops(k)}
           s == Min(stops)
           stopped == (full(s) /\ any) \/ kind(s) = "more"
           e == Decode(bytes, src, d, limit, any)
<1>1. e.out = Output(bytes, src, s) /\ e.used = IF stopped THEN s - 1 ELSE s
  BY DEF Decode
<1>2. s \in Nat
  <2>1. Len(src) + 1 \in stops
    <3>1. kind(Len(src) + 1) = "more"
      OBVIOUS
    <3> HIDE DEF kind, full
    <3> QED BY <3>1
  <2>2. stops \subseteq Nat /\ stops # {}
    <3> HIDE DEF Stops
    <3> QED BY <2>1
  <2> HIDE DEF stops
  <2> QED BY <2>2, MinIs
<1> HIDE DEF s, stopped, e
<1>3. e.used \in Int
  BY <1>1, <1>2
<1> QED BY <1>1, <1>2, <1>3 DEF e

(* The Code callback's place in the block is a number.                     *)
LEMMA CodedTypes ==
  ASSUME NEW t \in Threads, LocalOK(th[t].l)
  PROVE  /\ Coded(t).pos \in Int
         /\ \E s : \E k \in Nat : Coded(t).buf = th[t].l.outBuf \o Output(input.bytes, s, k)
<1> DEFINE l == th[t].l
           size == IF l.link = 1 THEN l.start ELSE Smaller(InBufSize, l.size - l.inCodeSize)
           src == FirstBytes(th[t].inBuf[l.link], size)
           d == Decode(input.bytes, src, Len(l.outBuf), l.outPreSize, ~ BlockFinished(l))
<1>1. size \in Int
  BY MtDecAssumption DEF LocalOK, Smaller
<1> HIDE DEF size
<1>2. Len(src) \in Nat
  BY <1>1 DEF FirstBytes
<1> HIDE DEF src
<1>3. PICK k \in Nat : d.out = Output(input.bytes, src, k) /\ d.used \in Int
  BY <1>2, DecodeUses
<1>4. Coded(t).pos = l.inCodeSize + d.used /\ Coded(t).buf = l.outBuf \o d.out
  BY DEF Coded, src, size
<1>5. l.inCodeSize \in Int
  BY DEF LocalOK
<1> HIDE DEF d
<1>6. Coded(t).pos \in Int
  BY <1>3, <1>4, <1>5
<1>7. Coded(t).buf = th[t].l.outBuf \o Output(input.bytes, src, k)
  BY <1>3, <1>4
<1> HIDE DEF src
<1> QED BY <1>6, <1>7

(* The Code callback: what it fails with interrupts the later blocks.      *)
LEMMA CodeControl ==
  ASSUME Shape, Control, NEW t \in Threads, CodeFails(t) \/ CodeLink(t) \/ CodeUnprepared(t)
  PROVE  /\ Good(t)' /\ RdOK' /\ SyncOK' /\ Later /\ ~ Passer(t)
         /\ \/ sync'.needInterrupt = sync.needInterrupt /\ sync'.index = sync.index
            \/ /\ sync'.needInterrupt /\ th'[t].l.codeRes # OK
               /\ \/ sync'.index = bi(t)
                  \/ sync.needInterrupt /\ sync'.index = sync.index
         /\ sync'.res = OK => sync.res = OK
         /\ th[t].l.codeRes # OK => th'[t].l.codeRes # OK
<1> DEFINE l == th[t].l
           c == Coded(t)
<1>1. /\ Good(t) /\ Flags(t) /\ t \in DOMAIN th /\ t \in DOMAIN pc /\ pc[t] = "code"
      /\ SyncOK /\ LocalOK(l) /\ RdOK /\ UNCHANGED <<rd, input>> /\ ~ Passer(t)
      /\ sync.res \in {OK, "PROGRESS"} /\ l.blockIndex \in Nat /\ bi(t) = l.blockIndex
  BY DEF Control, Good, CodeFails, CodeLink, CodeUnprepared, Working, Reading, Shape, ThreadOK,
         caller, Passer, SyncOK, LocalOK, bi
<1>2. RdOK'
  BY <1>1 DEF RdOK
<1>p. c.pos \in Int
  BY <1>1, CodedTypes
<1> HIDE DEF l, c
<1>3. /\ CodedLike(AfterCode(l, c), l) /\ AfterCode(l, c).wasInterrupted = l.wasInterrupted
      /\ AfterCode(l, c).codeRes = l.codeRes
  BY <1>1, <1>p DEF AfterCode, LocalOK, CodedLike
<1> DEFINE a == AfterCode(l, c)
<1> HIDE DEF a
<1>4. ASSUME NEW m, CodedLike(m, l), th' = [th EXCEPT ![t].l = m],
             pc' = [pc EXCEPT ![t] = pc'[t]], pc'[t] \in {"code", "wait_write"},
             SyncOK', Later, m.wasInterrupted => InterruptedBefore(l.blockIndex)
      PROVE  Good(t)' /\ th'[t].l = m
  <2>1. ThreadOK(th'[t]) /\ th'[t].l = m
    BY <1>1, <1>4 DEF Good, ThreadOK, CodedLike
  <2>2. m.wasInterrupted => sync'.needInterrupt /\ m.blockIndex > sync'.index
    BY <1>1, <1>4, LaterInterrupted DEF CodedLike
  <2>3. Flags(t)'
    BY <1>1, <1>4, <2>1, <2>2 DEF Flags, InterruptedBefore, CodedLike, l
  <2> QED BY <1>4, <2>1, <2>3 DEF Good, Linked
<1>5. l.wasInterrupted => InterruptedBefore(l.blockIndex)
  BY <1>1 DEF Flags, l
<1>6. CASE CodeFails(t)
  <2> DEFINE m == [a EXCEPT !.codeRes = IF c.ok THEN "FAIL" ELSE "DATA",
                            !.coderRes = IF c.ok THEN OK ELSE "DATA"]
  <2>1. CodedLike(m, l) /\ m.wasInterrupted = l.wasInterrupted /\ m.codeRes # OK
    BY <1>3 DEF LocalOK, Errors, CodedLike, OK, a
  <2>2. /\ th' = [th EXCEPT ![t].l = m] /\ pc' = [pc EXCEPT ![t] = "wait_write"]
        /\ Interrupts(sync.res, l.blockIndex)
    BY <1>6 DEF CodeFails, SetLocals, a, c, l
  <2> HIDE DEF m
  <2>3. /\ SyncOK' /\ Later /\ sync'.needInterrupt /\ sync'.res = sync.res
        /\ \/ sync'.index = l.blockIndex
           \/ (sync.needInterrupt /\ sync'.index = sync.index)
    BY <1>1, <2>2, InterruptsTypes
  <2>4. Good(t)' /\ th'[t].l = m
    <3>1. pc' = [pc EXCEPT ![t] = pc'[t]] /\ pc'[t] \in {"code", "wait_write"}
      BY <1>1, <2>2
    <3> QED BY <1>4, <1>5, <2>1, <2>2, <2>3, <3>1
  <2> QED BY <1>1, <1>2, <2>1, <2>3, <2>4
<1>7. CASE CodeLink(t)
  <2>1. CASE c.stop
    <3>1. /\ th' = [th EXCEPT ![t].l = a] /\ pc' = [pc EXCEPT ![t] = "wait_write"] /\ sync' = sync
      BY <1>7, <2>1 DEF CodeLink, SetLocals, a, c, l
    <3>2. SyncOK' /\ Later
      BY <1>1, <3>1 DEF SyncOK, Later
    <3>3. CodedLike(a, l) /\ a.wasInterrupted = l.wasInterrupted /\ a.codeRes = l.codeRes
      BY <1>3 DEF a
    <3>4. Good(t)' /\ th'[t].l = a
      <4>1. pc' = [pc EXCEPT ![t] = pc'[t]] /\ pc'[t] \in {"code", "wait_write"}
        BY <1>1, <3>1
      <4> QED BY <1>4, <1>5, <3>1, <3>2, <3>3, <4>1
    <3> QED BY <1>1, <1>2, <3>1, <3>2, <3>3, <3>4 DEF l
  <2>2. CASE ~ c.stop
    <3> DEFINE was == InterruptedBefore(l.blockIndex)
    <3>1. PICK r \in ProgressResults :
            /\ sync' = [sync EXCEPT !.res = r]
            /\ SetLocals(t, [a EXCEPT !.res = r, !.wasInterrupted = was])
            /\ pc' = [pc EXCEPT ![t] = IF r = OK /\ ~ was THEN "code" ELSE "wait_write"]
      BY <1>7, <2>2 DEF CodeLink, a, c, l
    <3> DEFINE m == [a EXCEPT !.res = r, !.wasInterrupted = was]
    <3>2. r \in {OK, "PROGRESS"} /\ (r = OK => sync.res = OK) /\ was \in BOOLEAN
      BY <1>1, ProgressTypes DEF InterruptedBefore, SyncOK
    <3>3. th' = [th EXCEPT ![t].l = m]
      BY <3>1 DEF SetLocals
    <3>4. /\ SyncOK' /\ Later /\ sync'.res = r
          /\ sync'.needInterrupt = sync.needInterrupt /\ sync'.index = sync.index
      BY <1>1, <3>1, <3>2 DEF SyncOK, Later
    <3>5. CodedLike(m, l) /\ m.wasInterrupted = was /\ m.codeRes = l.codeRes
      <4> HIDE DEF was
      <4> QED BY <1>3, <3>2 DEF LocalOK, Errors, CodedLike, OK, a
    <3> HIDE DEF m
    <3>6. Good(t)' /\ th'[t].l = m
      <4>1. pc' = [pc EXCEPT ![t] = pc'[t]] /\ pc'[t] \in {"code", "wait_write"}
        BY <1>1, <3>1
      <4> QED BY <1>4, <3>3, <3>4, <3>5, <4>1
    <3> QED BY <1>1, <1>2, <3>2, <3>4, <3>5, <3>6 DEF l
  <2> QED BY <2>1, <2>2
<1>8. CASE CodeUnprepared(t)
  <2>0. pc' = [pc EXCEPT ![t] = "wait_write"]
    BY <1>8 DEF CodeUnprepared
  <2>p. pc' = [pc EXCEPT ![t] = pc'[t]] /\ pc'[t] = "wait_write"
    BY <1>1, <2>0
  <2>1. CASE /\ SetLocals(t, [l EXCEPT !.codeRes = "DATA", !.coderRes = "DATA"])
             /\ Interrupts(sync.res, l.blockIndex)
    <3> DEFINE m == [l EXCEPT !.codeRes = "DATA", !.coderRes = "DATA"]
    <3>1. CodedLike(m, l) /\ m.wasInterrupted = l.wasInterrupted /\ m.codeRes # OK
      BY <1>1 DEF LocalOK, Errors, CodedLike, OK
    <3>2. th' = [th EXCEPT ![t].l = m]
      BY <2>1 DEF SetLocals
    <3> HIDE DEF m
    <3>3. /\ SyncOK' /\ Later /\ sync'.needInterrupt /\ sync'.res = sync.res
          /\ \/ sync'.index = l.blockIndex
             \/ (sync.needInterrupt /\ sync'.index = sync.index)
      BY <1>1, <2>1, InterruptsTypes
    <3>4. Good(t)' /\ th'[t].l = m
      BY <1>4, <1>5, <3>1, <3>2, <3>3, <2>p
    <3> QED BY <1>1, <1>2, <3>1, <3>3, <3>4
  <2>2. CASE UNCHANGED <<th, sync>>
    <3>1. SyncOK' /\ Later
      BY <1>1, <2>2 DEF SyncOK, Later
    <3>2. Good(t)'
      BY <1>1, <2>2, <2>p DEF Good, Linked, Flags, InterruptedBefore
    <3> QED BY <1>1, <1>2, <2>2, <3>1, <3>2
  <2> QED BY <1>8, <2>1, <2>2 DEF CodeUnprepared, l
<1> QED BY <1>6, <1>7, <1>8

-----------------------------------------------------------------------------
(* The locals of a new iteration.                                          *)
LEMMA FreshTypes == LocalOK(Fresh) /\ ~ Fresh.wasInterrupted /\ Fresh.codeRes = OK
BY MtDecAssumption DEF LocalOK, Fresh, Errors, States

(* A new iteration: a thread that has not to decode passes.                *)
LEMMA WaitReadControl ==
  ASSUME Shape, Control, NEW t \in Threads, WaitRead(t), ~ exitThread
  PROVE  /\ Good(t)' /\ RdOK' /\ SyncOK' /\ Later
         /\ th'[t].l.codeRes = OK /\ bi(t)' = rd.blockIndex
         /\ sync'.needInterrupt = sync.needInterrupt /\ sync'.index = sync.index
         /\ sync'.res = OK => sync.res = OK
         /\ InterruptedBefore(rd.blockIndex) \/ sync.res # OK => Passer(t)'
<1>1. /\ pc[t] = "wait_read" /\ t \in DOMAIN th /\ t \in DOMAIN pc /\ Good(t)
      /\ SyncOK /\ RdOK /\ rd.blockIndex \in Nat /\ input' = input
      /\ rd' = [rd EXCEPT !.blockIndex = @ + 1]
  BY DEF WaitRead, Shape, Control, IsRd, caller
<1> DEFINE was == InterruptedBefore(rd.blockIndex)
<1>2. PICK r \in ProgressResults :
        /\ sync' = [sync EXCEPT !.res = r]
        /\ SetLocals(t, [Fresh EXCEPT !.blockIndex = rd.blockIndex, !.res = r,
                                      !.wasInterrupted = was, !.finish = rd.finished])
        /\ pc' = [pc EXCEPT ![t] = IF r = OK /\ ~ was THEN "read" ELSE "pass"]
  BY DEF WaitRead
<1>3. r \in {OK, "PROGRESS"} /\ (r = OK => sync.res = OK) /\ was \in BOOLEAN
      /\ rd.finished \in BOOLEAN
  BY <1>1, ProgressTypes DEF InterruptedBefore, SyncOK, RdOK
<1>4. SyncOK' /\ Later /\ sync'.needInterrupt = sync.needInterrupt /\ sync'.index = sync.index
      /\ sync'.res = r
  BY <1>1, <1>2, <1>3 DEF SyncOK, Later
<1>5. RdOK'
  BY <1>1 DEF RdOK
<1> DEFINE m == [Fresh EXCEPT !.blockIndex = rd.blockIndex, !.res = r,
                              !.wasInterrupted = was, !.finish = rd.finished]
<1>6. /\ th' = [th EXCEPT ![t].l = m]
      /\ pc'[t] = IF r = OK /\ ~ was THEN "read" ELSE "pass"
  BY <1>1, <1>2 DEF SetLocals
<1>7. was <=> sync.needInterrupt /\ rd.blockIndex > sync.index
  BY DEF InterruptedBefore
<1> HIDE DEF was
<1>8. /\ LocalOK(m) /\ m.wasInterrupted = was /\ m.blockIndex = rd.blockIndex /\ m.res = r
      /\ m.codeRes = OK /\ m.size = 0 /\ ~ m.needCode /\ ~ m.needWrite /\ m.links = 0
  BY <1>1, <1>3, FreshTypes DEF LocalOK, Fresh, Errors
<1> HIDE DEF m
<1>9. ThreadOK(th'[t]) /\ th'[t].l = m
  BY <1>1, <1>6, <1>8 DEF Good, ThreadOK
<1>10. pc'[t] = "pass" => Passer(t)'
  BY <1>6, <1>8, <1>9 DEF Passer
<1>11. Flags(t)'
  BY <1>4, <1>6, <1>7, <1>8, <1>9, <1>10 DEF Flags, InterruptedBefore
<1>12. Linked(t)'
  <2>1. Len(th'[t].inBuf) \in Nat
    BY <1>9 DEF ThreadOK
  <2> QED BY <2>1, <1>6, <1>8, <1>9 DEF Linked, Links
<1>13. InterruptedBefore(rd.blockIndex) \/ sync.res # OK => Passer(t)'
  BY <1>3, <1>6, <1>7, <1>10 DEF InterruptedBefore
<1> QED BY <1>3, <1>4, <1>5, <1>8, <1>9, <1>11, <1>12, <1>13 DEF Good, bi

-----------------------------------------------------------------------------
(* What the Write callback answers.                                        *)
LEMMA WriteAnswers ==
  ASSUME NEW l, LocalOK(l), NEW toStream \in BOOLEAN, NEW cb \in WriteResults(l, toStream)
  PROVE  \/ ~ l.needWrite /\ cb.res = l.res /\ cb.cont = ~ l.finish /\ cb.recode
         \/ l.needWrite /\ ~ toStream /\ cb.res = OK /\ ~ cb.cont /\ cb.recode
         \/ l.needWrite /\ toStream /\ cb.res = "FAIL" /\ ~ cb.cont /\ cb.recode
         \/ /\ l.needWrite /\ toStream /\ cb.res = OK /\ ~ cb.recode
            /\ cb.cont <=> l.state \in {"CONTINUE", "NEW"}
         \/ l.needWrite /\ toStream /\ cb.res = "WRITE" /\ ~ cb.cont /\ ~ cb.recode
<1> DEFINE wrote(res, bytes, cont) ==
             [res |-> res, cont |-> cont, recode |-> FALSE, used |-> l.inCodeSize,
              out |-> [bytes |-> out.bytes \o bytes, failed |-> out.failed \/ res # OK]]
<1>1. CASE ~ l.needWrite
  BY <1>1 DEF WriteResults, Kept
<1>2. CASE l.needWrite /\ ~ toStream
  BY <1>2 DEF WriteResults, Kept
<1>3. CASE l.needWrite /\ toStream
  <2>1. \/ cb = [Kept("FAIL", FALSE) EXCEPT !.used = l.inCodeSize]
        \/ cb = wrote(OK, l.outBuf, l.state \in {"CONTINUE", "NEW"})
        \/ \E k : cb = wrote("WRITE", FirstBytes(l.outBuf, k), FALSE)
    BY <1>3 DEF WriteResults
  <2>2. CASE cb = [Kept("FAIL", FALSE) EXCEPT !.used = l.inCodeSize]
    BY <1>3, <2>2 DEF Kept
  <2>3. CASE cb = wrote(OK, l.outBuf, l.state \in {"CONTINUE", "NEW"})
    <3>1. /\ cb.res = OK /\ ~ cb.recode
          /\ cb.cont = (l.state \in {"CONTINUE", "NEW"})
      BY <2>3
    <3> QED BY <1>3, <3>1
  <2>4. CASE \E k : cb = wrote("WRITE", FirstBytes(l.outBuf, k), FALSE)
    BY <1>3, <2>4
  <2> QED BY <2>1, <2>2, <2>3, <2>4
<1> QED BY <1>1, <1>2, <1>3

(* What a writer records of its block in the shared state.                 *)
LEMMA RecordedIs ==
  ASSUME WrOK, NEW l, LocalOK(l)
  PROVE  /\ DOMAIN Recorded(l) = DOMAIN wr
         /\ Recorded(l).interrupted \in BOOLEAN /\ Recorded(l).allocError \in BOOLEAN
         /\ Recorded(l).threadingError \in BOOLEAN /\ Recorded(l).overflow \in BOOLEAN
         /\ Recorded(l).filledStart = wr.filledStart /\ Recorded(l).numFilled = wr.numFilled
         /\ wr.interrupted \/ l.codeRes # OK \/ LeftToOther(l) => Recorded(l).interrupted
<1>1. NoMemory(l) \in BOOLEAN /\ LeftToOther(l) \in BOOLEAN
  BY DEF LocalOK, NoMemory, LeftToOther
<1> HIDE DEF NoMemory, LeftToOther
<1> QED BY <1>1 DEF Recorded, WrOK, LocalOK

-----------------------------------------------------------------------------
(* What a thread that has written, or kept its input, leaves.              *)
Writes(t, cont) ==
  LET l == th[t].l
      f == wr.filledStart
      m == wr.numFilled
  IN  /\ HandOn(t, cont)
      /\ wr.interrupted \/ l.codeRes # OK => wr'.interrupted
      /\ sync'.res = OK => sync.res = OK
      /\ \/ sync'.needInterrupt = sync.needInterrupt /\ sync'.index = sync.index
         \/ /\ sync'.needInterrupt /\ sync'.index <= bi(t)
            /\ sync'.res = OK => wr'.interrupted \/ InterruptedBefore(bi(t))
      /\ wr'.filledStart \in {f, t} /\ wr'.numFilled \in {m, m + 1}
      /\ m > 0 => wr'.filledStart = f
      /\ m = 0 /\ wr'.numFilled = 1 => wr'.filledStart = t
      /\ Passer(t) => wr'.numFilled = m /\ ~ cont
      /\ ~ l.finish /\ m > 0 /\ (wr.interrupted \/ sync.res # OK) => wr'.numFilled = m + 1
      /\ ~ l.finish /\ m = 0 /\ wr'.numFilled = 1 =>
           sync'.needInterrupt /\ sync'.index <= bi(t)
      /\ l.finish /\ cont =>
           wr'.numFilled = m /\ ~ wr.interrupted /\ (sync.res # OK => sync'.res # OK)

(* The Write step: what it stores, and whom it lets write.                 *)
LEMMA WriteControl ==
  ASSUME Shape, Control, wr.numFilled \in Nat, NEW t \in Threads, Write(t)
  PROVE  /\ Good(t)' /\ RdOK' /\ SyncOK' /\ WrOK' /\ Later
         /\ \E cont : Writes(t, cont)
<1> DEFINE l == th[t].l
           was == l.wasInterrupted \/ wr.interrupted
           w == Recorded(l)
           wants == l.needWrite /\ (wr.interrupted \/ ~ LeftToOther(l))
           res(r) == IF l.needCode THEN r ELSE l.res
           failed(cb) == l.needWrite /\ cb.res # OK
           w1(cb) == [w EXCEPT !.interrupted = @ \/ failed(cb), !.inProcessed = @ + cb.used]
           keep(cb) == /\ cb.recode
                       /\ \/ ~ l.needCode \/ cb.res # OK \/ w1(cb).interrupted
                          \/ l.codeRes # OK \/ was \/ w.numFilled # 0
<1>1. /\ Good(t) /\ Flags(t) /\ t \in DOMAIN th /\ t \in DOMAIN pc /\ pc[t] = "wait_write"
      /\ SyncOK /\ WrOK /\ LocalOK(l) /\ RdOK /\ UNCHANGED <<rd, input>>
      /\ l.blockIndex \in Nat /\ bi(t) = l.blockIndex
  BY DEF Control, Good, Write, Working, Reading, Shape, ThreadOK, caller, LocalOK, bi
<1>2. RdOK'
  BY <1>1 DEF RdOK
<1>3. PICK r \in IF l.needCode THEN ProgressResults ELSE {sync.res} :
        \E cb \in WriteResults([l EXCEPT !.res = res(r)], res(r) = OK /\ wants /\ ~ was) :
          /\ wr' = Filled(t, w1(cb), keep(cb))
          /\ th' = IF keep(cb) /\ (l.size # 0 \/ ~ l.finish)
                   THEN [th EXCEPT ![t] = [@ EXCEPT !.l = Fresh, !.start = l.start,
                                                    !.size = l.size]]
                   ELSE [th EXCEPT ![t].l = Fresh]
          /\ IF failed(cb) \/ (l.needWrite /\ ~ cb.cont /\ ~ l.finish)
             THEN Interrupts(r, l.blockIndex)
             ELSE sync' = [sync EXCEPT !.res = r]
          /\ HandOn(t, cb.cont)
  BY DEF Write
<1> DEFINE lr == [l EXCEPT !.res = res(r)]
           toStream == res(r) = OK /\ wants /\ ~ was
<1>4. PICK cb \in WriteResults(lr, toStream) :
          /\ wr' = Filled(t, w1(cb), keep(cb))
          /\ th' = IF keep(cb) /\ (l.size # 0 \/ ~ l.finish)
                   THEN [th EXCEPT ![t] = [@ EXCEPT !.l = Fresh, !.start = l.start,
                                                    !.size = l.size]]
                   ELSE [th EXCEPT ![t].l = Fresh]
          /\ IF failed(cb) \/ (l.needWrite /\ ~ cb.cont /\ ~ l.finish)
             THEN Interrupts(r, l.blockIndex)
             ELSE sync' = [sync EXCEPT !.res = r]
          /\ HandOn(t, cb.cont)
  BY <1>3
<1>5. r \in {OK, "PROGRESS"} /\ (r = OK => sync.res = OK) /\ (sync.res # OK => r # OK)
  BY <1>1, <1>3, ProgressTypes DEF SyncOK
<1>6. /\ LocalOK(lr) /\ lr.needWrite = l.needWrite /\ lr.finish = l.finish /\ lr.state = l.state
      /\ lr.res = res(r)
  BY <1>1, <1>5 DEF LocalOK, Errors
<1>7. toStream \in BOOLEAN
  OBVIOUS
<1> HIDE DEF lr, toStream
<1>8. \/ ~ l.needWrite /\ cb.res = res(r) /\ cb.cont = ~ l.finish /\ cb.recode
      \/ l.needWrite /\ ~ toStream /\ cb.res = OK /\ ~ cb.cont /\ cb.recode
      \/ l.needWrite /\ toStream /\ cb.res = "FAIL" /\ ~ cb.cont /\ cb.recode
      \/ /\ l.needWrite /\ toStream /\ cb.res = OK /\ ~ cb.recode
         /\ cb.cont <=> l.state \in {"CONTINUE", "NEW"}
      \/ l.needWrite /\ toStream /\ cb.res = "WRITE" /\ ~ cb.cont /\ ~ cb.recode
  BY <1>6, <1>7, WriteAnswers
<1>9. /\ DOMAIN w = DOMAIN wr
      /\ w.interrupted \in BOOLEAN /\ w.allocError \in BOOLEAN
      /\ w.threadingError \in BOOLEAN /\ w.overflow \in BOOLEAN
      /\ w.filledStart = wr.filledStart /\ w.numFilled = wr.numFilled
      /\ wr.interrupted \/ l.codeRes # OK \/ LeftToOther(l) => w.interrupted
  BY <1>1, RecordedIs
<1> DEFINE adds == keep(cb) /\ (l.size # 0 \/ ~ l.finish)
           told == failed(cb) \/ (l.needWrite /\ ~ cb.cont /\ ~ l.finish)
           k == w1(cb)
<1>10. /\ DOMAIN k = DOMAIN wr /\ (k.interrupted <=> w.interrupted \/ failed(cb))
       /\ k.allocError = w.allocError /\ k.threadingError = w.threadingError
       /\ k.overflow = w.overflow /\ k.filledStart = wr.filledStart /\ k.numFilled = wr.numFilled
       /\ k.interrupted \in BOOLEAN
  <2> HIDE DEF w
  <2> QED BY <1>9, <1>1 DEF WrOK
<1>11. keep(cb) <=> /\ cb.recode
                    /\ \/ ~ l.needCode \/ cb.res # OK \/ k.interrupted
                       \/ l.codeRes # OK \/ was \/ wr.numFilled # 0
  BY <1>9
<1>12. wr' = Filled(t, k, keep(cb))
  BY <1>4
<1> HIDE DEF k, w
<1>13. /\ WrOK' /\ (wr'.interrupted <=> w.interrupted \/ failed(cb))
       /\ wr'.filledStart = IF keep(cb) /\ wr.numFilled = 0 THEN t ELSE wr.filledStart
       /\ wr'.numFilled = IF adds THEN wr.numFilled + 1 ELSE wr.numFilled
  <2>1. CASE keep(cb)
    <3>1. wr' = [k EXCEPT !.filledStart = IF wr.numFilled = 0 THEN t ELSE wr.filledStart,
                          !.numFilled = IF l.size # 0 \/ ~ l.finish THEN wr.numFilled + 1
                                        ELSE wr.numFilled]
      <4> HIDE DEF keep
      <4> QED BY <1>10, <1>12, <2>1 DEF Filled
    <3> HIDE DEF keep, failed
    <3> QED BY <1>1, <1>9, <1>10, <2>1, <3>1 DEF WrOK
  <2>2. CASE ~ keep(cb)
    <3>1. wr' = k
      <4> HIDE DEF keep
      <4> QED BY <1>12, <2>2 DEF Filled
    <3> HIDE DEF keep, failed
    <3> QED BY <1>1, <1>9, <1>10, <2>2, <3>1 DEF WrOK
  <2> QED BY <2>1, <2>2
<1>14. /\ SyncOK' /\ Later /\ sync'.res = r
       /\ ~ told => sync'.needInterrupt = sync.needInterrupt /\ sync'.index = sync.index
       /\ told => sync'.needInterrupt /\ sync'.index <= l.blockIndex
  <2>1. CASE told
    <3>1. Interrupts(r, l.blockIndex)
      BY <1>4, <2>1
    <3> HIDE DEF told, l
    <3> QED BY <1>1, <1>5, <2>1, <3>1, InterruptsTypes
  <2>2. CASE ~ told
    <3>1. sync' = [sync EXCEPT !.res = r]
      BY <1>4, <2>2
    <3> HIDE DEF told, l
    <3> QED BY <1>1, <1>5, <2>2, <3>1 DEF SyncOK, Later
  <2> QED BY <2>1, <2>2
<1>15. Good(t)'
  <2>1. /\ th'[t].l = Fresh /\ th'[t].inBuf = th[t].inBuf /\ DOMAIN th'[t] = DOMAIN th[t]
        /\ th'[t].start \in {l.start, th[t].start} /\ th'[t].size \in {l.size, th[t].size}
    <3>1. \/ th' = [th EXCEPT ![t] = [@ EXCEPT !.l = Fresh, !.start = l.start, !.size = l.size]]
          \/ th' = [th EXCEPT ![t].l = Fresh]
      BY <1>4
    <3> HIDE DEF l
    <3> QED BY <1>1, <3>1 DEF Good, ThreadOK
  <2>2. ThreadOK(th'[t])
    BY <1>1, <2>1, FreshTypes DEF Good, ThreadOK, LocalOK
  <2>3. pc'[t] \in {"none", "wait_read"}
    BY <1>1, <1>4 DEF HandOn
  <2> QED BY <2>2, <2>3 DEF Good, Linked, Working, Reading
<1>16. ~ l.finish => l.state = "NEW" /\ l.needWrite /\ l.needCode
  BY <1>1 DEF Flags
<1>17. l.wasInterrupted => InterruptedBefore(bi(t))
  BY <1>1 DEF Flags
<1>18. toStream <=> res(r) = OK /\ wants /\ ~ was
  BY DEF toStream
<1>19. told => (r = OK => wr'.interrupted \/ InterruptedBefore(bi(t)))
  <2>1. CASE failed(cb)
    BY <1>13, <2>1
  <2>2. CASE ~ failed(cb) /\ l.needWrite /\ ~ cb.cont /\ ~ l.finish
    <3>1. ~ toStream /\ l.needCode
      BY <1>8, <1>16, <2>2 DEF OK
    <3>2. r # OK \/ ~ wants \/ was
      BY <1>18, <3>1
    <3>3. ~ wants => LeftToOther(l)
      BY <2>2
    <3> QED BY <1>9, <1>13, <1>17, <3>2, <3>3
  <2> QED BY <2>1, <2>2
<1>20. Passer(t) => wr'.numFilled = wr.numFilled /\ ~ cb.cont
  BY <1>1, <1>8, <1>13 DEF Passer
<1>21. ~ l.finish /\ wr.numFilled > 0 /\ (wr.interrupted \/ sync.res # OK) =>
         wr'.numFilled = wr.numFilled + 1
  BY <1>5, <1>8, <1>11, <1>13, <1>16, <1>18
<1>22. ~ l.finish /\ wr.numFilled = 0 /\ wr'.numFilled = 1 => told
  BY <1>8, <1>13, <1>16
<1>23. l.finish /\ cb.cont =>
         wr'.numFilled = wr.numFilled /\ ~ wr.interrupted /\ (sync.res # OK => sync'.res # OK)
  BY <1>5, <1>8, <1>13, <1>14, <1>18
<1>24. Writes(t, cb.cont)
  <2>1. HandOn(t, cb.cont)
    BY <1>4
  <2>2. wr.interrupted \/ l.codeRes # OK => wr'.interrupted
    BY <1>9, <1>13
  <2>3. /\ wr'.filledStart \in {wr.filledStart, t}
        /\ wr'.numFilled \in {wr.numFilled, wr.numFilled + 1}
        /\ wr.numFilled > 0 => wr'.filledStart = wr.filledStart
        /\ wr.numFilled = 0 /\ wr'.numFilled = 1 => wr'.filledStart = t
    <3> HIDE DEF keep, l
    <3> QED BY <1>13
  <2>4. sync'.res = OK => sync.res = OK
    BY <1>5, <1>14
  <2> HIDE DEF told, keep, failed, adds
  <2>5. \/ sync'.needInterrupt = sync.needInterrupt /\ sync'.index = sync.index
        \/ /\ sync'.needInterrupt /\ sync'.index <= bi(t)
           /\ sync'.res = OK => wr'.interrupted \/ InterruptedBefore(bi(t))
    BY <1>1, <1>14, <1>19
  <2>6. ~ l.finish /\ wr.numFilled = 0 /\ wr'.numFilled = 1 =>
           sync'.needInterrupt /\ sync'.index <= bi(t)
    BY <1>1, <1>14, <1>22
  <2> QED BY <2>1, <2>2, <2>3, <2>4, <2>5, <2>6, <1>20, <1>21, <1>23 DEF Writes
<1> QED BY <1>2, <1>13, <1>14, <1>15, <1>24

-----------------------------------------------------------------------------
(* The threads that keep input are some of the ring's.                     *)
Bounds == wr.filledStart \in 0 .. rd.started - 1 /\ wr.numFilled \in 0 .. rd.started

(* MtDec_Code resets the ring, the interruption and the results.           *)
LEMMA CallControl ==
  ASSUME Shape, Tokens, Control, Call
  PROVE  Control' /\ Bounds' /\ sync' = Sync0 /\ wr' = Wr0
<1>1. /\ rd' = [Rd0 EXCEPT !.limit = input'.threads, !.crossBlock = rd.crossBlock]
      /\ wr' = Wr0 /\ sync' = Sync0 /\ result' = OK /\ calls \in Nat /\ calls < Len(Inputs)
      /\ input' \in Inputs[calls + 1]
      /\ th' = [t \in Threads |->
                  [NewThread EXCEPT !.inBuf = [k \in DOMAIN th[t].inBuf |-> BlankLink]]]
  BY DEF Call, Shape
<1>2. InputOK'
  <2> DEFINE I == [bytes : Streams, outSize : Nat \cup {NoSize}, finishMode : BOOLEAN,
                   threads : 1 .. MaxThreads]
  <2>1. Inputs \in Seq(SUBSET I)
    BY MtDecAssumption
  <2>2. input' \in I
    <3> HIDE DEF I
    <3> QED BY <1>1, <2>1
  <2> QED BY <2>2 DEF InputOK
<1>3. Len(input'.bytes) \in Nat
  BY <1>2 DEF InputOK, Streams
<1>4. RdOK'
  <2>1. rd.crossBlock \in BOOLEAN
    BY DEF Control, RdOK
  <2> QED BY <1>1, <1>3, <2>1, MtDecAssumption DEF Rd0, RdOK
<1>5. WrOK' /\ SyncOK' /\ Bounds'
  BY <1>1 DEF WrOK, SyncOK, Bounds, Wr0, Sync0, Rd0
<1>6. result' \in Errors
  BY <1>1 DEF Errors
<1>7. ASSUME NEW t \in Threads PROVE Good(t)'
  <2>1. th[t].inBuf \in Seq(Link)
    BY DEF Control, Good, ThreadOK
  <2>2. BlankLink \in Link
    BY MtDecAssumption DEF Link, BlankLink, Junk
  <2>3. [k \in DOMAIN th[t].inBuf |-> BlankLink] \in Seq(Link)
    BY <2>1, <2>2
  <2> DEFINE b == [k \in DOMAIN th[t].inBuf |-> BlankLink]
  <2>4. th'[t] = [NewThread EXCEPT !.inBuf = b]
    BY <1>1
  <2> HIDE DEF b
  <2>5. ThreadOK(th'[t])
    BY <2>3, <2>4, FreshTypes DEF NewThread, ThreadOK, b
  <2>6. pc'[t] \in {pc[t], "wait_read"} /\ ~ Working(t) /\ pc[t] \notin {"read", "parse"}
    BY DEF Call, Tokens, Working, Reading, Shape
  <2>7. ~ Working(t)' /\ Linked(t)'
    BY <2>6 DEF Working, Reading, Linked
  <2> QED BY <2>5, <2>7 DEF Good
<1> QED BY <1>1, <1>2, <1>4, <1>5, <1>6, <1>7 DEF Control

(* Steps of the caller while no thread works.                              *)
LEMMA QuietControl ==
  ASSUME Shape, Tokens, Control, UNCHANGED <<input, sync, pc>>,
         mainPc # "run" \/ Ending,
         RdOK', WrOK', result' \in Errors,
         \A t \in Threads : ThreadOK(th'[t])
  PROVE  Control'
<1>1. \A t \in Threads : ~ Working(t)
  BY DEF Tokens, Ending, Shape
<1>2. \A t \in Threads : ~ Working(t)' /\ Linked(t)'
  BY <1>1 DEF Working, Reading, Linked
<1>3. InputOK' /\ SyncOK'
  BY DEF Control, InputOK, SyncOK
<1> QED BY <1>2, <1>3 DEF Control, Good

(* MtDec_Code returns its result to the caller.                            *)
LEMMA CodeReturnsControl ==
  ASSUME Shape, Tokens, Control, Bounds, CodeReturns
  PROVE  Control' /\ Bounds'
<1>1. /\ mainPc = "run" /\ pc[0] = "none"
      /\ UNCHANGED <<input, sync, pc, rd, wr, th>>
  BY DEF CodeReturns
<1>2. Ending
  BY <1>1 DEF Tokens, Round
<1>3. result' \in {result, sync.res, rd.res}
  BY DEF CodeReturns, Return
<1>4. result' \in Errors
  BY <1>3 DEF Control, SyncOK, RdOK, Errors, OK
<1>5. RdOK' /\ WrOK' /\ \A t \in Threads : ThreadOK(th'[t])
  BY <1>1 DEF Control, RdOK, WrOK, Good
<1> QED BY <1>1, <1>2, <1>4, <1>5, QuietControl DEF Bounds

(* The caller prepares the single-threaded decoder.                        *)
LEMMA PrepareControl ==
  ASSUME Shape, Tokens, Control, Bounds, Prepare
  PROVE  Control' /\ Bounds'
<1>1. mainPc # "run" /\ UNCHANGED <<input, sync, pc, wr>>
  BY DEF Prepare
<1>2. rd' = rd \/ (rd.cross = << >> /\ rd' = [rd EXCEPT !.crossBlock = FALSE])
  BY DEF Prepare
<1>3. RdOK' /\ WrOK' /\ rd'.started = rd.started
  BY <1>1, <1>2 DEF Control, RdOK, WrOK
<1>4. result' \in Errors
  BY DEF Prepare, Return, Control, Errors
<1>5. ASSUME NEW t \in Threads PROVE ThreadOK(th'[t])
  <2>1. th'[t] = th[t] \/ th'[t] = [th[t] EXCEPT !.inBuf = << >>]
    BY <1>5 DEF Prepare
  <2>2. ThreadOK(th[t])
    BY DEF Control, Good
  <2>3. CASE th'[t] = th[t]
    BY <2>2, <2>3
  <2>4. CASE th'[t] = [th[t] EXCEPT !.inBuf = << >>]
    <3>1. << >> \in Seq(Link)
      OBVIOUS
    <3>2. PICK x : x = th'[t]
      OBVIOUS
    <3>3. ThreadOK(x)
      BY <2>2, <2>4, <3>1, <3>2 DEF ThreadOK
    <3> QED BY <3>2, <3>3
  <2> QED BY <2>1, <2>3, <2>4
<1> QED BY <1>1, <1>3, <1>4, <1>5, QuietControl DEF Bounds

(* MtDec_Read gives the kept input, then the crossBlock.                   *)
LEMMA MtDec_ReadControl ==
  ASSUME Shape, Tokens, Control, Bounds, MtDec_Read
  PROVE  Control' /\ Bounds'
<1> DEFINE cur   == wr.filledStart
           used  == st.inLim # 0
           empty == used /\ th[cur].size = 0
           t     == IF empty THEN (IF cur + 1 = rd.started THEN 0 ELSE cur + 1) ELSE cur
           links == IF used /\ ~ empty THEN RestOf(th[t].inBuf, 1) ELSE th[t].inBuf
           lim   == IF th[t].start # 0 THEN th[t].start ELSE Smaller(InBufSize, th[t].size)
           freed == IF empty THEN [th EXCEPT ![cur].inBuf = << >>] ELSE th
           last  == empty /\ wr.numFilled = 1
<1>1. mainPc # "run" /\ UNCHANGED <<input, sync, pc, result>>
  BY DEF MtDec_Read
<1>2. /\ rd.started \in 1 .. MaxThreads /\ MaxThreads \in Nat /\ Bounds
      /\ cur \in 0 .. rd.started - 1 /\ cur \in Threads
  BY ThreadZero DEF Shape, IsRd, Bounds, Threads
<1>3. t \in 0 .. rd.started - 1 /\ t \in Threads
  BY <1>2 DEF Threads
<1>4. \A u \in Threads : ThreadOK(th[u])
  BY DEF Control, Good
<1>5. \A u \in Threads : ThreadOK(freed[u]) /\ u \in DOMAIN freed
  BY <1>4, <1>2 DEF ThreadOK, Shape
<1>6. links \in Seq(Link) /\ lim \in Int
  <2>1. th[t].inBuf \in Seq(Link) /\ th[t].start \in Int /\ th[t].size \in Int
    BY <1>3, <1>4 DEF ThreadOK
  <2>2. RestOf(th[t].inBuf, 1) \in Seq(Link)
    BY <2>1 DEF RestOf
  <2>3. InBufSize \in Int
    BY MtDecAssumption
  <2> HIDE DEF t, empty, used
  <2> QED BY <2>1, <2>2, <2>3 DEF Smaller
<1>7. \/ th' = th \/ th' = freed
      \/ th' = [freed EXCEPT ![t] = [freed[t] EXCEPT !.inBuf = links, !.start = 0, !.size = @ - lim]]
  BY DEF MtDec_Read
<1>8. \/ wr' = wr \/ wr' = [wr EXCEPT !.numFilled = 0]
      \/ wr.numFilled # 0 /\ wr' = [wr EXCEPT !.numFilled = @ - 1, !.filledStart = t]
  BY DEF MtDec_Read
<1>9. rd' = rd \/ rd' = [rd EXCEPT !.cross = << >>, !.crossBlock = rd.cross # << >>]
  BY DEF MtDec_Read
<1> HIDE DEF t, links, lim, freed, cur
<1>10. \A u \in Threads : ThreadOK(th'[u])
  <2>1. ASSUME NEW u \in Threads,
               th' = [freed EXCEPT ![t] = [freed[t] EXCEPT !.inBuf = links, !.start = 0,
                                                           !.size = @ - lim]]
        PROVE  ThreadOK(th'[u])
    <3>1. CASE u # t
      BY <1>5, <2>1, <3>1
    <3>2. CASE u = t
      BY <1>5, <1>6, <2>1, <3>2 DEF ThreadOK
    <3> QED BY <3>1, <3>2
  <2> QED BY <1>4, <1>5, <1>7, <2>1
<1>11. RdOK' /\ rd'.started = rd.started
  <2>1. CASE rd' = rd
    BY <1>1, <2>1 DEF Control, RdOK
  <2>2. CASE rd' = [rd EXCEPT !.cross = << >>, !.crossBlock = rd.cross # << >>]
    <3>1. (rd.cross # << >>) \in BOOLEAN
      OBVIOUS
    <3> QED BY <1>1, <2>2, <3>1, MtDecAssumption DEF Control, RdOK
  <2> QED BY <1>9, <2>1, <2>2
<1>12. WrOK' /\ Bounds'
  <2>1. WrOK /\ rd.started \in Nat /\ wr.filledStart \in 0 .. rd.started - 1
        /\ wr.numFilled \in 0 .. rd.started
    BY <1>2 DEF Control, Bounds
  <2>2. CASE wr' = wr
    BY <1>11, <2>1, <2>2 DEF WrOK, Bounds
  <2>3. CASE wr' = [wr EXCEPT !.numFilled = 0]
    BY <1>11, <2>1, <2>3 DEF WrOK, Bounds
  <2>4. CASE wr.numFilled # 0 /\ wr' = [wr EXCEPT !.numFilled = @ - 1, !.filledStart = t]
    BY <1>3, <1>11, <2>1, <2>4 DEF WrOK, Bounds
  <2> QED BY <1>8, <2>2, <2>3, <2>4
<1>13. result' \in Errors
  BY <1>1 DEF Control
<1> QED BY <1>1, <1>10, <1>11, <1>12, <1>13, QuietControl

(* A read does not go beyond the end of the stream.                        *)
LEMMA ReadMaxBounds ==
  ASSUME InputOK, RdOK, NEW k \in Nat, NEW ok \in BOOLEAN, ReadMax(k, ok)
  PROVE  rd.pos + k \in 0 .. Len(input.bytes)
<1>1. Len(input.bytes) \in Nat /\ InBufSize \in Nat
  BY MtDecAssumption DEF InputOK, Streams
<1> QED BY <1>1 DEF RdOK, ReadMax, Smaller

(* The single-threaded decoder reads on from the stream.                   *)
LEMMA StReadControl ==
  ASSUME Shape, Tokens, Control, Bounds, StRead
  PROVE  Control' /\ Bounds'
<1>1. mainPc # "run" /\ UNCHANGED <<input, sync, pc, wr, th, result>>
  BY DEF StRead
<1>2. RdOK' /\ rd'.started = rd.started
  <2>1. CASE rd' = rd
    BY <1>1, <2>1 DEF Control, RdOK
  <2>2. ASSUME NEW k \in 0 .. InBufSize, NEW ok \in BOOLEAN, ReadMax(k, ok),
               rd' = [rd EXCEPT !.pos = @ + k, !.finished = k = 0 \/ ~ ok,
                                !.res = IF ok THEN OK ELSE "READ"]
        PROVE  RdOK' /\ rd'.started = rd.started
    <3>2. rd.pos + k \in 0 .. Len(input.bytes)
      <4>1. k \in Nat
        BY MtDecAssumption
      <4> QED BY <2>2, <4>1, ReadMaxBounds DEF Control
    <3> DEFINE b == k = 0 \/ ~ ok
               r == IF ok THEN OK ELSE "READ"
    <3>3. b \in BOOLEAN /\ r \in {OK, "READ"}
      OBVIOUS
    <3>4. rd' = [rd EXCEPT !.pos = @ + k, !.finished = b, !.res = r]
      BY <2>2
    <3> HIDE DEF b, r
    <3>5. RdOK /\ input' = input
      BY <1>1 DEF Control
    <3>6. /\ DOMAIN rd' = DOMAIN rd /\ rd'.pos = rd.pos + k /\ rd'.finished \in BOOLEAN /\ rd'.res = r
          /\ rd'.crossBlock = rd.crossBlock /\ rd'.cross = rd.cross
          /\ rd'.outParsed = rd.outParsed /\ rd'.started = rd.started
      BY <3>3, <3>4, <3>5 DEF RdOK
    <3>7. rd'.pos \in 0 .. Len(input'.bytes)
      BY <3>2, <3>5, <3>6
    <3>8. DOMAIN rd' = {"blockIndex", "finished", "res", "pos", "crossBlock", "cross", "started",
                        "limit", "outParsed"}
      BY <3>5, <3>6 DEF RdOK
    <3>9. rd'.crossBlock \in BOOLEAN /\ (rd'.cross # << >> => rd'.crossBlock)
      BY <3>5, <3>6 DEF RdOK
    <3>10. /\ rd'.res \in {OK, "READ"} /\ rd'.outParsed \in Nat
           /\ rd'.cross \in Seq(Int) /\ Len(rd'.cross) <= InBufSize
      BY <3>3, <3>5, <3>6 DEF RdOK
    <3> QED BY <3>6, <3>7, <3>8, <3>9, <3>10 DEF RdOK
  <2>3. CASE rd' # rd
    <3>1. \E k \in 0 .. InBufSize, ok \in BOOLEAN :
             /\ ReadMax(k, ok)
             /\ rd' = [rd EXCEPT !.pos = @ + k, !.finished = k = 0 \/ ~ ok,
                                 !.res = IF ok THEN OK ELSE "READ"]
             /\ st' = [st EXCEPT !.src = NextBytes(k), !.expect = @ + k,
                         !.inOrder = @ /\ (k # 0 => rd.pos + 1 = st.expect)]
      BY <2>3, Zenon DEF StRead
    <3>2. PICK k \in 0 .. InBufSize, ok \in BOOLEAN :
             /\ ReadMax(k, ok)
             /\ rd' = [rd EXCEPT !.pos = @ + k, !.finished = k = 0 \/ ~ ok,
                                 !.res = IF ok THEN OK ELSE "READ"]
             /\ st' = [st EXCEPT !.src = NextBytes(k), !.expect = @ + k,
                         !.inOrder = @ /\ (k # 0 => rd.pos + 1 = st.expect)]
      BY <3>1, Zenon
    <3> QED BY <2>2, <3>2
  <2> QED BY <2>1, <2>3
<1>3. WrOK' /\ result' \in Errors /\ \A t \in Threads : ThreadOK(th'[t])
  BY <1>1 DEF Control, WrOK, Good
<1> QED BY <1>1, <1>2, <1>3, QuietControl DEF Bounds

(* The single-threaded decoder decodes.                                    *)
LEMMA StDecodeControl ==
  ASSUME Shape, Tokens, Control, Bounds, StDecode
  PROVE  Control' /\ Bounds'
<1>1. mainPc # "run" /\ UNCHANGED <<input, sync, pc, wr, th, rd>>
  BY DEF StDecode
<1>2. \A d, size : StAnswer(d, size) \in Errors \cup {"more"}
  BY DEF StAnswer, Errors, Control, RdOK, OK
<1>3. result' \in Errors
  <2> DEFINE n == Len(out.bytes)
             d == Decode(input.bytes, st.src, n, input.outSize, ~ input.finishMode)
             answer == StAnswer(d, n + Len(d.out))
  <2>1. \/ result' = result \/ result' \in {"PROGRESS", "WRITE"}
        \/ answer # "more" /\ result' = answer
    BY DEF StDecode, Return
  <2>2. answer \in Errors \cup {"more"}
    BY <1>2
  <2> HIDE DEF answer
  <2> QED BY <2>1, <2>2 DEF Control, Errors
<1>4. RdOK' /\ WrOK' /\ \A t \in Threads : ThreadOK(th'[t])
  BY <1>1 DEF Control, RdOK, WrOK, Good
<1> QED BY <1>1, <1>3, <1>4, QuietControl DEF Bounds

-----------------------------------------------------------------------------
(* The threads that do not move notice at most an earlier interruption.    *)
LEMMA OthersControl ==
  ASSUME Control, SyncOK', Later, NEW u \in Threads, th'[u] = th[u],
         pc'[u] = pc[u] \/ (pc[u] = "none" /\ pc'[u] = "wait_read"),
         rd'.cross = rd.cross \/ ~ Reading(u)
  PROVE  Good(u)' /\ (Passer(u) => Passer(u)')
<1>1. Good(u) /\ SyncOK /\ th[u].l.blockIndex \in Nat
  BY DEF Control, Good, ThreadOK, LocalOK
<1>2. CASE pc[u] = "none" /\ pc'[u] = "wait_read"
  BY <1>1, <1>2 DEF Good, Linked, Working, Reading, Passer
<1>3. CASE pc'[u] = pc[u]
  <2>1. Passer(u)' <=> Passer(u)
    BY <1>3 DEF Passer
  <2>2. Working(u)' => Working(u)
    BY <1>3 DEF Working, Reading
  <2>3. Linked(u)'
    BY <1>1, <1>3 DEF Good, Linked, Links, FromCross, Reading
  <2>4. Working(u) => Flags(u)'
    <3> SUFFICES ASSUME Working(u) PROVE Flags(u)'
      OBVIOUS
    <3>1. Flags(u)
      BY <1>1 DEF Good
    <3>2. th[u].l.wasInterrupted => sync'.needInterrupt /\ th[u].l.blockIndex > sync'.index
      BY <1>1, <3>1, LaterInterrupted DEF Flags
    <3> QED BY <1>3, <2>1, <3>1, <3>2 DEF Flags, InterruptedBefore
  <2> QED BY <1>1, <2>1, <2>2, <2>3, <2>4 DEF Good
<1> QED BY <1>2, <1>3

(* What moves and what does not in a step of thread t.                     *)
Others(t) ==
  /\ \A u \in Threads : u # t => /\ th'[u] = th[u]
                                 /\ \/ pc'[u] = pc[u]
                                    \/ pc[u] = "none" /\ pc'[u] = "wait_read"
  /\ input' = input /\ result' = result

(* No step of a thread touches the locals of another.                      *)
LEMMA ThreadOthers ==
  ASSUME Shape, NEW t \in Threads, Thread(t)
  PROVE  Others(t)
<1>1. pc \in [Threads -> Labels] /\ DOMAIN th = Threads
  BY DEF Shape
<1>2. CASE WaitRead(t)
  BY <1>1, <1>2 DEF WaitRead, Others, caller, SetLocals
<1>3. CASE \/ ReadNoLink(t) \/ ReadCross(t) \/ ReadLink(t) \/ ParseOverflow(t) \/ ParseContinue(t)
           \/ ParseEnd(t) \/ ParseNew(t) \/ PreCode(t)
  <2>1. Reads(t)
    BY <1>3, ReadSteps
  <2>2. input' = input /\ result' = result
    BY <1>3 DEF ReadNoLink, ReadCross, ReadLink, ParseOverflow, ParseContinue, ParseEnd, ParseNew,
                PreCode, StoreParsed, caller
  <2> QED BY <1>1, <2>1, <2>2 DEF Reads, Moves, Others
<1>4. CASE CodeFails(t) \/ CodeLink(t) \/ CodeUnprepared(t)
  <2>1. Codes(t)
    BY <1>4, CodeSteps
  <2>2. input' = input /\ result' = result
    BY <1>4 DEF CodeFails, CodeLink, CodeUnprepared, caller
  <2> QED BY <1>1, <2>1, <2>2 DEF Codes, Moves, Others
<1>5. CASE StartNone(t)
  BY <1>1, <1>5 DEF StartNone, Others, caller
<1>6. CASE StartNext(t)
  BY <1>1, <1>6 DEF StartNext, Others, caller, SetLocals
<1>7. CASE Write(t)
  <2>1. \/ th' = [th EXCEPT ![t] = [@ EXCEPT !.l = Fresh, !.start = th[t].l.start,
                                              !.size = th[t].l.size]]
        \/ th' = [th EXCEPT ![t].l = Fresh]
    BY <1>7 DEF Write
  <2>2. \E cont : HandOn(t, cont)
    BY <1>7 DEF Write
  <2>3. pc' = [pc EXCEPT ![t] = pc'[t]]
    BY <1>1, <2>2 DEF HandOn
  <2>4. input' = input /\ result' = result
    BY <1>7 DEF Write, caller
  <2> QED BY <1>1, <2>1, <2>3, <2>4 DEF Others
<1> QED BY <1>2, <1>3, <1>4, <1>5, <1>6, <1>7 DEF Thread

(* Every step of a thread keeps the types, and lets those pass that pass.  *)
LEMMA ThreadControl ==
  ASSUME Shape, Tokens, Control, Bounds, NEW t \in Threads, Thread(t)
  PROVE  Control' /\ Later /\ \A u \in Threads : u # t /\ Passer(u) => Passer(u)'
<1>1. Others(t)
  BY ThreadOthers
<1>2. ASSUME Good(t)', RdOK', SyncOK', WrOK', Later,
             \A u \in Threads : u # t => rd'.cross = rd.cross \/ ~ Reading(u)
      PROVE  Control' /\ Later /\ \A u \in Threads : u # t /\ Passer(u) => Passer(u)'
  <2>1. \A u \in Threads : u # t => Good(u)' /\ (Passer(u) => Passer(u)')
    BY <1>1, <1>2, OthersControl DEF Others
  <2>2. InputOK' /\ result' \in Errors
    BY <1>1 DEF Others, Control, InputOK
  <2> QED BY <1>2, <2>1, <2>2 DEF Control
<1>3. wr' = wr => WrOK'
  BY DEF Control, WrOK
<1>4. CASE WaitRead(t) /\ exitThread
  <2>1. UNCHANGED <<rd, sync, wr, th>> /\ pc' = [pc EXCEPT ![t] = "none"]
    BY <1>4 DEF WaitRead
  <2>2. pc'[t] = "none" /\ Good(t)
    BY <2>1 DEF Shape, Control
  <2>3. Good(t)' /\ RdOK' /\ SyncOK' /\ Later
    BY <1>1, <2>1, <2>2 DEF Good, Linked, Working, Reading, Control, RdOK, SyncOK, Later, Others
  <2> QED BY <1>2, <1>3, <2>1, <2>3
<1>5. CASE WaitRead(t) /\ ~ exitThread
  <2>1. Good(t)' /\ RdOK' /\ SyncOK' /\ Later
    BY <1>5, WaitReadControl
  <2>2. wr' = wr /\ rd' = [rd EXCEPT !.blockIndex = @ + 1]
    BY <1>5 DEF WaitRead
  <2>3. rd'.cross = rd.cross
    BY <2>2 DEF Control, RdOK
  <2> QED BY <1>2, <1>3, <2>1, <2>2, <2>3
<1>6. CASE \/ ReadNoLink(t) \/ ReadCross(t) \/ ReadLink(t) \/ ParseOverflow(t) \/ ParseContinue(t)
           \/ ParseEnd(t) \/ ParseNew(t) \/ PreCode(t)
  <2>1. Good(t)' /\ RdOK' /\ SyncOK' /\ Later
    BY <1>6, ReadNoLinkControl, ReadCrossControl, ReadLinkControl, ParseControl, PreCodeControl
  <2>2. wr' = wr
    BY <1>6 DEF ReadNoLink, ReadCross, ReadLink, ParseOverflow, ParseContinue, ParseEnd, ParseNew,
                PreCode, StoreParsed
  <2>3. Reading(t) /\ Working(t)
    BY <1>6, ReadSteps DEF Reads, Working
  <2>4. \A u \in Threads : u # t => ~ Reading(u)
    <3>1. PICK w, n \in 0 .. MaxThreads : Round(w, n)
      BY <2>3, WorksInRound
    <3>2. \A u \in Threads : Working(u) /\ u # t => ~ Reading(u)
      BY <2>3, <3>1, ReaderIsLast
    <3> QED BY <3>2 DEF Working
  <2> QED BY <1>2, <1>3, <2>1, <2>2, <2>4
<1>7. CASE CodeFails(t) \/ CodeLink(t) \/ CodeUnprepared(t)
  <2>1. Good(t)' /\ RdOK' /\ SyncOK' /\ Later
    BY <1>7, CodeControl
  <2>2. wr' = wr /\ rd' = rd
    BY <1>7 DEF CodeFails, CodeLink, CodeUnprepared
  <2> QED BY <1>2, <1>3, <2>1, <2>2
<1>8. CASE StartNone(t)
  <2>1. Good(t)' /\ RdOK' /\ SyncOK' /\ Later
    BY <1>8, StartNoneControl
  <2>2. wr' = wr /\ rd' = rd
    BY <1>8 DEF StartNone
  <2> QED BY <1>2, <1>3, <2>1, <2>2
<1>9. CASE StartNext(t)
  <2>1. Good(t)' /\ RdOK' /\ SyncOK' /\ Later
    BY <1>9, StartNextControl
  <2>2. wr' = wr
    BY <1>9 DEF StartNext
  <2>3. \/ rd' = rd \/ rd' = [rd EXCEPT !.started = @ + 1] \/ rd' = [rd EXCEPT !.limit = rd.started]
    BY <1>9 DEF StartNext
  <2>4. rd'.cross = rd.cross
    BY <2>3 DEF Control, RdOK
  <2> QED BY <1>2, <1>3, <2>1, <2>2, <2>4
<1>10. CASE Write(t)
  <2>1. wr.numFilled \in Nat
    BY DEF Bounds
  <2>2. Good(t)' /\ RdOK' /\ SyncOK' /\ WrOK' /\ Later
    BY <1>10, <2>1, WriteControl
  <2>3. rd' = rd
    BY <1>10 DEF Write
  <2> QED BY <1>2, <2>2, <2>3
<1> QED BY <1>4, <1>5, <1>6, <1>7, <1>8, <1>9, <1>10 DEF Thread

-----------------------------------------------------------------------------
(* Whoever interrupted the others is an older block that failed, or the    *)
(* writer has learnt of it.                                                *)
Failed(t) == Working(t) /\ th[t].l.codeRes # OK
Blamed ==
  mainPc = "run" /\ sync.res = OK /\ sync.needInterrupt =>
    wr.interrupted \/ \E t \in Threads : Failed(t) /\ bi(t) <= sync.index

(* Without memory, threads or progress nobody interrupts.                  *)
LEMMA ReadSync ==
  ASSUME SyncOK, NEW t \in Threads,
         ReadNoLink(t) \/ ReadCross(t) \/ ReadLink(t) \/ ParseOverflow(t) \/ ParseContinue(t)
           \/ ParseEnd(t) \/ ParseNew(t) \/ PreCode(t)
  PROVE  /\ sync'.needInterrupt = sync.needInterrupt /\ sync'.index = sync.index
         /\ sync'.res = OK => sync.res = OK
<1>1. CASE ReadLink(t)
  <2>1. PICK r \in ProgressResults : sync' = [sync EXCEPT !.res = r]
    BY <1>1 DEF ReadLink
  <2> QED BY <2>1, ProgressTypes DEF SyncOK
<1>2. CASE ~ ReadLink(t)
  <2>1. sync' = sync
    BY <1>2 DEF ReadNoLink, ReadCross, ParseOverflow, ParseContinue, ParseEnd, ParseNew,
                PreCode, StoreParsed
  <2> QED BY <2>1
<1> QED BY <1>1, <1>2

(* An interruption still has its cause after a step that keeps the cause.  *)
LEMMA BlamedStays ==
  ASSUME Blamed, NEW t \in Threads, Others(t), mainPc' = mainPc,
         sync'.needInterrupt = sync.needInterrupt, sync'.index = sync.index,
         sync'.res = OK => sync.res = OK, wr.interrupted => wr'.interrupted,
         Failed(t) => wr'.interrupted \/ (Failed(t)' /\ bi(t)' = bi(t))
  PROVE  Blamed'
<1>1. \A u \in Threads : u # t => (Failed(u)' <=> Failed(u)) /\ bi(u)' = bi(u)
  BY DEF Others, Failed, Working, Reading, bi
<1>2. SUFFICES ASSUME mainPc = "run", sync.res = OK, sync.needInterrupt, ~ wr'.interrupted,
                      ~ wr.interrupted
               PROVE  \E u \in Threads : Failed(u)' /\ bi(u)' <= sync'.index
  BY DEF Blamed
<1>3. PICK u \in Threads : Failed(u) /\ bi(u) <= sync.index
  BY <1>2 DEF Blamed
<1>4. Failed(u)' /\ bi(u)' = bi(u)
  BY <1>1, <1>2, <1>3
<1> QED BY <1>3, <1>4

(* A new call has no interruption.                                         *)
LEMMA CallBlamed ==
  ASSUME sync' = Sync0
  PROVE  Blamed'
BY DEF Blamed, Sync0

(* The writer that takes the cause away recorded it.                       *)
LEMMA WriteBlamed ==
  ASSUME Shape, Control, Bounds, Blamed, mainPc' = mainPc,
         NEW w \in 0 .. MaxThreads, NEW n \in 0 .. MaxThreads, Round(w, n),
         NEW t \in Threads, Write(t), NEW cont, Writes(t, cont)
  PROVE  Blamed'
<1>1. Others(t) /\ canWrite[t] /\ Working(t)
  BY ThreadOthers DEF Thread, Write, Working
<1>2. \A u \in Threads : Working(u) => bi(t) <= bi(u)
  BY <1>1, RoundTokens
<1>3. \A u \in Threads : bi(u) \in Nat
  BY DEF Control, Good, ThreadOK, LocalOK, bi
<1>4. CASE sync'.needInterrupt = sync.needInterrupt /\ sync'.index = sync.index
  <2>1. /\ sync'.res = OK => sync.res = OK
        /\ wr.interrupted => wr'.interrupted
        /\ Failed(t) => wr'.interrupted
    BY DEF Writes, Failed
  <2> QED BY <1>1, <1>4, <2>1, BlamedStays
<1>5. CASE sync'.res = OK => wr'.interrupted \/ InterruptedBefore(bi(t))
  <2>1. SUFFICES ASSUME mainPc = "run", sync.res = OK, ~ wr'.interrupted, ~ wr.interrupted,
                        InterruptedBefore(bi(t))
                 PROVE  FALSE
    BY <1>5 DEF Blamed, Writes
  <2>2. sync.needInterrupt /\ sync.index < bi(t) /\ sync.index \in Nat
    BY <1>3, <2>1 DEF InterruptedBefore, Control, SyncOK
  <2>3. PICK u \in Threads : Failed(u) /\ bi(u) <= sync.index
    BY <2>1, <2>2 DEF Blamed
  <2>4. bi(t) <= bi(u)
    BY <1>2, <2>3 DEF Failed
  <2> QED BY <1>3, <2>2, <2>3, <2>4
<1> QED BY <1>4, <1>5 DEF Writes

(* The Code callback that interrupts is the cause.                         *)
LEMMA CodeBlamed ==
  ASSUME Shape, Control, Blamed, mainPc' = mainPc,
         NEW t \in Threads, CodeFails(t) \/ CodeLink(t) \/ CodeUnprepared(t)
  PROVE  Blamed'
<1>1. Others(t)
  BY ThreadOthers DEF Thread
<1>2. wr' = wr
  BY DEF CodeFails, CodeLink, CodeUnprepared
<1>3. bi(t)' = bi(t) /\ Working(t)'
  BY CodeSteps DEF Codes, Moves, bi, Working
<1>4. /\ \/ sync'.needInterrupt = sync.needInterrupt /\ sync'.index = sync.index
         \/ /\ sync'.needInterrupt /\ th'[t].l.codeRes # OK
            /\ \/ sync'.index = bi(t)
               \/ sync.needInterrupt /\ sync'.index = sync.index
      /\ sync'.res = OK => sync.res = OK
      /\ th[t].l.codeRes # OK => th'[t].l.codeRes # OK
  BY CodeControl
<1>5. Failed(t) => Failed(t)'
  BY <1>3, <1>4 DEF Failed
<1>6. CASE \/ sync'.needInterrupt = sync.needInterrupt /\ sync'.index = sync.index
           \/ sync'.needInterrupt /\ sync.needInterrupt /\ sync'.index = sync.index
  <2>1. sync'.needInterrupt = sync.needInterrupt
    <3>1. SyncOK /\ SyncOK'
      BY CodeControl DEF Control
    <3> QED BY <1>6, <3>1 DEF SyncOK
  <2> QED BY <1>1, <1>2, <1>3, <1>4, <1>5, <1>6, <2>1, BlamedStays
<1>7. CASE th'[t].l.codeRes # OK /\ sync'.index = bi(t)
  <2>1. Failed(t)' /\ bi(t)' <= sync'.index
    <3>1. bi(t) \in Nat
      BY DEF Control, Good, ThreadOK, LocalOK, bi
    <3> QED BY <1>3, <1>7, <3>1 DEF Failed
  <2> QED BY <2>1 DEF Blamed
<1> QED BY <1>4, <1>6, <1>7

(* Every step of a thread keeps the cause of the interruption.             *)
LEMMA ThreadBlamed ==
  ASSUME Shape, Tokens, Control, Bounds, Blamed, NEW t \in Threads, Thread(t)
  PROVE  Blamed'
<1>1. Others(t) /\ SyncOK
  BY ThreadOthers DEF Control
<1>2. Working(t) => Flags(t)
  BY DEF Control, Good
<1>3. CASE WaitRead(t) /\ exitThread
  <2>1. UNCHANGED <<sync, wr, mainPc>> /\ ~ Failed(t)
    BY <1>3 DEF WaitRead, Failed, Working, Reading, caller
  <2> QED BY <1>1, <2>1, BlamedStays
<1>4. CASE WaitRead(t) /\ ~ exitThread
  <2>1. UNCHANGED <<wr, mainPc>> /\ ~ Failed(t)
    BY <1>4 DEF WaitRead, Failed, Working, Reading, caller
  <2>2. /\ sync'.needInterrupt = sync.needInterrupt /\ sync'.index = sync.index
        /\ sync'.res = OK => sync.res = OK
    BY <1>4, WaitReadControl
  <2> QED BY <1>1, <2>1, <2>2, BlamedStays
<1>5. CASE \/ ReadNoLink(t) \/ ReadCross(t) \/ ReadLink(t) \/ ParseOverflow(t) \/ ParseContinue(t)
           \/ ParseEnd(t) \/ ParseNew(t) \/ PreCode(t)
  <2>1. wr' = wr /\ pc[t] \in {"read", "parse", "parsed", "pass"}
    BY <1>5 DEF ReadNoLink, ReadCross, ReadLink, ParseOverflow, ParseContinue, ParseEnd, ParseNew,
                PreCode, StoreParsed
  <2>2. mainPc' = mainPc
    BY <1>5, ReadSteps DEF Reads, Moves
  <2>3. ~ Failed(t)
    BY <1>2, <2>1 DEF Failed, Flags
  <2> QED BY <1>1, <1>5, <2>1, <2>2, <2>3, ReadSync, BlamedStays
<1>6. CASE CodeFails(t) \/ CodeLink(t) \/ CodeUnprepared(t)
  <2>1. mainPc' = mainPc
    BY <1>6, CodeSteps DEF Codes, Moves
  <2> QED BY <1>6, <2>1, CodeBlamed
<1>7. CASE StartNone(t)
  <2>1. UNCHANGED <<sync, wr, mainPc, th>> /\ pc'[t] \in {"code", "wait_write"}
    BY <1>7 DEF StartNone, caller, AfterStart, Shape
  <2>2. Failed(t) => Failed(t)' /\ bi(t)' = bi(t)
    BY <2>1 DEF Failed, Working, bi
  <2> QED BY <1>1, <2>1, <2>2, BlamedStays
<1>8. CASE StartNext(t)
  <2>1. UNCHANGED <<sync, wr, mainPc>>
    BY <1>8 DEF StartNext, caller
  <2>2. th'[t].l.codeRes = th[t].l.codeRes /\ bi(t)' = bi(t) /\ pc'[t] \in {"code", "wait_write"}
    BY <1>8, StartNextControl
  <2>3. Failed(t) => Failed(t)' /\ bi(t)' = bi(t)
    BY <2>2 DEF Failed, Working
  <2> QED BY <1>1, <2>1, <2>3, BlamedStays
<1>9. CASE Write(t)
  <2>1. mainPc' = mainPc /\ Working(t)
    BY <1>9 DEF Write, caller, Working
  <2>2. PICK w, n \in 0 .. MaxThreads : Round(w, n)
    BY <2>1, WorksInRound
  <2>3. wr.numFilled \in Nat
    BY DEF Bounds
  <2>4. PICK cont : Writes(t, cont)
    BY <1>9, <2>3, WriteControl
  <2> QED BY <1>9, <2>1, <2>2, <2>4, WriteBlamed
<1> QED BY <1>3, <1>4, <1>5, <1>6, <1>7, <1>8, <1>9 DEF Thread

-----------------------------------------------------------------------------
(* The threads whose input is kept come before the writer in the ring, and *)
(* those that work are not among them, except to pass.                     *)
KeptBefore(w, n) ==
  LET f == wr.filledStart
      m == wr.numFilled
      s == rd.started
  IN  /\ At(s, f, m) = w
      /\ sync.needInterrupt /\ sync.index < rd.blockIndex - n
      /\ \A t \in Threads : Working(t) => From(s, w, t) < s - m \/ Passer(t)
      /\ s < rd.limit => f + m = w

(* The progress callback failed, and who still works passes.               *)
Broken == sync.res # OK /\ \A t \in Threads : Working(t) => Passer(t)

Chained(w, n) == wr.numFilled > 0 => KeptBefore(w, n) \/ Broken

Chain ==
  mainPc = "run" => (\E w, n \in 0 .. MaxThreads : Round(w, n) /\ Chained(w, n)) \/ Ending

(* The kept input stays before the writer when the ring stays.             *)
LEMMA ChainStays ==
  ASSUME NEW w, NEW n, Chained(w, n), wr' = wr, SyncOK, SyncOK', Later,
         sync'.res = OK => sync.res = OK,
         rd'.started = rd.started, rd'.blockIndex = rd.blockIndex,
         rd'.started < rd'.limit => rd.started < rd.limit,
         rd.blockIndex - n \in Int,
         \A u \in Threads : Working(u)' => Working(u) /\ (Passer(u) => Passer(u)')
  PROVE  Chained(w, n)'
<1>1. KeptBefore(w, n) => KeptBefore(w, n)'
  BY DEF KeptBefore, Later, SyncOK
<1>2. Broken => Broken'
  BY DEF Broken
<1> QED BY <1>1, <1>2 DEF Chained

(* Nothing between the read and the write keeps or moves input.            *)
LEMMA ReadChain ==
  ASSUME Shape, Tokens, Control, Bounds, NEW t \in Threads,
         NEW w \in 0 .. MaxThreads, NEW n \in 0 .. MaxThreads, Chained(w, n),
         \/ ReadNoLink(t) \/ ReadCross(t) \/ ReadLink(t) \/ ParseOverflow(t) \/ ParseContinue(t)
         \/ ParseEnd(t) \/ ParseNew(t) \/ PreCode(t)
         \/ CodeFails(t) \/ CodeLink(t) \/ CodeUnprepared(t) \/ StartNone(t)
  PROVE  Bounds' /\ Chained(w, n)'
<1>1. /\ Control' /\ Later /\ \A u \in Threads : u # t /\ Passer(u) => Passer(u)'
      /\ Others(t)
  BY ThreadControl, ThreadOthers DEF Thread
<1>2. SyncOK /\ SyncOK'
  BY <1>1 DEF Control
<1>3. wr' = wr
  BY DEF ReadNoLink, ReadCross, ReadLink, ParseOverflow, ParseContinue, ParseEnd, ParseNew,
         PreCode, StoreParsed, CodeFails, CodeLink, CodeUnprepared, StartNone
<1>4. /\ rd'.started = rd.started /\ rd'.blockIndex = rd.blockIndex /\ rd'.limit = rd.limit
      /\ Working(t)
  <2>1. CASE \/ ReadNoLink(t) \/ ReadCross(t) \/ ReadLink(t) \/ ParseOverflow(t)
             \/ ParseContinue(t) \/ ParseEnd(t) \/ ParseNew(t) \/ PreCode(t)
    BY <2>1, ReadSteps DEF Reads, Moves, Working
  <2>2. CASE CodeFails(t) \/ CodeLink(t) \/ CodeUnprepared(t)
    BY <2>2, CodeSteps DEF Codes, Moves, Working
  <2>3. CASE StartNone(t)
    BY <2>3 DEF StartNone, Working, Reading
  <2> QED BY <2>1, <2>2, <2>3
<1>5. sync'.res = OK => sync.res = OK
  <2>1. CASE \/ ReadNoLink(t) \/ ReadCross(t) \/ ReadLink(t) \/ ParseOverflow(t)
             \/ ParseContinue(t) \/ ParseEnd(t) \/ ParseNew(t) \/ PreCode(t)
    BY <1>2, <2>1, ReadSync
  <2>2. CASE CodeFails(t) \/ CodeLink(t) \/ CodeUnprepared(t)
    BY <2>2, CodeControl
  <2>3. CASE StartNone(t)
    BY <2>3 DEF StartNone
  <2> QED BY <2>1, <2>2, <2>3
<1>6. Passer(t) => Passer(t)'
  <2>1. CASE ReadNoLink(t) \/ ReadCross(t) \/ ReadLink(t) \/ ParseOverflow(t)
             \/ ParseContinue(t) \/ ParseEnd(t) \/ ParseNew(t)
    BY <2>1 DEF Passer, ReadNoLink, ReadCross, ReadLink, ParseOverflow, ParseContinue, ParseEnd,
                ParseNew
  <2>2. CASE CodeFails(t) \/ CodeLink(t) \/ CodeUnprepared(t)
    BY <2>2, CodeControl
  <2>3. CASE PreCode(t)
    BY <2>3, PreCodeControl
  <2>4. CASE StartNone(t)
    BY <2>4, StartNoneControl
  <2> QED BY <2>1, <2>2, <2>3, <2>4
<1>7. \A u \in Threads : Working(u)' => Working(u) /\ (Passer(u) => Passer(u)')
  <2>1. \A u \in Threads : u # t /\ Working(u)' => Working(u)
    BY <1>1 DEF Others, Working, Reading
  <2> QED BY <1>1, <1>4, <1>6, <2>1
<1>8. rd.blockIndex - n \in Int
  BY ThreadZero DEF Shape, IsRd
<1>9. Chained(w, n)'
  BY <1>1, <1>2, <1>3, <1>4, <1>5, <1>7, <1>8, ChainStays
<1> QED BY <1>3, <1>4, <1>9 DEF Bounds

(* A thread that starts an iteration while input is kept passes.           *)
LEMMA WaitReadChain ==
  ASSUME Shape, Tokens, Control, Bounds, mainPc = "run", NEW t \in Threads,
         NEW w \in 0 .. MaxThreads, NEW n \in 0 .. MaxThreads, Round(w, n), Chained(w, n),
         WaitRead(t)
  PROVE  Bounds' /\ Chained(w, n + 1)'
<1>1. /\ Control' /\ Later /\ \A u \in Threads : u # t /\ Passer(u) => Passer(u)'
      /\ Others(t) /\ SyncOK
  BY ThreadControl, ThreadOthers DEF Thread, Control
<1>2. ~ exitThread /\ wr' = wr /\ rd' = [rd EXCEPT !.blockIndex = @ + 1]
  BY DEF Round, WaitRead
<1>3. /\ sync'.needInterrupt = sync.needInterrupt /\ sync'.index = sync.index
      /\ sync'.res = OK => sync.res = OK
      /\ InterruptedBefore(rd.blockIndex) \/ sync.res # OK => Passer(t)'
  BY <1>2, WaitReadControl
<1>4. /\ rd'.started = rd.started /\ rd'.limit = rd.limit /\ rd'.blockIndex = rd.blockIndex + 1
      /\ rd.blockIndex \in Nat /\ n \in Nat
  BY <1>2, ThreadZero DEF Shape, IsRd
<1>5. \A u \in Threads : u # t /\ Working(u)' => Working(u)
  BY <1>1 DEF Others, Working, Reading
<1>6. ASSUME KeptBefore(w, n)
      PROVE  KeptBefore(w, n + 1)'
  <2>1. sync.needInterrupt /\ sync.index < rd.blockIndex - n /\ sync.index \in Nat
    BY <1>1, <1>6 DEF KeptBefore, SyncOK
  <2>2. Passer(t)'
    BY <1>3, <1>4, <2>1 DEF InterruptedBefore
  <2>3. \A u \in Threads : Working(u)' =>
          From(rd'.started, w, u) < rd'.started - wr'.numFilled \/ Passer(u)'
    BY <1>1, <1>2, <1>4, <1>5, <1>6, <2>2 DEF KeptBefore
  <2>4. sync'.needInterrupt /\ sync'.index < rd'.blockIndex - (n + 1)
    BY <1>3, <1>4, <2>1
  <2> QED BY <1>2, <1>4, <1>6, <2>3, <2>4 DEF KeptBefore
<1>7. Broken => Broken'
  BY <1>1, <1>3, <1>5 DEF Broken
<1> QED BY <1>2, <1>4, <1>6, <1>7 DEF Chained, Bounds

(* No thread is started while input is kept.                               *)
LEMMA StartNextChain ==
  ASSUME Shape, Tokens, Control, Bounds, mainPc = "run", NEW t \in Threads,
         NEW w \in 0 .. MaxThreads, NEW n \in 0 .. MaxThreads, Round(w, n), Chained(w, n),
         StartNext(t)
  PROVE  Bounds' /\ Chained(w, n)'
<1>1. /\ Control' /\ Later /\ \A u \in Threads : u # t /\ Passer(u) => Passer(u)'
      /\ Others(t) /\ SyncOK /\ ~ Passer(t)
  BY ThreadControl, ThreadOthers, StartNextControl DEF Thread, Control
<1>2. wr' = wr /\ sync' = sync /\ Reading(t)
  BY DEF StartNext, Reading
<1>3. /\ Current(w, n) /\ Working(t)
      /\ rd.started \in 1 .. MaxThreads /\ w \in 0 .. rd.started - 1
      /\ n \in 1 .. rd.started /\ t < rd.started /\ From(rd.started, w, t) = n - 1
      /\ \A u \in Threads : Working(u) /\ u # t =>
           /\ ~ Reading(u) /\ Passes(u)
           /\ u < rd.started /\ From(rd.started, w, u) < n - 1
  BY <1>2, ReaderIsLast
<1>4. /\ IsRd(rd) /\ MaxThreads \in Nat
      /\ rd.started \in Nat /\ rd.limit \in Nat /\ rd.blockIndex \in Nat
      /\ wr.filledStart \in 0 .. rd.started - 1 /\ wr.numFilled \in 0 .. rd.started
  BY <1>3, ThreadZero DEF Shape, Bounds, IsRd
<1>5. \A u \in Threads : Working(u)' => Working(u)
  BY <1>1, <1>3 DEF Others, Working, Reading
<1>6. ~ Broken
  BY <1>1, <1>3 DEF Broken
<1>7. CASE rd' = rd \/ rd' = [rd EXCEPT !.limit = rd.started]
  <2>1. /\ rd'.started = rd.started /\ rd'.blockIndex = rd.blockIndex
        /\ rd'.started < rd'.limit => rd.started < rd.limit
    BY <1>4, <1>7 DEF IsRd
  <2>2. KeptBefore(w, n) => KeptBefore(w, n)'
    <3> SUFFICES ASSUME KeptBefore(w, n) PROVE KeptBefore(w, n)'
      OBVIOUS
    <3>1. \A u \in Threads : Working(u)' =>
            From(rd.started, w, u) < rd.started - wr.numFilled \/ Passer(u)'
      BY <1>1, <1>5 DEF KeptBefore
    <3> QED BY <1>2, <2>1, <3>1 DEF KeptBefore
  <2> QED BY <1>2, <1>4, <1>6, <2>1, <2>2 DEF Bounds, Chained
<1>8. CASE rd' = [rd EXCEPT !.started = @ + 1] /\ rd.started < rd.limit
  <2>1. /\ rd'.started = rd.started + 1 /\ rd'.blockIndex = rd.blockIndex /\ rd'.limit = rd.limit
        /\ w + n <= rd.started
    BY <1>3, <1>4, <1>8 DEF IsRd, Current
  <2>2. \A u \in 0 .. rd.started - 1 : From(rd.started, w, u) < n =>
          From(rd.started + 1, w, u) = From(rd.started, w, u)
    BY <1>3, <1>4, <2>1, RingGrows
  <2>3. ASSUME KeptBefore(w, n) PROVE KeptBefore(w, n)'
    <3>1. wr.filledStart + wr.numFilled = w
      BY <1>8, <2>3 DEF KeptBefore
    <3>2. At(rd.started + 1, wr.filledStart, wr.numFilled) = w
      BY <1>3, <1>4, <3>1 DEF At
    <3>3. ASSUME NEW u \in Threads, Working(u)'
          PROVE  From(rd.started + 1, w, u) < rd.started + 1 - wr.numFilled \/ Passer(u)'
      <4>1. Working(u) /\ (From(rd.started, w, u) < rd.started - wr.numFilled \/ Passer(u))
        BY <1>5, <2>3, <3>3 DEF KeptBefore
      <4>2. u \in 0 .. rd.started - 1 /\ From(rd.started, w, u) < n
        BY <1>4, <4>1 DEF Threads, Round
      <4>3. From(rd.started + 1, w, u) = From(rd.started, w, u)
        BY <2>2, <4>2
      <4>4. From(rd.started, w, u) \in Int
        BY <1>3, <1>4, <4>2 DEF From
      <4> QED BY <1>1, <1>4, <4>1, <4>3, <4>4
    <3>4. At(rd'.started, wr'.filledStart, wr'.numFilled) = w
      BY <1>2, <2>1, <3>2
    <3>5. sync'.needInterrupt /\ sync'.index < rd'.blockIndex - n
      BY <1>2, <2>1, <2>3 DEF KeptBefore
    <3>6. \A u \in Threads : Working(u)' =>
            From(rd'.started, w, u) < rd'.started - wr'.numFilled \/ Passer(u)'
      <4> SUFFICES ASSUME NEW u \in Threads, Working(u)'
                   PROVE  From(rd'.started, w, u) < rd'.started - wr'.numFilled \/ Passer(u)'
        OBVIOUS
      <4>1. From(rd.started + 1, w, u) < rd.started + 1 - wr.numFilled \/ Passer(u)'
        BY <3>3
      <4> QED BY <1>2, <1>4, <2>1, <4>1
    <3>7. wr'.filledStart + wr'.numFilled = w
      BY <1>2, <3>1
    <3> QED BY <3>4, <3>5, <3>6, <3>7 DEF KeptBefore
  <2> QED BY <1>2, <1>4, <1>6, <2>1, <2>3 DEF Bounds, Chained
<1>9. \/ rd' = rd \/ rd' = [rd EXCEPT !.limit = rd.started]
      \/ rd' = [rd EXCEPT !.started = @ + 1] /\ rd.started < rd.limit
  BY DEF StartNext
<1> QED BY <1>7, <1>8, <1>9

-----------------------------------------------------------------------------
(* A writer that keeps its input is the next one after those kept.         *)
LEMMA WriteChain ==
  ASSUME Shape, Tokens, Control, Bounds, Blamed, mainPc = "run", NEW t \in Threads,
         NEW w \in 0 .. MaxThreads, NEW n \in 0 .. MaxThreads, Round(w, n), Chained(w, n),
         Write(t)
  PROVE  Bounds' /\ Chain'
<1> DEFINE l == th[t].l
           s == rd.started
           f == wr.filledStart
           m == wr.numFilled
<1>1. /\ Control' /\ Later /\ \A u \in Threads : u # t /\ Passer(u) => Passer(u)'
      /\ Others(t) /\ SyncOK /\ SyncOK' /\ rd' = rd /\ mainPc' = "run"
  BY ThreadControl, ThreadOthers DEF Thread, Control, Write, caller
<1>2. m \in Nat
  BY DEF Bounds
<1>3. PICK cont : Writes(t, cont)
  BY <1>2, WriteControl
<1>4. HandOn(t, cont)
  BY <1>3 DEF Writes
<1>5. /\ t = w /\ n \in 1 .. s
      /\ ~ l.finish =>
           \E v \in 0 .. MaxThreads : /\ v = NextThread(w, s) /\ Round(v, n - 1)'
                                      /\ s < rd.limit => w + 1 < s
      /\ l.finish => /\ n = 1 /\ AtLast(w, n)
                     /\ (cont /\ Round(0, 0)') \/ (~ cont /\ Ending')
  BY <1>4, WriteKeeps
<1>6. /\ s \in 1 .. MaxThreads /\ s \in Nat /\ w \in 0 .. s - 1 /\ MaxThreads \in Nat
      /\ f \in 0 .. s - 1 /\ m \in 0 .. s /\ rd.blockIndex \in Nat /\ rd.limit \in Nat
      /\ sync.index \in Nat /\ n \in Nat
  BY <1>1, ThreadZero DEF Round, Shape, Bounds, IsRd, SyncOK
<1>7. Working(t) /\ From(s, w, t) = 0 /\ pc[t] = "wait_write" /\ bi(t) = rd.blockIndex - n
  <2>1. Working(t) /\ pc[t] = "wait_write"
    BY DEF Write, Working
  <2>2. From(s, w, t) = 0
    BY <1>5, <1>6 DEF From
  <2> QED BY <2>1, <2>2, <1>6 DEF Round
<1>8. \A u \in Threads : Working(u) => /\ u \in 0 .. s - 1 /\ From(s, w, u) \in 0 .. s - 1
                                       /\ bi(u) >= rd.blockIndex - n
  <2>1. \A u \in Threads : Working(u) => u \in 0 .. s - 1
    BY <1>6 DEF Round, Threads
  <2>2. \A u \in Threads : Working(u) => From(s, w, u) \in 0 .. s - 1
    BY <2>1, <1>6 DEF From
  <2> QED BY <2>1, <2>2, <1>6 DEF Round
<1>9. m > 0 => wr.interrupted \/ sync.res # OK
  <2> SUFFICES ASSUME m > 0, sync.res = OK, ~ wr.interrupted PROVE FALSE
    OBVIOUS
  <2>1. sync.needInterrupt /\ sync.index < rd.blockIndex - n
    BY DEF Chained, Broken, KeptBefore
  <2>2. PICK u \in Threads : Failed(u) /\ bi(u) <= sync.index
    BY <2>1 DEF Blamed
  <2>3. bi(u) \in Nat
    BY DEF Control, Good, ThreadOK, LocalOK, bi
  <2> QED BY <1>6, <1>8, <2>1, <2>2, <2>3 DEF Failed
<1>10. Passer(t) => l.finish
  BY <1>7 DEF Passer
<1>11. m > 0 /\ ~ Passer(t) => KeptBefore(w, n) /\ 0 < s - m
  BY <1>6, <1>7 DEF Chained, Broken, KeptBefore
<1>12. /\ wr'.filledStart \in {f, t} /\ wr'.numFilled \in {m, m + 1}
       /\ m > 0 => wr'.filledStart = f
       /\ m = 0 /\ wr'.numFilled = 1 => wr'.filledStart = t
       /\ Passer(t) => wr'.numFilled = m /\ ~ cont
       /\ ~ l.finish /\ m > 0 => wr'.numFilled = m + 1
       /\ ~ l.finish /\ m = 0 /\ wr'.numFilled = 1 => sync'.needInterrupt /\ sync'.index <= bi(t)
       /\ l.finish /\ cont => wr'.numFilled = m /\ (m > 0 => sync'.res # OK)
  BY <1>3, <1>9 DEF Writes
<1>13. Bounds'
  <2>1. wr'.filledStart \in 0 .. s - 1
    BY <1>5, <1>6, <1>12
  <2>2. wr'.numFilled \in 0 .. s
    BY <1>6, <1>11, <1>12
  <2> QED BY <1>1, <2>1, <2>2 DEF Bounds
<1> HIDE DEF l, f, m, s
<1>14. CASE ~ l.finish
  <2>1. PICK v \in 0 .. MaxThreads : /\ v = NextThread(w, s) /\ Round(v, n - 1)'
                                     /\ s < rd.limit => w + 1 < s
    BY <1>5, <1>14
  <2>2. /\ v \in 0 .. s - 1 /\ v = IF w + 1 >= s THEN 0 ELSE w + 1
        /\ \A u \in 0 .. s - 1 : u # t => From(s, v, u) = From(s, w, u) - 1
        /\ From(s, v, t) = s - 1
    <3>1. n \in 1 .. s
      BY <1>5
    <3> QED BY <1>5, <1>6, <2>1, <3>1, RingNext DEF NextThread
  <2>3. \A u \in Threads : Working(u)' => Working(u) /\ u # t /\ From(s, v, u) = From(s, w, u) - 1
    <3>1. ~ Working(t)'
      <4>1. Working(t)' => From(s, v, t) < n - 1
        BY <1>1, <2>1 DEF Round, s
      <4>2. ~ (s - 1 < n - 1)
        BY <1>5, <1>6
      <4> QED BY <2>2, <4>1, <4>2
    <3>2. \A u \in Threads : u # t /\ Working(u)' => Working(u)
      BY <1>1 DEF Others, Working, Reading
    <3> QED BY <1>8, <2>2, <3>1, <3>2
  <2>4. CASE m > 0
    <3>1. KeptBefore(w, n) /\ 0 < s - m
      BY <1>10, <1>11, <1>14, <2>4
    <3>2. /\ At(s, f, m) = w /\ sync.needInterrupt /\ sync.index < rd.blockIndex - n
          /\ (s < rd.limit => f + m = w)
      BY <3>1 DEF KeptBefore, s, f, m
    <3>3. \A u \in Threads : Working(u) => From(s, w, u) < s - m \/ Passer(u)
      BY <3>1 DEF KeptBefore, s, f, m
    <3>4. wr'.filledStart = f /\ wr'.numFilled = m + 1
      BY <1>12, <1>14, <2>4
    <3>5. At(s, f, m + 1) = v
      BY <1>6, <2>2, <3>1, <3>2 DEF At
    <3>6. sync'.needInterrupt /\ sync'.index < rd.blockIndex - (n - 1)
      <4>1. sync'.needInterrupt /\ sync'.index <= sync.index /\ sync'.index \in Nat
        BY <1>1, <3>2 DEF Later, SyncOK
      <4> QED BY <1>6, <3>2, <4>1
    <3>7. s < rd.limit => f + (m + 1) = v
      BY <1>6, <2>1, <2>2, <3>2
    <3>8. ASSUME NEW u \in Threads, Working(u)'
          PROVE  From(s, v, u) < s - (m + 1) \/ Passer(u)'
      <4>1. Working(u) /\ u # t /\ From(s, v, u) = From(s, w, u) - 1
        BY <2>3, <3>8
      <4>2. From(s, w, u) \in Nat /\ (From(s, w, u) < s - m \/ Passer(u))
        BY <1>8, <3>3, <4>1
      <4> QED BY <1>1, <1>6, <4>1, <4>2
    <3>9. KeptBefore(v, n - 1)'
      BY <1>1, <3>4, <3>5, <3>6, <3>7, <3>8 DEF KeptBefore, s
    <3> QED BY <1>5, <1>6, <1>13, <2>1, <3>9 DEF Chain, Chained
  <2>5. CASE m = 0 /\ wr'.numFilled = 1
    <3>1. wr'.filledStart = w /\ sync'.needInterrupt /\ sync'.index <= rd.blockIndex - n
      BY <1>5, <1>7, <1>12, <1>14, <2>5
    <3>2. At(s, w, 1) = v
      BY <1>6, <2>2 DEF At
    <3>3. sync'.index < rd.blockIndex - (n - 1)
      BY <1>1, <1>6, <3>1 DEF SyncOK
    <3>4. s < rd.limit => w + 1 = v
      BY <1>6, <2>1, <2>2
    <3>5. ASSUME NEW u \in Threads, Working(u)'
          PROVE  From(s, v, u) < s - 1
      <4>1. Working(u) /\ u # t /\ From(s, v, u) = From(s, w, u) - 1
        BY <2>3, <3>5
      <4> QED BY <1>6, <1>8, <4>1
    <3>6. KeptBefore(v, n - 1)'
      BY <1>1, <2>5, <3>1, <3>2, <3>3, <3>4, <3>5 DEF KeptBefore, s
    <3> QED BY <1>5, <1>6, <1>13, <2>1, <3>6 DEF Chain, Chained
  <2>6. CASE m = 0 /\ wr'.numFilled = 0
    <3>1. Chained(v, n - 1)'
      BY <2>6 DEF Chained
    <3> QED BY <1>5, <1>6, <1>13, <2>1, <3>1 DEF Chain
  <2> QED BY <1>6, <1>12, <2>4, <2>5, <2>6
<1>15. CASE l.finish /\ cont
  <2>1. Round(0, 0)' /\ 0 \in 0 .. MaxThreads
    BY <1>5, <1>6, <1>15
  <2>2. \A u \in Threads : ~ Working(u)'
    <3>1. \A u \in Threads : u < s => ~ (From(s, 0, u) < 0)
      BY <1>6 DEF From, Threads
    <3> QED BY <1>1, <2>1, <3>1 DEF Round, s
  <2>3. Chained(0, 0)'
    BY <1>6, <1>12, <1>15, <2>2 DEF Chained, Broken
  <2> QED BY <1>13, <2>1, <2>3 DEF Chain
<1>16. CASE l.finish /\ ~ cont
  BY <1>5, <1>13, <1>16 DEF Chain
<1> QED BY <1>14, <1>15, <1>16

-----------------------------------------------------------------------------
Inv == Shape /\ Tokens /\ Control /\ Bounds /\ Blamed /\ Chain

(* The handle as MtDec_Construct leaves it.                                *)
LEMMA InitInv == Init => Inv
<1> SUFFICES ASSUME Init PROVE Inv
  OBVIOUS
<1>1. Shape /\ Tokens
  BY InitTokens
<1>2. InputOK
  <2> DEFINE I == [bytes : Streams, outSize : Nat \cup {NoSize}, finishMode : BOOLEAN,
                   threads : 1 .. MaxThreads]
  <2>1. Inputs \in Seq(SUBSET I) /\ Inputs # << >>
    BY MtDecAssumption
  <2>2. input \in I
    <3>1. input \in Inputs[1]
      BY DEF Init
    <3> HIDE DEF I
    <3> QED BY <2>1, <3>1
  <2> QED BY <2>2 DEF InputOK
<1>3. RdOK
  <2>1. Len(input.bytes) \in Nat
    BY <1>2 DEF InputOK, Streams
  <2> QED BY <2>1, MtDecAssumption DEF Init, RdOK, Rd0
<1>4. WrOK /\ SyncOK /\ result \in Errors /\ Bounds
  BY DEF Init, WrOK, Wr0, SyncOK, Sync0, Errors, Bounds, Rd0
<1>5. ASSUME NEW t \in Threads PROVE Good(t)
  <2>1. ThreadOK(th[t])
    <3>1. th[t] = NewThread
      BY DEF Init
    <3>2. ThreadOK(NewThread)
      BY FreshTypes DEF NewThread, ThreadOK
    <3> QED BY <3>1, <3>2
  <2> QED BY <2>1 DEF Init, Good, Linked, Working, Reading
<1>6. Blamed /\ Chain
  BY DEF Init, Blamed, Chain
<1> QED BY <1>1, <1>2, <1>3, <1>4, <1>5, <1>6 DEF Inv, Control

(* Every step of MtDec_ThreadFunc2 keeps the invariant.                    *)
LEMMA ThreadInv ==
  ASSUME Inv, NEW t \in Threads, Thread(t)
  PROVE  Inv'
<1>1. Shape' /\ Tokens'
  BY NextTokens DEF Inv, Next
<1>2. Control' /\ Blamed'
  BY ThreadControl, ThreadBlamed DEF Inv
<1>3. CASE WaitRead(t) /\ exitThread
  <2>1. UNCHANGED <<rd, wr, mainPc>>
    BY <1>3 DEF WaitRead, caller
  <2>2. mainPc = "run" => Ending'
    <3>1. SUFFICES ASSUME mainPc = "run" PROVE Ending'
      OBVIOUS
    <3>2. ~ \E w, n \in 0 .. MaxThreads : Round(w, n)'
      BY <1>3 DEF WaitRead, Round
    <3> QED BY <1>1, <2>1, <3>1, <3>2 DEF Tokens
  <2>3. Bounds' /\ Chain'
    BY <2>1, <2>2 DEF Inv, Bounds, Chain
  <2> QED BY <1>1, <1>2, <2>3 DEF Inv
<1>4. CASE ~ (WaitRead(t) /\ exitThread)
  <2>1. /\ mainPc = "run" /\ mainPc' = "run"
        /\ \E w, n \in 0 .. MaxThreads : Round(w, n)
    BY <1>4, ThreadRuns DEF Inv
  <2>2. ~ Ending
    <3>1. PICK w, n \in 0 .. MaxThreads : Round(w, n)
      BY <2>1
    <3>2. rd.started \in 1 .. MaxThreads /\ MaxThreads \in Nat
      BY ThreadZero DEF Inv, Shape, IsRd
    <3>3. w \in Threads /\ canWrite[w]
      BY <3>1, <3>2 DEF Round, Threads
    <3> QED BY <3>3 DEF Ending
  <2>3. PICK w, n \in 0 .. MaxThreads : Round(w, n) /\ Chained(w, n)
    BY <2>1, <2>2 DEF Inv, Chain
  <2>4. CASE WaitRead(t)
    <3>1. n + 1 \in 0 .. MaxThreads /\ Round(w, n + 1)'
      BY <2>1, <2>3, <2>4, WaitReadKeeps DEF Inv
    <3>2. Bounds' /\ Chained(w, n + 1)'
      BY <2>1, <2>3, <2>4, WaitReadChain DEF Inv
    <3> QED BY <1>1, <1>2, <3>1, <3>2 DEF Inv, Chain
  <2>5. CASE \/ ReadNoLink(t) \/ ReadCross(t) \/ ReadLink(t) \/ ParseOverflow(t)
             \/ ParseContinue(t) \/ ParseEnd(t) \/ ParseNew(t) \/ PreCode(t)
             \/ CodeFails(t) \/ CodeLink(t) \/ CodeUnprepared(t) \/ StartNone(t)
    <3>1. Round(w, n)'
      BY <2>3, <2>5, ReadSteps, ReadKeeps, CodeSteps, CodeKeeps, StartNoneKeeps DEF Inv
    <3>2. Bounds' /\ Chained(w, n)'
      BY <2>3, <2>5, ReadChain DEF Inv
    <3> QED BY <1>1, <1>2, <3>1, <3>2 DEF Inv, Chain
  <2>6. CASE StartNext(t)
    <3>1. Round(w, n)'
      BY <2>1, <2>3, <2>6, StartNextKeeps DEF Inv
    <3>2. Bounds' /\ Chained(w, n)'
      BY <2>1, <2>3, <2>6, StartNextChain DEF Inv
    <3> QED BY <1>1, <1>2, <3>1, <3>2 DEF Inv, Chain
  <2>7. CASE Write(t)
    BY <1>1, <1>2, <2>1, <2>3, <2>7, WriteChain DEF Inv
  <2> QED BY <2>4, <2>5, <2>6, <2>7 DEF Thread
<1> QED BY <1>3, <1>4

(* Every step keeps the invariant.                                         *)
LEMMA NextInv == Inv /\ [Next]_vars => Inv'
<1> SUFFICES ASSUME Inv, [Next]_vars PROVE Inv'
  OBVIOUS
<1>1. Shape' /\ Tokens'
  BY NextTokens DEF Inv
<1>2. CASE Call
  <2>1. Control' /\ Bounds' /\ sync' = Sync0 /\ wr' = Wr0
    BY <1>2, CallControl DEF Inv
  <2>2. Blamed'
    BY <2>1, CallBlamed
  <2>3. Chain'
    BY <1>1, <2>1 DEF Tokens, Chain, Chained, Wr0
  <2> QED BY <1>1, <2>1, <2>2, <2>3 DEF Inv
<1>3. CASE CodeReturns \/ Prepare \/ MtDec_Read \/ StRead \/ StDecode
  <2>1. Control' /\ Bounds'
    BY <1>3, CodeReturnsControl, PrepareControl, MtDec_ReadControl, StReadControl,
       StDecodeControl DEF Inv
  <2>2. mainPc' # "run"
    BY <1>3 DEF CodeReturns, Prepare, MtDec_Read, StRead, StDecode, Return, Served
  <2> QED BY <1>1, <2>1, <2>2 DEF Inv, Blamed, Chain
<1>4. CASE Destroy
  <2>1. UNCHANGED <<input, rd, wr, sync, pc, th, result>> /\ mainPc' # "run"
    BY <1>4 DEF Destroy
  <2>2. Bounds'
    BY <2>1 DEF Inv, Bounds
  <2>3. Control'
    BY <2>1 DEF Inv, Control, InputOK, RdOK, WrOK, SyncOK, Good, Linked, Links, FromCross,
                Working, Reading, Flags, InterruptedBefore, Passer
  <2> QED BY <1>1, <2>1, <2>2, <2>3 DEF Inv, Blamed, Chain
<1>5. CASE UNCHANGED vars
  <2>1. UNCHANGED <<input, rd, wr, sync, exitThread, canRead, canWrite, pc, th, result, mainPc>>
    BY <1>5 DEF vars
  <2>2. Control'
    BY <2>1 DEF Inv, Control, InputOK, RdOK, WrOK, SyncOK, Good, Linked, Links, FromCross,
                Working, Reading, Flags, InterruptedBefore, Passer
  <2>3. \A u \in Threads : (Working(u)' <=> Working(u)) /\ bi(u)' = bi(u)
                           /\ (Passer(u)' <=> Passer(u)) /\ (Failed(u)' <=> Failed(u))
    BY <2>1 DEF Working, Reading, bi, Passer, Failed
  <2>4. Blamed' /\ Bounds'
    BY <2>1, <2>3 DEF Inv, Blamed, Bounds
  <2>5. ASSUME NEW w \in 0 .. MaxThreads, NEW n \in 0 .. MaxThreads, Round(w, n), Chained(w, n)
        PROVE  Round(w, n)' /\ Chained(w, n)'
    <3>1. Pending(w, n)' \/ Current(w, n)' \/ AtLast(w, n)'
      BY <2>1, <2>3, <2>5 DEF Round, Pending, Current, AtLast, Reading, Passes, Working
    <3>2. Round(w, n)'
      BY <2>1, <2>3, <2>5, <3>1, RoundStays DEF Round
    <3>3. Chained(w, n)'
      BY <2>1, <2>3, <2>5 DEF Chained, KeptBefore, Broken
    <3> QED BY <3>2, <3>3
  <2>6. Ending => Ending'
    BY <2>1, <2>3 DEF Ending
  <2>7. Chain'
    BY <2>1, <2>5, <2>6 DEF Inv, Chain
  <2> QED BY <1>1, <2>2, <2>4, <2>7 DEF Inv
<1> QED BY <1>2, <1>3, <1>4, <1>5, ThreadInv DEF Next, Main, Done

(* The invariant says of the ring and of the results what the types ask.   *)
LEMMA InvTypes == Inv => TypeOK
<1> SUFFICES ASSUME Inv PROVE TypeOK
  OBVIOUS
<1>1. /\ rd.blockIndex \in Nat /\ rd.pos \in 0 .. Len(input.bytes) /\ rd.res \in {OK, "READ"}
      /\ Len(rd.cross) <= InBufSize /\ (rd.cross # << >> => rd.crossBlock)
      /\ rd.started \in 1 .. MaxThreads /\ rd.limit \in 0 .. MaxThreads
  BY DEF Inv, Control, RdOK, Shape, IsRd
<1>2. wr.filledStart \in Threads /\ wr.numFilled \in 0 .. MaxThreads
  BY <1>1, ThreadZero DEF Inv, Bounds, Threads
<1>3. \A t \in Threads : th[t].l.res \in Errors /\ th[t].l.codeRes \in Errors
  BY DEF Inv, Control, Good, ThreadOK, LocalOK
<1>4. sync.res \in {OK, "PROGRESS"} /\ result \in Errors
  BY DEF Inv, Control, SyncOK
<1>5. /\ pc \in [Threads -> Labels]
      /\ canRead \in [Threads -> BOOLEAN] /\ canWrite \in [Threads -> BOOLEAN]
      /\ mainPc \in {"idle", "run", "prepare", "read", "decode", "destroy", "end"}
  BY DEF Inv, Shape
<1> QED BY <1>1, <1>2, <1>3, <1>4, <1>5 DEF TypeOK

(* Whatever the input and the number of threads, whichever callback fails, *)
(* allocation or thread start, and however the threads interleave, the     *)
(* fields of the handle stay of their types: MtDec_ThreadFunc2 never puts  *)
(* more threads' input aside (numFilledThreads) than there are threads,    *)
(* the read position stays in the stream, and input is only left in the    *)
(* crossBlock when there is one.                                           *)
THEOREM Types == Spec => []TypeOK
<1>1. Spec => []Inv
  BY InitInv, NextInv, PTL DEF Spec
<1> QED BY <1>1, InvTypes, PTL

-----------------------------------------------------------------------------
(* Where the input is.  Nothing went wrong yet that the single-threaded    *)
(* decoder is not called for.                                              *)
Continues == sync.res = OK /\ (wr.interrupted => NeedContinue)

IsSeq(s) == \E S : s \in Seq(S)

(* What the first p bytes of the input decode to, and whether the input    *)
(* ends there for the decoder, whatever follows.                           *)
Outputs(p) == Cardinality({j \in 1 .. p : input.bytes[j] \in {"data", "bad"}})
Terminal(e) ==
  \/ e > 0 /\ input.bytes[e] \in {"end", "err"}
  \/ input.outSize # NoSize /\ ~ input.finishMode /\ Outputs(e) = input.outSize

(* s are the bytes of the input from a on; links from the second on are    *)
(* full, link k begins Lk(k) bytes after the first one's bytes.            *)
RunFrom(s, a) == \A j \in 1 .. Len(s) : s[j] = a + j
Lk(k) == (k - 2) * InBufSize
Rest(buf, x, size) ==
  \A k \in Nat, j \in 1 .. InBufSize :
    k >= 2 /\ Lk(k) + j <= size => k <= Len(buf) /\ buf[k][j] = x + Lk(k) + j
Holds(buf, a, start, size) ==
  /\ start \in 0 .. InBufSize /\ start <= size /\ (size > 0 => start > 0)
  /\ start > 0 => Len(buf) > 0
  /\ \A j \in 1 .. start : buf[1][j] = a + j
  /\ Rest(buf, a + start, size - start)

(* The blocks end at e, and what was read beyond is in the crossBlock; or  *)
(* it was dropped, as no decoder goes on there; or all was read.           *)
Front(e) == RunFrom(rd.cross, e) /\ rd.pos = e + Len(rd.cross)
Dropped(e) == rd.cross = << >> /\ Terminal(e) /\ e <= rd.pos
Drained(p) == rd.finished /\ p = rd.pos /\ rd.cross = << >>
Level(p) == rd.outParsed = Outputs(p) \/ Drained(p)

-----------------------------------------------------------------------------
(* Links of InBufSize bytes.                                               *)
LEMMA LkNext ==
  ASSUME NEW k \in Int
  PROVE  Lk(2) = 0 /\ Lk(k) \in Int /\ Lk(k + 1) = Lk(k) + InBufSize
<1>1. InBufSize \in Int
  BY MtDecAssumption
<1>2. Lk(2) = 0 /\ Lk(k) \in Int
  BY <1>1 DEF Lk
<1>3. Lk(k + 1) = Lk(k) + InBufSize
  <2>1. (k + 1) - 2 = (k - 2) + 1
    OBVIOUS
  <2>2. \A x \in Int : (x + 1) * InBufSize = x * InBufSize + InBufSize
    BY <1>1
  <2>3. k - 2 \in Int
    OBVIOUS
  <2> QED BY <2>1, <2>2, <2>3 DEF Lk
<1> QED BY <1>2, <1>3

(* A later link is further on.                                             *)
LEMMA LkAhead ==
  ASSUME NEW i \in Nat, i >= 2, NEW k \in Nat, i < k
  PROVE  Lk(i) + InBufSize <= Lk(k) /\ Lk(i) >= 0
<1>1. InBufSize \in Nat
  BY MtDecAssumption
<1> DEFINE T == {n \in Nat : Lk(i) + InBufSize <= Lk(i + 1 + n)}
<1>2. \A m \in Int : Lk(m) \in Int /\ Lk(m + 1) = Lk(m) + InBufSize /\ Lk(2) = 0
  BY LkNext
<1>3. 0 \in T
  <2>1. i + 1 + 0 = i + 1 /\ i \in Int
    OBVIOUS
  <2> QED BY <2>1, <1>1, <1>2
<1>4. ASSUME NEW n \in Nat, n \in T PROVE n + 1 \in T
  <2>1. i + 1 + (n + 1) = (i + 1 + n) + 1 /\ i + 1 + n \in Int /\ i \in Int
    OBVIOUS
  <2> QED BY <2>1, <1>1, <1>2, <1>4
<1> HIDE DEF T
<1>5. Nat \subseteq T
  BY <1>3, <1>4, NatInduct
<1>6. Lk(i) + InBufSize <= Lk(k)
  <2>1. k - (i + 1) \in Nat /\ i + 1 + (k - (i + 1)) = k
    OBVIOUS
  <2> QED BY <2>1, <1>5 DEF T
<1> DEFINE U == {n \in Nat : Lk(n + 2) >= 0}
<1>7. 0 \in U
  <2>1. 0 + 2 = 2
    OBVIOUS
  <2> QED BY <2>1, <1>2
<1>8. ASSUME NEW n \in Nat, n \in U PROVE n + 1 \in U
  <2>1. (n + 1) + 2 = (n + 2) + 1 /\ n + 2 \in Int
    OBVIOUS
  <2> QED BY <2>1, <1>1, <1>2, <1>8
<1> HIDE DEF U
<1>9. Nat \subseteq U
  BY <1>7, <1>8, NatInduct
<1>10. Lk(i) >= 0
  <2>1. i - 2 \in Nat /\ (i - 2) + 2 = i
    OBVIOUS
  <2> QED BY <2>1, <1>9 DEF U
<1> QED BY <1>6, <1>10

(* The links follow each other.                                            *)
LEMMA LkOrder ==
  /\ Lk(2) = 0 /\ \A k \in Int : Lk(k) \in Int
  /\ \A k \in Nat : k >= 2 => Lk(k) >= 0
  /\ \A i, k \in Nat : i >= 2 /\ i < k => Lk(i) + InBufSize <= Lk(k)
<1>1. Lk(2) = 0 /\ \A k \in Int : Lk(k) \in Int
  BY LkNext
<1>2. ASSUME NEW k \in Nat, k >= 2 PROVE Lk(k) >= 0
  <2>1. k + 1 \in Nat /\ k < k + 1
    OBVIOUS
  <2> QED BY <1>2, <2>1, LkAhead
<1>3. ASSUME NEW i \in Nat, NEW k \in Nat, i >= 2, i < k PROVE Lk(i) + InBufSize <= Lk(k)
  BY <1>3, LkAhead
<1> QED BY <1>1, <1>2, <1>3

(* The output of the first bytes, and of one more.                         *)
LEMMA OutputsNext ==
  ASSUME NEW p \in Nat
  PROVE  /\ Outputs(p) \in Nat
         /\ Outputs(p + 1) = Outputs(p) + IF input.bytes[p + 1] \in {"data", "bad"} THEN 1 ELSE 0
         /\ Outputs(0) = 0
<1> DEFINE S(q) == {j \in 1 .. q : input.bytes[j] \in {"data", "bad"}}
<1>1. \A q \in Nat : IsFiniteSet(S(q)) /\ Cardinality(S(q)) \in Nat
  <2>1. TAKE q \in Nat
  <2>2. S(q) \subseteq 1 .. q
    OBVIOUS
  <2> HIDE DEF S
  <2>3. IsFiniteSet(1 .. q)
    BY FS_Interval
  <2> QED BY <2>2, <2>3, FS_Subset, FS_CardinalityType
<1>2. S(p + 1) = IF input.bytes[p + 1] \in {"data", "bad"} THEN S(p) \cup {p + 1} ELSE S(p)
  OBVIOUS
<1>3. p + 1 \notin S(p)
  OBVIOUS
<1>4. \A q \in Nat : Outputs(q) = Cardinality(S(q))
  BY DEF Outputs
<1>5. S(0) = {}
  OBVIOUS
<1> HIDE DEF S
<1>6. Cardinality(S(p) \cup {p + 1}) = Cardinality(S(p)) + 1
  BY <1>1, <1>3, FS_AddElement
<1>7. Cardinality(S(p)) \in Nat /\ p + 1 \in Nat
  BY <1>1
<1>8. Outputs(0) = 0
  BY <1>4, <1>5, FS_EmptySet
<1> QED BY <1>2, <1>4, <1>6, <1>7, <1>8

(* What a run of the input decodes to, as its parsers count.               *)
LEMMA OutputsRun ==
  ASSUME NEW src, Len(src) \in Nat, NEW y \in Nat, RunFrom(src, y), NEW k \in 0 .. Len(src)
  PROVE  Outputs(y + k) = Outputs(y) + NumData(input.bytes, src, k + 1)
<1> DEFINE T == {n \in Nat : n <= Len(src) =>
                   Outputs(y + n) = Outputs(y) + NumData(input.bytes, src, n + 1)}
<1>1. 0 \in T
  <2>1. NumData(input.bytes, src, 0 + 1) = 0
    <3>1. {j \in 1 .. 0 + 1 - 1 : input.bytes[src[j]] \in {"data", "bad"}} = {}
      OBVIOUS
    <3> QED BY <3>1, FS_EmptySet DEF NumData
  <2>2. y + 0 = y /\ Outputs(y) \in Nat
    BY OutputsNext
  <2> QED BY <2>1, <2>2
<1>2. ASSUME NEW n \in Nat, n \in T PROVE n + 1 \in T
  <2>1. SUFFICES ASSUME n + 1 <= Len(src)
                 PROVE  Outputs(y + (n + 1)) = Outputs(y) + NumData(input.bytes, src, (n + 1) + 1)
    OBVIOUS
  <2>2. src[n + 1] = (y + n) + 1 /\ y + (n + 1) = (y + n) + 1 /\ y + n \in Nat
        /\ n + 1 \in Nat \ {0} /\ n + 1 \in Int
    <3>1. n + 1 \in 1 .. Len(src)
      BY <2>1
    <3>2. src[n + 1] = y + (n + 1)
      BY <3>1 DEF RunFrom
    <3> QED BY <3>2
  <2>3. Outputs(y + n) = Outputs(y) + NumData(input.bytes, src, n + 1)
    BY <1>2, <2>1
  <2>4. NumData(input.bytes, src, n + 1) \in Nat /\ Outputs(y) \in Nat
    BY <2>2, NumDataType, OutputsNext
  <2>5. Outputs((y + n) + 1) =
          Outputs(y + n) + IF input.bytes[(y + n) + 1] \in {"data", "bad"} THEN 1 ELSE 0
    BY <2>2, OutputsNext
  <2>6. NumData(input.bytes, src, (n + 1) + 1) =
          NumData(input.bytes, src, n + 1) + IF input.bytes[src[n + 1]] \in {"data", "bad"} THEN 1 ELSE 0
    BY <2>2, NumDataNext
  <2> HIDE DEF T
  <2> QED BY <2>2, <2>3, <2>4, <2>5, <2>6
<1> HIDE DEF T
<1>3. Nat \subseteq T
  BY <1>1, <1>2, NatInduct
<1>4. k \in T
  BY <1>3
<1> QED BY <1>4 DEF T

(* Sequences whose items do not matter.                                    *)
LEMMA SeqJoins ==
  ASSUME NEW s, NEW t, IsSeq(s), IsSeq(t)
  PROVE  IsSeq(s \o t) /\ Len(s \o t) = Len(s) + Len(t) /\ Len(s) \in Nat /\ Len(t) \in Nat
<1>1. PICK S : s \in Seq(S)
  BY DEF IsSeq
<1>2. PICK T : t \in Seq(T)
  BY DEF IsSeq
<1>3. s \in Seq(S \cup T) /\ t \in Seq(S \cup T)
  BY <1>1, <1>2
<1>4. s \o t \in Seq(S \cup T) /\ Len(s \o t) = Len(s) + Len(t)
  BY <1>3
<1> QED BY <1>1, <1>2, <1>4 DEF IsSeq

(* What Lzma2Dec_DecodeToDic gives is a sequence.                          *)
LEMMA OutputIs ==
  ASSUME NEW bytes, NEW src, NEW k \in Nat
  PROVE  /\ IsSeq(Output(bytes, src, k))
         /\ Len(Output(bytes, src, k)) = Cardinality({j \in 1 .. k - 1 : bytes[src[j]] = "data"})
<1> DEFINE data == {j \in 1 .. k - 1 : bytes[src[j]] = "data"}
           nth(n) == CHOOSE j \in data : Cardinality({i \in data : i <= j}) = n
           c == Cardinality(data)
           o == [n \in 1 .. c |-> src[nth(n)]]
<1>1. Output(bytes, src, k) = o
  BY DEF Output
<1>2. c \in Nat
  <2>1. data \subseteq 1 .. k - 1
    OBVIOUS
  <2> HIDE DEF data
  <2>2. IsFiniteSet(1 .. k - 1)
    BY FS_Interval
  <2> QED BY <2>1, <2>2, FS_Subset, FS_CardinalityType
<1> DEFINE f(n) == src[nth(n)]
           S == {f(n) : n \in 1 .. c}
<1> HIDE DEF f, c
<1>3. [n \in 1 .. c |-> f(n)] \in Seq(S) /\ Len([n \in 1 .. c |-> f(n)]) = c
  BY <1>2
<1>4. o = [n \in 1 .. c |-> f(n)]
  BY DEF f
<1> QED BY <1>1, <1>3, <1>4 DEF IsSeq, c

(* When the single-threaded decoder asks for more, nothing answered.       *)
LEMMA OnlyAsks ==
  ASSUME NEW d, NEW size, StAnswer(d, size) = "more", rd.res \in {OK, "READ"}
  PROVE  /\ d.ok /\ ~ d.mark /\ st.src # << >>
         /\ ~ (~ input.finishMode /\ input.outSize # NoSize /\ input.outSize <= size)
BY DEF StAnswer, OK

(* What the single-threaded decoder makes of a run of the input, when it   *)
(* asks for more: it used all of it, and met nothing that ends the input.  *)
LEMMA DecodeAsks ==
  ASSUME InputOK, rd.res \in {OK, "READ"}, NEW src, Len(src) \in Nat, NEW y \in Nat, RunFrom(src, y),
         y + Len(src) <= Len(input.bytes), NEW n \in Nat, st.src = src,
         NEW d, d = Decode(input.bytes, src, n, input.outSize, ~ input.finishMode),
         StAnswer(d, n + Len(d.out)) = "more", n = Outputs(y)
  PROVE  /\ IsSeq(d.out) /\ n + Len(d.out) = Outputs(y + Len(src))
         /\ Len(src) > 0 => ~ Terminal(y + Len(src))
<1> DEFINE bytes == input.bytes
           D(k) == n + NumData(bytes, src, k)
           full(k) == input.outSize # NoSize /\ D(k) = input.outSize
           kind(k) == IF k > Len(src) THEN "more" ELSE bytes[src[k]]
           Stops(k) == kind(k) \in {"more", "end", "bad", "err"} \/ full(k)
           stops == {k \in 1 .. Len(src) + 1 : Stops(k)}
           s == Min(stops)
           stopped == (full(s) /\ ~ input.finishMode) \/ kind(s) = "more"
<1>1. /\ d.out = Output(bytes, src, s)
      /\ d.mark <=> ~ stopped /\ kind(s) = "end"
      /\ d.ok <=> stopped \/ kind(s) = "end"
  BY DEF Decode
<1>2. s \in 1 .. Len(src) + 1 /\ Stops(s) /\ \A k \in 1 .. s - 1 : ~ Stops(k)
  <2>1. Len(src) + 1 \in stops
    OBVIOUS
  <2>2. stops \subseteq Nat /\ stops # {}
    BY <2>1
  <2> HIDE DEF stops
  <2>3. s \in stops /\ \A x \in stops : s <= x
    BY <2>2, MinIs
  <2>4. s \in 1 .. Len(src) + 1 /\ Stops(s)
    BY <2>3 DEF stops
  <2>5. ASSUME NEW k \in 1 .. s - 1 PROVE ~ Stops(k)
    <3>1. k \in 1 .. Len(src) + 1 /\ ~ (s <= k)
      BY <2>4
    <3> HIDE DEF s, Stops
    <3>2. k \notin stops
      BY <2>3, <3>1
    <3> QED BY <3>1, <3>2 DEF stops
  <2> QED BY <2>4, <2>5
<1> HIDE DEF s, stops
<1>3. \A k \in 1 .. Len(src) : bytes[src[k]] \in Kinds
  <2>1. bytes \in Seq(Kinds)
    BY DEF InputOK, Streams
  <2>2. \A k \in 1 .. Len(src) : src[k] \in 1 .. Len(bytes)
    BY DEF RunFrom
  <2> HIDE DEF bytes
  <2> QED BY <2>1, <2>2
<1>4. /\ d.ok /\ ~ d.mark
      /\ ~ (~ input.finishMode /\ input.outSize # NoSize /\ input.outSize <= n + Len(d.out))
  BY OnlyAsks DEF OK
<1>5. Len(d.out) = NumData(bytes, src, s) /\ IsSeq(d.out)
  <2>1. {j \in 1 .. s - 1 : bytes[src[j]] = "data"} =
          {j \in 1 .. s - 1 : bytes[src[j]] \in {"data", "bad"}}
    <3>1. \A j \in 1 .. s - 1 : bytes[src[j]] # "bad"
      BY <1>2
    <3> QED BY <3>1
  <2>2. s \in Nat
    BY <1>2
  <2>3. IsSeq(Output(bytes, src, s)) /\ Len(Output(bytes, src, s)) =
          Cardinality({j \in 1 .. s - 1 : bytes[src[j]] = "data"})
    <3>1. PICK x, b : x = s /\ b = bytes
      OBVIOUS
    <3>2. x \in Nat
      BY <2>2, <3>1
    <3>3. IsSeq(Output(b, src, x)) /\ Len(Output(b, src, x)) =
            Cardinality({j \in 1 .. x - 1 : b[src[j]] = "data"})
      BY <3>2, OutputIs
    <3> QED BY <3>1, <3>3
  <2>4. NumData(bytes, src, s) = Cardinality({j \in 1 .. s - 1 : bytes[src[j]] \in {"data", "bad"}})
    BY DEF NumData
  <2> QED BY <1>1, <2>1, <2>3, <2>4
<1>6. NumData(bytes, src, s) \in Nat /\ NumData(bytes, src, Len(src) + 1) \in Nat
  BY <1>2, NumDataType
<1>7. ~ (full(s) /\ ~ input.finishMode)
  BY <1>4, <1>5, <1>6
<1>8. s = Len(src) + 1
  <2>1. kind(s) = "more"
    BY <1>1, <1>4, <1>7
  <2> QED BY <1>2, <1>3, <2>1 DEF Kinds
<1>9. n + Len(d.out) = Outputs(y + Len(src))
  BY <1>5, <1>8, OutputsRun
<1>10. ASSUME Len(src) > 0, Terminal(y + Len(src)) PROVE FALSE
  <2>1. bytes[y + Len(src)] \notin {"end", "err"}
    <3>1. Len(src) \in 1 .. s - 1 /\ Len(src) \in 1 .. Len(src)
      BY <1>8, <1>10
    <3>2. kind(Len(src)) \notin {"end", "err"}
      BY <1>2, <3>1
    <3>3. src[Len(src)] = y + Len(src)
      BY <3>1 DEF RunFrom
    <3> QED BY <3>1, <3>2, <3>3
  <2>2. input.outSize # NoSize /\ ~ input.finishMode /\ Outputs(y + Len(src)) = input.outSize
    BY <1>10, <2>1 DEF Terminal
  <2>3. Outputs(y + Len(src)) \in Nat
    BY OutputsNext
  <2> QED BY <1>4, <1>9, <2>2, <2>3
<1> QED BY <1>5, <1>9, <1>10

-----------------------------------------------------------------------------
(* What a run of the input decodes to.  From a to c nothing ends the input *)
(* or is damaged; x is the n-th byte after a that decodes to something; b  *)
(* is what the first ones after a decode to, and what all up to c do.      *)
Plain(a, c) == \A k \in Int : a < k /\ k <= c => input.bytes[k] \in {"new", "data"}
Nth(a, n, x) ==
  /\ x \in Int /\ a < x /\ x <= Len(input.bytes) /\ input.bytes[x] = "data" /\ Plain(a, x)
  /\ Outputs(x) = Outputs(a) + n
Texts(b, a) == \A n \in 1 .. Len(b) : Nth(a, n, b[n])
TextTo(b, a, c) ==
  /\ IsSeq(b) /\ Len(b) \in Nat /\ a <= c /\ c <= Len(input.bytes) /\ Plain(a, c) /\ Texts(b, a)
  /\ Outputs(c) = Outputs(a) + Len(b)
InSize(k) == input.outSize # NoSize => k <= input.outSize

(* More input decodes to more output.                                      *)
LEMMA OutputsGrow ==
  ASSUME NEW x \in Nat, NEW z \in Nat, x <= z
  PROVE  Outputs(x) <= Outputs(z) /\ Outputs(x) \in Nat /\ Outputs(z) \in Nat
<1> DEFINE T == {k \in Nat : Outputs(x) <= Outputs(x + k)}
<1>0. \A k \in Nat : Outputs(k) \in Nat
  BY OutputsNext
<1>1. 0 \in T
  <2>1. x + 0 = x
    OBVIOUS
  <2> QED BY <1>0, <2>1
<1>2. ASSUME NEW k \in Nat, k \in T PROVE k + 1 \in T
  <2>1. x + (k + 1) = (x + k) + 1 /\ x + k \in Nat
    OBVIOUS
  <2>2. Outputs((x + k) + 1) >= Outputs(x + k)
    BY <1>0, <2>1, OutputsNext
  <2> QED BY <1>0, <1>2, <2>1, <2>2
<1> HIDE DEF T
<1>3. z - x \in T
  BY <1>1, <1>2, NatInduct
<1>4. x + (z - x) = z
  OBVIOUS
<1> QED BY <1>0, <1>3, <1>4 DEF T

(* Between two places with the same output nothing decodes to anything.    *)
LEMMA OutputsSame ==
  ASSUME NEW x \in Nat, NEW z \in Nat, x < z, Outputs(x) = Outputs(z), NEW k \in Nat, x < k, k <= z
  PROVE  input.bytes[k] \notin {"data", "bad"}
<1>1. k - 1 \in Nat /\ (k - 1) + 1 = k
  OBVIOUS
<1>2. Outputs(x) <= Outputs(k - 1) /\ Outputs(k) <= Outputs(z)
  BY <1>1, OutputsGrow
<1>3. Outputs(k - 1) \in Nat /\ Outputs(z) \in Nat
  BY <1>1, OutputsNext
<1>4. Outputs(k) = Outputs(k - 1) + IF input.bytes[k] \in {"data", "bad"} THEN 1 ELSE 0
  BY <1>1, OutputsNext
<1> QED BY <1>2, <1>3, <1>4

(* Every chunk that resets has something in it.                            *)
LEMMA NewIsFollowed ==
  ASSUME InputOK, NEW k \in 1 .. Len(input.bytes) - 1, input.bytes[k] = "new"
  PROVE  input.bytes[k + 1] \in {"data", "bad", "err"}
BY DEF InputOK, Streams

(* There is one n-th byte of output.                                       *)
LEMMA NthIsOne ==
  ASSUME NEW n, NEW x, NEW z, Nth(0, n, x), Nth(0, n, z)
  PROVE  x = z
<1>1. ASSUME NEW i, NEW j, Nth(0, n, i), Nth(0, n, j), i < j PROVE FALSE
  <2>1. i \in Nat /\ j \in Nat /\ j - 1 \in Nat /\ (j - 1) + 1 = j /\ i <= j - 1
    BY <1>1 DEF Nth
  <2>2. Outputs(i) <= Outputs(j - 1) /\ Outputs(i) \in Nat /\ Outputs(j - 1) \in Nat
    BY <2>1, OutputsGrow
  <2>3. Outputs((j - 1) + 1) = Outputs(j - 1) + 1
    <3>1. input.bytes[(j - 1) + 1] = "data"
      BY <1>1, <2>1 DEF Nth
    <3> QED BY <2>1, <3>1, OutputsNext
  <2>4. Outputs(i) = Outputs(j)
    BY <1>1 DEF Nth
  <2> QED BY <2>1, <2>2, <2>3, <2>4
<1>2. x \in Int /\ z \in Int
  BY DEF Nth
<1>3. ~ (x < z) /\ ~ (z < x)
  BY <1>1
<1> QED BY <1>2, <1>3

(* A sequence cut short, and one put together, item by item.               *)
LEMMA SeqItems ==
  ASSUME NEW s, NEW t, IsSeq(s), IsSeq(t)
  PROVE  /\ Len(s) \in Nat /\ Len(t) \in Nat /\ IsSeq(s \o t) /\ Len(s \o t) = Len(s) + Len(t)
         /\ \A n \in 1 .. Len(s) : (s \o t)[n] = s[n]
         /\ \A n \in 1 .. Len(t) : (s \o t)[Len(s) + n] = t[n]
         /\ \A k \in 0 .. Len(s) :
              /\ IsSeq(FirstBytes(s, k)) /\ Len(FirstBytes(s, k)) = k
              /\ \A n \in 1 .. k : FirstBytes(s, k)[n] = s[n]
<1>1. PICK S : s \in Seq(S)
  BY DEF IsSeq
<1>2. PICK T : t \in Seq(T)
  BY DEF IsSeq
<1>3. PICK U : U = S \cup T
  OBVIOUS
<1>4. s \in Seq(U) /\ t \in Seq(U)
  BY <1>1, <1>2, <1>3
<1>5. /\ s \o t \in Seq(U) /\ Len(s \o t) = Len(s) + Len(t)
      /\ Len(s) \in Nat /\ Len(t) \in Nat
  BY <1>4
<1>6. \A n \in 1 .. Len(s) : (s \o t)[n] = s[n]
  BY <1>4
<1>7. \A n \in 1 .. Len(t) : (s \o t)[Len(s) + n] = t[n]
  <2>1. TAKE n \in 1 .. Len(t)
  <2>2. Len(s) + n \in Len(s) + 1 .. Len(s) + Len(t) /\ (Len(s) + n) - Len(s) = n
    BY <1>5
  <2> QED BY <1>4, <1>5, <2>2
<1>8. ASSUME NEW k \in 0 .. Len(s)
      PROVE  /\ FirstBytes(s, k) \in Seq(U) /\ Len(FirstBytes(s, k)) = k
             /\ \A n \in 1 .. k : FirstBytes(s, k)[n] = s[n]
  BY <1>4, <1>5 DEF FirstBytes
<1> QED BY <1>5, <1>6, <1>7, <1>8 DEF IsSeq

(* What follows decodes to what comes after.                               *)
LEMMA TextsJoin ==
  ASSUME NEW a \in Nat, NEW c \in Nat, NEW b, TextTo(b, a, c), NEW e, IsSeq(e), Texts(e, c)
  PROVE  Texts(b \o e, a)
<1>1. /\ Len(b) \in Nat /\ Len(e) \in Nat /\ Len(b \o e) = Len(b) + Len(e)
      /\ \A n \in 1 .. Len(b) : (b \o e)[n] = b[n]
      /\ \A n \in 1 .. Len(e) : (b \o e)[Len(b) + n] = e[n]
  BY SeqItems DEF TextTo
<1>2. SUFFICES ASSUME NEW n \in 1 .. Len(b \o e) PROVE Nth(a, n, (b \o e)[n])
  BY DEF Texts
<1>3. CASE n <= Len(b)
  <2>1. n \in 1 .. Len(b)
    BY <1>1, <1>3
  <2>2. (b \o e)[n] = b[n] /\ Nth(a, n, b[n])
    BY <1>1, <2>1 DEF TextTo, Texts
  <2> QED BY <2>2
<1>4. CASE ~ (n <= Len(b))
  <2>1. PICK m \in 1 .. Len(e) : n = Len(b) + m
    <3>1. n - Len(b) \in 1 .. Len(e) /\ n = Len(b) + (n - Len(b))
      BY <1>1, <1>4
    <3> QED BY <3>1
  <2>2. PICK x : x = e[m]
    OBVIOUS
  <2>3. Nth(c, m, x) /\ (b \o e)[n] = x
    BY <1>1, <2>1, <2>2 DEF Texts
  <2>4. a <= c /\ Outputs(c) = Outputs(a) + Len(b) /\ Plain(a, c)
    BY DEF TextTo
  <2>5. Outputs(a) \in Nat
    BY OutputsNext
  <2>6. Outputs(x) = Outputs(a) + n
    BY <1>1, <2>1, <2>3, <2>4, <2>5 DEF Nth
  <2>7. a < x /\ Plain(a, x)
    BY <2>3, <2>4 DEF Nth, Plain
  <2> QED BY <2>3, <2>6, <2>7 DEF Nth
<1> QED BY <1>3, <1>4

(* ... up to where it ends.                                                *)
LEMMA TextJoins ==
  ASSUME NEW a \in Nat, NEW c \in Nat, NEW x \in Nat, NEW b, TextTo(b, a, c),
         NEW e, TextTo(e, c, x)
  PROVE  TextTo(b \o e, a, x)
<1>1. IsSeq(b \o e) /\ Len(b \o e) = Len(b) + Len(e) /\ Len(b) \in Nat /\ Len(e) \in Nat
  BY SeqItems DEF TextTo
<1>2. Texts(b \o e, a)
  BY TextsJoin DEF TextTo
<1>3. a <= x /\ x <= Len(input.bytes) /\ Plain(a, x)
  BY DEF TextTo, Plain
<1>4. Outputs(x) = Outputs(a) + Len(b \o e)
  <2>1. Outputs(a) \in Nat /\ Outputs(c) = Outputs(a) + Len(b) /\ Outputs(x) = Outputs(c) + Len(e)
    BY OutputsNext DEF TextTo
  <2> QED BY <1>1, <2>1
<1> QED BY <1>1, <1>2, <1>3, <1>4 DEF TextTo

(* Where a run of the input has nothing that is damaged, what              *)
(* Lzma2Dec_DecodeToDic gives of it is what it decodes to.                 *)
LEMMA OutputText ==
  ASSUME NEW src, Len(src) \in Nat, NEW y \in Nat, RunFrom(src, y),
         y + Len(src) <= Len(input.bytes), NEW s \in 1 .. Len(src) + 1,
         \A k \in 1 .. s - 1 : input.bytes[src[k]] \in {"new", "data"}
  PROVE  TextTo(Output(input.bytes, src, s), y, y + (s - 1))
<1> DEFINE bytes == input.bytes
           data == {j \in 1 .. s - 1 : bytes[src[j]] = "data"}
           upTo(j) == {i \in data : i <= j}
           F(k) == NumData(bytes, src, k + 1)
           nth(n) == CHOOSE j \in data : Cardinality(upTo(j)) = n
           c == Cardinality(data)
           o == [n \in 1 .. c |-> src[nth(n)]]
<1>1. Output(bytes, src, s) = o
  BY DEF Output
<1>2. IsSeq(o) /\ Len(o) = c
  BY <1>1, OutputIs
<1>3. \A k \in 0 .. s - 1 : F(k) = Cardinality(upTo(k)) /\ F(k) \in Nat
  <2>1. TAKE k \in 0 .. s - 1
  <2>2. upTo(k) = {j \in 1 .. (k + 1) - 1 : bytes[src[j]] \in {"data", "bad"}}
    OBVIOUS
  <2>3. F(k) = Cardinality({j \in 1 .. (k + 1) - 1 : bytes[src[j]] \in {"data", "bad"}})
    BY DEF NumData
  <2>4. F(k) \in Nat
    BY NumDataType
  <2> QED BY <2>2, <2>3, <2>4
<1>4. F(s - 1) = c
  <2>1. upTo(s - 1) = data
    OBVIOUS
  <2> QED BY <1>3, <2>1
<1>5. F(0) = 0
  <2>1. upTo(0) = {}
    OBVIOUS
  <2> QED BY <1>3, <2>1, FS_EmptySet
<1>6. \A k \in 1 .. s - 1 : F(k) = F(k - 1) + IF k \in data THEN 1 ELSE 0
  <2>1. TAKE k \in 1 .. s - 1
  <2>2. k \in Nat \ {0} /\ (k - 1) + 1 = k
    OBVIOUS
  <2>3. NumData(bytes, src, k + 1) =
          NumData(bytes, src, k) + IF bytes[src[k]] \in {"data", "bad"} THEN 1 ELSE 0
    BY <2>2, NumDataNext
  <2>4. bytes[src[k]] \in {"data", "bad"} <=> k \in data
    OBVIOUS
  <2> QED BY <2>2, <2>3, <2>4
<1>7. \A n \in 1 .. c : nth(n) \in data /\ F(nth(n)) = n
  <2>1. TAKE n \in 1 .. c
  <2> DEFINE R == {k \in 0 .. s - 1 : n <= F(k)}
             m == Min(R)
  <2>2. s - 1 \in R /\ R \subseteq Nat
    BY <1>4
  <2> HIDE DEF R
  <2>3. m \in R /\ \A x \in R : m <= x
    BY <2>2, MinIs
  <2> HIDE DEF m
  <2>4. m \in 0 .. s - 1 /\ n <= F(m)
    BY <2>3 DEF R
  <2>5. m # 0
    BY <1>5, <2>4
  <2>6. m \in 1 .. s - 1 /\ m - 1 \in 0 .. s - 1
    BY <2>4, <2>5
  <2> HIDE DEF F, data
  <2>7. F(m - 1) < n
    <3>1. m - 1 \notin R
      BY <2>3, <2>6
    <3>2. F(m - 1) \in Nat
      BY <1>3, <2>6
    <3> QED BY <2>6, <3>1, <3>2 DEF R
  <2>8. m \in data /\ F(m) = n
    <3>1. F(m) = F(m - 1) + IF m \in data THEN 1 ELSE 0
      BY <1>6, <2>6
    <3>2. F(m - 1) \in Nat
      BY <1>3, <2>6
    <3> QED BY <2>4, <2>7, <3>1, <3>2
  <2>9. Cardinality(upTo(m)) = n
    BY <1>3, <2>4, <2>8
  <2>10. nth(n) \in data /\ Cardinality(upTo(nth(n))) = n
    BY <2>8, <2>9
  <2>11. nth(n) \in 0 .. s - 1
    BY <2>10 DEF data
  <2> QED BY <1>3, <2>10, <2>11
<1>8. Plain(y, y + (s - 1))
  <2>1. SUFFICES ASSUME NEW k \in Int, y < k, k <= y + (s - 1) PROVE bytes[k] \in {"new", "data"}
    BY DEF Plain
  <2>2. k - y \in 1 .. s - 1 /\ k - y \in 1 .. Len(src) /\ y + (k - y) = k
    BY <2>1
  <2>3. src[k - y] = k
    BY <2>2 DEF RunFrom
  <2> QED BY <2>2, <2>3
<1>9. Outputs(y + (s - 1)) = Outputs(y) + c
  <2>1. s - 1 \in 0 .. Len(src)
    OBVIOUS
  <2> HIDE DEF c, data
  <2> QED BY <1>4, <2>1, OutputsRun
<1>10. \A n \in 1 .. c : Nth(y, n, o[n])
  <2>1. TAKE n \in 1 .. c
  <2>2. PICK j : j = nth(n)
    OBVIOUS
  <2>3. j \in 1 .. s - 1 /\ bytes[src[j]] = "data" /\ F(j) = n /\ j \in 1 .. Len(src)
    <3>1. j \in data /\ F(j) = n
      BY <1>7, <2>2
    <3> QED BY <3>1
  <2>4. src[j] = y + j
    BY <2>3 DEF RunFrom
  <2>5. o[n] = y + j
    BY <2>2, <2>4
  <2>6. Outputs(y + j) = Outputs(y) + n
    BY <2>3, OutputsRun
  <2>7. y < y + j /\ y + j <= y + (s - 1) /\ y + j \in Int /\ y + j <= Len(bytes)
        /\ bytes[y + j] = "data"
    <3>1. Len(bytes) \in Int \/ y + Len(src) <= Len(bytes)
      OBVIOUS
    <3>2. y + j <= y + Len(src) /\ y + j \in Int /\ y + Len(src) \in Int
      BY <2>3
    <3>3. y < y + j /\ y + j <= y + (s - 1)
      BY <2>3
    <3>4. y + j <= Len(bytes)
      BY <3>2
    <3> QED BY <2>3, <2>4, <3>2, <3>3, <3>4
  <2>8. Plain(y, y + j)
    BY <1>8, <2>7 DEF Plain
  <2> HIDE DEF o
  <2> QED BY <2>5, <2>6, <2>7, <2>8 DEF Nth
<1>11. y <= y + (s - 1) /\ y + (s - 1) <= Len(bytes)
  OBVIOUS
<1>12. Len(o) \in Nat
  <2>1. c \in Nat
    BY <1>3, <1>4
  <2> QED BY <1>2, <2>1
<1>13. Texts(o, y)
  <2> HIDE DEF o, c
  <2> QED BY <1>2, <1>10 DEF Texts
<1>14. Outputs(y + (s - 1)) = Outputs(y) + Len(o)
  BY <1>2, <1>9
<1> HIDE DEF o
<1>15. TextTo(o, y, y + (s - 1))
  BY <1>2, <1>8, <1>11, <1>12, <1>13, <1>14 DEF TextTo
<1> QED BY <1>1, <1>15

(* What Lzma2Dec_DecodeToDic makes of the input from y to the end of src,  *)
(* and where it stops.                                                     *)
Decodes(d, src, y, n, limit, any, s) ==
  /\ s \in 1 .. Len(src) + 1 /\ TextTo(d.out, y, y + (s - 1)) /\ d.ok \in BOOLEAN
  /\ limit # NoSize => n + Len(d.out) <= limit
  /\ \/ s = Len(src) + 1 \/ input.bytes[y + s] \in {"end", "bad", "err"}
     \/ limit # NoSize /\ n + Len(d.out) = limit
  /\ d.used \in {s - 1, s} /\ d.used <= Len(src)
  /\ d.ok /\ ~ d.mark =>
       /\ d.used = s - 1
       /\ s = Len(src) + 1 \/ (any /\ limit # NoSize /\ n + Len(d.out) = limit)
  /\ d.mark => d.used = s /\ s <= Len(src) /\ input.bytes[y + s] = "end"
  /\ LET stopped == s = Len(src) + 1 \/ (any /\ limit # NoSize /\ n + Len(d.out) = limit)
     IN  /\ d.mark <=> ~ stopped /\ input.bytes[y + s] = "end"
         /\ d.ok <=> stopped \/ d.mark

(* It decodes what is not damaged, within the limit.                       *)
LEMMA DecodeText ==
  ASSUME input.bytes \in Seq(Kinds), NEW src, Len(src) \in Nat, NEW y \in Nat, RunFrom(src, y),
         y + Len(src) <= Len(input.bytes), NEW n \in Nat, NEW limit \in Nat \cup {NoSize},
         limit # NoSize => n <= limit, NEW any \in BOOLEAN,
         NEW d, d = Decode(input.bytes, src, n, limit, any)
  PROVE  \E s : Decodes(d, src, y, n, limit, any, s)
<1> DEFINE bytes == input.bytes
           D(k) == n + NumData(bytes, src, k)
           full(k) == limit # NoSize /\ D(k) = limit
           kind(k) == IF k > Len(src) THEN "more" ELSE bytes[src[k]]
           Stops(k) == kind(k) \in {"more", "end", "bad", "err"} \/ full(k)
           stops == {k \in 1 .. Len(src) + 1 : Stops(k)}
           s == Min(stops)
           stopped == (full(s) /\ any) \/ kind(s) = "more"
<1>1. /\ d.out = Output(bytes, src, s) /\ d.used = IF stopped THEN s - 1 ELSE s
      /\ d.mark = (~ stopped /\ kind(s) = "end")
      /\ d.ok = (stopped \/ kind(s) = "end")
  BY DEF Decode
<1>2. s \in 1 .. Len(src) + 1 /\ Stops(s) /\ \A k \in 1 .. s - 1 : ~ Stops(k)
  <2>1. Len(src) + 1 \in stops
    OBVIOUS
  <2>2. stops \subseteq Nat /\ stops # {}
    BY <2>1
  <2> HIDE DEF stops
  <2>3. s \in stops /\ \A x \in stops : s <= x
    BY <2>2, MinIs
  <2>4. s \in 1 .. Len(src) + 1 /\ Stops(s)
    BY <2>3 DEF stops
  <2>5. ASSUME NEW k \in 1 .. s - 1 PROVE ~ Stops(k)
    <3>1. k \in 1 .. Len(src) + 1 /\ ~ (s <= k)
      BY <2>4
    <3> HIDE DEF s, Stops
    <3>2. k \notin stops
      BY <2>3, <3>1
    <3> QED BY <3>1, <3>2 DEF stops
  <2> QED BY <2>4, <2>5
<1>s. PICK q : q = s
  OBVIOUS
<1>3. q \in 1 .. Len(src) + 1 /\ Stops(q) /\ \A k \in 1 .. q - 1 : ~ Stops(k)
  BY <1>2, <1>s
<1>4. /\ d.out = Output(bytes, src, q)
      /\ d.used = IF (full(q) /\ any) \/ kind(q) = "more" THEN q - 1 ELSE q
      /\ d.mark = (~ ((full(q) /\ any) \/ kind(q) = "more") /\ kind(q) = "end")
      /\ d.ok = (((full(q) /\ any) \/ kind(q) = "more") \/ kind(q) = "end")
  BY <1>1, <1>s
<1> HIDE DEF s, stops
<1>q. q \in 1 .. Len(src) + 1 /\ q \in Nat /\ q \in Int
  BY <1>3
<1>5. \A k \in 1 .. Len(src) : src[k] = y + k /\ bytes[src[k]] \in Kinds
  <2>1. TAKE k \in 1 .. Len(src)
  <2>2. src[k] = y + k /\ y + k \in 1 .. Len(bytes)
    BY DEF RunFrom
  <2> QED BY <2>2
<1>6. \A k \in 1 .. q - 1 : bytes[src[k]] \in {"new", "data"} /\ ~ full(k)
  <2>1. TAKE k \in 1 .. q - 1
  <2>2. k \in 1 .. Len(src) /\ ~ Stops(k)
    BY <1>3
  <2> QED BY <1>5, <2>2 DEF Kinds
<1>7. TextTo(d.out, y, y + (q - 1))
  BY <1>3, <1>4, <1>6, OutputText
<1>8. D(q) = n + Len(d.out) /\ D(q) \in Nat
  <2>1. q - 1 \in 0 .. Len(src) /\ (q - 1) + 1 = q
    BY <1>3
  <2>2. Outputs(y + (q - 1)) = Outputs(y) + NumData(bytes, src, q)
    BY <2>1, OutputsRun
  <2>3. Outputs(y + (q - 1)) = Outputs(y) + Len(d.out) /\ Len(d.out) \in Nat
    BY <1>7 DEF TextTo
  <2>4. Outputs(y) \in Nat /\ NumData(bytes, src, q) \in Nat
    BY <1>q, OutputsNext, NumDataType
  <2>5. PICK u, v, w : u = Outputs(y) /\ v = NumData(bytes, src, q) /\ w = Len(d.out)
    OBVIOUS
  <2>6. u + v = u + w /\ u \in Nat /\ v \in Nat /\ w \in Nat /\ D(q) = n + v
    BY <2>2, <2>3, <2>4, <2>5
  <2>7. v = w
    BY <2>6
  <2> HIDE DEF D
  <2> QED BY <2>5, <2>6, <2>7
<1>9. limit # NoSize => D(q) <= limit
  <2>1. SUFFICES ASSUME limit # NoSize PROVE \A k \in 1 .. q : D(k) <= limit
    BY <1>3
  <2> DEFINE T == {k \in Nat : k + 1 <= q => D(k + 1) <= limit}
  <2>2. 0 \in T
    <3>1. NumData(bytes, src, 1) = 0
      <4>1. {j \in 1 .. 1 - 1 : bytes[src[j]] \in {"data", "bad"}} = {}
        OBVIOUS
      <4> QED BY <4>1, FS_EmptySet DEF NumData
    <3>2. D(0 + 1) <= limit
      BY <2>1, <3>1
    <3> QED BY <3>2
  <2>3. ASSUME NEW k \in Nat, k \in T PROVE k + 1 \in T
    <3>1. SUFFICES ASSUME (k + 1) + 1 <= q PROVE D((k + 1) + 1) <= limit
      OBVIOUS
    <3>2. D(k + 1) <= limit /\ ~ full(k + 1)
      <4>1. k + 1 \in 1 .. q - 1 /\ k + 1 <= q
        BY <1>3, <3>1
      <4>2. ~ full(k + 1)
        BY <1>6, <4>1
      <4>3. D(k + 1) <= limit
        BY <2>3, <4>1
      <4> QED BY <4>2, <4>3
    <3>3. D((k + 1) + 1) <= D(k + 1) + 1 /\ D(k + 1) \in Nat /\ D((k + 1) + 1) \in Nat
      <4>1. k + 1 \in Nat \ {0} /\ (k + 1) + 1 \in Int /\ k + 1 \in Int
        OBVIOUS
      <4>2. NumData(bytes, src, (k + 1) + 1) =
              NumData(bytes, src, k + 1) + IF bytes[src[k + 1]] \in {"data", "bad"} THEN 1 ELSE 0
        BY <4>1, NumDataNext
      <4>3. NumData(bytes, src, k + 1) \in Nat
        BY <4>1, NumDataType
      <4>4. PICK u, v : u = NumData(bytes, src, k + 1) /\ v = NumData(bytes, src, (k + 1) + 1)
        OBVIOUS
      <4>5. u \in Nat /\ (v = u + 1 \/ v = u + 0) /\ D(k + 1) = n + u /\ D((k + 1) + 1) = n + v
        BY <4>2, <4>3, <4>4
      <4> HIDE DEF D
      <4>6. v \in Nat /\ n + v <= (n + u) + 1 /\ n + u \in Nat /\ n + v \in Nat
        BY <4>5
      <4> QED BY <4>5, <4>6
    <3>4. D(k + 1) # limit
      BY <2>1, <3>2
    <3> HIDE DEF D
    <3>5. limit \in Nat
      BY <2>1
    <3> QED BY <3>2, <3>3, <3>4, <3>5
  <2> HIDE DEF T, D
  <2>4. Nat \subseteq T
    BY <2>2, <2>3, NatInduct
  <2>5. TAKE k \in 1 .. q
  <2>6. k - 1 \in T /\ (k - 1) + 1 = k /\ k <= q
    BY <1>3, <2>4
  <2> QED BY <2>6 DEF T
<1>10. q <= Len(src) => kind(q) = bytes[y + q] /\ kind(q) \in Kinds
  BY <1>q, <1>5
<1>11. q = Len(src) + 1 <=> kind(q) = "more"
  <2>1. "more" \notin Kinds
    BY DEF Kinds
  <2>2. q = Len(src) + 1 => q > Len(src)
    BY <1>q
  <2>3. CASE q = Len(src) + 1
    BY <2>2, <2>3
  <2>4. CASE q # Len(src) + 1
    <3>1. q <= Len(src)
      BY <1>q, <2>4
    <3> QED BY <1>10, <2>1, <2>4, <3>1
  <2> QED BY <2>3, <2>4
<1>12. full(q) <=> limit # NoSize /\ n + Len(d.out) = limit
  BY <1>8
<1>13. q = Len(src) + 1 \/ q <= Len(src)
  BY <1>3
<1>14. kind(q) \in {"more", "end", "bad", "err"} \/ full(q)
  BY <1>3
<1> HIDE DEF D, kind, full
<1>15. /\ d.ok \in BOOLEAN /\ d.used \in {q - 1, q}
       /\ limit # NoSize => n + Len(d.out) <= limit
  BY <1>4, <1>8, <1>9
<1>16. \/ q = Len(src) + 1 \/ bytes[y + q] \in {"end", "bad", "err"}
       \/ limit # NoSize /\ n + Len(d.out) = limit
  BY <1>10, <1>11, <1>12, <1>13, <1>14
<1>17. d.used <= Len(src)
  <2>1. kind(q) = "more" => d.used = q - 1
    BY <1>4
  <2> QED BY <1>3, <1>11, <1>13, <1>15, <2>1
<1>18. d.ok /\ ~ d.mark =>
       /\ d.used = q - 1
       /\ q = Len(src) + 1 \/ (any /\ limit # NoSize /\ n + Len(d.out) = limit)
  BY <1>4, <1>11, <1>12
<1>19. d.mark => d.used = q /\ q <= Len(src) /\ bytes[y + q] = "end"
  BY <1>4, <1>10, <1>11, <1>13
<1>20. LET halts == q = Len(src) + 1 \/ (any /\ limit # NoSize /\ n + Len(d.out) = limit)
       IN  /\ d.mark <=> ~ halts /\ bytes[y + q] = "end"
           /\ d.ok <=> halts \/ d.mark
  <2>1. (full(q) /\ any) \/ kind(q) = "more" <=>
          q = Len(src) + 1 \/ (any /\ limit # NoSize /\ n + Len(d.out) = limit)
    BY <1>11, <1>12, Zenon
  <2>2. q # Len(src) + 1 => kind(q) = bytes[y + q]
    BY <1>10, <1>13
  <2>3. d.mark <=> ~ ((full(q) /\ any) \/ kind(q) = "more") /\ kind(q) = "end"
    BY <1>4, Zenon
  <2>4. d.ok <=> ((full(q) /\ any) \/ kind(q) = "more") \/ kind(q) = "end"
    BY <1>4, Zenon
  <2>5. d.mark <=> /\ ~ (q = Len(src) + 1 \/ (any /\ limit # NoSize /\ n + Len(d.out) = limit))
                   /\ bytes[y + q] = "end"
    BY <2>1, <2>2, <2>3, Zenon
  <2> QED BY <2>1, <2>3, <2>4, <2>5, Zenon
<1>21. Decodes(d, src, y, n, limit, any, q)
  BY <1>3, <1>7, <1>15, <1>16, <1>17, <1>18, <1>19, <1>20 DEF Decodes
<1> QED BY <1>21

(* What one thread would write is all that the input decodes to.           *)
LEMMA FullIs ==
  ASSUME InputOK
  PROVE  /\ IsSeq(Full) /\ Len(Full) \in Nat /\ Texts(Full, 0)
         /\ \A n \in Nat : \A x : Nth(0, n, x) /\ InSize(n) => n <= Len(Full)
<1> DEFINE bytes == input.bytes
           d == Decode(bytes, Offsets(bytes), 0, input.outSize, ~ input.finishMode)
<1>1. input.bytes \in Seq(Kinds) /\ Len(input.bytes) \in Nat
  <2>1. input.bytes \in Seq(Kinds)
    BY DEF InputOK, Streams
  <2> QED BY <2>1
<1>t. (~ input.finishMode) \in BOOLEAN
  BY DEF InputOK
<1>l. input.outSize \in Nat \cup {NoSize} /\ (input.outSize # NoSize => 0 <= input.outSize)
  BY DEF InputOK
<1>2. Full = d.out
  <2>1. PICK any : any = (~ input.finishMode)
    OBVIOUS
  <2>2. Whole(bytes, input.outSize, input.finishMode) = d
    BY Zenon DEF Whole
  <2> QED BY <2>2 DEF Full
<1>3. Len(Offsets(bytes)) = Len(bytes) /\ RunFrom(Offsets(bytes), 0)
  <2>0. bytes \in Seq(Kinds) /\ Len(bytes) \in Nat
    BY <1>1
  <2>1. Offsets(bytes) \in Seq(Int) /\ Len(Offsets(bytes)) = Len(bytes)
        /\ \A k \in 1 .. Len(bytes) : Offsets(bytes)[k] = k
    BY <2>0 DEF Offsets
  <2> QED BY <2>1 DEF RunFrom
<1> HIDE DEF bytes
<1>4. PICK e, src, any, limit : e = d /\ src = Offsets(bytes) /\ any = ~ input.finishMode
                                /\ limit = input.outSize
  OBVIOUS
<1>5. \E s : Decodes(e, src, 0, 0, limit, any, s)
  <2>1. /\ input.bytes \in Seq(Kinds) /\ Len(src) \in Nat /\ RunFrom(src, 0)
        /\ 0 + Len(src) <= Len(input.bytes) /\ limit \in Nat \cup {NoSize}
        /\ (limit # NoSize => 0 <= limit) /\ any \in BOOLEAN
        /\ e = Decode(input.bytes, src, 0, limit, any)
    BY <1>1, <1>t, <1>l, <1>3, <1>4 DEF bytes
  <2>2. 0 \in Nat
    OBVIOUS
  <2> QED BY <2>1, <2>2, DecodeText
<1>6. PICK s : Decodes(e, src, 0, 0, limit, any, s)
  BY <1>5
<1>7. /\ s \in 1 .. Len(src) + 1 /\ TextTo(e.out, 0, 0 + (s - 1)) /\ Len(src) = Len(bytes)
      /\ \/ s = Len(src) + 1 \/ bytes[0 + s] \in {"end", "bad", "err"}
         \/ limit # NoSize /\ 0 + Len(e.out) = limit
  BY <1>3, <1>4, <1>6 DEF Decodes, bytes
<1> HIDE DEF d
<1>8. IsSeq(Full) /\ Len(Full) \in Nat /\ Texts(Full, 0)
  BY <1>2, <1>4, <1>7 DEF TextTo
<1>9. ASSUME NEW n \in Nat, NEW x, Nth(0, n, x), InSize(n) PROVE n <= Len(Full)
  <2>1. x \in Nat /\ x <= Len(bytes) /\ Outputs(x) = n
    <3>1. Outputs(0) = 0
      BY OutputsNext
    <3> QED BY <1>9, <3>1 DEF Nth, bytes
  <2>2. CASE x <= s - 1
    <3>1. s - 1 \in Nat /\ 0 + (s - 1) = s - 1
      BY <1>1, <1>7
    <3>2. Outputs(x) <= Outputs(s - 1)
      BY <2>1, <2>2, <3>1, OutputsGrow
    <3>3. Outputs(s - 1) = 0 + Len(e.out)
      <4>1. Outputs(0) = 0
        BY OutputsNext
      <4> QED BY <1>7, <3>1, <4>1 DEF TextTo
    <3> QED BY <1>2, <1>4, <1>8, <2>1, <3>2, <3>3
  <2>3. CASE ~ (x <= s - 1)
    <3>1. s \in Int /\ 0 < s /\ s <= x /\ s # Len(src) + 1 /\ 0 + s = s
      BY <1>1, <1>7, <2>1, <2>3
    <3>2. bytes[s] \in {"new", "data"}
      BY <1>9, <3>1 DEF Nth, Plain, bytes
    <3>3. limit # NoSize /\ 0 + Len(e.out) = limit
      BY <1>7, <3>1, <3>2
    <3>4. n <= limit
      BY <1>4, <1>9, <3>3 DEF InSize
    <3> QED BY <1>2, <1>4, <1>8, <3>3, <3>4
  <2> QED BY <2>2, <2>3
<1> QED BY <1>8, <1>9

(* Output that is of the input, within the size asked for, is a beginning  *)
(* of it.                                                                  *)
Told == IsSeq(out.bytes) /\ Texts(out.bytes, 0) /\ InSize(Len(out.bytes))

(* Texts from the beginning of the input are what WritesInOrder asks for.  *)
LEMMA ToldInOrder ==
  ASSUME InputOK, Told
  PROVE  WritesInOrder
<1>1. /\ IsSeq(Full) /\ Len(Full) \in Nat /\ Texts(Full, 0)
      /\ \A n \in Nat : \A x : Nth(0, n, x) /\ InSize(n) => n <= Len(Full)
  BY FullIs
<1>2. PICK b, f : b = out.bytes /\ f = Full
  OBVIOUS
<1>3. /\ IsSeq(b) /\ IsSeq(f) /\ Texts(b, 0) /\ Texts(f, 0) /\ InSize(Len(b))
      /\ \A n \in Nat : \A x : Nth(0, n, x) /\ InSize(n) => n <= Len(f)
  BY <1>1, <1>2 DEF Told
<1>4. /\ Len(b) \in Nat /\ Len(f) \in Nat
      /\ \A k \in 0 .. Len(f) : /\ IsSeq(FirstBytes(f, k)) /\ Len(FirstBytes(f, k)) = k
                                /\ \A n \in 1 .. k : FirstBytes(f, k)[n] = f[n]
  BY <1>3, SeqItems
<1>5. Len(b) <= Len(f)
  <2>1. CASE Len(b) = 0
    BY <1>4, <2>1
  <2>2. CASE Len(b) # 0
    <3>1. Len(b) \in 1 .. Len(b)
      BY <1>4, <2>2
    <3>2. Nth(0, Len(b), b[Len(b)])
      BY <1>3, <3>1 DEF Texts
    <3> QED BY <1>3, <1>4, <3>2
  <2> QED BY <2>1, <2>2
<1>6. PICK g : g = FirstBytes(f, Len(b))
  OBVIOUS
<1>7. IsSeq(g) /\ Len(g) = Len(b) /\ \A n \in 1 .. Len(b) : g[n] = f[n]
  BY <1>4, <1>5, <1>6
<1>8. \A n \in 1 .. Len(b) : b[n] = g[n]
  <2>1. TAKE n \in 1 .. Len(b)
  <2>2. n \in 1 .. Len(f)
    BY <1>4, <1>5
  <2>3. Nth(0, n, b[n]) /\ Nth(0, n, f[n])
    BY <1>3, <2>2 DEF Texts
  <2> QED BY <1>7, <2>3, NthIsOne
<1>9. b = g
  <2>1. PICK S : b \in Seq(S)
    BY <1>3 DEF IsSeq
  <2>2. PICK T : g \in Seq(T)
    BY <1>7 DEF IsSeq
  <2>3. PICK U : U = S \cup T
    OBVIOUS
  <2>4. b \in Seq(U) /\ g \in Seq(U)
    BY <2>1, <2>2, <2>3
  <2>5. \A n \in 1 .. Len(b) : b[n] = g[n]
    BY <1>8
  <2> QED BY <1>7, <2>4, <2>5
<1> QED BY <1>2, <1>5, <1>6, <1>9 DEF WritesInOrder

(* The count of what decodes to something stays within a limit where the   *)
(* next such byte is not taken.                                            *)
LEMMA CountBound ==
  ASSUME NEW bytes, NEW src, NEW n \in Nat, NEW limit \in Int, n <= limit,
         NEW q \in Nat \ {0},
         \A k \in 1 .. q - 1 :
           bytes[src[k]] \in {"data", "bad"} => n + NumData(bytes, src, k) # limit
  PROVE  \A k \in 1 .. q : n + NumData(bytes, src, k) <= limit
<1> DEFINE D(k) == n + NumData(bytes, src, k)
           T == {k \in Nat : k + 1 <= q => D(k + 1) <= limit}
<1>2. 0 \in T
  <2>1. NumData(bytes, src, 1) = 0
    <3>1. {j \in 1 .. 1 - 1 : bytes[src[j]] \in {"data", "bad"}} = {}
      OBVIOUS
    <3> QED BY <3>1, FS_EmptySet DEF NumData
  <2>2. D(0 + 1) <= limit
    BY <2>1
  <2> QED BY <2>2
<1>3. ASSUME NEW k \in Nat, k \in T PROVE k + 1 \in T
  <2>1. SUFFICES ASSUME (k + 1) + 1 <= q PROVE D((k + 1) + 1) <= limit
    OBVIOUS
  <2>2. k + 1 \in 1 .. q - 1 /\ k + 1 <= q
    BY <2>1
  <2>3. D(k + 1) <= limit
    BY <1>3, <2>2
  <2>4. bytes[src[k + 1]] \in {"data", "bad"} => D(k + 1) # limit
    BY <2>2
  <2>5. k + 1 \in Nat \ {0} /\ k + 1 \in Int
    OBVIOUS
  <2>6. NumData(bytes, src, (k + 1) + 1) =
          NumData(bytes, src, k + 1) + IF bytes[src[k + 1]] \in {"data", "bad"} THEN 1 ELSE 0
    BY <2>5, NumDataNext
  <2>7. NumData(bytes, src, k + 1) \in Nat
    BY <2>5, NumDataType
  <2>8. PICK u, v : u = NumData(bytes, src, k + 1) /\ v = NumData(bytes, src, (k + 1) + 1)
    OBVIOUS
  <2>9. D(k + 1) = n + u /\ D((k + 1) + 1) = n + v
    BY <2>8
  <2> HIDE DEF D
  <2>10. CASE bytes[src[k + 1]] \in {"data", "bad"}
    <3>1. u \in Nat /\ v = u + 1 /\ n + u <= limit /\ n + u # limit
      BY <2>3, <2>4, <2>6, <2>7, <2>8, <2>9, <2>10
    <3> QED BY <2>9, <3>1
  <2>11. CASE bytes[src[k + 1]] \notin {"data", "bad"}
    <3>1. u \in Nat /\ v = u + 0 /\ n + u <= limit
      BY <2>3, <2>6, <2>7, <2>8, <2>9, <2>11
    <3> QED BY <2>9, <3>1
  <2> QED BY <2>10, <2>11
<1> HIDE DEF T, D
<1>4. Nat \subseteq T
  BY <1>2, <1>3, NatInduct
<1>5. TAKE k \in 1 .. q
<1>6. k - 1 \in T /\ (k - 1) + 1 = k /\ k <= q
  BY <1>4
<1>7. D(k) <= limit
  BY <1>6 DEF T
<1> QED BY <1>7 DEF D

(* What Lzma2Dec_Parse gives a block decodes to no more than allowed, and  *)
(* no byte is given after the output was full.  The input ends or is not   *)
(* valid in it only where the parser says so, a next block begins where it *)
(* says so, and a block is empty only for want of input or of output.      *)
Within(p, bytes, src, d, limit, check) ==
  /\ p.out <= limit
  /\ \A k \in 1 .. p.used :
       /\ bytes[src[k]] = "end" => k = p.used /\ p.state = "MARK"
       /\ bytes[src[k]] = "err" => k = p.used /\ p.state \in {"ERROR", "OVERFLOW"}
       /\ ~ check => d + NumData(bytes, src, k) # limit
  /\ p.state = "MARK" => bytes[src[p.used]] = "end"
  /\ p.state = "ERROR" => bytes[src[p.used]] = "err"
  /\ p.state = "NEW" => bytes[src[p.used + 1]] = "new" /\ (~ check => p.out # limit)
  /\ p.used = 0 /\ d = 0 =>
       \/ p.state = "CONTINUE" /\ (Len(src) = 0 \/ bytes[src[1]] = "more")
       \/ p.state = "STOP" /\ limit = 0

(* That is what Lzma2Dec_Parse answers, for any input and any limit.       *)
LEMMA ParseSafe ==
  ASSUME NEW bytes, NEW src, Len(src) \in Nat, NEW d \in Nat, NEW limit \in Int, d <= limit,
         NEW check \in BOOLEAN, NEW p, p = Parse(bytes, src, d, limit, check)
  PROVE  Within(p, bytes, src, d, limit, check)
<1> DEFINE D(k) == d + NumData(bytes, src, k)
           kind(k) == IF k > Len(src) THEN "more" ELSE bytes[src[k]]
           Stops(k) == \/ kind(k) \in {"more", "end", "err"}
                       \/ kind(k) = "new" /\ D(k) >= SmallBlock
                       \/ D(k) = limit /\ (~ check \/ kind(k) # "new")
           stops == {k \in 1 .. Len(src) + 1 : Stops(k)}
           s == Min(stops)
           points == {k \in 1 .. s - 1 : kind(k) = "new" /\ D(k) # 0}
           full == D(s) = limit
           found == IF full /\ ~ check       THEN "STOP"
                    ELSE IF kind(s) = "more" THEN "CONTINUE"
                    ELSE IF kind(s) = "end"  THEN "MARK"
                    ELSE IF kind(s) = "new"  THEN "NEW"
                    ELSE IF full             THEN "OVERFLOW"
                    ELSE "ERROR"
           revert == points # {} /\ found \in {"STOP", "CONTINUE", "OVERFLOW"}
<1>1. p = IF revert
          THEN [state |-> "NEW", used |-> Max(points) - 1, out |-> D(Max(points))]
          ELSE [state |-> found, out |-> D(s),
                used  |-> IF found \in {"MARK", "OVERFLOW", "ERROR"} THEN s ELSE s - 1]
  BY DEF Parse
<1>2. s \in 1 .. Len(src) + 1 /\ \A k \in 1 .. s - 1 : ~ Stops(k)
  <2>1. Len(src) + 1 \in stops
    OBVIOUS
  <2>2. stops \subseteq Nat /\ stops # {}
    BY <2>1
  <2> HIDE DEF stops
  <2>3. s \in stops /\ \A x \in stops : s <= x
    BY <2>2, MinIs
  <2>4. s \in 1 .. Len(src) + 1
    BY <2>3 DEF stops
  <2>5. ASSUME NEW k \in 1 .. s - 1 PROVE ~ Stops(k)
    <3>1. k \in 1 .. Len(src) + 1 /\ ~ (s <= k)
      BY <2>4
    <3> HIDE DEF s, Stops
    <3>2. k \notin stops
      BY <2>3, <3>1
    <3> QED BY <3>1, <3>2 DEF stops
  <2> QED BY <2>4, <2>5
<1>3. PICK q : q = s
  OBVIOUS
<1>4. /\ p = IF revert
             THEN [state |-> "NEW", used |-> Max(points) - 1, out |-> D(Max(points))]
             ELSE [state |-> found, out |-> D(q),
                   used  |-> IF found \in {"MARK", "OVERFLOW", "ERROR"} THEN q ELSE q - 1]
      /\ points = {k \in 1 .. q - 1 : kind(k) = "new" /\ D(k) # 0}
  BY <1>1, <1>3
<1>5. q \in 1 .. Len(src) + 1 /\ \A k \in 1 .. q - 1 : ~ Stops(k)
  BY <1>2, <1>3
<1>q. q \in Nat \ {0} /\ q - 1 <= Len(src)
  BY <1>5
<1>r. /\ Stops(q) /\ found \in {"STOP", "CONTINUE", "MARK", "NEW", "OVERFLOW", "ERROR"}
      /\ found = "STOP" <=> D(q) = limit /\ ~ check
      /\ found = "CONTINUE" => kind(q) = "more"
      /\ found = "MARK" => kind(q) = "end"
      /\ found = "NEW" => kind(q) = "new"
      /\ found = "OVERFLOW" => kind(q) \notin {"more", "end", "new"}
      /\ found = "ERROR" => kind(q) \notin {"more", "end", "new"} /\ D(q) # limit
  <2>1. Stops(s) /\ Stops(q)
    <3>1. s \in stops
      <4>1. Len(src) + 1 \in stops
        OBVIOUS
      <4>2. stops \subseteq Nat /\ stops # {}
        BY <4>1
      <4> HIDE DEF stops
      <4> QED BY <4>2, MinIs
    <3>2. q \in stops
      BY <1>3, <3>1
    <3> HIDE DEF s
    <3> QED BY <3>1, <3>2
  <2>2. /\ found \in {"STOP", "CONTINUE", "MARK", "NEW", "OVERFLOW", "ERROR"}
        /\ found = "STOP" <=> D(q) = limit /\ ~ check
        /\ found = "CONTINUE" => kind(q) = "more"
        /\ found = "MARK" => kind(q) = "end"
        /\ found = "NEW" => kind(q) = "new"
        /\ found = "OVERFLOW" => kind(q) \notin {"more", "end", "new"}
        /\ found = "ERROR" => kind(q) \notin {"more", "end", "new"} /\ D(q) # limit
    <3>1. found = IF D(q) = limit /\ ~ check THEN "STOP"
                  ELSE IF kind(q) = "more" THEN "CONTINUE"
                  ELSE IF kind(q) = "end" THEN "MARK"
                  ELSE IF kind(q) = "new" THEN "NEW"
                  ELSE IF D(q) = limit THEN "OVERFLOW" ELSE "ERROR"
      BY <1>3
    <3> HIDE DEF found, D, kind
    <3> QED BY <3>1
  <2> QED BY <2>1, <2>2
<1> HIDE DEF s, stops, found, revert, points
<1>6. \A k \in 1 .. q - 1 : /\ bytes[src[k]] \notin {"end", "err"}
                            /\ bytes[src[k]] \in {"data", "bad"} => D(k) # limit
                            /\ ~ check => D(k) # limit
  <2>1. TAKE k \in 1 .. q - 1
  <2>2. kind(k) = bytes[src[k]]
    BY <1>q
  <2>3. ~ Stops(k)
    BY <1>5
  <2> QED BY <2>2, <2>3
<1>7. \A k \in 1 .. q : D(k) <= limit
  <2>1. \A k \in 1 .. q - 1 : bytes[src[k]] \in {"data", "bad"} => d + NumData(bytes, src, k) # limit
    BY <1>6
  <2> QED BY <1>q, <2>1, CountBound
<1>z. D(1) = d /\ SmallBlock \in Nat \ {0}
  <2>1. {j \in 1 .. 1 - 1 : bytes[src[j]] \in {"data", "bad"}} = {}
    OBVIOUS
  <2>2. NumData(bytes, src, 1) = 0
    BY <2>1, FS_EmptySet DEF NumData
  <2> QED BY <2>2, Lzma2BlocksAssumption
<1>8. CASE revert
  <2>1. points \subseteq 0 .. Len(src) + 1 /\ points # {} /\ Len(src) + 1 \in Nat
    BY <1>4, <1>5, <1>8 DEF revert
  <2> DEFINE m == Max(points)
  <2>2. m \in points
    BY <2>1, MaxIs
  <2>3. m \in 1 .. q - 1 /\ kind(m) = "new" /\ D(m) # 0
    BY <1>4, <2>2
  <2> HIDE DEF m
  <2>4. p.state = "NEW" /\ p.used = m - 1 /\ p.out = D(m)
    BY <1>4, <1>8 DEF m
  <2>5. D(m) <= limit
    BY <1>5, <1>7, <2>3
  <2>6. \A k \in 1 .. m - 1 : k \in 1 .. q - 1
    BY <1>5, <2>3
  <2>7. bytes[src[m]] = "new" /\ (m - 1) + 1 = m /\ (~ check => D(m) # limit)
    BY <1>q, <1>6, <2>3
  <2>8. ~ (m - 1 = 0 /\ d = 0)
    BY <1>q, <1>z, <2>3
  <2> HIDE DEF D, kind
  <2> QED BY <1>6, <2>4, <2>5, <2>6, <2>7, <2>8 DEF Within, D
<1>9. CASE ~ revert
  <2>1. p.state = found /\ p.out = D(q) /\ p.used = IF found \in {"MARK", "OVERFLOW", "ERROR"} THEN q ELSE q - 1
    BY <1>4, <1>9
  <2>2. D(q) <= limit
    BY <1>5, <1>7
  <2>3. kind(q) # "more" => q <= Len(src) /\ kind(q) = bytes[src[q]]
    BY <1>q
  <2>4. found \in {"MARK", "OVERFLOW", "ERROR"} => p.used = q /\ q <= Len(src) /\ kind(q) = bytes[src[q]]
    <3>1. found \in {"MARK", "OVERFLOW", "ERROR"} => kind(q) # "more"
      BY <1>r
    <3> QED BY <2>1, <2>3, <3>1
  <2>5. ~ check /\ found # "STOP" => D(q) # limit
    BY <1>r
  <2>6. found = "ERROR" => kind(q) = "err"
    BY <1>r
  <2> HIDE DEF D, kind, Stops
  <2>7. ASSUME NEW k \in 1 .. p.used, ~ (k \in 1 .. q - 1)
        PROVE  k = q /\ k = p.used /\ found \in {"MARK", "OVERFLOW", "ERROR"}
    BY <1>q, <2>1, <2>7
  <2>8. ASSUME NEW k \in 1 .. p.used
        PROVE  /\ bytes[src[k]] = "end" => k = p.used /\ p.state = "MARK"
               /\ bytes[src[k]] = "err" => k = p.used /\ p.state \in {"ERROR", "OVERFLOW"}
               /\ ~ check => D(k) # limit
    <3>1. CASE k \in 1 .. q - 1
      BY <1>6, <3>1
    <3>2. CASE ~ (k \in 1 .. q - 1)
      <4>1. k = q /\ k = p.used /\ found \in {"MARK", "OVERFLOW", "ERROR"}
        BY <2>7, <3>2
      <4>2. kind(q) = bytes[src[k]]
        BY <2>4, <4>1
      <4> QED BY <1>r, <2>1, <2>5, <2>6, <4>1, <4>2
    <3> QED BY <3>1, <3>2
  <2>9. /\ p.state = "MARK" => bytes[src[p.used]] = "end"
        /\ p.state = "ERROR" => bytes[src[p.used]] = "err"
    BY <1>r, <2>1, <2>4, <2>6
  <2>10. p.state = "NEW" => bytes[src[p.used + 1]] = "new" /\ (~ check => p.out # limit)
    <3>1. SUFFICES ASSUME found = "NEW" PROVE bytes[src[p.used + 1]] = "new" /\ (~ check => p.out # limit)
      BY <2>1
    <3>2. p.used + 1 = q
      BY <1>q, <2>1, <3>1
    <3> QED BY <1>r, <2>1, <2>3, <2>5, <3>1, <3>2
  <2>11. ASSUME p.used = 0, d = 0
         PROVE  \/ p.state = "CONTINUE" /\ (Len(src) = 0 \/ bytes[src[1]] = "more")
                \/ p.state = "STOP" /\ limit = 0
    <3>1. q = 1 /\ found \notin {"MARK", "OVERFLOW", "ERROR"}
      BY <1>q, <2>1, <2>11
    <3>2. D(q) = 0
      BY <1>z, <2>11, <3>1
    <3>3. CASE found = "STOP"
      BY <1>r, <2>1, <3>2, <3>3
    <3>4. CASE found = "CONTINUE"
      <4>1. kind(1) = "more"
        BY <1>r, <3>1, <3>4
      <4> QED BY <2>1, <3>4, <4>1 DEF kind
    <3>5. CASE found = "NEW"
      <4>1. Stops(q) /\ kind(q) = "new" /\ ~ (D(q) = limit /\ ~ check)
        BY <1>r, <3>5
      <4> QED BY <1>z, <3>2, <4>1 DEF Stops
    <3> QED BY <1>r, <3>1, <3>3, <3>4, <3>5
  <2> QED BY <2>1, <2>2, <2>8, <2>9, <2>10, <2>11 DEF Within, D
<1> QED BY <1>8, <1>9
=============================================================================
