-------------------------- MODULE LookToRead2Proofs --------------------------
(***************************************************************************)
(* For every file, every buffer size and both lookahead modes, CLookToRead2 *)
(* implements the stream with one position of SeekStream.                  *)
(***************************************************************************)
EXTENDS LookToRead2, TLAPS

IInv == TypeOK /\ BufferIsFile

(* What a File_Read can return is within the request and within the file.  *)
LEMMA FileReadsBounds ==
  ASSUME TypeOK, NEW n \in Nat, NEW k \in Nat, NEW ok \in BOOLEAN, FileReads(n, k, ok)
  PROVE  /\ k <= n
         /\ k > 0 => filePos + k <= FileLen
         /\ filePos + k \in 0 .. MaxPos
         /\ (ok /\ k = 0 /\ n # 0) => filePos >= FileLen
  BY LookToRead2Assumption DEF TypeOK, FileReads, Smaller, Remaining

(* A Look never asks the file for more than the buffer holds, and always   *)
(* for something.                                                          *)
LEMMA RefillRequestBounds ==
  ASSUME NEW n \in Nat \ {0}
  PROVE  RefillRequest(n) \in 1 .. BufSize
  BY LookToRead2Assumption DEF RefillRequest, Smaller

-----------------------------------------------------------------------------
(* A stream that was just opened has nothing to read ahead. *)
LEMMA InitIInv == Init => IInv
  BY LookToRead2Assumption
  DEF Init, IInv, TypeOK, BufferIsFile, Junk, Returned, Unread

(* Look, Skip, Read and Seek keep the buffer what the file has there. *)
LEMMA NextIInv == IInv /\ [Next]_vars => IInv'
<1> SUFFICES ASSUME IInv, [Next]_vars PROVE IInv'
  OBVIOUS
<1> USE LookToRead2Assumption DEF IInv, TypeOK, BufferIsFile, Junk, Returned, Unread
<1>1. ASSUME NEW n \in 0 .. MaxRequest, LookRefill(n) PROVE IInv'
  <2>1. n \in Nat \ {0} /\ RefillRequest(n) \in 1 .. BufSize
    BY <1>1, RefillRequestBounds DEF LookRefill
  <2>2. PICK k \in 0 .. BufSize, ok \in BOOLEAN :
          /\ FileReads(RefillRequest(n), k, ok)
          /\ filePos' = filePos + k
          /\ buf' = [i \in 0 .. BufSize - 1 |-> IF i < k THEN filePos + i ELSE buf[i]]
          /\ pos' = 0
          /\ size' = k
          /\ ret' = Returned("look", Slice(buf', 0, Smaller(n, k)), Smaller(n, k), ok)
    BY <1>1 DEF LookRefill
  <2>3. k > 0 => filePos + k <= FileLen
    BY <2>1, <2>2, FileReadsBounds
  <2>4. filePos' \in 0 .. MaxPos
    BY <2>1, <2>2, FileReadsBounds
  <2>5. Smaller(n, k) \in 0 .. k
    BY <2>1 DEF Smaller
  <2>6. buf' \in [0 .. BufSize - 1 -> Junk .. FileLen - 1]
    BY <2>2, <2>3
  <2>7. ret'.len = Smaller(n, k)
    BY <2>2
  <2>8. BufSize <= MaxPos \/ k <= MaxPos
    BY <2>3
  <2>9. \A i \in pos' .. size' - 1 : buf'[i] = filePos' - size' + i
    BY <2>2
  <2> QED
    BY <2>2, <2>4, <2>5, <2>6, <2>7, <2>8, <2>9
<1>2. ASSUME NEW n \in 0 .. MaxRequest, LookBuffered(n) PROVE IInv'
  <2>1. Smaller(n, Unread) \in 0 .. size - pos
    BY DEF Smaller
  <2>2. ret'.len = Smaller(n, Unread)
    BY <1>2 DEF LookBuffered
  <2> QED
    BY <1>2, <2>1, <2>2 DEF LookBuffered
<1>3. ASSUME NEW n \in 0 .. MaxRequest, Skip(n) PROVE IInv'
  BY <1>3 DEF Skip
<1>4. ASSUME NEW n \in 0 .. MaxRequest, ReadBuffered(n) PROVE IInv'
  <2>1. Smaller(n, Unread) \in 0 .. size - pos
    BY DEF Smaller
  <2>2. /\ pos' = pos + Smaller(n, Unread)
        /\ ret'.len = Smaller(n, Unread) /\ ret'.op = "read"
        /\ UNCHANGED <<filePos, buf, size>>
    BY <1>4 DEF ReadBuffered
  <2>3. TypeOK'
    BY SMTT(30), <2>1, <2>2
  <2>4. pos' <= size' /\ Unread' <= filePos' /\ ret'.op # "look"
    BY <2>1, <2>2
  <2>5. \A i \in pos' .. size' - 1 : buf'[i] = filePos' - size' + i
    BY <2>1, <2>2
  <2> QED
    BY <2>3, <2>4, <2>5
<1>5. ASSUME NEW n \in 0 .. MaxRequest, ReadDirect(n) PROVE IInv'
  BY <1>5, FileReadsBounds DEF ReadDirect
<1>6. ASSUME Seek PROVE IInv'
  BY <1>6 DEF Seek, SeekTo
<1>7. ASSUME UNCHANGED vars PROVE IInv'
  BY <1>7 DEF vars
<1> QED
  BY <1>1, <1>2, <1>3, <1>4, <1>5, <1>6, <1>7 DEF Next, Look, Read

(* CLookToRead2 stays well typed, and its unread buffer is always the part *)
(* of the file just before the descriptor, whatever calls were made and    *)
(* whichever of them failed.                                               *)
THEOREM BufferInvariant == Spec => [](TypeOK /\ BufferIsFile)
<1>1. Spec => []IInv
  BY InitIInv, NextIInv, PTL DEF Spec
<1> QED
  BY <1>1, PTL DEF IInv

(* Whatever calls are made and whatever reads fail, the buffer's cursors    *)
(* stay within the buffer and the descriptor within the file's positions.   *)
THEOREM TypeCorrect == Spec => []TypeOK
  BY BufferInvariant, PTL

-----------------------------------------------------------------------------
(* The opened stream is at the position of the abstract one. *)
LEMMA InitImplements == Init => Stream!Init
  BY LookToRead2Assumption
  DEF Init, Stream!Init, At, Unread, Returned, Stream!Returned, FileBytes,
      Stream!NoBytes, Stream!BytesAt

(* The nothing a call returns is the same value in both modules. *)
LEMMA NoBytesSame == ASSUME NEW p, p = filePos PROVE FileBytes(0) = Stream!NoBytes
  BY DEF FileBytes, Stream!NoBytes, Stream!BytesAt

(* Each call is the abstract one, or changes nothing a client sees. *)
LEMMA StepImplements ==
  ASSUME IInv, [Next]_vars
  PROVE  [Stream!Next]_<<At, ret>>
<1> USE LookToRead2Assumption
         DEF IInv, TypeOK, BufferIsFile, Junk, Returned, Stream!Returned, Unread, At
<1>1. ASSUME NEW n \in 0 .. MaxRequest, LookRefill(n) PROVE Stream!Look(n)
  <2>1. n \in Nat \ {0} /\ RefillRequest(n) \in 1 .. BufSize
    BY <1>1, RefillRequestBounds DEF LookRefill
  <2>2. PICK k \in 0 .. BufSize, ok \in BOOLEAN :
          /\ FileReads(RefillRequest(n), k, ok)
          /\ filePos' = filePos + k
          /\ buf' = [i \in 0 .. BufSize - 1 |-> IF i < k THEN filePos + i ELSE buf[i]]
          /\ pos' = 0
          /\ size' = k
          /\ ret' = Returned("look", Slice(buf', 0, Smaller(n, k)), Smaller(n, k), ok)
    BY <1>1 DEF LookRefill
  <2>3. /\ k > 0 => filePos + k <= FileLen
        /\ (ok /\ k = 0) => filePos >= FileLen
    BY <2>1, <2>2, FileReadsBounds
  <2>4. Smaller(n, k) \in 0 .. n /\ Smaller(n, k) <= k /\ (Smaller(n, k) = 0 => k = 0)
    BY <2>1 DEF Smaller
  <2>5. At = filePos /\ At' = filePos
    BY <1>1, <2>2 DEF LookRefill
  <2>6. Slice(buf', 0, Smaller(n, k)) = Stream!BytesAt(At, Smaller(n, k))
    <3>1. \A i \in 0 .. Smaller(n, k) - 1 : buf'[0 + i] = At + i
      BY <2>2, <2>4, <2>5
    <3> QED
      BY <3>1 DEF Slice, Stream!BytesAt
  <2>7. Stream!Yields(n, Smaller(n, k), ok)
    BY <2>3, <2>4, <2>5 DEF Stream!Yields
  <2> QED
    BY <2>2, <2>4, <2>5, <2>6, <2>7 DEF Stream!Look
<1>2. size # pos => filePos <= FileLen
  <2>1. ASSUME size # pos PROVE buf[size - 1] = filePos - 1 /\ size - 1 \in 0 .. BufSize - 1
    BY <2>1
  <2> QED
    BY <2>1
(* What is still buffered is what SeekStream would return from At. *)
<1> DEFINE Shown(n) == Smaller(n, Unread)
<1>3. ASSUME NEW n \in 0 .. MaxRequest
      PROVE  /\ Shown(n) \in 0 .. n
             /\ Shown(n) <= size - pos
             /\ Slice(buf, pos, Shown(n)) = Stream!BytesAt(At, Shown(n))
             /\ Shown(n) > 0 => At + Shown(n) <= FileLen
             /\ (Shown(n) = 0 /\ n # 0) => size = pos
  <2>1. Shown(n) \in 0 .. n /\ Shown(n) <= size - pos
    BY DEF Smaller
  <2>2. \A i \in 0 .. Shown(n) - 1 : buf[pos + i] = At + i
    BY <2>1
  <2>3. Slice(buf, pos, Shown(n)) = Stream!BytesAt(At, Shown(n))
    BY <2>2 DEF Slice, Stream!BytesAt
  <2>4. size # pos /\ n # 0 => Shown(n) # 0
    BY DEF Smaller
  <2>5. Shown(n) > 0 => At + Shown(n) <= FileLen
    BY <1>2, <2>1
  <2> QED
    BY <2>1, <2>3, <2>4, <2>5
<1>0. filePos \in Nat /\ pos \in Nat /\ size \in Nat /\ MaxRequest \in Nat
  OBVIOUS
<1> HIDE DEF Shown, IInv, TypeOK, BufferIsFile
<1>4. ASSUME NEW n \in 0 .. MaxRequest, LookBuffered(n) PROVE Stream!Look(n)
  <2>1. ret' = Returned("look", Slice(buf, pos, Shown(n)), Shown(n), TRUE)
    BY <1>4 DEF LookBuffered, Shown
  <2>2. ret' = Returned("look", Stream!BytesAt(At, Shown(n)), Shown(n), TRUE)
    BY <1>3, <2>1
  <2>3. At' = At
    BY <1>0, <1>3, <1>4 DEF LookBuffered
  <2>4. Stream!Yields(n, Shown(n), TRUE)
    BY <1>0, <1>3, <1>4 DEF LookBuffered, Stream!Yields
  <2> QED
    BY <1>3, <2>2, <2>3, <2>4 DEF Stream!Look
<1>5. ASSUME NEW k \in 0 .. MaxRequest, Skip(k) PROVE Stream!Skip(k)
  <2>1. /\ ret.op = "look" /\ ret.ok /\ k \in 0 .. ret.len
        /\ At' = At + k
        /\ ret' = Returned("skip", FileBytes(0), 0, TRUE)
    BY <1>0, <1>5 DEF Skip
  <2> QED
    BY <2>1, NoBytesSame DEF Stream!Skip
<1>6. ASSUME NEW n \in 0 .. MaxRequest, ReadBuffered(n) PROVE Stream!Read(n)
  <2>0. /\ Unread # 0
        /\ pos' = pos + Shown(n)
        /\ UNCHANGED <<filePos, buf, size>>
    BY <1>6 DEF ReadBuffered, Shown
  <2>1. ret' = Returned("read", Slice(buf, pos, Shown(n)), Shown(n), TRUE)
    BY <1>6 DEF ReadBuffered, Shown
  <2>2. ret' = Returned("read", Stream!BytesAt(At, Shown(n)), Shown(n), TRUE)
    BY <1>3, <2>1
  <2>3. At' = At + Shown(n)
    BY <1>0, <1>3, <2>0
  <2>4. Stream!Yields(n, Shown(n), TRUE)
    BY <1>0, <1>3, <2>0 DEF Stream!Yields
  <2> QED
    BY <1>3, <2>2, <2>3, <2>4 DEF Stream!Read
<1> USE DEF IInv, TypeOK, BufferIsFile
<1>7. ASSUME NEW n \in 0 .. MaxRequest, ReadDirect(n) PROVE Stream!Read(n)
  <2>1. PICK k \in 0 .. n, ok \in BOOLEAN :
          /\ FileReads(n, k, ok)
          /\ filePos' = filePos + k
          /\ ret' = Returned("read", FileBytes(k), k, ok)
    BY <1>7 DEF ReadDirect
  <2>2. /\ k > 0 => filePos + k <= FileLen
        /\ (ok /\ k = 0 /\ n # 0) => filePos >= FileLen
    BY <2>1, FileReadsBounds
  <2>3. At = filePos /\ At' = At + k
    BY <1>7, <2>1 DEF ReadDirect
  <2>4. FileBytes(k) = Stream!BytesAt(At, k)
    BY <2>3 DEF FileBytes, Stream!BytesAt
  <2>5. Stream!Yields(n, k, ok)
    BY <2>2, <2>3 DEF Stream!Yields
  <2> QED
    BY <2>1, <2>3, <2>4, <2>5 DEF Stream!Read
<1>8. ASSUME Seek PROVE Stream!Seek
  <2>1. At' = filePos' /\ filePos' \in 0 .. MaxPos
    BY <1>8 DEF Seek, SeekTo
  <2>2. \/ ret' = Returned("seek", FileBytes(0), filePos', TRUE)
        \/ ret' = Returned("seek", FileBytes(0), 0, FALSE)
    BY <1>8 DEF Seek, SeekTo
  <2> QED
    BY <2>1, <2>2, NoBytesSame DEF Stream!Seek
<1>9. ASSUME UNCHANGED vars PROVE UNCHANGED <<At, ret>>
  BY <1>9 DEF vars
<1> QED
  BY <1>1, <1>4, <1>5, <1>6, <1>7, <1>8, <1>9 DEF Next, Look, Read, Stream!Next

(* CLookToRead2 implements the stream of SeekStream: through any sequence  *)
(* of Look, Skip, Read and Seek, some of them failing, a client is given   *)
(* exactly the file's bytes at its position, and an empty answer only at   *)
(* the end of the file or with an error.                                   *)
THEOREM Implements == Spec => ImplementsSeekStream
<1>1. Spec => []IInv
  BY InitIInv, NextIInv, PTL DEF Spec
<1> QED
  BY <1>1, InitImplements, StepImplements, PTL DEF Spec, ImplementsSeekStream, Stream!Spec
=============================================================================
