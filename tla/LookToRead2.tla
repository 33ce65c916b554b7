---------------------------- MODULE LookToRead2 ----------------------------
(***************************************************************************)
(* CLookToRead2 (7zStream.c) over a CFileInStream (7zFile.c): the look-    *)
(* ahead buffer every 7z decoder reads its packed stream through.  The     *)
(* Swift archive creates it with lookahead = 0 (Look_Exact).               *)
(* One action per method of the vtable; the object has one client at a     *)
(* time and a call runs to its end, so a call is one step.                 *)
(***************************************************************************)
EXTENDS Integers

CONSTANTS
  FileLen,     (* length of the file                                       *)
  MaxPos,      (* furthest offset a client seeks to; bounds the model      *)
  MaxRequest,  (* most bytes a client asks for; bounds the model           *)
  BufSize,     (* p->bufSize                                               *)
  Lookahead    (* the flag given to LookToRead2_CreateVTable               *)

ASSUME LookToRead2Assumption ==
  /\ FileLen \in Nat
  /\ MaxPos \in Nat
  /\ FileLen <= MaxPos
  /\ MaxRequest \in Nat \ {0}
  /\ BufSize \in Nat \ {0}
  /\ Lookahead \in BOOLEAN

VARIABLES
  filePos,     (* position of the file descriptor behind p->realStream     *)
  buf,         (* p->buf: each cell holds the offset of the byte in it     *)
  pos,         (* p->pos                                                   *)
  size,        (* p->size                                                  *)
  ret          (* what the last call returned to the client                *)

vars == <<filePos, buf, pos, size, ret>>

(* A cell of a fresh malloc block: no byte of the file. *)
Junk == -1

Smaller(a, b) == IF a < b THEN a ELSE b

Unread == size - pos

Slice(b, from, k) == [i \in 0 .. k - 1 |-> b[from + i]]
FileBytes(k) == [i \in 0 .. k - 1 |-> filePos + i]

Returned(op, data, len, ok) ==
  [op |-> op, data |-> data, len |-> len, ok |-> ok]

(* LookToRead2_INIT on a stream opened by InFile_Open. *)
Init ==
  /\ filePos = 0
  /\ buf = [i \in 0 .. BufSize - 1 |-> Junk]
  /\ pos = 0
  /\ size = 0
  /\ ret = Returned("init", FileBytes(0), 0, TRUE)

-----------------------------------------------------------------------------
(* File_Read: loops until it has n bytes or the file ends; an error may    *)
(* come after some of them were read, and the size then counts those.      *)
Remaining == IF filePos < FileLen THEN FileLen - filePos ELSE 0
FileReads(n, k, ok) ==
  /\ k <= Smaller(n, Remaining)
  /\ ok => k = Smaller(n, Remaining)
  /\ n = 0 => ok

(* How much a Look that finds the buffer empty asks the file for. *)
RefillRequest(n) == IF Lookahead THEN BufSize ELSE Smaller(n, BufSize)

LookRefill_Append(n) ==
  /\ Unread = 0
  /\ n # 0
  /\ \E k \in 0 .. BufSize, ok \in BOOLEAN :
       /\ FileReads(RefillRequest(n), k, ok)
       /\ filePos' = filePos + k
       /\ size' = size + k
       /\ ret' = Returned("look", FileBytes(k), k, ok)
       /\ UNCHANGED <<buf, pos>>

(* LookToRead2_Look_Lookahead and LookToRead2_Look_Exact: the buffer is     *)
(* filled from its start, the request first cut to the buffer's size.      *)
LookRefill(n) ==
  /\ Unread = 0
  /\ n # 0
  /\ \E k \in 0 .. BufSize, ok \in BOOLEAN :
       /\ FileReads(RefillRequest(n), k, ok)
       /\ filePos' = filePos + k
       /\ buf' = [i \in 0 .. BufSize - 1 |-> IF i < k THEN filePos + i ELSE buf[i]]
       /\ pos' = 0
       /\ size' = k
       /\ LET shown == Smaller(n, k)
          IN  ret' = Returned("look", Slice(buf', 0, shown), shown, ok)

LookBuffered(n) ==
  /\ Unread # 0 \/ n = 0
  /\ LET shown == Smaller(n, Unread)
     IN  ret' = Returned("look", Slice(buf, pos, shown), shown, TRUE)
  /\ UNCHANGED <<filePos, buf, pos, size>>

Look(n) == LookRefill(n) \/ LookBuffered(n)

(* LookToRead2_Skip.  The guard is the client's duty (7zTypes.h): skip no  *)
(* more than the Look just before has shown.                               *)
Skip(k) ==
  /\ ret.op = "look" /\ ret.ok
  /\ k \in 0 .. ret.len
  /\ pos' = pos + k
  /\ ret' = Returned("skip", FileBytes(0), 0, TRUE)
  /\ UNCHANGED <<filePos, buf, size>>

(* LookToRead2_Read: what is buffered first, the file only when nothing is. *)
ReadBuffered_NoAdvance(n) ==
  /\ Unread # 0
  /\ LET k == Smaller(n, Unread)
     IN  ret' = Returned("read", Slice(buf, pos, k), k, TRUE)
  /\ UNCHANGED <<filePos, buf, pos, size>>

ReadBuffered(n) ==
  /\ Unread # 0
  /\ LET k == Smaller(n, Unread)
     IN  /\ ret' = Returned("read", Slice(buf, pos, k), k, TRUE)
         /\ pos' = pos + k
  /\ UNCHANGED <<filePos, buf, size>>

ReadDirect(n) ==
  /\ Unread = 0
  /\ \E k \in 0 .. n, ok \in BOOLEAN :
       /\ FileReads(n, k, ok)
       /\ filePos' = filePos + k
       /\ ret' = Returned("read", FileBytes(k), k, ok)
  /\ UNCHANGED <<buf, pos, size>>

Read(n) == ReadBuffered(n) \/ ReadDirect(n)

(* LookToRead2_Seek: drops the buffer, then File_Seek from `origin` (the   *)
(* offset of SZ_SEEK_SET, SZ_SEEK_CUR or SZ_SEEK_END).  SZ_SEEK_CUR is     *)
(* relative to the file descriptor, not to the client's position.          *)
SeekTo_KeepBuffer(origin, t) ==
  /\ origin + t \in 0 .. MaxPos
  /\ UNCHANGED <<buf, pos, size>>
  /\ \/ /\ filePos' = origin + t
        /\ ret' = Returned("seek", FileBytes(0), origin + t, TRUE)
     \/ /\ filePos' = filePos
        /\ ret' = Returned("seek", FileBytes(0), 0, FALSE)

SeekTo(origin, t) ==
  /\ origin + t \in 0 .. MaxPos
  /\ pos' = 0
  /\ size' = 0
  /\ \/ /\ filePos' = origin + t
        /\ ret' = Returned("seek", FileBytes(0), origin + t, TRUE)
     \/ /\ filePos' = filePos
        /\ ret' = Returned("seek", FileBytes(0), 0, FALSE)
  /\ UNCHANGED buf

Seek ==
  \/ \E t \in 0 .. MaxPos : SeekTo(0, t)
  \/ SeekTo(filePos, 0)
  \/ SeekTo(FileLen, 0)

Next ==
  \/ \E n \in 0 .. MaxRequest : Look(n)
  \/ \E k \in 0 .. MaxRequest : Skip(k)
  \/ \E n \in 0 .. MaxRequest : Read(n)
  \/ Seek

Spec == Init /\ [][Next]_vars

-----------------------------------------------------------------------------
TypeOK ==
  /\ filePos \in 0 .. MaxPos
  /\ buf \in [0 .. BufSize - 1 -> Junk .. FileLen - 1]
  /\ pos \in 0 .. BufSize
  /\ size \in 0 .. BufSize
  /\ ret.len \in 0 .. MaxPos

(* The client's position: the descriptor's, less what is still buffered. *)
At == filePos - Unread

(* The unread part of the buffer is the part of the file that ends at the  *)
(* descriptor, and what a Look has shown is still unread, so that no       *)
(* refill, skip, read or seek lets p->pos, p->size and the descriptor      *)
(* drift apart and a client's Skip cannot pass p->size.                    *)
BufferIsFile ==
  /\ pos <= size
  /\ Unread <= filePos
  /\ \A i \in pos .. size - 1 : buf[i] = filePos - size + i
  /\ ret.op = "look" => ret.len <= Unread

(* The buffered stream is the stream with one position of SeekStream: every *)
(* Look and Read returns the file's bytes at the client's position, an     *)
(* empty answer means the end of the file or an error, and a successful    *)
(* Seek reports where the stream then is.                                  *)
Stream == INSTANCE SeekStream WITH at <- At
ImplementsSeekStream == Stream!Spec
=============================================================================
