----------------------------- MODULE SeekStream -----------------------------
(***************************************************************************)
(* What an ILookInStream promises its client (7zTypes.h): a file read at   *)
(* one logical position.  Look shows the bytes at that position without    *)
(* moving it, Skip moves it over bytes a Look has shown, Read returns the  *)
(* bytes and moves over them, Seek sets it.  A byte of the file is named   *)
(* by its offset, so "the right bytes" is a statement about offsets.       *)
(***************************************************************************)
EXTENDS Integers

CONSTANTS
  FileLen,     (* the length of the file                                   *)
  MaxPos,      (* the furthest offset a client seeks to; bounds the model  *)
  MaxRequest   (* the most bytes a client asks for; bounds the model       *)

VARIABLES
  at,          (* the logical position                                     *)
  ret          (* what the last call returned                              *)

(* The k bytes of the file from offset p on. *)
BytesAt(p, k) == [i \in 0 .. k - 1 |-> p + i]

Returned(op, data, len, ok) ==
  [op |-> op, data |-> data, len |-> len, ok |-> ok]

NoBytes == BytesAt(0, 0)

Init ==
  /\ at \in 0 .. MaxPos
  /\ ret = Returned("init", NoBytes, 0, TRUE)

(* A call for n bytes yields k of them, and none only at the end of the    *)
(* file, if none were asked for, or with an error.                         *)
Yields(n, k, ok) ==
  /\ k \in 0 .. n
  /\ k > 0 => at + k <= FileLen
  /\ (k = 0 /\ ok /\ n # 0) => at >= FileLen

Look(n) ==
  \E k \in 0 .. n, ok \in BOOLEAN :
    /\ Yields(n, k, ok)
    /\ ret' = Returned("look", BytesAt(at, k), k, ok)
    /\ at' = at

Skip(k) ==
  /\ ret.op = "look" /\ ret.ok
  /\ k \in 0 .. ret.len
  /\ at' = at + k
  /\ ret' = Returned("skip", NoBytes, 0, TRUE)

Read(n) ==
  \E k \in 0 .. n, ok \in BOOLEAN :
    /\ Yields(n, k, ok)
    /\ ret' = Returned("read", BytesAt(at, k), k, ok)
    /\ at' = at + k

(* A seek that fails leaves the position unspecified.  The position a      *)
(* successful seek reports is the position the stream has.                 *)
Seek ==
  /\ at' \in 0 .. MaxPos
  /\ \/ ret' = Returned("seek", NoBytes, at', TRUE)
     \/ ret' = Returned("seek", NoBytes, 0, FALSE)

Next ==
  \/ \E n \in 0 .. MaxRequest : Look(n)
  \/ \E k \in 0 .. MaxRequest : Skip(k)
  \/ \E n \in 0 .. MaxRequest : Read(n)
  \/ Seek

Spec == Init /\ [][Next]_<<at, ret>>
=============================================================================
