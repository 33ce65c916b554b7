------------------------------- MODULE SzData -------------------------------
(* The readers of the .7z header, 7zArcIn.c: numbers, bit vectors and arrays  *)
(* taken off the front of a section of bytes (CSzData), and the memory they   *)
(* are put in.                                                                *)
(*                                                                            *)
(* A reader takes a record and gives the next one: sd is what is left of the  *)
(* section, val what was read last, mem the heap, res the SRes; a reader does *)
(* nothing once res is an error, as the code returns from there.              *)
(*                                                                            *)
(* The numbers are smaller than the program's: kBitsPerByte (8) bits of a     *)
(* byte are used in a bit vector, the highest first; UInt64Max and Num32Max   *)
(* stand for 2^64 - 1 and 0x7FFFFFFF, and a larger number reads as UInt64Max. *)
EXTENDS XzFormat, FiniteSets

CONSTANTS UInt64Max, Num32Max, kBitsPerByte,
  HeapLimit                            \* the largest block the allocator gives

ASSUME SzDataAssumption ==
  /\ UInt64Max \in 2^16 .. 2^30 - 1 /\ Num32Max \in 128 .. UInt64Max
  /\ kBitsPerByte \in 1 .. 8 /\ HeapLimit \in Nat

Ok(r)              == r.res = "OK"
Error(r, e)        == [r EXCEPT !.res = e]
Refuse(r, bad, e)  == IF Ok(r) /\ bad THEN Error(r, e) ELSE r
Value(r, v)        == IF Ok(r) THEN [r EXCEPT !.val = v] ELSE r

Add64(a, b) == (a + b) % (UInt64Max + 1)
Sub64(a, b) == (a - b) % (UInt64Max + 1)

-----------------------------------------------------------------------------
(* The heap: live names the pointers that own a block, count the blocks asked *)
(* for, of which those in fails are refused; lost says that a pointer was     *)
(* overwritten while it owned a block.                                        *)
HeapWith(fails) == [live |-> {}, count |-> 0, fails |-> fails, lost |-> FALSE]

(* Only what is asked for up to the last refusal is counted.                  *)
Counted(n, fails) == IF \E k \in fails : k > n THEN n + 1 ELSE n

Alloc(r, owner, size) ==
  IF ~Ok(r) THEN r
  ELSE IF r.mem.count + 1 \in r.mem.fails \/ size > HeapLimit
    THEN [Error(r, "MEM") EXCEPT !.mem.count = Counted(@, r.mem.fails), !.mem.lost = @ \/ owner \in r.mem.live,
                                 !.mem.live = @ \ {owner}]
    ELSE [r EXCEPT !.mem.count = Counted(@, r.mem.fails), !.mem.lost = @ \/ owner \in r.mem.live,
                   !.mem.live = @ \cup {owner}]

AllocZE(r, owner, size) == IF size = 0 THEN r ELSE Alloc(r, owner, size)

Free(r, owners) == [r EXCEPT !.mem.live = @ \ owners]

-----------------------------------------------------------------------------
(* Bytes and numbers.                                                         *)
ReadByte(r) ==
  IF ~Ok(r) THEN r
  ELSE IF r.sd = <<>> THEN Error(r, "ARCHIVE")
  ELSE [r EXCEPT !.val = Head(r.sd), !.sd = Tail(@)]

SkipBytes(r, n) == IF Ok(r) THEN [r EXCEPT !.sd = Skipped(@, n)] ELSE r
TakeBytes(r, n) == IF Ok(r) THEN [r EXCEPT !.val = Taken(r.sd, n), !.sd = Skipped(@, n)] ELSE r

(* The number of ones at the top of the first byte is the number of bytes     *)
(* that follow; the bits after the first zero are the number's highest.       *)
LeadingOnes(b) == CHOOSE n \in 0 .. 8 : b \div 2^(8 - n) = 2^n - 1 /\ (n < 8 => (b \div 2^(7 - n)) % 2 = 0)
HighPart(b, n) == IF n < 8 THEN b % 2^(7 - n) ELSE 0

RECURSIVE CappedNumber(_, _)
CappedNumber(bytes, high) ==
  IF bytes = <<>> THEN high
  ELSE CappedNumber(Taken(bytes, Len(bytes) - 1),
                    IF high > UInt64Max \div 256 THEN UInt64Max ELSE Smaller(UInt64Max, 256 * high + bytes[Len(bytes)]))

NumberOf(r, b, n) ==
  IF n > Len(r.sd) THEN Error(r, "ARCHIVE")
  ELSE [r EXCEPT !.val = CappedNumber(Taken(r.sd, n), HighPart(b, n)), !.sd = Skipped(@, n)]

AfterFirstByte(r) == IF Ok(r) THEN NumberOf(r, r.val, LeadingOnes(r.val)) ELSE r

ReadNumber(r) == AfterFirstByte(ReadByte(r))
ReadID(r)     == ReadNumber(r)

SmallNumber(r) == Refuse(r, r.val >= Num32Max, "UNSUPPORTED")
SzReadNumber32(r) == SmallNumber(ReadNumber(r))

RECURSIVE SkipNumbers(_, _)
SkipNumbers(r, num) ==
  IF ~Ok(r) \/ num = 0 THEN r
  ELSE IF r.sd = <<>> THEN Error(r, "ARCHIVE")
  ELSE SkipNumbers(SkipBytes(Refuse(r, Len(r.sd) < 1 + LeadingOnes(Head(r.sd)), "ARCHIVE"),
                             1 + LeadingOnes(Head(r.sd))), num - 1)

SkipSized(r) == SkipBytes(Refuse(r, r.val > Len(r.sd), "ARCHIVE"), r.val)
SkipData(r)  == SkipSized(ReadNumber(r))

(* The attributes before the one wanted are skipped.                          *)
RECURSIVE WaitIdFrom(_, _)
WaitIdFrom(r, id) ==
  IF ~Ok(r) \/ r.val = id THEN r
  ELSE WaitIdFrom(ReadID(SkipData(Refuse(r, r.val = 0, "ARCHIVE"))), id)
WaitId(r, id) == WaitIdFrom(ReadID(r), id)

-----------------------------------------------------------------------------
(* Bit vectors and the arrays of the items they define.  An array of no items *)
(* is NULL, here the empty sequence.                                          *)
BytesFor(n) == (n + kBitsPerByte - 1) \div kBitsPerByte

SzBitArray_Check(bytes, j) == (bytes[j \div kBitsPerByte + 1] \div 2^(7 - (j % kBitsPerByte))) % 2 = 1

DefinedBits(bytes, n) == {j \in 0 .. n - 1 : SzBitArray_Check(bytes, j)}
CountDefinedBits(bytes, n) == Cardinality(DefinedBits(bytes, n))

AllDefined(n) ==
  [j \in 1 .. BytesFor(n) |-> IF j = BytesFor(n) /\ n % kBitsPerByte # 0 THEN 256 - 2^(8 - (n % kBitsPerByte)) ELSE 255]

BitVectorOf(r, n, owner) ==
  CASE ~Ok(r) \/ n = 0 -> Value(r, <<>>)
    [] Ok(r) /\ n # 0 /\ r.val = 0 ->
         TakeBytes(Alloc(Refuse(r, BytesFor(n) > Len(r.sd), "ARCHIVE"), owner, BytesFor(n)), BytesFor(n))
    [] Ok(r) /\ n # 0 /\ r.val # 0 -> Value(Alloc(r, owner, BytesFor(n)), AllDefined(n))

ReadBitVector(r, n, owner) == BitVectorOf(ReadByte(r), n, owner)

(* One value of size bytes for every bit set, zeroes for the others.          *)
ReadVals(r, defs, n, size) ==
  LET Defined == DefinedBits(defs, n)
      Before(j) == size * Cardinality({k \in Defined : k < j})
      Vals == [j \in 1 .. n |-> IF j - 1 \in Defined THEN SubSeq(r.sd, Before(j - 1) + 1, Before(j - 1) + size)
                                ELSE Zeroes(size)]
  IN  IF ~Ok(r) THEN r
      ELSE IF size * Cardinality(Defined) > Len(r.sd) THEN Error(r, "ARCHIVE")
      ELSE [r EXCEPT !.sd = Skipped(@, size * Cardinality(Defined)), !.val = [defs |-> defs, vals |-> Vals]]

ReadUi32s(r, defs, n, owner) == ReadVals(AllocZE(r, owner, 4 * n), defs, n, 4)

NoVals == [defs |-> <<>>, vals |-> <<>>]
SzBitWithVals_Check(p, j) == p.defs # <<>> /\ SzBitArray_Check(p.defs, j)

AfterDefs(r, n, owner) == IF Ok(r) THEN ReadUi32s(r, r.val, n, Append(owner, "Vals")) ELSE r

ReadBitUi32s(r, old, n, owner) ==
  AfterDefs(ReadBitVector(Refuse(r, old.defs # <<>>, "ARCHIVE"), n, Append(owner, "Defs")), n, owner)

SkipDefined(r, numDefined) == SkipBytes(Refuse(r, numDefined > Len(r.sd) \div 4, "ARCHIVE"), 4 * numDefined)

AfterAllDefined(r, n) ==
  CASE ~Ok(r) -> r
    [] Ok(r) /\ r.val # 0 -> SkipDefined(r, n)
    [] Ok(r) /\ r.val = 0 ->
         IF BytesFor(n) > Len(r.sd) THEN Error(r, "ARCHIVE")
         ELSE SkipDefined(SkipBytes(r, BytesFor(n)), CountDefinedBits(Taken(r.sd, BytesFor(n)), n))

SkipBitUi32s(r, n) == AfterAllDefined(ReadByte(r), n)
=============================================================================
