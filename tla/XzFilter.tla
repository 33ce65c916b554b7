------------------------------ MODULE XzFilter ------------------------------
(* The filters of an XZ block that reorder nothing and change no sizes:       *)
(* CXzBcFilterState of XzDec.c, which the encoder uses too, over Delta.c and  *)
(* one of the branch converters of Bra.c.  A converter works on whole         *)
(* instructions, so a filter holds back what may be the start of one.         *)
EXTENDS XzFormat

CONSTANT BRA_BUF_SIZE

ASSUME XzFilterAssumption == BRA_BUF_SIZE \in 4 .. 2^14

(* Delta_Encode, Delta_Decode: state holds the delta bytes before data.       *)
RECURSIVE DeltaConv(_, _, _, _)
DeltaConv(encode, state, data, out) ==
  IF data = <<>> THEN [state |-> state, data |-> out]
  ELSE LET Byte(b) == DeltaConv(encode, Append(Tail(state), IF encode THEN Head(data) ELSE b), Tail(data), Append(out, b))
       IN  Byte(IF encode THEN (Head(data) - Head(state)) % 256 ELSE (Head(data) + Head(state)) % 256)

(* BranchConv_ARM: the target of a branch instruction becomes absolute.       *)
ArmInstruction(encode, v, pc) ==
  IF v[4] # 235 THEN v
  ELSE ToBytes((LittleEndian(Taken(v, 3)) + (IF encode THEN 1 ELSE -1) * ((pc + 8) \div 4)) % 2^24, 3) \o <<235>>

RECURSIVE ArmConv(_, _, _)
ArmConv(encode, data, pc) ==
  IF Len(data) < 4 THEN data
  ELSE ArmInstruction(encode, Taken(data, 4), pc) \o ArmConv(encode, Skipped(data, 4), pc + 4)

(* XzBcFilterStateBase_Filter_Dec / _Enc: the size converted, a whole number  *)
(* of instructions, moves ip on.                                              *)
Filter(c, data) ==
  LET Delta(r) == [c |-> [c EXCEPT !.state = r.state, !.ip = @ + Len(data)], data |-> r.data, size |-> Len(data)]
      Arm(n) == [c |-> [c EXCEPT !.ip = @ + n], data |-> ArmConv(c.encode, data, c.ip), size |-> n]
  IN  IF c.id = XZ_ID_Delta THEN Delta(DeltaConv(c.encode, c.state, data, <<>>))
      ELSE Arm(Len(data) - (Len(data) % 4))

(* XzBcFilterState_SetProps and _Init: of the buffer, conv is what is         *)
(* converted and not taken yet, tail what is not converted.                   *)
BcPropsOk(f) == IF f.id = XZ_ID_Delta THEN Len(f.props) = 1
                ELSE Len(f.props) = 0 \/ (Len(f.props) = 4 /\ f.props[1] % 4 = 0)

BcCoder(f, encode) ==
  [id |-> f.id, encode |-> encode, ip |-> IF f.id = XZ_ID_ARM THEN LittleEndian(f.props) ELSE 0,
   state |-> IF f.id = XZ_ID_Delta THEN Zeroes(f.props[1] + 1) ELSE <<>>, conv |-> <<>>, tail |-> <<>>]

(* XzBcFilterState_Code2.                                                     *)
RECURSIVE BcCode(_, _, _, _, _, _)
BcCode(c, room, src, used, srcFinished, out) ==
  LET End(d, u) == [c |-> d, out |-> out, used |-> u, res |-> "OK",
                    status |-> IF d.conv = <<>> /\ d.tail = <<>> /\ u = Len(src) /\ srcFinished
                                 THEN "FINISHED_WITH_MARK" ELSE "NOT_FINISHED"]
      Give(n) == BcCode([c EXCEPT !.conv = Skipped(@, n)], room - n, src, used, srcFinished, out \o Taken(c.conv, n))
      Held(d, n, u) ==
        IF n = 0 /\ ~srcFinished THEN End(d, u)
        ELSE BcCode([d EXCEPT !.conv = IF n = 0 THEN d.tail ELSE Taken(d.tail, n),
                              !.tail = IF n = 0 THEN <<>> ELSE Skipped(@, n)], room, src, u, srcFinished, out)
      Convert(d, u) ==
        IF d.tail = <<>> THEN End(d, u)
        ELSE LET Conv(r) == Held([r.c EXCEPT !.tail = r.data], r.size, u) IN Conv(Filter(d, d.tail))
      Fill(n) == Convert([c EXCEPT !.tail = @ \o Taken(Skipped(src, used), n)], used + n)
  IN  CASE room = 0 -> End(c, used)
        [] room # 0 /\ c.conv # <<>> -> Give(Smaller(Len(c.conv), room))
        [] room # 0 /\ c.conv = <<>> -> Fill(Smaller(BRA_BUF_SIZE - Len(c.tail), Len(src) - used))

BcCode2(c, room, src, srcFinished) == BcCode(c, room, src, 0, srcFinished, <<>>)
=============================================================================
