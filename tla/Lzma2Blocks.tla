---------------------------- MODULE Lzma2Blocks ----------------------------
(***************************************************************************)
(* LZMA2 data as the multi-threaded decoder tells its parts apart, and the *)
(* two passes over it: Lzma2Dec_Parse, which looks for the end of a block  *)
(* that can be decoded alone, and Lzma2Dec_DecodeToDic, which decodes.     *)
(*                                                                         *)
(* A byte of the input is named by its offset, and has a kind:             *)
(*   "new"  a control byte that resets the dictionary                      *)
(*   "data" a chunk that decodes to one byte                               *)
(*   "bad"  the same to the parser, but damaged                            *)
(*   "err"  a control byte that is not valid here                          *)
(*   "end"  the control byte 0                                             *)
(* What a "data" byte decodes to is named by its offset too.               *)
(***************************************************************************)
EXTENDS Integers, Sequences, FiniteSetsExt

CONSTANTS
  OutBlockMax,  (* props.outBlockMax: most bytes a block may decode to     *)
  SmallBlock    (* 1 << 14: smaller blocks are put together                *)

ASSUME Lzma2BlocksAssumption == OutBlockMax \in Nat \ {0} /\ SmallBlock \in Nat \ {0}

Kinds == {"new", "data", "bad", "err", "end"}

(* A first chunk that resets nothing is not valid: it is an "err".  Every  *)
(* control byte that resets is the first of a chunk of at least one byte,  *)
(* which is there, or has properties that are not valid, or is cut off.    *)
Streams ==
  {s \in Seq(Kinds) :
     /\ s # << >> => s[1] \notin {"data", "bad"}
     /\ \A k \in 1 .. Len(s) - 1 : s[k] = "new" => s[k + 1] \in {"data", "bad", "err"}}

NoSize == -1                      (* !p->outSize_Defined                   *)

(* How many of the first k - 1 bytes of src, offsets into bytes, decode to *)
(* something; the parser cannot tell which are damaged.                    *)
NumData(bytes, src, k) == Cardinality({j \in 1 .. k - 1 : bytes[src[j]] \in {"data", "bad"}})

-----------------------------------------------------------------------------
(* Lzma2DecMt_MtCallback_Parse of src, with d bytes to decode before it in *)
(* the block and at most limit bytes allowed.  check: a block at its limit *)
(* must be at its end.  It stops at the first byte where it must; a small  *)
(* block passed before that is where the block ends, if it can.            *)
Parse(bytes, src, d, limit, check) ==
  LET D(k) == d + NumData(bytes, src, k)
      kind(k) == IF k > Len(src) THEN "more" ELSE bytes[src[k]]
      Stops(k) == \/ kind(k) \in {"more", "end", "err"}
                  \/ kind(k) = "new" /\ D(k) >= SmallBlock
                  \/ D(k) = limit /\ (~ check \/ kind(k) # "new")
      s == Min({k \in 1 .. Len(src) + 1 : Stops(k)})
      points == {k \in 1 .. s - 1 : kind(k) = "new" /\ D(k) # 0}
      full == D(s) = limit
      found == IF full /\ ~ check       THEN "STOP"       (* NOT_FINISHED  *)
               ELSE IF kind(s) = "more" THEN "CONTINUE"   (* NEEDS_MORE_INPUT *)
               ELSE IF kind(s) = "end"  THEN "MARK"       (* FINISHED_WITH_MARK *)
               ELSE IF kind(s) = "new"  THEN "NEW"        (* NEW_BLOCK     *)
               ELSE IF full             THEN "OVERFLOW"   (* NOT_FINISHED  *)
               ELSE "ERROR"                               (* NOT_SPECIFIED *)
      revert == points # {} /\ found \in {"STOP", "CONTINUE", "OVERFLOW"}
  IN  IF revert
      THEN [state |-> "NEW", used |-> Max(points) - 1, out |-> D(Max(points))]
      ELSE [state |-> found, out |-> D(s),
            used  |-> IF found \in {"MARK", "OVERFLOW", "ERROR"} THEN s ELSE s - 1]

(* What the first k - 1 bytes of src decode to, if none is damaged: the    *)
(* n-th output byte is named by the n-th of them that is "data".           *)
Output(bytes, src, k) ==
  LET data == {j \in 1 .. k - 1 : bytes[src[j]] = "data"}
      nth(n) == CHOOSE j \in data : Cardinality({i \in data : i <= j}) = n
  IN  [n \in 1 .. Cardinality(data) |-> src[nth(n)]]

(* Lzma2Dec_DecodeToDic of src, with room for the bytes up to limit of     *)
(* which d are there; any is LZMA_FINISH_ANY, to stop when it is full.     *)
Decode(bytes, src, d, limit, any) ==
  LET D(k) == d + NumData(bytes, src, k)
      full(k) == limit # NoSize /\ D(k) = limit
      kind(k) == IF k > Len(src) THEN "more" ELSE bytes[src[k]]
      s == Min({k \in 1 .. Len(src) + 1 : kind(k) \in {"more", "end", "bad", "err"} \/ full(k)})
      stopped == (full(s) /\ any) \/ kind(s) = "more"
  IN  [out  |-> Output(bytes, src, s),
       used |-> IF stopped THEN s - 1 ELSE s,
       mark |-> ~ stopped /\ kind(s) = "end",
       ok   |-> stopped \/ kind(s) = "end"]

-----------------------------------------------------------------------------
(* What one thread decodes the input to: what stands before the end mark,  *)
(* the first damage, or the size asked for.                                *)
Offsets(bytes) == [k \in 1 .. Len(bytes) |-> k]
Whole(bytes, outSize, finish) == Decode(bytes, Offsets(bytes), 0, outSize, ~ finish)

Sound(bytes, outSize, finish) ==
  LET all == Whole(bytes, outSize, finish)
  IN  /\ all.ok
      /\ \/ all.mark /\ (finish /\ outSize # NoSize => Len(all.out) = outSize)
         \/ ~ finish /\ outSize = Len(all.out)
=============================================================================
