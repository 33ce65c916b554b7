---------------------------- MODULE OrderedCoder ----------------------------
(***************************************************************************)
(* What a multi-threaded coder promises its caller: the coded blocks of    *)
(* the input come out one after the other in input order, as if coded by   *)
(* one thread.  A block may be missing only after a failure, and a call    *)
(* reports success only when nothing failed and every block is out.        *)
(***************************************************************************)
EXTENDS Naturals, Sequences

VARIABLES
  N,             (* the number of blocks of the input, which never changes *)
  out,           (* the blocks written so far, in the order of writing     *)
  failed,        (* some read, coding or write of this call failed         *)
  answer         (* "none" until the call returns, then "OK" or "ERR"      *)

Before == IF out = << >> THEN 0 ELSE out[Len(out)] + 1

Init == N \in Nat /\ out = << >> /\ failed = FALSE /\ answer = "none"

Write ==
  /\ answer = "none"
  /\ \E k \in Before .. N - 1 :
       /\ k = Before \/ failed
       /\ out' = Append(out, k)
  /\ UNCHANGED <<N, failed, answer>>

Fail ==
  /\ answer = "none"
  /\ failed' = TRUE
  /\ UNCHANGED <<N, out, answer>>

Return ==
  /\ answer = "none"
  /\ failed' \in {failed, TRUE}
  /\ answer' = IF failed' THEN "ERR" ELSE "OK"
  /\ ~ failed' => Len(out) = N
  /\ UNCHANGED <<N, out>>

Next == Write \/ Fail \/ Return

Spec == Init /\ [][Next]_<<N, out, failed, answer>>
=============================================================================
