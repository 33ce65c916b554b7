------------------------------ MODULE MCMtDec ------------------------------
EXTENDS MtDec

(* Streams with blocks that are put together, too large, damaged, or cut    *)
(* off, with data after the end mark, and with more blocks than threads.   *)
N == "new"
D == "data"
MCStreams == {
  <<N, D, D, N, D, D, "end">>,
  <<N, D, N, D, D, D, "end", D>>,
  <<N, D, D, N, D, N, D, D>>,
  <<N, D, D, D, D, "end">>,
  <<N, "bad", N, D, D, N, D, "end">>,
  <<N, D, D, "err", D, D>>,
  <<N, D, D, N, D, "bad", N, D, "end">>,
  <<N, D, D, N, D, D, N, D, D, N, D, "end">>,
  << >> }
MCInputs == [bytes : MCStreams, outSize : {NoSize, 3}, finishMode : BOOLEAN, threads : {1, 2, 3}]

(* A second call on the handle finds what the first has left. *)
MCAgain == [bytes : {<<N, D, D, N, D, D, "end">>}, outSize : {NoSize}, finishMode : {TRUE},
            threads : {1, 3}]
MCCalls == <<MCInputs, MCAgain>>

(* One call with two threads, for what a failed write is answered with. *)
MCOneCall == <<[bytes : {<<N, D, D, N, D, D, "end">>}, outSize : {NoSize}, finishMode : {TRUE},
                  threads : {2}]>>
=============================================================================
