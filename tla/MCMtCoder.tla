----------------------------- MODULE MCMtCoder -----------------------------
(* The inputs of the runs: a stream whose size is not known, or known, and *)
(* data in memory.                                                         *)
EXTENDS MtCoder

MCStream == {[stream |-> TRUE, expected |-> InputLen + 1]}
MCInputs == MCStream \cup [stream : BOOLEAN, expected : {InputLen}]
=============================================================================
