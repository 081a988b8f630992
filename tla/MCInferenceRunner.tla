------------------------- MODULE MCInferenceRunner -------------------------
(* An instance of InferenceRunner for TLC: one call more than the queue    *)
(* and the consumer together can hold.                                     *)
EXTENDS InferenceRunner
=============================================================================
