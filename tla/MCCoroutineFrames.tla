--------------------------- MODULE MCCoroutineFrames ---------------------------
(* Model-checking instance of CoroutineFrames.                              *)
EXTENDS CoroutineFrames, TLC
=============================================================================
