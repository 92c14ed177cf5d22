---------------------------- MODULE MCAsyncChannel ----------------------------
(* Instance of AsyncChannel for TLC. *)
EXTENDS AsyncChannel
=============================================================================
