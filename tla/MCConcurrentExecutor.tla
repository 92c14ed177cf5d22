------------------------ MODULE MCConcurrentExecutor ------------------------
(* ConcurrentExecutor with a task and a batch of three values in two lanes. *)
EXTENDS ConcurrentExecutor
=============================================================================
