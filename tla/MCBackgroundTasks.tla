--------------------------- MODULE MCBackgroundTasks ---------------------------
(* Model-checking instance of BackgroundTasks.                              *)
EXTENDS BackgroundTasks
=============================================================================
