------------------------------- MODULE TaskTable -------------------------------
(* The table of the async task registry, as far as every user of it sees it:   *)
(* the handles in it, and which of their records have a flag set.  AsyncTasks   *)
(* and BackgroundTasks each model the steps of their own part of the runtime.   *)

VARIABLES tasks, completed, failed, cancelled

taskVars == <<tasks, completed, failed, cancelled>>
================================================================================
