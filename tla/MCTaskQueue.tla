----------------------------- MODULE MCTaskQueue -----------------------------
(* TaskQueue for TLC: any thread may push, pop or wake at any time. *)
EXTENDS TaskQueue, TLC
==============================================================================
