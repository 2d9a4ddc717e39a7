---------------------------- MODULE MCThreadPool -----------------------------
(* ThreadPool for TLC: a few workers, one event-loop thread, and a stopper. *)
EXTENDS ThreadPool, TLC
CONSTANTS w1, w2, loop, stopper
PoolWorkers == {w1, w2}
PoolProducers == {loop}
PoolThreads == {w1, w2, loop, stopper}
==============================================================================
