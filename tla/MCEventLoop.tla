----------------------------- MODULE MCEventLoop -----------------------------
(* EventLoop for TLC: fewer descriptors than clients and workers want. *)
EXTENDS EventLoop, TLC
ClientFds == 4 .. 5
==============================================================================
