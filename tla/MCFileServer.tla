---------------------------- MODULE MCFileServer -----------------------------
(* FileServer for TLC: two connections, two workers and a short queue. *)
EXTENDS FileServer, TLC
==============================================================================
