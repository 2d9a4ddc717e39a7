----------------------------- MODULE MCSocketIO ------------------------------
(* SocketIO for TLC: two tasks of one connection; sizes on both sides of the *)
(* largest int of three bits; a newline in the middle.                       *)
EXTENDS SocketIO
MCSizes == {3, 5}
MCNewlines == {2}
==============================================================================
