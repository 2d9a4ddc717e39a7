----------------------------- MODULE MCFileTask ------------------------------
(* FileTask for TLC: two users with the two pieces of one file, and a client *)
(* whose session nobody knows.                                               *)
EXTENDS FileTask, TLC
CONSTANTS u1, u2, h1, h2
Piece(u, i, up_) == [user |-> u, file |-> "f",
                     hash |-> IF i = 1 THEN h1 ELSE h2, upload |-> up_]
Uploads == {Piece(u, i, TRUE) : u \in {u1, u2}, i \in {1, 2}}
MCJobs == Uploads \union {Piece(u1, 1, FALSE), Piece(NoUser, 1, TRUE)}
TwoUsers == {u1, u2}
TwoHashes == {h1, h2}
AllFailures == {"write", "kill", "leave"}
AnyResult == {TRUE, FALSE}
==============================================================================
