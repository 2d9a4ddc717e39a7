------------------------------- MODULE Sessions -------------------------------
(***************************************************************************)
(* What the account service and the directory service share: the sessions  *)
(* in Redis and the ways in which a statement to MySQL can end.  The       *)
(* messages between them and the API server are those of Messages.         *)
(***************************************************************************)
EXTENDS Integers, Sequences, FiniteSets

CONSTANTS Requests,   \* HTTP requests, numbered as they come
          Uuids,      \* what gen_uuid draws from
          Statements  \* how a statement ends: "done", "failed", or "unreported",
                      \* executed with the answer lost.  {"failed"} is the code
                      \* as it stands, whose URLs name the port of Redis

ASSUME SessionsAssumption == /\ IsFiniteSet(Requests) /\ Requests \subseteq Nat \ {0}
                             /\ Statements \subseteq {"done", "failed", "unreported"}
                             /\ "failed" \in Statements

VARIABLE sessions  \* by uuid, the array that HGETALL replies

M == INSTANCE Messages

\* redis_session_task: the fields in the order in which HMSET names them.
NoSession == <<>>
Session(name, id) == <<"username", name, "userid", id>>

\* HGETALL of a key that does not exist replies an empty array.
HgetAll(uuid) == IF uuid \in Uuids THEN sessions[uuid] ELSE NoSession
==============================================================================
