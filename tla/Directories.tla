----------------------------- MODULE Directories -----------------------------
(***************************************************************************)
(* The directory service (httppart/dirinfoserver.cc): DirAdd, DirRm and    *)
(* DirQuery ask Redis for the session, take the user from the answer and   *)
(* push a statement on the table filetree, whose callback fills the        *)
(* response.  All three are the same but for the statement and the answer. *)
(*                                                                         *)
(* As they are written none of the statements is one: texts stand in them  *)
(* without quotes, the insert has commas without a value, the select names *)
(* a column inside parentheses, and the word "and" follows the user        *)
(* without a space.  MySQL refuses them, which is "failed", unless the     *)
(* user's name happens to complete one; what else Statements allows is     *)
(* what they are meant to do, with the user and the name as values.        *)
(***************************************************************************)
EXTENDS Sessions

CONSTANTS Wild,      \* what is read where an array has no element
          FirstTree  \* the rows of the table when the processes start

VARIABLES tree,          \* filetree: a row's id is its position
          dir,           \* by request, what the service does for it
          directoriesUp  \* the process runs

directories == <<tree, dir, directoriesUp>>

Removed == -2
Nobody == "nobody"

ASSUME DirectoriesAssumption ==
  FirstTree \in Seq([user : STRING, name : STRING, dirid : Nat \union {Removed},
                     by : {0}, gone : {0}])

NoDir == [stage |-> "idle", op |-> "", asked |-> M!New("DirInfo"), user |-> Nobody,
          ret |-> M!New("DirRet")]

DirectoriesInit == /\ tree = FirstTree
                   /\ dir = [r \in Requests |-> NoDir]
                   /\ directoriesUp = TRUE
------------------------------------------------------------------------------
\* The handlers: the request is copied, HGETALL pushed into the series.
Handle(r, op, m) == /\ directoriesUp /\ dir[r].stage = "idle"
                    /\ dir' = [dir EXCEPT ![r].stage = "hgetall", ![r].op = op, ![r].asked = m]
                    /\ UNCHANGED <<tree, directoriesUp>>
DirAdd(r, m) == Handle(r, "add", m)
DirRm(r, m) == Handle(r, "rm", m)
DirQuery(r, m) == Handle(r, "query", m)

\* The process ends, and the calls in it are lost.
DirectoriesDie ==
  /\ directoriesUp' = FALSE
  /\ dir' = [r \in Requests |-> IF dir[r].stage = "idle" THEN dir[r]
                                ELSE [NoDir EXCEPT !.stage = "lost"]]

User(r, user) == /\ dir' = [dir EXCEPT ![r].stage = "statement", ![r].user = user]
                 /\ UNCHANGED directoriesUp

\* redis_callback.  The array is field, value, field, value: element 0 is the
\* word "username", and element 1, which is called userid, the user's name.
\* An unknown uuid has an empty array, whose elements are no memory of the
\* process's, or some.  Without an array the response stays as it was made.
RedisCallback(r) ==
  /\ directoriesUp /\ dir[r].stage = "hgetall"
  /\ LET fields == HgetAll(dir[r].asked.uuid)
     IN \/ fields # NoSession /\ User(r, fields[2])
        \/ fields = NoSession /\ (User(r, Wild) \/ DirectoriesDie)
        \/ /\ dir' = [dir EXCEPT ![r].stage = "answered"]
           /\ UNCHANGED directoriesUp
  /\ UNCHANGED tree

Respond(r, code, jsoninfo) ==
  dir' = [dir EXCEPT ![r].stage = "answered", ![r].ret = M!SetDirRet(@, code, jsoninfo)]

\* A negative dirid is printed as an unsigned number that no column holds.
Matches(r) == {i \in DOMAIN tree : /\ tree[i].user = dir[r].user
                                   /\ tree[i].dirid = dir[r].asked.dirid
                                   /\ dir[r].asked.dirid >= 0}

At(r, op) == directoriesUp /\ dir[r].stage = "statement" /\ dir[r].op = op

\* Mutant: the dirid is printed as a signed number.
InsertSigned(r) ==
  /\ At(r, "add")
  /\ \E how \in Statements :
       /\ tree' = IF how = "failed" THEN tree
                  ELSE Append(tree, [user |-> dir[r].user, name |-> dir[r].asked.name,
                                     dirid |-> dir[r].asked.dirid, by |-> r, gone |-> 0])
       /\ IF how = "done" THEN Respond(r, 0, "added") ELSE Respond(r, -1, "error")
  /\ UNCHANGED directoriesUp

\* insert into filetree.
Insert(r) ==
  /\ At(r, "add")
  /\ \E how \in Statements :
       /\ dir[r].asked.dirid < 0 => how = "failed"
       /\ tree' = IF how = "failed" THEN tree
                  ELSE Append(tree, [user |-> dir[r].user, name |-> dir[r].asked.name,
                                     dirid |-> dir[r].asked.dirid, by |-> r, gone |-> 0])
       /\ IF how = "done" THEN Respond(r, 0, "added") ELSE Respond(r, -1, "error")
  /\ UNCHANGED directoriesUp

\* Mutant: the number of rows is not looked at.
UpdateAny(r) ==
  /\ At(r, "rm")
  /\ \E how \in Statements :
       /\ tree' = [i \in DOMAIN tree |->
                     IF how # "failed" /\ i \in Matches(r)
                     THEN [tree[i] EXCEPT !.dirid = Removed, !.gone = r] ELSE tree[i]]
       /\ IF how = "done" THEN Respond(r, 0, "del ok!") ELSE Respond(r, -1, "del error")
  /\ UNCHANGED directoriesUp

\* update filetree set dirid = -2: every row with that parent is removed, and
\* it is reported unless there was exactly one.
Update(r) ==
  /\ At(r, "rm")
  /\ \E how \in Statements :
       /\ tree' = [i \in DOMAIN tree |->
                     IF how # "failed" /\ i \in Matches(r)
                     THEN [tree[i] EXCEPT !.dirid = Removed, !.gone = r] ELSE tree[i]]
       /\ IF how = "done" /\ Cardinality(Matches(r)) = 1
          THEN Respond(r, 0, "del ok!") ELSE Respond(r, -1, "del error")
  /\ UNCHANGED directoriesUp

\* select ... from filetree.
Select(r) ==
  /\ At(r, "query")
  /\ \E how \in Statements :
       IF how = "done" THEN Respond(r, 0, "data") ELSE Respond(r, -1, "error")
  /\ UNCHANGED <<tree, directoriesUp>>

RestartDirectories == /\ ~directoriesUp
                      /\ directoriesUp' = TRUE
                      /\ UNCHANGED <<tree, dir>>

DirectoriesStep == \/ \E r \in Requests : RedisCallback(r) \/ Insert(r) \/ Update(r) \/ Select(r)
                   \/ RestartDirectories
------------------------------------------------------------------------------
DirectoriesTypeOK ==
  /\ \A r \in Requests : dir[r].stage \in {"idle", "hgetall", "statement", "answered", "lost"}
  /\ \A i \in DOMAIN tree : tree[i].dirid \in Nat \union {Removed} /\ tree[i].by \in Requests \union {0}
  /\ directoriesUp \in BOOLEAN
==============================================================================
