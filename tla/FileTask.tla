------------------------------ MODULE FileTask ------------------------------
(***************************************************************************)
(* FileTask::process (tcppart/FileServer.cc): what a worker does for one   *)
(* client from its session's uuid to the end of the upload or download,    *)
(* and what it leaves on disk, in the table filetree and in Redis.         *)
(*                                                                         *)
(* Several workers do this at once, for several clients of several users,  *)
(* with nothing between them but the single statements of MySQL and Redis. *)
(* The process dies on an exception that nobody catches, on a signal, or   *)
(* because it is killed; disk, table and Redis outlive it.                 *)
(***************************************************************************)
EXTENDS Naturals, Sequences, FiniteSets, SequencesExt

CONSTANTS Workers,    \* the threads of the pool
          Users,      \* the users with a session
          NoUser,     \* what the session of an unknown uuid belongs to
          Hashes,     \* the contents, by md5; also the paths they are stored at
          Jobs,       \* what a client may ask for
          MaxJobs,    \* bound: the tasks executed
          QueryResults, \* how MySQL statements end: {FALSE} is the code as it
                        \* stands, whose handle is connected to no server
          Failures    \* which of "write", "kill" and "leave" happen

ASSUME FileTaskAssumption ==
  /\ NoUser \notin Users
  /\ Jobs # {} /\ Jobs \subseteq [user : Users \union {NoUser}, file : STRING,
                     hash : Hashes, upload : BOOLEAN]
  /\ MaxJobs \in Nat
  /\ QueryResults \subseteq BOOLEAN /\ QueryResults # {}
  /\ Failures \subseteq {"write", "kill", "leave"}

VARIABLES up,       \* the process runs
          task,     \* what each worker does in process()
          gone,     \* the workers whose client has closed the connection
          disk,     \* by path, the copies appended to the file
          rows,     \* filetree, in the order of insertion
          key,      \* by user, the Redis key of the user's id
          served,   \* the tasks begun
          mishaps   \* what has gone wrong that the code does not handle

process == <<up, task, gone, mishaps>>
store == <<disk, rows, key>>
vars == <<process, store, served>>

Stages == {"idle", "validate", "header", "sismember", "count", "answer", "receive",
           "write", "insert", "sadd", "setex", "select", "download"}

NoKey == [type |-> "none", members |-> {}]
StringKey == [type |-> "string", members |-> {}]

\* The outcomes of open and write; a part may be nothing at all.
WriteResults == IF "write" \in Failures THEN {"whole", "part"} ELSE {"whole"}

\* A worker's task: the stage, the request, isexits of savefile, and the rows
\* that downloadfile has still to send.
Fresh(j) == [stage |-> "validate", job |-> j, present |-> FALSE, list |-> <<>>]
Idle == [Fresh(CHOOSE j \in Jobs : TRUE) EXCEPT !.stage = "idle"]

Init == /\ up = TRUE
        /\ task = [w \in Workers |-> Idle]
        /\ gone = {}
        /\ disk = [h \in Hashes |-> <<>>]
        /\ rows = <<>>
        /\ key = [u \in Users |-> NoKey]
        /\ served = 0
        /\ mishaps = {}
------------------------------------------------------------------------------
At(w, s) == up /\ task[w].stage = s
Job(w) == task[w].job

\* The worker goes on; of the process nothing else changes.
Goto(w, s) == /\ task' = [task EXCEPT ![w].stage = s]
              /\ UNCHANGED <<up, gone, mishaps>>

\* A worker that found it must store its content, and has no row for it yet.
Storing(w) == /\ task[w].stage \in {"answer", "receive", "write", "insert"}
              /\ ~task[w].present

\* The process ends, with every task in it.
Die == /\ up' = FALSE
       /\ task' = [w \in Workers |-> Idle]
       /\ gone' = {}
       /\ mishaps' = IF \E w \in Workers : Storing(w) /\ task[w].stage = "insert"
                     THEN mishaps \union {"killed"} ELSE mishaps

\* A send to a client that has closed may succeed once; after that SIGPIPE,
\* which nobody ignores, ends the process.
SendAndGoto(w, s) == Goto(w, s) \/ (w \in gone /\ Die)
------------------------------------------------------------------------------
Begin(w, j) == /\ At(w, "idle")
               /\ served < MaxJobs
               /\ served' = served + 1
               /\ task' = [task EXCEPT ![w] = Fresh(j)]
               /\ gone' = gone \ {w}
               /\ UNCHANGED <<up, mishaps, store>>

ClientLeaves(w) == /\ "leave" \in Failures
                   /\ task[w].stage # "idle"
                   /\ gone' = gone \union {w}
                   /\ UNCHANGED <<up, task, mishaps, store, served>>

\* receive uuid, hgetall, userValidate: an unknown uuid ends the task, and so
\* does the empty one of a client that has closed before it sent it.
Validate(w) == /\ At(w, "validate")
               /\ \/ SendAndGoto(w, IF Job(w).user = NoUser THEN "idle" ELSE "header")
                  \/ w \in gone /\ SendAndGoto(w, "idle")
               /\ UNCHANGED <<store, served>>

\* receive filename and fileheader: what a client has not sent before it
\* closed is zero, which asks for a download, of a file without a name if the
\* name is missing too.
ReceiveHeader(w) ==
  /\ At(w, "header")
  /\ \/ Goto(w, IF Job(w).upload THEN "sismember" ELSE "select")
     \/ /\ w \in gone
        /\ \E f \in {"", Job(w).file} :
             task' = [task EXCEPT ![w].stage = "select", ![w].job.upload = FALSE,
                                  ![w].job.file = f]
        /\ UNCHANGED <<up, gone, mishaps>>
  /\ UNCHANGED <<store, served>>

\* isfileexits, first half.  SISMEMBER of a key that is a string is an error
\* (WRONGTYPE), redis-plus-plus throws, and the thread ends the process.
Sismember(w) ==
  /\ At(w, "sismember")
  /\ LET k == key[Job(w).user] IN
       IF k.type = "string"
       THEN Die
       ELSE /\ task' = [task EXCEPT
                          ![w].present = Job(w).hash \in k.members,
                          ![w].stage = IF Job(w).hash \in k.members THEN "answer" ELSE "count"]
            /\ UNCHANGED <<up, gone, mishaps>>
  /\ UNCHANGED <<store, served>>

\* isfileexits, second half.  Of a failed query there is no result, and
\* mysql_fetch_row(NULL) is a fault.
Count(w) ==
  /\ At(w, "count")
  /\ \E ok \in QueryResults :
       IF ~ok
       THEN Die
       ELSE LET found == \E i \in DOMAIN rows : rows[i].hash = Job(w).hash
                overlap == \E v \in Workers \ {w} : Storing(v) /\ Job(v).hash = Job(w).hash
            IN /\ task' = [task EXCEPT ![w].present = found, ![w].stage = "answer"]
               /\ mishaps' = IF ~found /\ overlap THEN mishaps \union {"overlap"} ELSE mishaps
               /\ UNCHANGED <<up, gone>>
  /\ UNCHANGED <<store, served>>

\* Mutant: a file that exists is transferred all the same.
AnswerAlways(w) == /\ At(w, "answer")
                   /\ SendAndGoto(w, "receive")
                   /\ UNCHANGED <<store, served>>

\* Send fileexists; a file that exists is not transferred.
Answer(w) == /\ At(w, "answer")
             /\ SendAndGoto(w, IF task[w].present THEN "insert" ELSE "receive")
             /\ UNCHANGED <<store, served>>

\* Mutant: the row is inserted before the contents are written.
ReceiveGoodRecords(w) == /\ At(w, "receive")
                         /\ Goto(w, "write")
                         /\ rows' = Append(rows, Job(w))
                         /\ UNCHANGED <<disk, key, served>>

\* The transfer loop: contents whose md5 is right end it ...
ReceiveGood(w) == /\ At(w, "receive")
                  /\ Goto(w, "write")
                  /\ UNCHANGED <<store, served>>

\* Mutant: SIGPIPE is ignored.
ReceiveBadIgnores(w) == /\ At(w, "receive")
                        /\ Goto(w, "receive")
                        /\ UNCHANGED <<store, served>>

\* ... wrong ones, and a closed connection, are answered with fileerror.
ReceiveBad(w) == /\ At(w, "receive")
                 /\ SendAndGoto(w, "receive")
                 /\ UNCHANGED <<store, served>>

\* open with O_APPEND and write; neither result is looked at.
Write(w) == /\ At(w, "write")
            /\ \E copy \in WriteResults :
                 /\ disk' = [disk EXCEPT ![Job(w).hash] = Append(@, copy)]
                 /\ mishaps' = IF copy = "whole" THEN mishaps ELSE mishaps \union {"short"}
            /\ task' = [task EXCEPT ![w].stage = "insert"]
            /\ UNCHANGED <<up, gone, rows, key, served>>

\* insert into filetree; the result is not looked at.  The client's name for
\* the file goes into the statement as it is: it is taken to be one that stays
\* a text there.
Insert(w) == /\ At(w, "insert")
             /\ \E ok \in QueryResults :
                  /\ rows' = IF ok THEN Append(rows, Job(w)) ELSE rows
                  /\ mishaps' = IF ok THEN mishaps ELSE mishaps \union {"unrecorded"}
             /\ task' = [task EXCEPT ![w].stage = "sadd"]
             /\ UNCHANGED <<up, gone, disk, key, served>>

\* Mutant: the set gets the client's name for the file, not the path.
SaddName(w) == /\ At(w, "sadd")
               /\ key' = [key EXCEPT ![Job(w).user] =
                            [type |-> "set", members |-> @.members \union {Job(w).file}]]
               /\ Goto(w, "setex")
               /\ UNCHANGED <<disk, rows, served>>

Sadd(w) == /\ At(w, "sadd")
           /\ LET u == Job(w).user IN
                IF key[u].type = "string"
                THEN Die /\ UNCHANGED key
                ELSE /\ key' = [key EXCEPT ![u].type = "set",
                                           ![u].members = @ \union {Job(w).hash}]
                     /\ Goto(w, "setex")
           /\ UNCHANGED <<disk, rows, served>>

\* SETEX makes the key a string, whatever it was ...
Setex(w) == /\ At(w, "setex")
            /\ key' = [key EXCEPT ![Job(w).user] = StringKey]
            /\ Goto(w, "idle")
            /\ UNCHANGED <<disk, rows, served>>

\* ... for four hours.
Expire(u) == /\ key[u] = StringKey
             /\ key' = [key EXCEPT ![u] = NoKey]
             /\ UNCHANGED <<process, disk, rows, served>>
------------------------------------------------------------------------------
\* getfilelist(): the user's rows of that name, a name as for Insert.
Select(w) ==
  /\ At(w, "select")
  /\ \E ok \in QueryResults :
       IF ~ok
       THEN Die
       ELSE LET Wanted(r) == r.user = Job(w).user /\ r.file = Job(w).file
            IN /\ task' = [task EXCEPT ![w].list = SelectSeq(rows, Wanted),
                                       ![w].stage = "download"]
               /\ UNCHANGED <<up, gone, mishaps>>
  /\ UNCHANGED <<store, served>>

\* One round of downloadfile's loop: the header and the contents of one row.
\* When open fails, as it does of an empty name, the download is over.
DownloadNext(w) == /\ At(w, "download")
                   /\ task[w].list # <<>>
                   /\ \/ /\ Job(w).file # ""
                         /\ task' = [task EXCEPT ![w].list = Tail(@)]
                         /\ UNCHANGED <<up, gone, mishaps>>
                      \/ Job(w).file # "" /\ w \in gone /\ Die
                      \/ Goto(w, "idle")
                   /\ UNCHANGED <<store, served>>

DownloadEnds(w) == /\ At(w, "download")
                   /\ task[w].list = <<>>
                   /\ Goto(w, "idle")
                   /\ UNCHANGED <<store, served>>
------------------------------------------------------------------------------
\* Killed from outside, or by an exception of any call to Redis.
Killed == /\ "kill" \in Failures
          /\ up
          /\ Die
          /\ UNCHANGED <<store, served>>

Restart == /\ ~up
           /\ up' = TRUE
           /\ UNCHANGED <<task, gone, mishaps, store, served>>

\* What the worker does whatever its client sends.
Step(w) == \/ Validate(w)
           \/ ReceiveHeader(w)
           \/ Sismember(w)
           \/ Count(w)
           \/ Answer(w)
           \/ ReceiveBad(w)
           \/ Write(w)
           \/ Insert(w)
           \/ Sadd(w)
           \/ Setex(w)
           \/ Select(w)
           \/ DownloadNext(w)
           \/ DownloadEnds(w)

Next == \/ \E w \in Workers : \/ Step(w)
                              \/ ReceiveGood(w)
                              \/ ClientLeaves(w)
                              \/ \E j \in Jobs : Begin(w, j)
        \/ \E u \in Users : Expire(u)
        \/ Killed
        \/ Restart

\* The worker is in a receive, or in a send, of a client that stays: the client
\* may be silent, send wrong contents or not read, for ever.
Waits(w) == /\ w \notin gone
            /\ \/ task[w].stage \in {"validate", "header", "answer", "receive"}
               \/ task[w].stage = "download" /\ task[w].list # <<>>

\* Workers run, except where they wait; and no client need send what is right.
\* A client that has gone keeps nobody waiting: receive returns, and of two
\* sends the second raises SIGPIPE.
Fairness == \A w \in Workers : WF_vars(~Waits(w) /\ Step(w))

Spec == Init /\ [][Next]_vars /\ Fairness
------------------------------------------------------------------------------
\* Type invariant of the task; a key holds members only while it is a set.
TypeOK == /\ up \in BOOLEAN
          /\ \A w \in Workers : /\ task[w].stage \in Stages
                                /\ task[w].present \in BOOLEAN
          /\ gone \subseteq Workers
          /\ \A h \in Hashes : disk[h] \in Seq({"whole", "part"})
          /\ \A i \in DOMAIN rows : rows[i].hash \in Hashes /\ rows[i].user \in Users
          /\ \A u \in Users : \/ key[u] \in {NoKey, StringKey}
                              \/ key[u].type = "set" /\ key[u].members \subseteq Hashes
          /\ served \in 0 .. MaxJobs
          /\ mishaps \subseteq {"overlap", "killed", "unrecorded", "short"}

\* What the existence check can find: the contents with a row or in a set.
Known == {rows[i].hash : i \in DOMAIN rows} \union UNION {key[u].members : u \in Users}

\* The existence check never promises a content that is not on disk: through
\* crashes, overlapping uploads and failed queries, whatever it can find has
\* been written completely, unless a write was cut short.
KnownIsStored == "short" \notin mishaps =>
  \A h \in Known : Contains(disk[h], "whole")

\* A content is appended to its file only once, unless two uploads of it
\* overlapped, the process died between write and insert, or an insert failed:
\* these are the ways to a file that does not have the md5 it is named after.
OneCopy == mishaps \intersect {"overlap", "killed", "unrecorded"} = {} =>
  \A h \in Hashes : Len(disk[h]) <= 1

\* Every task ends, with its process if need be, unless its client stays and
\* keeps it waiting for good.  The transfer loop has no limit of its own: what
\* ends it for a client that has closed is the signal.
TaskEnds == \A w \in Workers :
  \/ task[w].stage # "idle" ~> task[w].stage = "idle"
  \/ <>[]Waits(w)
==============================================================================
