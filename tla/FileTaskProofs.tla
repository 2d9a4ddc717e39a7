---------------------------- MODULE FileTaskProofs ----------------------------
(***************************************************************************)
(* FileTask proved: its types, that whatever the existence check finds is  *)
(* on disk, and that a content is written once unless one of the three     *)
(* mishaps has happened.  For every set of workers, users, contents and    *)
(* jobs, and every choice of failures.                                     *)
(***************************************************************************)
EXTENDS FileTask, TLAPS

\* The names a client may send, and the empty one of a client that left.
Names == {j.file : j \in Jobs} \union {""}
Requests == [user : Users \union {NoUser}, file : Names, hash : Hashes, upload : BOOLEAN]
RedisKeys == [type : {"none", "string", "set"}, members : SUBSET Hashes]
Recorded == [user : Users, file : Names, hash : Hashes, upload : BOOLEAN]

Fields(t) == [stage |-> t.stage, job |-> t.job, present |-> t.present, list |-> t.list]

\* The types; past the validation the user is known, and only a worker that
\* found nothing receives contents.
TasksTyped == /\ task = [w \in Workers |-> task[w]]
              /\ \A w \in Workers : /\ task[w] = Fields(task[w])
                                    /\ task[w].stage \in Stages
                                    /\ task[w].job \in Requests
                                    /\ task[w].present \in BOOLEAN
                                    /\ task[w].stage \notin {"idle", "validate"}
                                         => task[w].job.user \in Users
                                    /\ task[w].stage \in {"receive", "write"}
                                         => ~task[w].present

StoreTyped == /\ disk \in [Hashes -> Seq({"whole", "part"})]
              /\ rows \in Seq(Recorded)
              /\ key \in [Users -> RedisKeys]
              /\ \A u \in Users : key[u].type # "set" => key[u].members = {}

Typed == /\ up \in BOOLEAN
         /\ TasksTyped
         /\ StoreTyped
         /\ gone \subseteq Workers
         /\ served \in 0 .. MaxJobs
         /\ mishaps \subseteq {"overlap", "killed", "unrecorded", "short"}

LEMMA TypedIsTypeOK == Typed => TypeOK
<1> SUFFICES ASSUME Typed PROVE TypeOK
  OBVIOUS
<1>1. \A i \in DOMAIN rows : rows[i].hash \in Hashes /\ rows[i].user \in Users
  <2>1. \A i \in DOMAIN rows : rows[i] \in Recorded
    BY DEF Typed, StoreTyped
  <2> QED
    BY <2>1 DEF Recorded
<1>2. \A u \in Users : \/ key[u] \in {NoKey, StringKey}
                       \/ key[u].type = "set" /\ key[u].members \subseteq Hashes
  <2> SUFFICES ASSUME NEW u \in Users
               PROVE  \/ key[u] \in {NoKey, StringKey}
                      \/ key[u].type = "set" /\ key[u].members \subseteq Hashes
    OBVIOUS
  <2>1. key[u] \in RedisKeys /\ (key[u].type # "set" => key[u].members = {})
    BY DEF Typed, StoreTyped
  <2>2. key[u] = [type |-> key[u].type, members |-> key[u].members]
    BY <2>1 DEF RedisKeys
  <2> QED
    BY <2>1, <2>2 DEF RedisKeys, NoKey, StringKey
<1> QED
  BY <1>1, <1>2 DEF Typed, TasksTyped, StoreTyped, TypeOK

LEMMA JobIsRequest == \A j \in Jobs : j \in Requests
<1> SUFFICES ASSUME NEW j \in Jobs PROVE j \in Requests
  OBVIOUS
<1>1. j \in [user : Users \union {NoUser}, file : STRING, hash : Hashes, upload : BOOLEAN]
  BY FileTaskAssumption
<1>2. j.file \in Names
  BY DEF Names
<1> QED
  BY <1>1, <1>2 DEF Requests

LEMMA FreshTyped ==
  ASSUME NEW j \in Jobs
  PROVE  /\ Fresh(j) = Fields(Fresh(j))
         /\ Fresh(j).stage = "validate" /\ Fresh(j).job = j /\ Fresh(j).job \in Requests
         /\ Fresh(j).present = FALSE
BY JobIsRequest DEF Fresh, Fields

LEMMA IdleTyped ==
  /\ Idle = Fields(Idle)
  /\ Idle.stage = "idle" /\ Idle.job \in Requests /\ Idle.present = FALSE
<1> DEFINE j == CHOOSE i \in Jobs : TRUE
<1>1. j \in Jobs
  BY FileTaskAssumption
<1>2. Idle = [Fresh(j) EXCEPT !.stage = "idle"]
  BY DEF Idle
<1> HIDE DEF j
<1> QED
  BY <1>1, <1>2, JobIsRequest DEF Fresh, Fields

LEMMA InitTyped == Init => Typed
<1> SUFFICES ASSUME Init PROVE Typed
  OBVIOUS
<1>1. TasksTyped
  BY IdleTyped DEF Init, TasksTyped, Stages
<1>2. StoreTyped
  BY DEF Init, StoreTyped, RedisKeys, NoKey
<1> QED
  BY <1>1, <1>2, FileTaskAssumption DEF Init, Typed
------------------------------------------------------------------------------
\* A step of w leaves the other tasks alone.
Alone(w) == \A v \in Workers \ {w} : task'[v] = task[v]

LEMMA AloneTyped ==
  ASSUME TasksTyped, NEW w \in Workers, Alone(w),
         task' = [v \in Workers |-> task'[v]],
         task'[w] = Fields(task'[w]),
         task'[w].stage \in Stages, task'[w].job \in Requests,
         task'[w].present \in BOOLEAN,
         task'[w].stage \notin {"idle", "validate"} => task'[w].job.user \in Users,
         task'[w].stage \in {"receive", "write"} => ~task'[w].present
  PROVE  TasksTyped'
<1> SUFFICES ASSUME NEW v \in Workers
             PROVE  /\ task'[v] = Fields(task'[v])
                    /\ task'[v].stage \in Stages
                    /\ task'[v].job \in Requests
                    /\ task'[v].present \in BOOLEAN
                    /\ task'[v].stage \notin {"idle", "validate"}
                         => task'[v].job.user \in Users
                    /\ task'[v].stage \in {"receive", "write"} => ~task'[v].present
  BY DEF TasksTyped, Fields
<1>1. CASE v = w
  BY <1>1
<1>2. CASE v # w
  BY <1>2 DEF Alone, TasksTyped
<1> QED
  BY <1>1, <1>2

LEMMA GotoTyped ==
  ASSUME TasksTyped, NEW w \in Workers, NEW s \in Stages, Goto(w, s),
         s \in {"idle", "validate"} \/ task[w].job.user \in Users,
         s \in {"receive", "write"} => ~task[w].present
  PROVE  /\ TasksTyped'
         /\ Alone(w)
         /\ task'[w].stage = s /\ task'[w].job = task[w].job
         /\ task'[w].present = task[w].present
<1>1. task[w] = Fields(task[w])
  BY DEF TasksTyped
<1>2. task'[w] = [task[w] EXCEPT !.stage = s]
  BY DEF Goto, TasksTyped
<1>3. task' = [v \in Workers |-> task'[v]] /\ Alone(w)
  BY DEF Goto, TasksTyped, Alone
<1>4. /\ task'[w] = Fields(task'[w])
      /\ task'[w].stage = s /\ task'[w].job = task[w].job
      /\ task'[w].present = task[w].present
  BY <1>1, <1>2 DEF Fields
<1> QED
  BY <1>3, <1>4 DEF TasksTyped, Alone

LEMMA DieTyped ==
  ASSUME Die
  PROVE  /\ TasksTyped'
         /\ up' \in BOOLEAN /\ gone' \subseteq Workers
         /\ \A w \in Workers : task'[w].stage = "idle"
         /\ mishaps \subseteq mishaps' /\ mishaps' \subseteq mishaps \union {"killed"}
BY IdleTyped DEF Die, TasksTyped, Stages
------------------------------------------------------------------------------
\* What a step does to what is known and stored.  A worker holds a content
\* that it may make known next.
Holds(w) == \/ task[w].stage \in {"insert", "sadd"}
            \/ task[w].stage = "answer" /\ task[w].present

\* A quiet step stores and records nothing, and no worker begins to hold or to
\* store a content.
Quiet == /\ UNCHANGED <<disk, rows>>
         /\ mishaps \subseteq mishaps'
         /\ \A u \in Users : key'[u].members \subseteq key[u].members
         /\ \A v \in Workers :
              /\ Holds(v)' => Holds(v) /\ Job(v)'.hash = Job(v).hash
              /\ Storing(v)' => /\ Storing(v)
                                /\ Job(v)'.hash = Job(v).hash
                                /\ task'[v].stage = "insert" <=> task[v].stage = "insert"
              /\ Storing(v) /\ task[v].stage = "insert"
                   => /\ Storing(v)' /\ task'[v].stage = "insert"
                      /\ Job(v)'.hash = Job(v).hash

\* The end of the process.
Ends == Die /\ UNCHANGED store

\* One worker goes on, and what it holds and stores it held and stored before.
LEMMA GoingOn ==
  ASSUME Typed, NEW w \in Workers, NEW s \in Stages, Goto(w, s),
         UNCHANGED <<disk, rows, served>>, StoreTyped',
         \A u \in Users : key'[u].members \subseteq key[u].members,
         s \in {"idle", "validate"} \/ task[w].job.user \in Users,
         s \in {"receive", "write"} => ~task[w].present,
         s \in {"insert", "sadd"} \/ (s = "answer" /\ task[w].present) => Holds(w),
         s \in {"answer", "receive", "write", "insert"} /\ ~task[w].present
           => Storing(w) /\ s # "insert",
         ~(Storing(w) /\ task[w].stage = "insert")
  PROVE  Typed' /\ Quiet
<1>1. /\ TasksTyped'
      /\ Alone(w)
      /\ task'[w].stage = s /\ task'[w].job = task[w].job
      /\ task'[w].present = task[w].present
  BY GotoTyped DEF Typed
<1>2. Typed'
  BY <1>1 DEF Typed, Goto
<1>3. ASSUME NEW v \in Workers
      PROVE  /\ Holds(v)' => Holds(v) /\ Job(v)'.hash = Job(v).hash
             /\ Storing(v)' => /\ Storing(v)
                               /\ Job(v)'.hash = Job(v).hash
                               /\ task'[v].stage = "insert" <=> task[v].stage = "insert"
             /\ Storing(v) /\ task[v].stage = "insert"
                  => /\ Storing(v)' /\ task'[v].stage = "insert"
                     /\ Job(v)'.hash = Job(v).hash
  <2>1. CASE v = w
    BY <1>1, <2>1 DEF Holds, Storing, Job
  <2>2. CASE v # w
    BY <1>1, <2>2 DEF Holds, Storing, Job, Alone
  <2> QED
    BY <2>1, <2>2
<1> QED
  BY <1>2, <1>3 DEF Quiet, Goto

LEMMA EndsTyped ==
  ASSUME Typed, Die, StoreTyped', UNCHANGED served
  PROVE  Typed'
BY DieTyped DEF Typed

\* A step that changes the task of w to something that holds and stores nothing.
LEMMA Forgetting ==
  ASSUME Typed, NEW w \in Workers, TasksTyped', Alone(w),
         UNCHANGED <<up, mishaps, store>>, gone' \subseteq Workers,
         served' \in 0 .. MaxJobs,
         ~(Storing(w) /\ task[w].stage = "insert"),
         task'[w].stage \notin {"answer", "receive", "write", "insert", "sadd"}
  PROVE  Typed' /\ Quiet
<1>1. Typed'
  BY DEF Typed, StoreTyped, store
<1>2. ASSUME NEW v \in Workers
      PROVE  /\ Holds(v)' => Holds(v) /\ Job(v)'.hash = Job(v).hash
             /\ Storing(v)' => /\ Storing(v)
                               /\ Job(v)'.hash = Job(v).hash
                               /\ task'[v].stage = "insert" <=> task[v].stage = "insert"
             /\ Storing(v) /\ task[v].stage = "insert"
                  => /\ Storing(v)' /\ task'[v].stage = "insert"
                     /\ Job(v)'.hash = Job(v).hash
  <2>1. CASE v = w
    BY <2>1 DEF Holds, Storing, Job
  <2>2. CASE v # w
    BY <2>2 DEF Holds, Storing, Job, Alone
  <2> QED
    BY <2>1, <2>2
<1> QED
  BY <1>1, <1>2 DEF Quiet, store
------------------------------------------------------------------------------
LEMMA BeginStep ==
  ASSUME Typed, NEW w \in Workers, NEW j \in Jobs, Begin(w, j)
  PROVE  Typed' /\ Quiet
<1>1. task' = [v \in Workers |-> task'[v]] /\ Alone(w) /\ task'[w] = Fresh(j)
  BY DEF Begin, Typed, TasksTyped, Alone
<1>2. TasksTyped'
  <2>1. /\ task'[w] = Fields(task'[w])
        /\ task'[w].stage = "validate" /\ task'[w].job \in Requests
        /\ task'[w].present = FALSE
    BY <1>1, FreshTyped
  <2> QED
    BY <1>1, <2>1, AloneTyped DEF Typed, Stages
<1>3. served' \in 0 .. MaxJobs
  BY FileTaskAssumption DEF Begin, Typed
<1> QED
  BY <1>1, <1>2, <1>3, Forgetting, FreshTyped DEF Begin, At, Typed

LEMMA ClientLeavesStep ==
  ASSUME Typed, NEW w \in Workers, ClientLeaves(w)
  PROVE  Typed' /\ Quiet
BY DEF ClientLeaves, Typed, TasksTyped, StoreTyped, Quiet, Holds, Storing, Job, store

LEMMA ValidateStep ==
  ASSUME Typed, NEW w \in Workers, Validate(w)
  PROVE  Typed' /\ (Quiet \/ Ends)
<1> DEFINE s == IF Job(w).user = NoUser THEN "idle" ELSE "header"
<1>1. /\ task[w].stage = "validate"
      /\ UNCHANGED <<store, served>>
      /\ Goto(w, s) \/ Goto(w, "idle") \/ Die
  BY DEF Validate, At, SendAndGoto
<1>2. UNCHANGED <<disk, rows, served>> /\ StoreTyped'
      /\ \A u \in Users : key'[u].members \subseteq key[u].members
  BY <1>1 DEF store, Typed, StoreTyped
<1>3. /\ s \in Stages /\ "idle" \in Stages
      /\ s = "idle" \/ (s = "header" /\ task[w].job.user \in Users)
  <2>1. task[w].job.user \in Users \union {NoUser}
    BY DEF Typed, TasksTyped, Requests
  <2> QED
    BY <2>1 DEF Job, Stages
<1>4. CASE Goto(w, s)
  BY <1>1, <1>2, <1>3, <1>4, GoingOn DEF Storing
<1>5. CASE Goto(w, "idle")
  BY <1>1, <1>2, <1>3, <1>5, GoingOn DEF Storing
<1>6. CASE Die
  BY <1>1, <1>2, <1>6, EndsTyped DEF Ends
<1> QED
  BY <1>1, <1>4, <1>5, <1>6

LEMMA ReceiveHeaderStep ==
  ASSUME Typed, NEW w \in Workers, ReceiveHeader(w)
  PROVE  Typed' /\ Quiet
<1> DEFINE s == IF Job(w).upload THEN "sismember" ELSE "select"
<1>1. /\ task[w].stage = "header"
      /\ UNCHANGED <<store, served>>
      /\ task[w].job.user \in Users
  BY DEF ReceiveHeader, At, Typed, TasksTyped
<1>2. UNCHANGED <<disk, rows, served>> /\ StoreTyped'
      /\ \A u \in Users : key'[u].members \subseteq key[u].members
  BY <1>1 DEF store, Typed, StoreTyped
<1>3. CASE Goto(w, s)
  <2>1. s \in Stages /\ s \in {"sismember", "select"}
    BY DEF Stages
  <2> HIDE DEF s
  <2> QED
    BY <1>1, <1>2, <1>3, <2>1, GoingOn DEF Storing
<1>4. CASE \E f \in {"", Job(w).file} :
             /\ task' = [task EXCEPT ![w].stage = "select", ![w].job.upload = FALSE,
                                     ![w].job.file = f]
             /\ UNCHANGED <<up, gone, mishaps>>
  <2>1. PICK f \in {"", Job(w).file} :
             /\ task' = [task EXCEPT ![w].stage = "select", ![w].job.upload = FALSE,
                                     ![w].job.file = f]
             /\ UNCHANGED <<up, gone, mishaps>>
    BY <1>4
  <2>2. /\ task[w] = Fields(task[w]) /\ task[w].job \in Requests
        /\ task[w].present \in BOOLEAN /\ f \in Names
    <3>1. /\ task[w] = Fields(task[w]) /\ task[w].job \in Requests
          /\ task[w].present \in BOOLEAN
      BY DEF Typed, TasksTyped
    <3>2. task[w].job.file \in Names
      BY <3>1 DEF Requests
    <3> QED
      BY <3>1, <3>2 DEF Job, Names
  <2>3. /\ task' = [v \in Workers |-> task'[v]] /\ Alone(w)
        /\ task'[w] = [task[w] EXCEPT !.stage = "select", !.job.upload = FALSE,
                                       !.job.file = f]
    BY <2>1 DEF Typed, TasksTyped, Alone
  <2>4. /\ task'[w] = Fields(task'[w])
        /\ task'[w].stage = "select" /\ task'[w].present = task[w].present
        /\ task'[w].job = [task[w].job EXCEPT !.upload = FALSE, !.file = f]
    BY <2>2, <2>3 DEF Fields
  <2>5. task'[w].job \in Requests /\ task'[w].job.user = task[w].job.user
    BY <2>2, <2>4 DEF Requests
  <2>6. TasksTyped'
    BY <1>1, <2>2, <2>3, <2>4, <2>5, AloneTyped DEF Typed, Stages
  <2> QED
    BY <1>1, <2>1, <2>3, <2>4, <2>6, Forgetting DEF Typed
<1> QED
  BY <1>3, <1>4 DEF ReceiveHeader

LEMMA SameStore ==
  ASSUME Typed, UNCHANGED store
  PROVE  /\ UNCHANGED <<disk, rows>> /\ StoreTyped'
         /\ \A u \in Users : key'[u].members \subseteq key[u].members
BY DEF Typed, StoreTyped, store

\* isfileexits: the result is noted and the worker goes on.
LEMMA LookUp ==
  ASSUME Typed, NEW w \in Workers, NEW found \in BOOLEAN, NEW s \in {"count", "answer"},
         task' = [task EXCEPT ![w].present = found, ![w].stage = s],
         task[w].stage \in {"sismember", "count"}
  PROVE  /\ TasksTyped' /\ Alone(w)
         /\ task'[w].stage = s /\ task'[w].job = task[w].job
         /\ task'[w].present = found
<1>1. /\ task[w] = Fields(task[w])
      /\ task[w].job \in Requests /\ task[w].job.user \in Users
  BY DEF Typed, TasksTyped
<1>2. /\ task' = [v \in Workers |-> task'[v]] /\ Alone(w)
      /\ task'[w] = [task[w] EXCEPT !.present = found, !.stage = s]
  BY DEF Typed, TasksTyped, Alone
<1>3. /\ task'[w] = Fields(task'[w])
      /\ task'[w].stage = s /\ task'[w].job = task[w].job
      /\ task'[w].present = found
  BY <1>1, <1>2 DEF Fields
<1> QED
  BY <1>1, <1>2, <1>3, AloneTyped DEF Typed, Stages

\* The steps that are not quiet.  A content is found ...
Finds(w) == /\ Job(w).hash \in Known
            /\ Alone(w)
            /\ task[w].stage \in {"sismember", "count"}
            /\ task'[w].stage = "answer" /\ task'[w].present
            /\ Job(w)'.hash = Job(w).hash
            /\ UNCHANGED <<disk, rows, key, mishaps>>

\* ... or is not, and whoever is storing it already is noted;
Misses(w) == /\ \A i \in DOMAIN rows : rows[i].hash # Job(w).hash
             /\ Alone(w)
             /\ task[w].stage = "count"
             /\ task'[w].stage = "answer" /\ ~task'[w].present
             /\ Job(w)'.hash = Job(w).hash
             /\ UNCHANGED <<disk, rows, key>>
             /\ mishaps \subseteq mishaps'
             /\ (\E v \in Workers \ {w} : Storing(v) /\ Job(v).hash = Job(w).hash)
                  => "overlap" \in mishaps'

\* it is written, its row inserted, its hash added to the set of its user.
Writes(w) == /\ Write(w)
             /\ Alone(w)
             /\ task'[w].stage = "insert" /\ Job(w)'.hash = Job(w).hash
             /\ task'[w].present = task[w].present

Inserts(w) == /\ Insert(w)
              /\ Alone(w)
              /\ task'[w].stage = "sadd" /\ Job(w)'.hash = Job(w).hash

Adds(w) == /\ task[w].stage = "sadd"
           /\ Job(w).user \in Users
           /\ key' = [key EXCEPT ![Job(w).user].type = "set",
                                 ![Job(w).user].members = @ \union {Job(w).hash}]
           /\ Alone(w)
           /\ task'[w].stage = "setex"
           /\ UNCHANGED <<disk, rows, mishaps>>

LEMMA SismemberStep ==
  ASSUME Typed, NEW w \in Workers, Sismember(w)
  PROVE  Typed' /\ (Quiet \/ Ends \/ Finds(w))
<1> DEFINE k == key[Job(w).user]
<1>1. task[w].stage = "sismember" /\ UNCHANGED <<store, served>>
  BY DEF Sismember, At
<1>2. CASE k.type = "string"
  <2>1. Die
    BY <1>2 DEF Sismember
  <2> QED
    BY <1>1, <2>1, SameStore, EndsTyped DEF Ends
<1>3. CASE k.type # "string" /\ Job(w).hash \in k.members
  <2>1. /\ task' = [task EXCEPT ![w].present = TRUE, ![w].stage = "answer"]
        /\ UNCHANGED <<up, gone, mishaps>>
    BY <1>3 DEF Sismember
  <2>2. /\ TasksTyped' /\ Alone(w)
        /\ task'[w].stage = "answer" /\ task'[w].job = task[w].job
        /\ task'[w].present = TRUE
    BY <1>1, <2>1, LookUp
  <2>3. Typed'
    BY <1>1, <2>1, <2>2, SameStore DEF Typed
  <2>4. Job(w).user \in Users
    BY <1>1 DEF Typed, TasksTyped, Job
  <2>5. Job(w).hash \in Known
    BY <1>3, <2>4 DEF Known
  <2> QED
    BY <1>1, <2>1, <2>2, <2>3, <2>5 DEF Finds, Job, store
<1>4. CASE k.type # "string" /\ Job(w).hash \notin k.members
  <2>1. /\ task' = [task EXCEPT ![w].present = FALSE, ![w].stage = "count"]
        /\ UNCHANGED <<up, gone, mishaps>>
    <3> DEFINE p == Job(w).hash \in k.members
    <3>1. /\ task' = [task EXCEPT ![w].present = p,
                                  ![w].stage = IF p THEN "answer" ELSE "count"]
          /\ UNCHANGED <<up, gone, mishaps>>
      BY <1>4 DEF Sismember
    <3>2. p = FALSE
      BY <1>4
    <3> HIDE DEF p
    <3> QED
      BY <3>1, <3>2
  <2>2. /\ TasksTyped' /\ Alone(w) /\ task'[w].stage = "count"
    BY <1>1, <2>1, LookUp
  <2> QED
    BY <1>1, <2>1, <2>2, Forgetting DEF Typed, Storing
<1> QED
  BY <1>2, <1>3, <1>4

LEMMA CountStep ==
  ASSUME Typed, NEW w \in Workers, Count(w)
  PROVE  Typed' /\ (Ends \/ Finds(w) \/ Misses(w))
<1> DEFINE found == \E i \in DOMAIN rows : rows[i].hash = Job(w).hash
           overlap == \E v \in Workers \ {w} : Storing(v) /\ Job(v).hash = Job(w).hash
<1>1. task[w].stage = "count" /\ UNCHANGED <<store, served>>
  BY DEF Count, At
<1>2. CASE Die
  BY <1>1, <1>2, SameStore, EndsTyped DEF Ends
<1>3. CASE /\ task' = [task EXCEPT ![w].present = found, ![w].stage = "answer"]
           /\ mishaps' = IF ~found /\ overlap THEN mishaps \union {"overlap"} ELSE mishaps
           /\ UNCHANGED <<up, gone>>
  <2>1. /\ TasksTyped' /\ Alone(w)
        /\ task'[w].stage = "answer" /\ task'[w].job = task[w].job
        /\ task'[w].present = found
    BY <1>1, <1>3, LookUp
  <2>2. Typed'
    <3>1. mishaps' \subseteq mishaps \union {"overlap"}
      BY <1>3
    <3> HIDE DEF found, overlap
    <3> QED
      BY <1>1, <1>3, <2>1, <3>1, SameStore DEF Typed
  <2>3. CASE found
    <3>1. Job(w).hash \in Known
      BY <2>3 DEF Known
    <3> QED
      BY <1>1, <1>3, <2>1, <2>2, <2>3, <3>1 DEF Finds, Job, store
  <2>4. CASE ~found
    <3>1. \A i \in DOMAIN rows : rows[i].hash # Job(w).hash
      BY <2>4
    <3>2. /\ mishaps \subseteq mishaps'
          /\ overlap => "overlap" \in mishaps'
      BY <1>3, <2>4
    <3> QED
      BY <1>1, <2>1, <2>2, <2>4, <3>1, <3>2 DEF Misses, Job, store
  <2> QED
    BY <2>3, <2>4
<1> QED
  BY <1>2, <1>3 DEF Count

LEMMA AnswerStep ==
  ASSUME Typed, NEW w \in Workers, Answer(w)
  PROVE  Typed' /\ (Quiet \/ Ends)
<1> DEFINE s == IF task[w].present THEN "insert" ELSE "receive"
<1>1. /\ task[w].stage = "answer" /\ UNCHANGED <<store, served>>
      /\ task[w].job.user \in Users /\ task[w].present \in BOOLEAN
      /\ Goto(w, s) \/ Die
  BY DEF Answer, At, SendAndGoto, Typed, TasksTyped
<1>2. /\ s \in Stages
      /\ (task[w].present /\ s = "insert") \/ (~task[w].present /\ s = "receive")
  BY DEF Stages
<1> HIDE DEF s
<1>3. CASE Goto(w, s)
  BY <1>1, <1>2, <1>3, SameStore, GoingOn DEF Storing, Holds
<1>4. CASE Die
  BY <1>1, <1>4, SameStore, EndsTyped DEF Ends
<1> QED
  BY <1>1, <1>3, <1>4

LEMMA ReceiveStep ==
  ASSUME Typed, NEW w \in Workers, ReceiveGood(w) \/ ReceiveBad(w)
  PROVE  Typed' /\ (Quiet \/ Ends)
<1>1. /\ task[w].stage = "receive" /\ UNCHANGED <<store, served>>
      /\ task[w].job.user \in Users /\ ~task[w].present
      /\ \/ Goto(w, "write") \/ Goto(w, "receive")
         \/ Die
  BY DEF ReceiveGood, ReceiveBad, At, SendAndGoto, Typed, TasksTyped
<1>2. "write" \in Stages /\ "receive" \in Stages
  BY DEF Stages
<1>3. CASE Goto(w, "write")
  BY <1>1, <1>2, <1>3, SameStore, GoingOn DEF Storing
<1>4. CASE Goto(w, "receive")
  BY <1>1, <1>2, <1>4, SameStore, GoingOn DEF Storing
<1>5. CASE Die
  BY <1>1, <1>5, SameStore, EndsTyped DEF Ends
<1> QED
  BY <1>1, <1>3, <1>4, <1>5

\* What Goto says when it is written out.
LEMMA Stepping ==
  ASSUME Typed, NEW w \in Workers, NEW s \in Stages \ {"receive", "write"},
         task' = [task EXCEPT ![w].stage = s],
         task[w].job.user \in Users
  PROVE  /\ TasksTyped' /\ Alone(w)
         /\ task'[w].stage = s /\ task'[w].job = task[w].job
         /\ task'[w].present = task[w].present
<1>1. /\ task[w] = Fields(task[w])
      /\ task[w].job \in Requests /\ task[w].present \in BOOLEAN
  BY DEF Typed, TasksTyped
<1>2. /\ task' = [v \in Workers |-> task'[v]] /\ Alone(w)
      /\ task'[w] = [task[w] EXCEPT !.stage = s]
  BY DEF Typed, TasksTyped, Alone
<1>3. /\ task'[w] = Fields(task'[w])
      /\ task'[w].stage = s /\ task'[w].job = task[w].job
      /\ task'[w].present = task[w].present
  BY <1>1, <1>2 DEF Fields
<1> QED
  BY <1>1, <1>2, <1>3, AloneTyped DEF Typed

LEMMA WriteStep ==
  ASSUME Typed, NEW w \in Workers, Write(w)
  PROVE  Typed' /\ Writes(w)
<1>1. /\ task[w].stage = "write" /\ task[w].job.user \in Users
      /\ task' = [task EXCEPT ![w].stage = "insert"]
      /\ UNCHANGED <<up, gone, rows, key, served>>
  BY DEF Write, At, Typed, TasksTyped
<1>2. /\ TasksTyped' /\ Alone(w)
      /\ task'[w].stage = "insert" /\ task'[w].job = task[w].job
      /\ task'[w].present = task[w].present
  BY <1>1, Stepping DEF Stages
<1>3. PICK copy \in WriteResults :
        /\ disk' = [disk EXCEPT ![Job(w).hash] = Append(@, copy)]
        /\ mishaps' = IF copy = "whole" THEN mishaps ELSE mishaps \union {"short"}
  BY DEF Write
<1>4. copy \in {"whole", "part"}
  BY DEF WriteResults
<1>5. StoreTyped'
  <2> DEFINE h == Job(w).hash
             S == {"whole", "part"}
  <2>1. disk \in [Hashes -> Seq(S)]
    BY DEF Typed, StoreTyped
  <2>2. h \in Hashes
    <3>1. task[w].job \in Requests
      BY DEF Typed, TasksTyped
    <3> QED
      BY <3>1 DEF Requests, Job
  <2>3. Append(disk[h], copy) \in Seq(S)
    BY <1>4, <2>1, <2>2
  <2>4. disk' = [disk EXCEPT ![h] = Append(disk[h], copy)]
    BY <1>3
  <2>5. disk' \in [Hashes -> Seq(S)]
    BY <2>1, <2>3, <2>4
  <2> QED
    BY <1>1, <2>5 DEF Typed, StoreTyped
<1>6. mishaps' \subseteq {"overlap", "killed", "unrecorded", "short"}
  BY <1>3 DEF Typed
<1>7. Typed'
  BY <1>1, <1>2, <1>5, <1>6 DEF Typed
<1> QED
  BY <1>1, <1>2, <1>7 DEF Writes, Job

LEMMA InsertStep ==
  ASSUME Typed, NEW w \in Workers, Insert(w)
  PROVE  Typed' /\ Inserts(w)
<1>1. /\ task[w].stage = "insert" /\ task[w].job.user \in Users
      /\ task[w].job \in Requests
      /\ task' = [task EXCEPT ![w].stage = "sadd"]
      /\ UNCHANGED <<up, gone, disk, key, served>>
  BY DEF Insert, At, Typed, TasksTyped
<1>2. /\ TasksTyped' /\ Alone(w)
      /\ task'[w].stage = "sadd" /\ task'[w].job = task[w].job
  BY <1>1, Stepping DEF Stages
<1>3. PICK ok \in QueryResults :
        /\ rows' = IF ok THEN Append(rows, Job(w)) ELSE rows
        /\ mishaps' = IF ok THEN mishaps ELSE mishaps \union {"unrecorded"}
  BY DEF Insert
<1>4. Job(w) \in Recorded
  BY <1>1 DEF Job, Requests, Recorded
<1>5. StoreTyped'
  BY <1>1, <1>3, <1>4 DEF Typed, StoreTyped
<1>6. mishaps' \subseteq {"overlap", "killed", "unrecorded", "short"}
  BY <1>3 DEF Typed
<1>7. Typed'
  BY <1>1, <1>2, <1>5, <1>6 DEF Typed
<1> QED
  BY <1>1, <1>2, <1>7 DEF Inserts, Job

LEMMA SaddStep ==
  ASSUME Typed, NEW w \in Workers, Sadd(w)
  PROVE  Typed' /\ (Ends \/ Adds(w))
<1> DEFINE u == Job(w).user
<1>1. /\ task[w].stage = "sadd" /\ u \in Users /\ Job(w) \in Requests
      /\ UNCHANGED <<disk, rows, served>>
  BY DEF Sadd, At, Typed, TasksTyped, Job
<1>2. CASE Die /\ UNCHANGED key
  BY <1>1, <1>2, SameStore, EndsTyped DEF Ends, store
<1>3. CASE /\ key' = [key EXCEPT ![u].type = "set", ![u].members = @ \union {Job(w).hash}]
           /\ Goto(w, "setex")
  <2>1. /\ TasksTyped' /\ Alone(w) /\ task'[w].stage = "setex"
    BY <1>1, <1>3, Stepping DEF Goto, Stages, Job
  <2>2. Job(w).hash \in Hashes
    BY <1>1 DEF Requests
  <2>3. StoreTyped'
    BY <1>1, <1>3, <2>2 DEF Typed, StoreTyped, RedisKeys
  <2>4. Typed'
    BY <1>1, <1>3, <2>1, <2>3 DEF Typed, Goto
  <2> QED
    BY <1>1, <1>3, <2>1, <2>4 DEF Adds, Goto
<1> QED
  BY <1>2, <1>3 DEF Sadd

LEMMA SetexStep ==
  ASSUME Typed, NEW w \in Workers, Setex(w)
  PROVE  Typed' /\ Quiet
<1>1. /\ task[w].stage = "setex"
      /\ key' = [key EXCEPT ![Job(w).user] = StringKey]
      /\ Goto(w, "idle") /\ UNCHANGED <<disk, rows, served>>
  BY DEF Setex, At
<1>2. /\ StoreTyped'
      /\ \A u \in Users : key'[u].members \subseteq key[u].members
  BY <1>1 DEF Typed, StoreTyped, RedisKeys, StringKey
<1> QED
  BY <1>1, <1>2, GoingOn DEF Stages, Storing

LEMMA ExpireStep ==
  ASSUME Typed, NEW u \in Users, Expire(u)
  PROVE  Typed' /\ Quiet
<1>1. /\ key' = [key EXCEPT ![u] = NoKey]
      /\ UNCHANGED <<up, task, gone, mishaps, disk, rows, served>>
  BY DEF Expire, process
<1>2. /\ StoreTyped'
      /\ \A v \in Users : key'[v].members \subseteq key[v].members
  BY <1>1 DEF Typed, StoreTyped, RedisKeys, NoKey
<1> QED
  BY <1>1, <1>2 DEF Typed, TasksTyped, Quiet, Holds, Storing, Job

LEMMA SelectStep ==
  ASSUME Typed, NEW w \in Workers, Select(w)
  PROVE  Typed' /\ (Quiet \/ Ends)
<1>1. /\ task[w].stage = "select" /\ task[w].job.user \in Users
      /\ task[w] = Fields(task[w]) /\ task[w].job \in Requests
      /\ task[w].present \in BOOLEAN
      /\ UNCHANGED <<store, served>>
  BY DEF Select, At, Typed, TasksTyped
<1>2. CASE Die
  BY <1>1, <1>2, SameStore, EndsTyped DEF Ends
<1>3. CASE ~Die
  <2>1. PICK found : /\ task' = [task EXCEPT ![w].list = found, ![w].stage = "download"]
                     /\ UNCHANGED <<up, gone, mishaps>>
    BY <1>3 DEF Select
  <2>2. /\ task' = [v \in Workers |-> task'[v]] /\ Alone(w)
        /\ task'[w] = [task[w] EXCEPT !.list = found, !.stage = "download"]
    BY <2>1 DEF Typed, TasksTyped, Alone
  <2>3. /\ task'[w] = Fields(task'[w])
        /\ task'[w].stage = "download" /\ task'[w].job = task[w].job
        /\ task'[w].present = task[w].present
    BY <1>1, <2>2 DEF Fields
  <2>4. TasksTyped'
    BY <1>1, <2>2, <2>3, AloneTyped DEF Typed, Stages
  <2> QED
    BY <1>1, <2>1, <2>2, <2>3, <2>4, Forgetting DEF Typed, Storing
<1> QED
  BY <1>2, <1>3

LEMMA DownloadStep ==
  ASSUME Typed, NEW w \in Workers, DownloadNext(w) \/ DownloadEnds(w)
  PROVE  Typed' /\ (Quiet \/ Ends)
<1>1. /\ task[w].stage = "download" /\ task[w].job.user \in Users
      /\ task[w] = Fields(task[w]) /\ task[w].job \in Requests
      /\ task[w].present \in BOOLEAN
      /\ UNCHANGED <<store, served>>
  BY DEF DownloadNext, DownloadEnds, At, Typed, TasksTyped
<1>2. CASE Die
  BY <1>1, <1>2, SameStore, EndsTyped DEF Ends
<1>3. CASE Goto(w, "idle")
  BY <1>1, <1>3, SameStore, GoingOn DEF Storing, Stages
<1>4. CASE /\ task' = [task EXCEPT ![w].list = Tail(@)]
           /\ UNCHANGED <<up, gone, mishaps>>
  <2>1. /\ task' = [v \in Workers |-> task'[v]] /\ Alone(w)
        /\ task'[w] = [task[w] EXCEPT !.list = Tail(@)]
    BY <1>4 DEF Typed, TasksTyped, Alone
  <2>2. /\ task'[w] = Fields(task'[w])
        /\ task'[w].stage = "download" /\ task'[w].job = task[w].job
        /\ task'[w].present = task[w].present
    BY <1>1, <2>1 DEF Fields
  <2>3. TasksTyped'
    BY <1>1, <2>1, <2>2, AloneTyped DEF Typed, Stages
  <2> QED
    BY <1>1, <1>4, <2>1, <2>2, <2>3, Forgetting DEF Typed, Storing
<1> QED
  BY <1>2, <1>3, <1>4 DEF DownloadNext, DownloadEnds

LEMMA RestartStep == Typed /\ Restart => Typed' /\ Quiet
BY DEF Typed, TasksTyped, StoreTyped, Restart, store, Quiet, Holds, Storing, Job

\* Every step preserves the types, and is one of a few kinds.
LEMMA Kinds ==
  ASSUME Typed, [Next]_vars
  PROVE  /\ Typed'
         /\ \/ Quiet \/ Ends
            \/ \E w \in Workers : \/ Finds(w) \/ Misses(w)
                                  \/ Writes(w) \/ Inserts(w) \/ Adds(w)
<1>1. CASE \E w \in Workers : Step(w) \/ ReceiveGood(w)
  <2>1. PICK w \in Workers : Step(w) \/ ReceiveGood(w)
    BY <1>1
  <2> QED
    BY <2>1, ValidateStep, ReceiveHeaderStep, SismemberStep, CountStep, AnswerStep,
       ReceiveStep, WriteStep, InsertStep, SaddStep, SetexStep, SelectStep,
       DownloadStep DEF Step
<1>2. CASE \E w \in Workers : ClientLeaves(w) \/ \E j \in Jobs : Begin(w, j)
  BY <1>2, ClientLeavesStep, BeginStep
<1>3. CASE \E u \in Users : Expire(u)
  BY <1>3, ExpireStep
<1>4. CASE Killed
  BY <1>4, SameStore, EndsTyped DEF Killed, Ends
<1>5. CASE Restart
  BY <1>5, RestartStep
<1>6. CASE UNCHANGED vars
  BY <1>6 DEF vars, process, store, Typed, TasksTyped, StoreTyped, Quiet, Holds,
     Storing, Job
<1> QED
  BY <1>1, <1>2, <1>3, <1>4, <1>5, <1>6 DEF Next

\* The types hold in every reachable state: a worker past the validation has a
\* known user, every row names one, and a key of Redis that is a string has no
\* members (TypeOK of FileTask.tla).
THEOREM TasksTypeCorrect == Spec => []TypeOK
<1>1. Init => Typed
  BY InitTyped
<1>2. Typed /\ [Next]_vars => Typed'
  BY Kinds
<1>3. Typed => TypeOK
  BY TypedIsTypeOK
<1> QED
  BY <1>1, <1>2, <1>3, PTL DEF Spec
------------------------------------------------------------------------------
Stored(h) == Contains(disk[h], "whole")

\* What is known is on disk, and so is what a worker holds.
Promise == "short" \notin mishaps =>
             /\ \A h \in Known : Stored(h)
             /\ \A w \in Workers : Holds(w) => Stored(Job(w).hash)

LEMMA InitPromise == Init => Promise
<1> SUFFICES ASSUME Init PROVE Promise
  OBVIOUS
<1>1. Known = {}
  BY DEF Init, Known, NoKey
<1>2. \A w \in Workers : ~Holds(w)
  BY IdleTyped DEF Init, Holds
<1> QED
  BY <1>1, <1>2 DEF Promise

\* A step that leaves the disk alone keeps the promise, if what is known or held
\* after it was known or held before it.
LEMMA NothingNew ==
  ASSUME Promise, UNCHANGED disk, mishaps \subseteq mishaps', Known' \subseteq Known,
         \A v \in Workers : Holds(v)' => \/ Holds(v) /\ Job(v)'.hash = Job(v).hash
                                        \/ Job(v)'.hash \in Known
  PROVE  Promise'
<1> SUFFICES ASSUME "short" \notin mishaps'
             PROVE  /\ \A h \in Known' : Stored(h)'
                    /\ \A v \in Workers : Holds(v)' => Stored(Job(v).hash)'
  BY DEF Promise
<1>1. /\ \A h \in Known : Stored(h)
      /\ \A v \in Workers : Holds(v) => Stored(Job(v).hash)
  BY DEF Promise
<1>2. \A h : Stored(h) => Contains(disk'[h], "whole")
  BY DEF Stored
<1> QED
  BY <1>1, <1>2 DEF Stored

LEMMA KnownFromRowsAndKeys ==
  ASSUME UNCHANGED rows,
         \A u \in Users : key'[u].members \subseteq key[u].members
  PROVE  Known' \subseteq Known
BY DEF Known

LEMMA PromiseKept ==
  ASSUME Typed, Promise, [Next]_vars
  PROVE  Promise'
<1>1. CASE Quiet
  BY <1>1, KnownFromRowsAndKeys, NothingNew DEF Quiet
<1>2. CASE Ends
  <2>1. UNCHANGED <<disk, rows, key>>
    BY <1>2 DEF Ends, store
  <2>2. mishaps \subseteq mishaps' /\ \A v \in Workers : ~Holds(v)'
    BY <1>2, DieTyped DEF Ends, Holds
  <2> QED
    BY <2>1, <2>2, KnownFromRowsAndKeys, NothingNew
<1>3. ASSUME NEW w \in Workers, Finds(w) PROVE Promise'
  <2>1. \A v \in Workers : Holds(v)' => \/ Holds(v) /\ Job(v)'.hash = Job(v).hash
                                       \/ Job(v)'.hash \in Known
    BY <1>3 DEF Finds, Alone, Holds, Job
  <2> QED
    BY <1>3, <2>1, KnownFromRowsAndKeys, NothingNew DEF Finds
<1>4. ASSUME NEW w \in Workers, Misses(w) PROVE Promise'
  <2>1. \A v \in Workers : Holds(v)' => Holds(v) /\ Job(v)'.hash = Job(v).hash
    BY <1>4 DEF Misses, Alone, Holds, Job
  <2> QED
    BY <1>4, <2>1, KnownFromRowsAndKeys, NothingNew DEF Misses
<1>5. ASSUME NEW w \in Workers, Writes(w) PROVE Promise'
  <2>1. PICK copy \in WriteResults :
          /\ disk' = [disk EXCEPT ![Job(w).hash] = Append(@, copy)]
          /\ mishaps' = IF copy = "whole" THEN mishaps ELSE mishaps \union {"short"}
    BY <1>5 DEF Writes, Write
  <2>2. UNCHANGED <<rows, key>>
    BY <1>5 DEF Writes, Write
  <2> SUFFICES ASSUME "short" \notin mishaps'
               PROVE  /\ \A h \in Known' : Stored(h)'
                      /\ \A v \in Workers : Holds(v)' => Stored(Job(v).hash)'
    BY DEF Promise
  <2>3. /\ disk' = [disk EXCEPT ![Job(w).hash] = Append(@, "whole")]
        /\ "short" \notin mishaps
    BY <2>1
  <2>4. /\ \A h \in Known : Stored(h)
        /\ \A v \in Workers : Holds(v) => Stored(Job(v).hash)
    BY <2>3 DEF Promise
  <2>5. /\ disk \in [Hashes -> Seq({"whole", "part"})]
        /\ Job(w).hash \in Hashes
    BY DEF Typed, TasksTyped, StoreTyped, Requests, Job
  <2>6. Stored(Job(w).hash)'
    <3>1. /\ disk'[Job(w).hash] = Append(disk[Job(w).hash], "whole")
          /\ disk[Job(w).hash] \in Seq({"whole", "part"})
      BY <2>3, <2>5
    <3>2. Contains(disk'[Job(w).hash], "whole")
      BY <3>1 DEF Contains
    <3> QED
      BY <1>5, <3>2 DEF Stored, Writes
  <2>7. ASSUME NEW h, Stored(h) PROVE Contains(disk'[h], "whole")
    <3>1. CASE h = Job(w).hash
      BY <1>5, <2>6, <3>1 DEF Stored, Writes
    <3>2. CASE h # Job(w).hash
      BY <2>3, <2>5, <2>7, <3>2 DEF Stored
    <3> QED
      BY <3>1, <3>2
  <2>8. \A v \in Workers \ {w} : Holds(v)' => Holds(v) /\ Job(v)'.hash = Job(v).hash
    BY <1>5 DEF Writes, Alone, Holds, Job
  <2>9. Known' = Known
    BY <2>2 DEF Known
  <2> QED
    BY <2>4, <2>6, <2>7, <2>8, <2>9 DEF Stored
<1>6. ASSUME NEW w \in Workers, Inserts(w) PROVE Promise'
  <2>1. /\ UNCHANGED <<disk, key>> /\ mishaps \subseteq mishaps'
        /\ task[w].stage = "insert"
        /\ rows' = rows \/ rows' = Append(rows, Job(w))
    BY <1>6 DEF Inserts, Insert, At
  <2>2. rows \in Seq(Recorded)
    BY DEF Typed, StoreTyped
  <2>3. \A i \in DOMAIN rows' : \/ i \in DOMAIN rows /\ rows'[i] = rows[i]
                               \/ rows'[i] = Job(w)
    BY <2>1, <2>2
  <2>4. Known' \subseteq Known \union {Job(w).hash}
    BY <2>1, <2>3 DEF Known
  <2>5. Holds(w)
    BY <2>1 DEF Holds
  <2>6. \A v \in Workers : Holds(v)' => Holds(v) /\ Job(v)'.hash = Job(v).hash
    BY <1>6, <2>5 DEF Inserts, Alone, Holds, Job
  <2>7. ASSUME NEW h, Stored(h) PROVE Stored(h)'
    BY <2>1, <2>7 DEF Stored
  <2> SUFFICES ASSUME "short" \notin mishaps'
               PROVE  /\ \A h \in Known' : Stored(h)'
                      /\ \A v \in Workers : Holds(v)' => Stored(Job(v).hash)'
    BY DEF Promise
  <2> QED
    BY <2>1, <2>4, <2>5, <2>6, <2>7 DEF Promise, Stored
<1>7. ASSUME NEW w \in Workers, Adds(w) PROVE Promise'
  <2>1. /\ UNCHANGED <<disk, rows, mishaps>>
        /\ task[w].stage = "sadd" /\ task'[w].stage = "setex"
        /\ key' = [key EXCEPT ![Job(w).user].type = "set",
                              ![Job(w).user].members = @ \union {Job(w).hash}]
    BY <1>7 DEF Adds
  <2>2. \A u \in Users : key'[u].members \subseteq key[u].members \union {Job(w).hash}
    BY <2>1 DEF Typed, StoreTyped, RedisKeys
  <2>3. Known' \subseteq Known \union {Job(w).hash}
    BY <2>1, <2>2 DEF Known
  <2>4. Holds(w)
    BY <2>1 DEF Holds
  <2>5. \A v \in Workers : Holds(v)' => Holds(v) /\ Job(v)'.hash = Job(v).hash
    BY <1>7, <2>1 DEF Adds, Alone, Holds, Job
  <2>6. \A h : Stored(h) => Contains(disk'[h], "whole")
    BY <2>1 DEF Stored
  <2> SUFFICES ASSUME "short" \notin mishaps'
               PROVE  /\ \A h \in Known' : Stored(h)'
                      /\ \A v \in Workers : Holds(v)' => Stored(Job(v).hash)'
    BY DEF Promise
  <2> QED
    BY <2>1, <2>3, <2>4, <2>5, <2>6 DEF Promise, Stored
<1> QED
  BY <1>1, <1>2, <1>3, <1>4, <1>5, <1>6, <1>7, Kinds

\* The existence check promises no content that is not completely on disk,
\* unless a write was cut short: isfileexits and the order of write, insert and
\* sadd in savefile (KnownIsStored of FileTask.tla).
THEOREM KnownContentIsStored == Spec => []KnownIsStored
<1>1. Init => Typed /\ Promise
  BY InitTyped, InitPromise
<1>2. Typed /\ Promise /\ [Next]_vars => (Typed /\ Promise)'
  BY Kinds, PromiseKept
<1>3. Promise => KnownIsStored
  BY DEF Promise, KnownIsStored, Stored
<1> QED
  BY <1>1, <1>2, <1>3, PTL DEF Spec
------------------------------------------------------------------------------
Clean == mishaps \intersect {"overlap", "killed", "unrecorded"} = {}

Row(h) == \E i \in DOMAIN rows : rows[i].hash = h

\* A content is stored by one worker at a time, is not there before it is
\* written, and once it is there has a row or a worker about to insert one.
Single == Clean =>
  /\ \A v, w \in Workers : v # w /\ Storing(v) /\ Storing(w) => Job(v).hash # Job(w).hash
  /\ \A w \in Workers : Storing(w) /\ task[w].stage # "insert" => disk[Job(w).hash] = <<>>
  /\ \A h \in Hashes : /\ Len(disk[h]) <= 1
                       /\ disk[h] # <<>> =>
                            \/ Row(h)
                            \/ \E w \in Workers : /\ Storing(w) /\ task[w].stage = "insert"
                                                  /\ Job(w).hash = h

LEMMA SingleIsOneCopy == Single => OneCopy
BY DEF Single, Clean, OneCopy

LEMMA InitSingle == Init => Single
<1> SUFFICES ASSUME Init PROVE Single
  OBVIOUS
<1>1. \A w \in Workers : ~Storing(w)
  BY IdleTyped DEF Init, Storing
<1>2. \A h \in Hashes : disk[h] = <<>> /\ Len(disk[h]) = 0
  BY DEF Init
<1> QED
  BY <1>1, <1>2 DEF Single

LEMMA SingleKept ==
  ASSUME Typed, Single, [Next]_vars
  PROVE  Single'
<1> SUFFICES ASSUME Clean'
             PROVE  /\ \A v, w \in Workers : v # w /\ Storing(v)' /\ Storing(w)'
                                               => Job(v)'.hash # Job(w)'.hash
                    /\ \A w \in Workers : Storing(w)' /\ task'[w].stage # "insert"
                                            => disk'[Job(w)'.hash] = <<>>
                    /\ \A h \in Hashes :
                         /\ Len(disk'[h]) <= 1
                         /\ disk'[h] # <<>> =>
                              \/ Row(h)'
                              \/ \E w \in Workers : /\ Storing(w)'
                                                    /\ task'[w].stage = "insert"
                                                    /\ Job(w)'.hash = h
  BY DEF Single
<1>1. CASE Quiet
  <2>1. Clean /\ UNCHANGED <<disk, rows>>
    BY <1>1 DEF Quiet, Clean
  <2>2. \A h : Row(h) => Row(h)'
    BY <2>1 DEF Row
  <2> QED
    BY <1>1, <2>1, <2>2 DEF Quiet, Single
<1>2. CASE Ends
  <2>1. /\ Clean /\ UNCHANGED <<disk, rows>>
        /\ ~\E w \in Workers : Storing(w) /\ task[w].stage = "insert"
    BY <1>2 DEF Ends, Die, Clean, store
  <2>2. \A v \in Workers : ~Storing(v)'
    BY <1>2, DieTyped DEF Ends, Storing
  <2>3. \A h : Row(h) => Row(h)'
    BY <2>1 DEF Row
  <2> QED
    BY <2>1, <2>2, <2>3 DEF Single
<1>3. CASE \E w \in Workers : Finds(w) \/ Adds(w)
  <2>1. PICK w \in Workers : Finds(w) \/ Adds(w)
    BY <1>3
  <2>2. /\ UNCHANGED <<disk, rows, mishaps>> /\ Alone(w)
        /\ ~Storing(w) /\ ~Storing(w)'
    BY <2>1 DEF Finds, Adds, Storing
  <2>3. \A v \in Workers \ {w} : Storing(v)' = Storing(v) /\ task'[v] = task[v]
    BY <2>2 DEF Alone, Storing
  <2>4. Clean
    BY <2>2 DEF Clean
  <2>5. \A h : Row(h) => Row(h)'
    BY <2>2 DEF Row
  <2> QED
    BY <2>2, <2>3, <2>4, <2>5 DEF Single, Job
<1>4. ASSUME NEW w \in Workers, Misses(w)
      PROVE  Single'
  <2>1. /\ UNCHANGED <<disk, rows>> /\ mishaps \subseteq mishaps' /\ Alone(w)
        /\ task[w].stage = "count" /\ task'[w].stage = "answer"
        /\ Job(w)'.hash = Job(w).hash
        /\ ~\E v \in Workers \ {w} : Storing(v) /\ Job(v).hash = Job(w).hash
    BY <1>4 DEF Misses, Clean
  <2>2. /\ ~Storing(w) /\ Clean /\ ~Row(Job(w).hash)
    BY <1>4, <2>1 DEF Misses, Storing, Clean, Row
  <2>3. \A v \in Workers \ {w} : Storing(v)' = Storing(v) /\ task'[v] = task[v]
    BY <2>1 DEF Alone, Storing
  <2>4. \A h : Row(h) => Row(h)'
    BY <2>1 DEF Row
  <2>5. disk[Job(w).hash] = <<>>
    <3>1. Job(w).hash \in Hashes
      BY DEF Typed, TasksTyped, Requests, Job
    <3> QED
      BY <2>1, <2>2, <3>1 DEF Single
  <2> QED
    BY <2>1, <2>2, <2>3, <2>4, <2>5 DEF Single, Job
<1>5. ASSUME NEW w \in Workers, Writes(w)
      PROVE  Single'
  <2>1. PICK copy \in WriteResults :
          disk' = [disk EXCEPT ![Job(w).hash] = Append(@, copy)]
    BY <1>5 DEF Writes, Write
  <2>2. /\ UNCHANGED rows /\ mishaps \subseteq mishaps' /\ Alone(w)
        /\ task[w].stage = "write" /\ task'[w].stage = "insert"
        /\ Job(w)'.hash = Job(w).hash /\ task'[w].present = task[w].present
    BY <1>5 DEF Writes, Write, At
  <2>3. /\ Clean /\ ~task[w].present /\ Job(w).hash \in Hashes
        /\ disk \in [Hashes -> Seq({"whole", "part"})]
    BY <2>2 DEF Clean, Typed, TasksTyped, StoreTyped, Requests, Job
  <2>4. Storing(w) /\ Storing(w)'
    BY <2>2, <2>3 DEF Storing
  <2>5. \A v \in Workers \ {w} : Storing(v)' = Storing(v) /\ task'[v] = task[v]
    BY <2>2 DEF Alone, Storing
  <2>6. \A h : Row(h) => Row(h)'
    BY <2>2 DEF Row
  <2>7. disk[Job(w).hash] = <<>>
    BY <2>2, <2>3, <2>4 DEF Single
  <2>8. Len(disk'[Job(w).hash]) = 1
    BY <2>1, <2>3, <2>7
  <2>9. \A h \in Hashes \ {Job(w).hash} : disk'[h] = disk[h]
    BY <2>1, <2>3
  <2>10. \A v \in Workers \ {w} : Storing(v) => Job(v).hash # Job(w).hash
    BY <2>3, <2>4 DEF Single
  <2>11. \A v \in Workers : Job(v).hash \in Hashes
    BY DEF Typed, TasksTyped, Requests, Job
  <2>12. /\ \A v \in Workers \ {w} : Storing(v)' /\ task'[v].stage # "insert"
                                          => disk'[Job(v)'.hash] = <<>>
         /\ Storing(w)' /\ task'[w].stage = "insert" /\ Job(w)'.hash = Job(w).hash
    BY <2>2, <2>3, <2>4, <2>5, <2>9, <2>10, <2>11 DEF Single, Job
  <2>13. \A v, x \in Workers : v # x /\ Storing(v)' /\ Storing(x)'
                                 => Job(v)'.hash # Job(x)'.hash
    BY <2>2, <2>3, <2>4, <2>5 DEF Single, Job
  <2>14. \A h \in Hashes \ {Job(w).hash} :
           /\ Len(disk'[h]) <= 1
           /\ disk'[h] # <<>> =>
                \/ Row(h)'
                \/ \E v \in Workers : /\ Storing(v)' /\ task'[v].stage = "insert"
                                      /\ Job(v)'.hash = h
    BY <2>2, <2>3, <2>4, <2>5, <2>6, <2>9 DEF Single, Job
  <2>15. \A h \in Hashes :
           /\ Len(disk'[h]) <= 1
           /\ disk'[h] # <<>> =>
                \/ Row(h)'
                \/ \E v \in Workers : /\ Storing(v)' /\ task'[v].stage = "insert"
                                      /\ Job(v)'.hash = h
    <3> SUFFICES ASSUME NEW h \in Hashes
                 PROVE  /\ Len(disk'[h]) <= 1
                        /\ disk'[h] # <<>> =>
                             \/ Row(h)'
                             \/ \E v \in Workers : /\ Storing(v)' /\ task'[v].stage = "insert"
                                                   /\ Job(v)'.hash = h
      OBVIOUS
    <3>1. CASE h = Job(w).hash
      <4>1. Len(disk'[h]) = 1
        BY <2>8, <3>1
      <4>2. Storing(w)' /\ task'[w].stage = "insert" /\ Job(w)'.hash = h
        BY <2>12, <3>1
      <4> QED
        BY <4>1, <4>2
    <3>2. CASE h # Job(w).hash
      BY <2>14, <3>2
    <3> QED
      BY <3>1, <3>2
  <2>16. \A v \in Workers : Storing(v)' /\ task'[v].stage # "insert"
                             => disk'[Job(v)'.hash] = <<>>
    BY <2>2, <2>12
  <2> QED
    BY <2>13, <2>15, <2>16 DEF Single
<1>6. ASSUME NEW w \in Workers, Inserts(w)
      PROVE  Single'
  <2>1. /\ UNCHANGED disk /\ Alone(w)
        /\ task[w].stage = "insert" /\ task'[w].stage = "sadd"
        /\ mishaps \subseteq mishaps'
        /\ rows' = Append(rows, Job(w)) \/ "unrecorded" \in mishaps'
    BY <1>6 DEF Inserts, Insert, At
  <2>2. rows' = Append(rows, Job(w)) /\ Clean
    BY <2>1 DEF Clean
  <2>3. ~Storing(w)'
    BY <2>1 DEF Storing
  <2>4. \A v \in Workers \ {w} : Storing(v)' = Storing(v) /\ task'[v] = task[v]
    BY <2>1 DEF Alone, Storing
  <2>5. \A h : h = Job(w).hash \/ Row(h) => Row(h)'
    <3>1. rows \in Seq(Recorded)
      BY DEF Typed, StoreTyped
    <3>2. /\ Len(rows) + 1 \in DOMAIN rows' /\ rows'[Len(rows) + 1] = Job(w)
          /\ \A i \in DOMAIN rows : i \in DOMAIN rows' /\ rows'[i] = rows[i]
      BY <2>2, <3>1
    <3> QED
      BY <1>6, <3>2 DEF Row, Inserts
  <2>6. \A v, x \in Workers : v # x /\ Storing(v)' /\ Storing(x)'
                                => Job(v)'.hash # Job(x)'.hash
    BY <2>2, <2>3, <2>4 DEF Single, Job
  <2>7. \A v \in Workers : Storing(v)' /\ task'[v].stage # "insert"
                            => disk'[Job(v)'.hash] = <<>>
    BY <2>1, <2>2, <2>3, <2>4 DEF Single, Job
  <2>8. ASSUME NEW h \in Hashes
        PROVE  /\ Len(disk'[h]) <= 1
               /\ disk'[h] # <<>> =>
                    \/ Row(h)'
                    \/ \E v \in Workers : /\ Storing(v)' /\ task'[v].stage = "insert"
                                          /\ Job(v)'.hash = h
    <3>1. /\ Len(disk[h]) <= 1
          /\ disk[h] # <<>> =>
               \/ Row(h)
               \/ \E v \in Workers : /\ Storing(v) /\ task[v].stage = "insert"
                                     /\ Job(v).hash = h
      BY <2>2 DEF Single
    <3>2. disk'[h] = disk[h]
      BY <2>1
    <3>3. CASE Row(h) \/ h = Job(w).hash
      BY <2>5, <3>1, <3>2, <3>3
    <3>4. CASE \E v \in Workers \ {w} : /\ Storing(v) /\ task[v].stage = "insert"
                                        /\ Job(v).hash = h
      <4>1. PICK v \in Workers \ {w} : /\ Storing(v) /\ task[v].stage = "insert"
                                       /\ Job(v).hash = h
        BY <3>4
      <4>2. Storing(v)' /\ task'[v].stage = "insert" /\ Job(v)'.hash = h
        BY <2>4, <4>1 DEF Job
      <4> QED
        BY <3>1, <3>2, <4>2
    <3> QED
      BY <3>1, <3>2, <3>3, <3>4
  <2> QED
    BY <2>6, <2>7, <2>8 DEF Single
<1> QED
  BY <1>1, <1>2, <1>3, <1>4, <1>5, <1>6, Kinds DEF Single

\* A content is appended to its file once, unless two uploads of it overlapped
\* between the check and the insert, the process died between write and insert,
\* or an insert failed (OneCopy of FileTask.tla).
THEOREM ContentIsWrittenOnce == Spec => []OneCopy
<1>1. Init => Typed /\ Single
  BY InitTyped, InitSingle
<1>2. Typed /\ Single /\ [Next]_vars => (Typed /\ Single)'
  BY Kinds, SingleKept
<1>3. Single => OneCopy
  BY SingleIsOneCopy
<1> QED
  BY <1>1, <1>2, <1>3, PTL DEF Spec
=============================================================================
