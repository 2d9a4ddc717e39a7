----------------------------- MODULE ThreadPool ------------------------------
(***************************************************************************)
(* Classes ThreadPool and Thread: worker threads that pop tasks from the   *)
(* TaskQueue and run them, the producers that add tasks, and the thread    *)
(* that calls stop().                                                      *)
(*                                                                         *)
(* A worker's or the stopper's place outside the queue is its stage; its   *)
(* place inside a queue call is pc.  FileServer::stop() calls stop() from   *)
(* a thread of its own, at any moment after start(), or never, as main()   *)
(* leaves it.                                                              *)
(***************************************************************************)
EXTENDS TaskQueue

CONSTANTS Workers,    \* the threads of _threads
          Producers,  \* the threads that call addTask (one: the event loop)
          Stopper     \* the thread that calls stop()

ASSUME ThreadPoolAssumption ==
  /\ Threads = Workers \union Producers \union {Stopper}
  /\ Workers \intersect Producers = {}
  /\ Stopper \notin Workers \union Producers

VARIABLES stage,    \* what each worker does
          running,  \* the workers whose Thread::_isRunning is TRUE
          isExit,   \* _isExit
          stopping, \* how far stop() has come
          asked,    \* the tasks handed to addTask (each once)
          runs,     \* how often each task was executed
          late      \* the tasks pushed after stop() last saw the queue empty

poolVars == <<stage, running, isExit, stopping, asked, runs, late>>
vars == <<tqVars, poolVars>>

WorkerStages == {"created", "failed", "loop", "getTask", "exited"}
StopStages == {"idle", "poll", "setExit", "wakeup", "notify", "join", "done"}

Init == /\ TQInit
        /\ stage = [w \in Workers |-> "created"]
        /\ running = {}
        /\ isExit = FALSE
        /\ stopping = "idle"
        /\ asked = {}
        /\ runs = [x \in Tasks |-> 0]
        /\ late = {}

\* start() has gone through the vector of threads.
Started == \A w \in Workers : stage[w] # "created"
------------------------------------------------------------------------------
\* Thread::start for each thread: pthread_create may fail, and start() goes
\* on with the threads it got.
StartThread(w) ==
  /\ stage[w] = "created"
  /\ \/ /\ stage' = [stage EXCEPT ![w] = "loop"]
        /\ running' = running \union {w}
     \/ /\ stage' = [stage EXCEPT ![w] = "failed"]
        /\ UNCHANGED running
  /\ UNCHANGED <<tqVars, isExit, stopping, asked, runs, late>>

AddTask(p, x) == /\ Started
                 /\ x \notin asked
                 /\ CallPush(p, x)
                 /\ asked' = asked \union {x}
                 /\ UNCHANGED <<stage, running, isExit, stopping, runs, late>>

\* doTask(): while(!_isExit) ...
LoopGetTask(w) == /\ stage[w] = "loop"
                  /\ ~isExit
                  /\ CallPop(w)
                  /\ stage' = [stage EXCEPT ![w] = "getTask"]
                  /\ UNCHANGED <<running, isExit, stopping, asked, runs, late>>

LoopExit(w) == /\ stage[w] = "loop"
               /\ isExit
               /\ stage' = [stage EXCEPT ![w] = "exited"]
               /\ UNCHANGED <<tqVars, running, isExit, stopping, asked, runs, late>>

\* ... taskcb(), to its end
RunTask(w) == /\ stage[w] = "getTask"
              /\ pc[w] = "out"
              /\ reg[w] # NoTask
              /\ runs' = [runs EXCEPT ![reg[w]] = @ + 1]
              /\ stage' = [stage EXCEPT ![w] = "loop"]
              /\ UNCHANGED <<tqVars, running, isExit, stopping, asked, late>>

\* ... or the nullptr pop() returns after wakeup()
SkipNull(w) == /\ stage[w] = "getTask"
               /\ pc[w] = "out"
               /\ reg[w] = NoTask
               /\ stage' = [stage EXCEPT ![w] = "loop"]
               /\ UNCHANGED <<tqVars, running, isExit, stopping, asked, runs, late>>

\* A step of a producer or a worker inside push() or pop().
InQueue(t) == /\ QueueStep(t) \/ SpuriousWake(t)
              /\ late' = IF PushDone(t) /\ stopping \notin {"idle", "poll"}
                         THEN late \union {reg[t]} ELSE late
              /\ UNCHANGED <<stage, running, isExit, stopping, asked, runs>>
------------------------------------------------------------------------------
\* stop(), statement by statement.  The while(!empty()) sleep(1) loop reads
\* the queue without the mutex; only its last look changes anything.
StopCall == /\ Started
            /\ stopping = "idle"
            /\ stopping' = "poll"
            /\ UNCHANGED <<tqVars, stage, running, isExit, asked, runs, late>>

\* Mutant: stop() does not wait for the queue.
StopPollNot == /\ stopping = "poll"
               /\ stopping' = "setExit"
               /\ UNCHANGED <<tqVars, stage, running, isExit, asked, runs, late>>

StopPoll == /\ stopping = "poll"
            /\ Empty
            /\ stopping' = "setExit"
            /\ UNCHANGED <<tqVars, stage, running, isExit, asked, runs, late>>

StopSetExit == /\ stopping = "setExit"
               /\ isExit' = TRUE
               /\ stopping' = "wakeup"
               /\ UNCHANGED <<tqVars, stage, running, asked, runs, late>>

StopWakeup == /\ stopping = "wakeup"
              /\ WakeupFlag(Stopper)
              /\ stopping' = "notify"
              /\ UNCHANGED <<stage, running, isExit, asked, runs, late>>

StopNotify == /\ stopping = "notify"
              /\ WakeupNotify(Stopper)
              /\ stopping' = "join"
              /\ UNCHANGED <<stage, running, isExit, asked, runs, late>>

\* Thread::stop joins a running thread: it returns when that thread exited.
StopJoin(w) == /\ stopping = "join"
               /\ w \in running
               /\ stage[w] = "exited"
               /\ running' = running \ {w}
               /\ UNCHANGED <<tqVars, stage, isExit, stopping, asked, runs, late>>

\* Mutant: stop() does not join every thread.
StopReturnEarly == /\ stopping = "join"
                   /\ stopping' = "done"
                   /\ UNCHANGED <<tqVars, stage, running, isExit, asked, runs, late>>

StopReturn == /\ stopping = "join"
              /\ running = {}
              /\ stopping' = "done"
              /\ UNCHANGED <<tqVars, stage, running, isExit, asked, runs, late>>
------------------------------------------------------------------------------
WorkerStep(w) == LoopGetTask(w) \/ LoopExit(w) \/ RunTask(w) \/ SkipNull(w)

StopStep == \/ StopPoll
            \/ StopSetExit
            \/ StopWakeup
            \/ StopNotify
            \/ \E w \in Workers : StopJoin(w)
            \/ StopReturn

Next == \/ \E w \in Workers : StartThread(w) \/ WorkerStep(w)
        \/ \E p \in Producers, x \in Tasks : AddTask(p, x)
        \/ \E t \in Workers \union Producers : InQueue(t)
        \/ StopCall
        \/ StopStep

\* Every thread that can move does: a step inside a queue call is the
\* thread's own (QueueStep, not the spurious return), tasks come to an end,
\* and nobody has to add a task or to call stop().  A thread that waits for
\* _mutex while others lock and unlock it again and again gets it in the end:
\* the kernel wakes the waiters of a futex, and each holder lets go.
Progress(t) == QueueStep(t) /\ InQueue(t)
Acquire(t) == Lock(t) /\ InQueue(t)

Fairness == /\ \A w \in Workers : WF_vars(StartThread(w))
            /\ \A w \in Workers : WF_vars(WorkerStep(w))
            /\ \A t \in Workers \union Producers : WF_vars(Progress(t))
            /\ \A t \in Workers \union Producers : SF_vars(Acquire(t))
            /\ WF_vars(StopStep)

Spec == Init /\ [][Next]_vars /\ Fairness
------------------------------------------------------------------------------
\* Type invariant of the pool.
TypeOK == /\ TQTypeOK
          /\ stage \in [Workers -> WorkerStages]
          /\ running \subseteq Workers
          /\ isExit \in BOOLEAN
          /\ stopping \in StopStages
          /\ asked \subseteq Tasks
          /\ runs \in [Tasks -> Nat]
          /\ late \subseteq asked

\* Where a task can be: with a producer in push(), in the queue, or with a
\* worker that got it from pop() and has not run it.
Pushing(x) == {p \in Producers : pc[p] \in PushStates /\ reg[p] = x}
Queued(x) == {i \in DOMAIN que : que[i] = x}
Holding(x) == {w \in Workers : /\ stage[w] = "getTask"
                               /\ pc[w] = "out"
                               /\ reg[w] = x}

\* A task is neither lost nor duplicated on its way from addTask to its end:
\* it is in exactly one place, and executed at most once.
OnePlace == \A x \in Tasks :
  Cardinality(Pushing(x)) + Cardinality(Queued(x)) + Cardinality(Holding(x))
    + runs[x] = IF x \in asked THEN 1 ELSE 0

\* stop() returns on a quiet pool: no worker is left in the queue or in a
\* task, and every task that was added before stop() last saw the queue
\* empty has been executed.
StopDrains == stopping = "done" =>
  /\ \A w \in Workers : stage[w] \in {"exited", "failed"}
  /\ \A x \in asked \ late : runs[x] = 1 \/ Pushing(x) # {}

\* A worker leaves its loop only after stop() has seen an empty queue, and so
\* only tasks that came later can still be queued: what the comment on
\* ThreadPool::stop asks for, restricted to the tasks stop() could see.
ExitLeavesOnlyLate == (\E w \in Workers : stage[w] = "exited")
                        => \A i \in DOMAIN que : que[i] \in late

\* If one thread could be created, every task handed to addTask is executed as
\* long as nobody stops the pool, however small the queue is.
EveryTaskRuns == \A x \in Tasks :
  x \in asked /\ running # {} ~> runs[x] = 1 \/ stopping # "idle"

\* The comment in ThreadPool::stop: all workers are woken before they are
\* joined, so the join, and stop() with it, comes to an end.
StopReturns == stopping = "join" ~> stopping = "done"
==============================================================================
