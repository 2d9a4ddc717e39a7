--------------------------- MODULE ThreadPoolProofs --------------------------
(***************************************************************************)
(* ThreadPool for every set of workers, producers and tasks: its use of    *)
(* the queue is one that TaskQueue allows, so that the theorems about the  *)
(* queue hold in the pool; workers leave behind only tasks that came too   *)
(* late; and each task is in one place and executed at most once.          *)
(***************************************************************************)
EXTENDS ThreadPool, TaskQueueProofs

\* A task in push() was handed to addTask.
Carried == \A t \in Threads : pc[t] \in PushStates => reg[t] \in asked

\* The order in which stop() goes about it: it sees an empty queue, then sets
\* _isExit, and only then do workers exit.
ExitOrder == /\ (\E w \in Workers : stage[w] = "exited") => isExit
             /\ isExit => stopping \notin {"idle", "poll", "setExit"}
             /\ stopping \notin {"idle", "poll"} => \A i \in DOMAIN que : que[i] \in late

PoolInv == TypeOK /\ Carried /\ ExitOrder

\* Every step of the pool is a step of the queue, or leaves the queue alone.
LEMMA StepOfQueue == [Next]_vars => [TQNext]_tqVars
<1> SUFFICES ASSUME [Next]_vars PROVE [TQNext]_tqVars
  OBVIOUS
<1> USE ThreadPoolAssumption
<1>1. ASSUME NEW w \in Workers, StartThread(w) \/ WorkerStep(w)
      PROVE  [TQNext]_tqVars
  BY <1>1 DEF StartThread, WorkerStep, LoopGetTask, LoopExit, RunTask, SkipNull,
              TQNext, QueueCall
<1>2. ASSUME NEW p \in Producers, NEW x \in Tasks, AddTask(p, x)
      PROVE  [TQNext]_tqVars
  BY <1>2 DEF AddTask, TQNext, QueueCall
<1>3. ASSUME NEW t \in Workers \union Producers, InQueue(t)
      PROVE  [TQNext]_tqVars
  BY <1>3 DEF InQueue, TQNext
<1>4. CASE StopCall \/ StopPoll \/ StopSetExit \/ StopReturn
  BY <1>4 DEF StopCall, StopPoll, StopSetExit, StopReturn
<1>5. CASE StopWakeup
  BY <1>5 DEF StopWakeup, TQNext, QueueCall
<1>6. CASE StopNotify
  BY <1>6 DEF StopNotify, TQNext, QueueStep
<1>7. ASSUME NEW w \in Workers, StopJoin(w) PROVE [TQNext]_tqVars
  BY <1>7 DEF StopJoin
<1>8. CASE UNCHANGED vars
  BY <1>8 DEF vars
<1> QED
  BY <1>1, <1>2, <1>3, <1>4, <1>5, <1>6, <1>7, <1>8 DEF Next, StopStep

\* What a step inside a queue call does to the queue, and to the tasks that
\* threads carry into it.
LEMMA QueueStepEffect ==
  ASSUME QueueInv, NEW t \in Threads, QueueStep(t) \/ SpuriousWake(t)
  PROVE  /\ \/ PushDone(t) /\ pc[t] = "pushTest" /\ que' = Append(que, reg[t])
            \/ ~PushDone(t) /\ que' = que
            \/ ~PushDone(t) /\ que # <<>> /\ que' = Tail(que)
         /\ \A u \in Threads : pc'[u] \in PushStates
                                 => pc[u] \in PushStates /\ reg'[u] = reg[u]
<1> USE DEF QueueInv, TQTypeOK, QueueStates, PushStates, PopStates
<1>1. CASE Lock(t)
  BY <1>1, AfterLockValues DEF Lock, PushDone
<1>2. CASE PushSleep(t)
  BY <1>2 DEF PushSleep, Sleep, PushDone
<1>3. CASE PushDone(t)
  BY <1>3 DEF PushDone, LeaveAndNotify, ThreadsAt
<1>4. CASE PopTest(t)
  BY <1>4 DEF PopTest, PushDone
<1>5. CASE PopSleep(t)
  BY <1>5 DEF PopSleep, Sleep, PushDone
<1>6. CASE PopTake(t)
  <2>1. pc[t] = "popTake" /\ que # <<>> /\ que' = Tail(que) /\ ~PushDone(t)
    BY <1>6 DEF PopTake, FrontIsThere, Empty, PushDone
  <2>2. \A u \in Threads : pc'[u] \in PushStates
                             => pc[u] \in PushStates /\ reg'[u] = reg[u]
    BY <1>6 DEF PopTake, LeaveAndNotify, ThreadsAt
  <2> QED
    BY <2>1, <2>2
<1>7. CASE PopNull(t)
  BY <1>7 DEF PopNull, PushDone
<1>8. CASE WakeupNotify(t)
  BY <1>8 DEF WakeupNotify, PushDone
<1>9. CASE SpuriousWake(t)
  BY <1>9 DEF SpuriousWake, PushDone
<1> QED
  BY <1>1, <1>2, <1>3, <1>4, <1>5, <1>6, <1>7, <1>8, <1>9 DEF QueueStep
------------------------------------------------------------------------------
LEMMA InitPoolInv == Init => PoolInv
<1> SUFFICES ASSUME Init PROVE PoolInv
  OBVIOUS
<1>1. TypeOK
  BY InitQueueInv DEF Init, TypeOK, QueueInv, WorkerStages, StopStages
<1>2. Carried /\ ExitOrder
  BY DEF Init, TQInit, Carried, PushStates, ExitOrder
<1> QED
  BY <1>1, <1>2 DEF PoolInv

\* A step inside a queue call keeps PoolInv: what is pushed once stop() has
\* seen the queue empty is late.
LEMMA InQueuePoolInv ==
  ASSUME QueueInv, QueueInv', PoolInv,
         NEW t \in Workers \union Producers, InQueue(t)
  PROVE  PoolInv'
<1>1. t \in Threads
  BY ThreadPoolAssumption
<1>2. /\ QueueStep(t) \/ SpuriousWake(t)
      /\ late' = IF PushDone(t) /\ stopping \notin {"idle", "poll"}
                 THEN late \union {reg[t]} ELSE late
      /\ UNCHANGED <<stage, running, isExit, stopping, asked, runs>>
  BY DEF InQueue
<1>3. /\ \/ PushDone(t) /\ pc[t] = "pushTest" /\ que' = Append(que, reg[t])
         \/ ~PushDone(t) /\ que' = que
         \/ ~PushDone(t) /\ que # <<>> /\ que' = Tail(que)
      /\ \A u \in Threads : pc'[u] \in PushStates
                              => pc[u] \in PushStates /\ reg'[u] = reg[u]
  BY <1>1, <1>2, QueueStepEffect
<1>4. que \in Seq(Tasks)
  BY DEF QueueInv, TQTypeOK
<1>5. PushDone(t) => reg[t] \in asked /\ reg[t] \in Tasks
  BY <1>1, <1>3 DEF PoolInv, Carried, PushStates, QueueInv, TQTypeOK
<1>6. TypeOK'
  BY <1>2, <1>5 DEF PoolInv, TypeOK, QueueInv
<1>7. Carried'
  BY <1>2, <1>3 DEF PoolInv, Carried
<1>8. ExitOrder'
  <2>1. ASSUME stopping \notin {"idle", "poll"}, NEW i \in DOMAIN que'
        PROVE  que'[i] \in late'
    <3>1. \A k \in DOMAIN que : que[k] \in late
      BY <2>1 DEF PoolInv, ExitOrder
    <3>2. CASE PushDone(t)
      BY <1>2, <1>3, <1>4, <1>5, <2>1, <3>1, <3>2
    <3>3. CASE ~PushDone(t) /\ que' = que
      BY <1>2, <2>1, <3>1, <3>3
    <3>4. CASE ~PushDone(t) /\ que # <<>> /\ que' = Tail(que)
      BY <1>2, <1>4, <2>1, <3>1, <3>4
    <3> QED
      BY <1>3, <3>2, <3>3, <3>4
  <2> QED
    BY <1>2, <2>1 DEF PoolInv, ExitOrder
<1> QED
  BY <1>6, <1>7, <1>8 DEF PoolInv

LEMMA StepPoolInv == QueueInv /\ QueueInv' /\ PoolInv /\ [Next]_vars => PoolInv'
<1> SUFFICES ASSUME QueueInv, QueueInv', PoolInv, [Next]_vars PROVE PoolInv'
  OBVIOUS
<1>a. TQTypeOK /\ TQTypeOK'
  BY DEF QueueInv
<1> USE ThreadPoolAssumption
    DEF PoolInv, TypeOK, Carried, ExitOrder, WorkerStages, StopStages
<1>1. ASSUME NEW w \in Workers, StartThread(w) PROVE PoolInv'
  BY <1>a, <1>1 DEF StartThread, tqVars
<1>2. ASSUME NEW w \in Workers, LoopGetTask(w) PROVE PoolInv'
  BY <1>a, <1>2 DEF LoopGetTask, CallPop, TQTypeOK, PushStates
<1>3. ASSUME NEW w \in Workers, LoopExit(w) PROVE PoolInv'
  BY <1>a, <1>3 DEF LoopExit, tqVars
<1>4. ASSUME NEW w \in Workers, RunTask(w) PROVE PoolInv'
  BY <1>a, <1>4 DEF RunTask, tqVars, TQTypeOK
<1>5. ASSUME NEW w \in Workers, SkipNull(w) PROVE PoolInv'
  BY <1>a, <1>5 DEF SkipNull, tqVars
<1>6. ASSUME NEW p \in Producers, NEW x \in Tasks, AddTask(p, x) PROVE PoolInv'
  BY <1>a, <1>6 DEF AddTask, CallPush, TQTypeOK
<1>7. ASSUME NEW t \in Workers \union Producers, InQueue(t) PROVE PoolInv'
  BY <1>7, InQueuePoolInv
<1>8. CASE StopCall
  BY <1>a, <1>8 DEF StopCall, tqVars
<1>9. CASE StopPoll
  BY <1>a, <1>9 DEF StopPoll, Empty, tqVars
<1>10. CASE StopSetExit
  BY <1>a, <1>10 DEF StopSetExit, tqVars
<1>11. CASE StopWakeup
  BY <1>a, <1>11 DEF StopWakeup, WakeupFlag, TQTypeOK, PushStates
<1>12. CASE StopNotify
  BY <1>a, <1>12 DEF StopNotify, WakeupNotify, TQTypeOK, PushStates
<1>13. ASSUME NEW w \in Workers, StopJoin(w) PROVE PoolInv'
  BY <1>a, <1>13 DEF StopJoin, tqVars
<1>14. CASE StopReturn
  BY <1>a, <1>14 DEF StopReturn, tqVars
<1>15. CASE UNCHANGED vars
  BY <1>a, <1>15 DEF vars, tqVars, poolVars
<1> QED
  BY <1>1, <1>2, <1>3, <1>4, <1>5, <1>6, <1>7, <1>8, <1>9, <1>10, <1>11, <1>12,
     <1>13, <1>14, <1>15 DEF Next, WorkerStep, StopStep
------------------------------------------------------------------------------
\* The pool uses its queue as TaskQueue allows.
THEOREM PoolUsesQueue == Spec => TQSpec
<1>1. Init => TQInit
  BY DEF Init
<1> QED
  BY <1>1, StepOfQueue, PTL DEF Spec, TQSpec

\* So the queue between the event loop and the workers is the bounded FIFO
\* buffer, no thread is stranded in it, and its invariant holds.
THEOREM PoolQueueInvariant ==
  Spec => [](QueueInv /\ NoStrandedPop /\ NoStrandedPush) /\ ImplementsBuffer
BY PoolUsesQueue, QueueInvariant, ConsumersNotStranded, ProducersNotStranded,
   QueueRefinesBuffer, PTL

THEOREM PoolInvariant == Spec => []PoolInv
BY InitPoolInv, StepPoolInv, PoolUsesQueue, QueueInvariant, PTL DEF Spec

\* Type correctness of the pool.
THEOREM PoolTypeCorrect == Spec => []TypeOK
<1>1. PoolInv => TypeOK
  BY DEF PoolInv
<1> QED
  BY <1>1, PoolInvariant, PTL

\* Workers that stop() lets go leave behind only tasks that were pushed after
\* stop() had seen the queue empty.
THEOREM OnlyLateTasksLeft == Spec => []ExitLeavesOnlyLate
<1>1. PoolInv => ExitLeavesOnlyLate
  BY DEF PoolInv, ExitOrder, ExitLeavesOnlyLate
<1> QED
  BY <1>1, PoolInvariant, PTL
------------------------------------------------------------------------------
\* Producers push and workers pop; a worker that is not in getTask is outside
\* the queue, and one inside has no task yet.
Roles == /\ \A p \in Producers : pc[p] \in PushStates \union {"out"}
         /\ \A w \in Workers : /\ pc[w] \in PopStates \union {"out"}
                               /\ stage[w] # "getTask" => pc[w] = "out"
                               /\ pc[w] \in PopStates => reg[w] = NoTask

LEMMA InitRoles == Init => Roles
BY ThreadPoolAssumption DEF Init, TQInit, Roles

\* A step that leaves the tasks alone, and moves nobody into or out of a call.
LEMMA QuietRoles ==
  ASSUME Roles, UNCHANGED reg,
         \A t \in Workers \union Producers :
            /\ pc[t] \in PushStates <=> pc'[t] \in PushStates
            /\ pc[t] \in PopStates <=> pc'[t] \in PopStates
            /\ pc[t] = "out" <=> pc'[t] = "out",
         \A w \in Workers : stage'[w] = "getTask" \/ stage[w] # "getTask" \/ pc[w] = "out"
  PROVE  Roles'
BY DEF Roles

\* What a step inside push() or pop() does, but the two that move a task.
LEMMA QuietInQueue ==
  ASSUME QueueInv, Roles, NEW t \in Workers \union Producers,
         QueueStep(t) \/ SpuriousWake(t), ~PushDone(t), ~PopTake(t), ~PopNull(t)
  PROVE  /\ UNCHANGED <<que, reg>>
         /\ \A u \in Workers \union Producers :
              /\ pc[u] \in PushStates <=> pc'[u] \in PushStates
              /\ pc[u] \in PopStates <=> pc'[u] \in PopStates
              /\ pc[u] = "out" <=> pc'[u] = "out"
<1> USE ThreadPoolAssumption
    DEF QueueInv, TQTypeOK, QueueStates, PushStates, PopStates
<1>1. CASE Lock(t)
  BY <1>1, AfterLockValues DEF Lock
<1>2. CASE PushSleep(t)
  BY <1>2 DEF PushSleep, Sleep
<1>3. CASE PopTest(t)
  BY <1>3 DEF PopTest
<1>4. CASE PopSleep(t)
  BY <1>4 DEF PopSleep, Sleep
<1>5. CASE SpuriousWake(t)
  BY <1>5 DEF SpuriousWake
<1>6. ~WakeupNotify(t)
  BY DEF WakeupNotify, Roles
<1> QED
  BY <1>1, <1>2, <1>3, <1>4, <1>5, <1>6 DEF QueueStep

\* The three that end a call: the thread is out, and at most one other has been
\* woken inside its call.
LEMMA EndOfCall ==
  ASSUME QueueInv, Roles, NEW t \in Workers \union Producers,
         PushDone(t) \/ PopTake(t) \/ PopNull(t)
  PROVE  /\ pc'[t] = "out"
         /\ \A u \in (Workers \union Producers) \ {t} :
              /\ pc[u] \in PushStates <=> pc'[u] \in PushStates
              /\ pc[u] \in PopStates <=> pc'[u] \in PopStates
              /\ pc[u] = "out" <=> pc'[u] = "out"
              /\ reg'[u] = reg[u]
         /\ PushDone(t) => t \in Producers
         /\ PopTake(t) \/ PopNull(t) => t \in Workers
<1> USE ThreadPoolAssumption
    DEF QueueInv, TQTypeOK, QueueStates, PushStates, PopStates
<1>1. CASE PushDone(t)
  BY <1>1 DEF PushDone, LeaveAndNotify, ThreadsAt, Roles, PopTake, PopNull
<1>2. CASE PopTake(t)
  BY <1>2 DEF PopTake, LeaveAndNotify, ThreadsAt, Roles, PushDone
<1>3. CASE PopNull(t)
  BY <1>3 DEF PopNull, Roles, PushDone
<1> QED
  BY <1>1, <1>2, <1>3

LEMMA StepRoles == QueueInv /\ TypeOK /\ Roles /\ [Next]_vars => Roles'
<1> SUFFICES ASSUME QueueInv, TypeOK, Roles, [Next]_vars PROVE Roles'
  OBVIOUS
<1>a. stage \in [Workers -> WorkerStages]
  BY DEF TypeOK
<1> USE <1>a, ThreadPoolAssumption
<1>1. ASSUME NEW w \in Workers, StartThread(w) \/ LoopExit(w) PROVE Roles'
  BY <1>1 DEF StartThread, LoopExit, tqVars, Roles
<1>2. ASSUME NEW w \in Workers, LoopGetTask(w) PROVE Roles'
  BY <1>2 DEF LoopGetTask, CallPop, Roles, PushStates, PopStates, QueueInv, TQTypeOK
<1>3. ASSUME NEW w \in Workers, RunTask(w) \/ SkipNull(w) PROVE Roles'
  BY <1>3 DEF RunTask, SkipNull, tqVars, Roles
<1>4. ASSUME NEW p \in Producers, NEW x \in Tasks, AddTask(p, x) PROVE Roles'
  BY <1>4 DEF AddTask, CallPush, Roles, PushStates, PopStates, QueueInv, TQTypeOK
<1>5. ASSUME NEW t \in Workers \union Producers, InQueue(t) PROVE Roles'
  <2>1. UNCHANGED stage /\ (QueueStep(t) \/ SpuriousWake(t))
    BY <1>5 DEF InQueue
  <2>2. CASE ~PushDone(t) /\ ~PopTake(t) /\ ~PopNull(t)
    BY <2>1, <2>2, QuietInQueue, QuietRoles
  <2>3. CASE PushDone(t) \/ PopTake(t) \/ PopNull(t)
    BY <2>1, <2>3, EndOfCall DEF Roles, PushStates, PopStates
  <2> QED
    BY <2>2, <2>3
<1>6. CASE StopCall \/ StopPoll \/ StopSetExit \/ StopReturn
  BY <1>6 DEF StopCall, StopPoll, StopSetExit, StopReturn, tqVars, Roles
<1>7. ASSUME NEW w \in Workers, StopJoin(w) PROVE Roles'
  BY <1>7 DEF StopJoin, tqVars, Roles
<1>8. CASE StopWakeup
  BY <1>8 DEF StopWakeup, WakeupFlag, Roles, QueueInv, TQTypeOK
<1>9. CASE StopNotify
  BY <1>9 DEF StopNotify, WakeupNotify, Roles, PushStates, PopStates
<1>10. CASE UNCHANGED vars
  BY <1>10 DEF vars, tqVars, poolVars, Roles
<1> QED
  BY <1>1, <1>2, <1>3, <1>4, <1>5, <1>6, <1>7, <1>8, <1>9, <1>10
  DEF Next, WorkerStep, StopStep
------------------------------------------------------------------------------
\* The places of a task are finite sets.
LEMMA PlacesFinite ==
  ASSUME QueueInv, NEW x
  PROVE  IsFiniteSet(Pushing(x)) /\ IsFiniteSet(Queued(x)) /\ IsFiniteSet(Holding(x))
<1>1. Pushing(x) \subseteq Threads /\ Holding(x) \subseteq Threads
  BY ThreadPoolAssumption DEF Pushing, Holding
<1>2. Queued(x) \subseteq 1 .. Len(que) /\ Len(que) \in Nat
  BY DEF Queued, QueueInv, TQTypeOK
<1>3. IsFiniteSet(1 .. Len(que))
  BY <1>2, FS_Interval
<1> QED
  BY <1>1, <1>2, <1>3, FS_Subset, TaskQueueAssumption

\* One more element, or one less.
LEMMA Counts ==
  ASSUME NEW A, NEW B, IsFiniteSet(A)
  PROVE  /\ Cardinality(A) \in Nat
         /\ \A t : t \notin A /\ B = A \union {t} => Cardinality(B) = Cardinality(A) + 1
         /\ \A t \in A : B = A \ {t} => Cardinality(B) = Cardinality(A) - 1
BY FS_CardinalityType, FS_AddElement, FS_RemoveElement

\* How many places a task is in, with the times it was executed.
Places(x) == Cardinality(Pushing(x)) + Cardinality(Queued(x)) + Cardinality(Holding(x))
               + runs[x]
Right(x) == Places(x) = IF x \in asked THEN 1 ELSE 0

LEMMA RightIsOnePlace == OnePlace <=> \A x \in Tasks : Right(x)
BY DEF OnePlace, Right, Places

\* A task that a step leaves where it is.
Stays(x) == /\ Pushing(x)' = Pushing(x) /\ Queued(x)' = Queued(x)
            /\ Holding(x)' = Holding(x) /\ runs'[x] = runs[x]
            /\ x \in asked' <=> x \in asked

LEMMA StaysRight == ASSUME NEW x, Right(x), Stays(x) PROVE Right(x)'
BY DEF Right, Places, Stays

\* A step that leaves the queue and what threads carry alone leaves every task.
LEMMA QuietStays ==
  ASSUME UNCHANGED <<que, runs, asked>>,
         \A p \in Producers : /\ pc[p] \in PushStates <=> pc'[p] \in PushStates
                              /\ reg'[p] = reg[p],
         \A w \in Workers :
           \/ /\ pc'[w] = "out" <=> pc[w] = "out"
              /\ stage'[w] = "getTask" <=> stage[w] = "getTask"
              /\ reg'[w] = reg[w]
           \/ /\ stage[w] # "getTask" \/ pc[w] # "out" \/ reg[w] = NoTask
              /\ stage'[w] # "getTask" \/ pc'[w] # "out" \/ reg'[w] = NoTask,
         NEW x \in Tasks
  PROVE  Stays(x)
<1>1. x # NoTask
  BY TaskQueueAssumption
<1> QED
  BY <1>1 DEF Stays, Pushing, Queued, Holding

\* A task is appended: it leaves the producer for the queue.
LEMMA PushRight ==
  ASSUME QueueInv, QueueInv', TypeOK, Roles, NEW t \in Workers \union Producers,
         PushDone(t), UNCHANGED <<stage, runs, asked>>, NEW x \in Tasks, Right(x)
  PROVE  Right(x)'
<1> USE ThreadPoolAssumption
<1>1. /\ t \in Producers /\ pc[t] \in PushStates /\ pc'[t] = "out"
      /\ que' = Append(que, reg[t]) /\ reg' = reg
      /\ \A u \in (Workers \union Producers) \ {t} :
           /\ pc[u] \in PushStates <=> pc'[u] \in PushStates
           /\ pc[u] = "out" <=> pc'[u] = "out"
  BY EndOfCall DEF PushDone, PushStates
<1>2. que \in Seq(Tasks) /\ reg[t] \in Tasks
  BY <1>1 DEF QueueInv, TQTypeOK
<1>3. Holding(x)' = Holding(x)
  BY <1>1 DEF Holding
<1>4. Pushing(x)' = IF x = reg[t] THEN Pushing(x) \ {t} ELSE Pushing(x)
  BY <1>1 DEF Pushing, PushStates
<1>5. Queued(x)' = IF x = reg[t] THEN Queued(x) \union {Len(que) + 1} ELSE Queued(x)
  BY <1>1, <1>2 DEF Queued
<1>6. IsFiniteSet(Pushing(x)) /\ IsFiniteSet(Queued(x)) /\ IsFiniteSet(Holding(x))
  BY PlacesFinite
<1>7. CASE x = reg[t]
  <2>1. t \in Pushing(x) /\ Len(que) + 1 \notin Queued(x)
    BY <1>1, <1>2, <1>7 DEF Pushing, Queued
  <2>2. Cardinality(Pushing(x)') = Cardinality(Pushing(x)) - 1
    BY <1>4, <1>6, <1>7, <2>1, Counts
  <2>3. Cardinality(Queued(x)') = Cardinality(Queued(x)) + 1
    BY <1>5, <1>6, <1>7, <2>1, Counts
  <2>4. /\ Cardinality(Pushing(x)) \in Nat /\ Cardinality(Queued(x)) \in Nat
        /\ Cardinality(Holding(x)) \in Nat /\ runs[x] \in Nat
    BY <1>6, Counts DEF TypeOK
  <2> QED
    BY <1>3, <2>2, <2>3, <2>4 DEF Right, Places
<1>8. CASE x # reg[t]
  BY <1>3, <1>4, <1>5, <1>8, StaysRight DEF Stays
<1> QED
  BY <1>7, <1>8

\* What is behind the front moves up by one.
LEMMA TailCounts ==
  ASSUME que \in Seq(Tasks), que # <<>>, que' = Tail(que), NEW x,
         IsFiniteSet(Queued(x))
  PROVE  Cardinality(Queued(x)') = IF x = Head(que) THEN Cardinality(Queued(x)) - 1
                                   ELSE Cardinality(Queued(x))
<1> DEFINE Behind == Queued(x) \ {1}
           f == [i \in Behind |-> i - 1]
<1>1. /\ DOMAIN que = 1 .. Len(que) /\ Len(que) \in Nat /\ Len(que) > 0
      /\ DOMAIN que' = 1 .. Len(que) - 1
      /\ \A i \in 1 .. Len(que) - 1 : que'[i] = que[i + 1]
  OBVIOUS
<1>2. Behind \subseteq 2 .. Len(que)
  BY <1>1 DEF Queued
<1>3. \A i \in Behind : i - 1 \in Queued(x)'
  BY <1>1, <1>2 DEF Queued
<1>4. \A j \in Queued(x)' : j + 1 \in Behind /\ f[j + 1] = j
  BY <1>1 DEF Queued
<1>5. f \in Bijection(Behind, Queued(x)')
  <2>1. f \in [Behind -> Queued(x)']
    BY <1>3
  <2>2. \A i, j \in Behind : f[i] = f[j] => i = j
    BY <1>2
  <2>3. \A j \in Queued(x)' : \E i \in Behind : f[i] = j
    BY <1>4
  <2>4. DOMAIN f = Behind
    OBVIOUS
  <2> HIDE DEF f, Behind
  <2> QED
    BY <2>1, <2>2, <2>3, <2>4 DEF Bijection, Injection, IsInjective, Surjection
<1>6. /\ IsFiniteSet(Behind)
      /\ Cardinality(Behind) = IF 1 \in Queued(x) THEN Cardinality(Queued(x)) - 1
                               ELSE Cardinality(Queued(x))
  BY FS_RemoveElement
<1>7. Cardinality(Queued(x)') = Cardinality(Behind)
  BY <1>5, <1>6, FS_Bijection DEF ExistsBijection
<1>8. 1 \in Queued(x) <=> x = Head(que)
  BY <1>1 DEF Queued
<1> QED
  BY <1>6, <1>7, <1>8

\* A task is taken from the front: it leaves the queue for the worker.
LEMMA TakeRight ==
  ASSUME QueueInv, TypeOK, Roles, NEW t \in Workers \union Producers,
         PopTake(t), UNCHANGED <<stage, runs, asked>>, NEW x \in Tasks, Right(x)
  PROVE  Right(x)'
<1> USE ThreadPoolAssumption
<1>1. /\ t \in Workers /\ pc[t] = "popTake" /\ pc'[t] = "out"
      /\ que # <<>> /\ que' = Tail(que)
      /\ \A u \in (Workers \union Producers) \ {t} :
           /\ pc[u] \in PushStates <=> pc'[u] \in PushStates
           /\ pc[u] = "out" <=> pc'[u] = "out"
           /\ reg'[u] = reg[u]
  BY EndOfCall DEF PopTake, QueueInv, FrontIsThere, Empty
<1>2. que \in Seq(Tasks) /\ reg'[t] = Head(que)
  BY DEF QueueInv, TQTypeOK, PopTake
<1>3. stage[t] = "getTask" /\ t \notin Holding(x)
  BY <1>1 DEF Roles, Holding
<1>4. Pushing(x)' = Pushing(x)
  BY <1>1 DEF Pushing
<1>5. Holding(x)' = IF x = Head(que) THEN Holding(x) \union {t} ELSE Holding(x)
  BY <1>1, <1>2, <1>3 DEF Holding
<1>6. IsFiniteSet(Pushing(x)) /\ IsFiniteSet(Queued(x)) /\ IsFiniteSet(Holding(x))
  BY PlacesFinite
<1>7. Cardinality(Queued(x)') = IF x = Head(que) THEN Cardinality(Queued(x)) - 1
                                ELSE Cardinality(Queued(x))
  BY <1>1, <1>2, <1>6, TailCounts
<1>8. Cardinality(Holding(x)') = IF x = Head(que) THEN Cardinality(Holding(x)) + 1
                                 ELSE Cardinality(Holding(x))
  BY <1>3, <1>5, <1>6, Counts
<1>9. /\ Cardinality(Pushing(x)) \in Nat /\ Cardinality(Queued(x)) \in Nat
      /\ Cardinality(Holding(x)) \in Nat /\ runs[x] \in Nat
  BY <1>6, Counts DEF TypeOK
<1> QED
  BY <1>4, <1>7, <1>8, <1>9 DEF Right, Places

\* A task is executed: it leaves the worker for good.
LEMMA RunRight ==
  ASSUME QueueInv, TypeOK, Roles, NEW w \in Workers, RunTask(w), NEW x \in Tasks, Right(x)
  PROVE  Right(x)'
<1> USE ThreadPoolAssumption
<1>1. /\ stage[w] = "getTask" /\ pc[w] = "out" /\ stage' = [stage EXCEPT ![w] = "loop"]
      /\ runs' = [runs EXCEPT ![reg[w]] = @ + 1]
      /\ UNCHANGED <<que, pc, reg, asked>>
  BY DEF RunTask, tqVars
<1>2. Pushing(x)' = Pushing(x) /\ Queued(x)' = Queued(x)
  BY <1>1 DEF Pushing, Queued
<1>3. Holding(x)' = IF x = reg[w] THEN Holding(x) \ {w} ELSE Holding(x)
  BY <1>1 DEF Holding, TypeOK
<1>4. runs'[x] = IF x = reg[w] THEN runs[x] + 1 ELSE runs[x]
  BY <1>1 DEF TypeOK
<1>5. IsFiniteSet(Pushing(x)) /\ IsFiniteSet(Queued(x)) /\ IsFiniteSet(Holding(x))
  BY PlacesFinite
<1>6. x = reg[w] => w \in Holding(x)
  BY <1>1 DEF Holding
<1>7. Cardinality(Holding(x)') = IF x = reg[w] THEN Cardinality(Holding(x)) - 1
                                 ELSE Cardinality(Holding(x))
  BY <1>3, <1>5, <1>6, Counts
<1>8. /\ Cardinality(Pushing(x)) \in Nat /\ Cardinality(Queued(x)) \in Nat
      /\ Cardinality(Holding(x)) \in Nat /\ runs[x] \in Nat
  BY <1>5, Counts DEF TypeOK
<1> QED
  BY <1>1, <1>2, <1>4, <1>7, <1>8 DEF Right, Places

\* A task is handed to addTask, for the first time: it is with the producer.
LEMMA AddRight ==
  ASSUME QueueInv, TypeOK, Roles, NEW p \in Producers, NEW y \in Tasks, AddTask(p, y),
         NEW x \in Tasks, Right(x)
  PROVE  Right(x)'
<1> USE ThreadPoolAssumption
<1>1. /\ y \notin asked /\ asked' = asked \union {y} /\ pc[p] = "out"
      /\ pc' = [pc EXCEPT ![p] = "pushLock"] /\ reg' = [reg EXCEPT ![p] = y]
      /\ UNCHANGED <<que, stage, runs>>
  BY DEF AddTask, CallPush
<1>2. Queued(x)' = Queued(x) /\ Holding(x)' = Holding(x)
  BY <1>1 DEF Queued, Holding, QueueInv, TQTypeOK
<1>3. p \notin Pushing(x)
  BY <1>1 DEF Pushing, PushStates
<1>4. Pushing(x)' = IF x = y THEN Pushing(x) \union {p} ELSE Pushing(x)
  BY <1>1, <1>3 DEF Pushing, PushStates, QueueInv, TQTypeOK
<1>5. IsFiniteSet(Pushing(x)) /\ IsFiniteSet(Queued(x)) /\ IsFiniteSet(Holding(x))
  BY PlacesFinite
<1>6. Cardinality(Pushing(x)') = IF x = y THEN Cardinality(Pushing(x)) + 1
                                 ELSE Cardinality(Pushing(x))
  BY <1>3, <1>4, <1>5, Counts
<1>7. /\ Cardinality(Pushing(x)) \in Nat /\ Cardinality(Queued(x)) \in Nat
      /\ Cardinality(Holding(x)) \in Nat /\ runs[x] \in Nat
  BY <1>5, Counts DEF TypeOK
<1> QED
  BY <1>1, <1>2, <1>6, <1>7 DEF Right, Places

\* Every step keeps every task in one place.
LEMMA StepRight ==
  ASSUME QueueInv, QueueInv', TypeOK, Roles, [Next]_vars, NEW x \in Tasks, Right(x)
  PROVE  Right(x)'
<1>a. stage \in [Workers -> WorkerStages] /\ pc \in [Threads -> QueueStates]
      /\ reg \in [Threads -> Tasks \union {NoTask}]
  BY DEF TypeOK, QueueInv, TQTypeOK
<1> USE <1>a, ThreadPoolAssumption
<1>1. ASSUME NEW w \in Workers, StartThread(w) \/ LoopExit(w) PROVE Stays(x)
  BY <1>1, QuietStays DEF StartThread, LoopExit, tqVars
<1>2. ASSUME NEW w \in Workers, LoopGetTask(w) PROVE Stays(x)
  BY <1>2, QuietStays DEF LoopGetTask, CallPop
<1>3. ASSUME NEW w \in Workers, RunTask(w) PROVE Right(x)'
  BY <1>3, RunRight
<1>4. ASSUME NEW w \in Workers, SkipNull(w) PROVE Stays(x)
  BY <1>4, QuietStays DEF SkipNull, tqVars
<1>5. ASSUME NEW p \in Producers, NEW y \in Tasks, AddTask(p, y) PROVE Right(x)'
  BY <1>5, AddRight
<1>6. ASSUME NEW t \in Workers \union Producers, InQueue(t) PROVE Right(x)'
  <2>1. UNCHANGED <<stage, runs, asked>> /\ (QueueStep(t) \/ SpuriousWake(t))
    BY <1>6 DEF InQueue
  <2>2. CASE PushDone(t)
    BY <2>1, <2>2, PushRight
  <2>3. CASE PopTake(t)
    BY <2>1, <2>3, TakeRight
  <2>4. CASE PopNull(t)
    <3>1. t \in Workers /\ UNCHANGED <<que, reg>> /\ reg[t] = NoTask /\ pc' = [pc EXCEPT ![t] = "out"]
      BY <2>4, EndOfCall DEF PopNull, Roles, PopStates
    <3> QED
      BY <2>1, <3>1, QuietStays, StaysRight
  <2>5. CASE ~PushDone(t) /\ ~PopTake(t) /\ ~PopNull(t)
    BY <2>1, <2>5, QuietInQueue, QuietStays, StaysRight
  <2> QED
    BY <2>2, <2>3, <2>4, <2>5
<1>7. ASSUME StopCall \/ StopPoll \/ StopSetExit \/ StopReturn PROVE Stays(x)
  BY <1>7, QuietStays DEF StopCall, StopPoll, StopSetExit, StopReturn, tqVars
<1>8. ASSUME NEW w \in Workers, StopJoin(w) PROVE Stays(x)
  BY <1>8, QuietStays DEF StopJoin, tqVars
<1>9. ASSUME StopWakeup PROVE Stays(x)
  BY <1>9, QuietStays DEF StopWakeup, WakeupFlag
<1>10. ASSUME StopNotify PROVE Stays(x)
  BY <1>10, QuietStays DEF StopNotify, WakeupNotify, PushStates
<1>11. ASSUME UNCHANGED vars PROVE Stays(x)
  BY <1>11, QuietStays DEF vars, tqVars, poolVars
<1> QED
  BY <1>1, <1>2, <1>3, <1>4, <1>5, <1>6, <1>7, <1>8, <1>9, <1>10, <1>11, StaysRight
  DEF Next, WorkerStep, StopStep

LEMMA InitOnePlace == Init => OnePlace
<1> SUFFICES ASSUME Init, NEW x \in Tasks PROVE Right(x)
  BY RightIsOnePlace
<1>1. Pushing(x) = {} /\ Queued(x) = {} /\ Holding(x) = {}
  BY ThreadPoolAssumption DEF Init, TQInit, Pushing, PushStates, Queued, Holding
<1> QED
  BY <1>1, FS_EmptySet DEF Right, Places, Init

LEMMA StepOnePlace ==
  QueueInv /\ QueueInv' /\ TypeOK /\ Roles /\ OnePlace /\ [Next]_vars => OnePlace'
<1>1. ASSUME \A x \in Tasks : Right(x)' PROVE OnePlace'
  BY <1>1 DEF OnePlace, Right, Places
<1> QED
  BY <1>1, StepRight, RightIsOnePlace
------------------------------------------------------------------------------
\* stop() begins when start() is through; from then on the threads it has to
\* join are those that are in their loop, and those that have just left it.
Joins == /\ stopping # "idle" => \A w \in Workers : stage[w] # "created"
         /\ \A w \in Workers : stage[w] \in {"loop", "getTask"} => w \in running
         /\ stopping = "done" => running = {}

LEMMA InitJoins == Init => Joins
BY DEF Init, Joins

LEMMA StepJoins == TypeOK /\ Joins /\ [Next]_vars => Joins'
<1> SUFFICES ASSUME TypeOK, Joins, [Next]_vars PROVE Joins'
  OBVIOUS
<1> USE DEF Joins, TypeOK, WorkerStages
<1>1. ASSUME NEW w \in Workers, StartThread(w) PROVE Joins'
  BY <1>1 DEF StartThread
<1>2. ASSUME NEW w \in Workers, WorkerStep(w) PROVE Joins'
  BY <1>2 DEF WorkerStep, LoopGetTask, LoopExit, RunTask, SkipNull
<1>3. ASSUME NEW p \in Producers, NEW x \in Tasks, AddTask(p, x) PROVE Joins'
  BY <1>3 DEF AddTask
<1>4. ASSUME NEW t \in Workers \union Producers, InQueue(t) PROVE Joins'
  BY <1>4 DEF InQueue
<1>5. CASE StopCall
  BY <1>5 DEF StopCall, Started
<1>6. CASE StopPoll \/ StopSetExit \/ StopWakeup \/ StopNotify \/ StopReturn
  BY <1>6 DEF StopPoll, StopSetExit, StopWakeup, StopNotify, StopReturn
<1>7. ASSUME NEW w \in Workers, StopJoin(w) PROVE Joins'
  BY <1>7 DEF StopJoin
<1>8. CASE UNCHANGED vars
  BY <1>8 DEF vars, poolVars
<1> QED
  BY <1>1, <1>2, <1>3, <1>4, <1>5, <1>6, <1>7, <1>8 DEF Next, StopStep

\* A task that is in one place, when nobody is left to hold it and everything
\* that is queued is late, has been executed or is still with its producer.
LEMMA JoinedIsDrained ==
  ASSUME QueueInv, PoolInv, OnePlace, Joins PROVE StopDrains
<1> SUFFICES ASSUME stopping = "done" PROVE
      /\ \A w \in Workers : stage[w] \in {"exited", "failed"}
      /\ \A x \in asked \ late : runs[x] = 1 \/ Pushing(x) # {}
  BY DEF StopDrains
<1>1. \A w \in Workers : stage[w] \in {"exited", "failed"}
  BY DEF Joins, PoolInv, TypeOK, WorkerStages
<1>2. ASSUME NEW x \in asked \ late, Pushing(x) = {} PROVE runs[x] = 1
  <2>1. x \in Tasks /\ runs[x] \in Nat
    BY DEF PoolInv, TypeOK
  <2>2. Queued(x) = {}
    BY DEF PoolInv, ExitOrder, Queued
  <2>3. Holding(x) = {}
    BY <1>1 DEF Holding
  <2>4. Places(x) = 1
    BY <2>1, RightIsOnePlace DEF Right
  <2> QED
    BY <1>2, <2>1, <2>2, <2>3, <2>4, FS_EmptySet DEF Places
<1> QED
  BY <1>1, <1>2

TaskInv == Roles /\ OnePlace /\ Joins

\* Roles, places and joins together are an invariant of the pool.
THEOREM PoolTaskInvariant == Spec => []TaskInv
<1>1. Init => TaskInv
  BY InitRoles, InitOnePlace, InitJoins DEF TaskInv
<1>2. QueueInv /\ QueueInv' /\ TypeOK /\ TaskInv /\ [Next]_vars => TaskInv'
  BY StepRoles, StepOnePlace, StepJoins DEF TaskInv
<1> QED
  BY <1>1, <1>2, PoolUsesQueue, QueueInvariant, PoolTypeCorrect, PTL DEF Spec

\* From addTask to its end, a task is in one place and executed at most once,
\* with any number of workers and producers and a queue of any size.
THEOREM TaskInOnePlace == Spec => []OnePlace
<1>1. TaskInv => OnePlace
  BY DEF TaskInv
<1> QED
  BY <1>1, PoolTaskInvariant, PTL

\* When stop() has returned, no worker is left, and every task that had been
\* added when it last saw the queue empty has been executed.
THEOREM StopLeavesNothing == Spec => []StopDrains
<1>1. QueueInv /\ PoolInv /\ TaskInv => StopDrains
  BY JoinedIsDrained DEF TaskInv
<1> QED
  BY <1>1, PoolTaskInvariant, PoolInvariant, PoolUsesQueue, QueueInvariant, PTL
==============================================================================
