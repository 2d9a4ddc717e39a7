------------------------------ MODULE TaskQueue ------------------------------
(***************************************************************************)
(* Class TaskQueue (tcppart/TaskQueue.cc) over MutexLock and Condition:    *)
(* the bounded queue between the event loop, which pushes, and the worker  *)
(* threads, which pop.                                                     *)
(*                                                                         *)
(* pc[t] is where thread t stands inside a call.  A thread that holds      *)
(* _mutex keeps every other push and pop out, so the code from one look at *)
(* the shared state to the next is one step.  wakeup() takes no mutex: it  *)
(* is two steps that interleave with everything, which is why a pop that   *)
(* has decided to sleep ("popSleep") is a state apart from one that sleeps *)
(* ("popWait").  A thread is in the wait set of _notFull while its pc is   *)
(* "pushWait" and in that of _notEmpty while it is "popWait".              *)
(***************************************************************************)
EXTENDS Naturals, Sequences, FiniteSets

CONSTANTS Threads,    \* the threads that may call the queue
          Tasks,      \* the tasks (ElemType values other than nullptr)
          QueSize,    \* _queSize
          NoThread,   \* the owner of a mutex nobody holds
          NoTask      \* nullptr, what pop() returns after wakeup()

ASSUME TaskQueueAssumption == /\ IsFiniteSet(Threads)
                              /\ QueSize \in Nat
                              /\ NoThread \notin Threads
                              /\ NoTask \notin Tasks

VARIABLES que,     \* _que, front first
          flag,    \* _flag: TRUE until wakeup()
          owner,   \* the thread that holds _mutex
          pc,      \* where each thread is
          reg      \* the task a thread pushes, or the last one pop() gave it

tqVars == <<que, flag, owner, pc, reg>>

PushStates == {"pushLock", "pushTest", "pushWait", "pushWake"}
PopStates == {"popLock", "popTest", "popSleep", "popWait", "popWake", "popTake"}
QueueStates == PushStates \union PopStates \union {"out", "notify"}

\* The states in which a thread holds _mutex.
Critical == {"pushTest", "popTest", "popSleep", "popTake"}

ThreadsAt(S) == {t \in Threads : pc[t] \in S}

\* Mutant: full one task too late.
FullTooLate == Len(que) = QueSize + 1
Full == Len(que) = QueSize
Empty == que = <<>>

TQInit == /\ que = <<>>
          /\ flag = TRUE
          /\ owner = NoThread
          /\ pc = [t \in Threads |-> "out"]
          /\ reg = [t \in Threads |-> NoTask]
------------------------------------------------------------------------------
\* Mutant: pop() looks at the queue with if instead of while.
AfterLockIf == [pushLock |-> "pushTest", pushWake |-> "pushTest",
                popLock |-> "popTest", popWake |-> "popTake"]

\* MutexLock::lock and pthread_cond_wait's return: wait for the mutex, take it.
AfterLock == [pushLock |-> "pushTest", pushWake |-> "pushTest",
              popLock |-> "popTest", popWake |-> "popTest"]

Lock(t) == /\ pc[t] \in DOMAIN AfterLock
           /\ owner = NoThread
           /\ owner' = t
           /\ pc' = [pc EXCEPT ![t] = AfterLock[pc[t]]]
           /\ UNCHANGED <<que, flag, reg>>

\* Mutant: the thread goes to sleep with the mutex.
SleepLocked(t, asleep) == /\ pc' = [pc EXCEPT ![t] = asleep]
                          /\ UNCHANGED <<que, flag, owner, reg>>

\* Condition::wait: leave the mutex and enter the wait set in one step.
Sleep(t, asleep) == /\ owner' = NoThread
                    /\ pc' = [pc EXCEPT ![t] = asleep]
                    /\ UNCHANGED <<que, flag, reg>>

\* Mutant: nobody is notified.
LeaveSilently(t, asleep, awake) == /\ owner' = NoThread
                                   /\ pc' = [pc EXCEPT ![t] = "out"]

\* Condition::notify as thread t leaves the call: if anyone is in the wait
\* set, one of its threads (any one) goes for the mutex again.
LeaveAndNotify(t, asleep, awake) ==
  /\ owner' = NoThread
  /\ \/ /\ ThreadsAt({asleep}) = {}
        /\ pc' = [pc EXCEPT ![t] = "out"]
     \/ \E u \in ThreadsAt({asleep}) :
           pc' = [pc EXCEPT ![t] = "out", ![u] = awake]

\* pthread_cond_wait may return without a notification.
SpuriousWake(t) == /\ \/ /\ pc[t] = "pushWait"
                         /\ pc' = [pc EXCEPT ![t] = "pushWake"]
                      \/ /\ pc[t] = "popWait"
                         /\ pc' = [pc EXCEPT ![t] = "popWake"]
                   /\ UNCHANGED <<que, flag, owner, reg>>
------------------------------------------------------------------------------
\* push(): while full, wait; then append the task and notify one consumer.
CallPush(t, x) == /\ pc[t] = "out"
                  /\ pc' = [pc EXCEPT ![t] = "pushLock"]
                  /\ reg' = [reg EXCEPT ![t] = x]
                  /\ UNCHANGED <<que, flag, owner>>

PushSleep(t) == /\ pc[t] = "pushTest"
                /\ Full
                /\ Sleep(t, "pushWait")

\* Mutant: push() appends a task that was moved from before.
PushDoneMoved(t) == /\ pc[t] = "pushTest"
                    /\ ~Full
                    /\ que' = Append(que, NoTask)
                    /\ LeaveAndNotify(t, "popWait", "popWake")
                    /\ UNCHANGED <<flag, reg>>

PushDone(t) == /\ pc[t] = "pushTest"
               /\ ~Full
               /\ que' = Append(que, reg[t])
               /\ LeaveAndNotify(t, "popWait", "popWake")
               /\ UNCHANGED <<flag, reg>>

\* pop(): the while condition reads _flag only when the queue is empty, and
\* _flag is read again after the loop.
CallPop(t) == /\ pc[t] = "out"
              /\ pc' = [pc EXCEPT ![t] = "popLock"]
              /\ reg' = [reg EXCEPT ![t] = NoTask]
              /\ UNCHANGED <<que, flag, owner>>

PopTest(t) == /\ pc[t] = "popTest"
              /\ pc' = [pc EXCEPT ![t] = IF Empty /\ flag THEN "popSleep"
                                                          ELSE "popTake"]
              /\ UNCHANGED <<que, flag, owner, reg>>

PopSleep(t) == /\ pc[t] = "popSleep"
               /\ Sleep(t, "popWait")

\* Mutant: pop() forgets _que.pop().
PopTakeCopy(t) == /\ pc[t] = "popTake"
                  /\ flag
                  /\ reg' = [reg EXCEPT ![t] = Head(que)]
                  /\ LeaveAndNotify(t, "pushWait", "pushWake")
                  /\ UNCHANGED <<que, flag>>

PopTake(t) == /\ pc[t] = "popTake"
              /\ flag
              /\ reg' = [reg EXCEPT ![t] = Head(que)]
              /\ que' = Tail(que)
              /\ LeaveAndNotify(t, "pushWait", "pushWake")
              /\ UNCHANGED flag

PopNull(t) == /\ pc[t] = "popTake"
              /\ ~flag
              /\ owner' = NoThread
              /\ pc' = [pc EXCEPT ![t] = "out"]
              /\ UNCHANGED <<que, flag, reg>>

\* wakeup(): clear _flag, then wake every thread in the wait set of _notEmpty;
\* neither step holds the mutex.
WakeupFlag(t) == /\ pc[t] = "out"
                 /\ flag' = FALSE
                 /\ pc' = [pc EXCEPT ![t] = "notify"]
                 /\ UNCHANGED <<que, owner, reg>>

WakeupNotify(t) == /\ pc[t] = "notify"
                   /\ pc' = [u \in Threads |->
                               IF u = t THEN "out"
                               ELSE IF pc[u] = "popWait" THEN "popWake"
                                                         ELSE pc[u]]
                   /\ UNCHANGED <<que, flag, owner, reg>>
------------------------------------------------------------------------------
\* The steps a thread takes inside a call, and the calls themselves.
QueueStep(t) == \/ Lock(t)
                \/ PushSleep(t)
                \/ PushDone(t)
                \/ PopTest(t)
                \/ PopSleep(t)
                \/ PopTake(t)
                \/ PopNull(t)
                \/ WakeupNotify(t)

QueueCall(t) == \/ CallPop(t)
                \/ WakeupFlag(t)
                \/ \E x \in Tasks : CallPush(t, x)

TQNext == \E t \in Threads : QueueStep(t) \/ QueueCall(t) \/ SpuriousWake(t)

TQSpec == TQInit /\ [][TQNext]_tqVars
------------------------------------------------------------------------------
\* Type invariant of the queue; a thread inside push() carries a task.
TQTypeOK == /\ que \in Seq(Tasks)
            /\ flag \in BOOLEAN
            /\ owner \in Threads \union {NoThread}
            /\ pc \in [Threads -> QueueStates]
            /\ reg \in [Threads -> Tasks \union {NoTask}]
            /\ \A t \in Threads : pc[t] \in PushStates => reg[t] \in Tasks

\* Mutual exclusion: the owner of _mutex, and nobody else, stands between a
\* lock and the matching unlock; waiting on a condition really gives it up.
MutexHeld == \A t \in Threads : pc[t] \in Critical <=> owner = t

\* The queue never exceeds _queSize, although full() tests for equality only:
\* one push too many and it would never be full again.
WithinCapacity == Len(que) <= QueSize

\* pop() calls front() on a queue that holds something: the task it saw (or
\* the wakeup it saw) is still there when it reads _flag the second time.
FrontIsThere == \A t \in Threads : pc[t] = "popTake" /\ flag => ~Empty

\* A consumer about to sleep has seen the queue empty, and it still is.
SleepsOnEmpty == \A t \in Threads : pc[t] = "popSleep" => Empty

\* The threads that will still look at the queue before they sleep.
ActivePops == ThreadsAt({"popLock", "popWake", "popTest", "popTake"})
ActivePushes == ThreadsAt({"pushLock", "pushWake", "pushTest"})

\* No lost wakeup for consumers: while one sleeps, each queued task has a
\* consumer of its own on the way to it.
NoStrandedPop == flag /\ ThreadsAt({"popWait"}) # {}
                   => Len(que) <= Cardinality(ActivePops)

\* No lost wakeup for producers: while one sleeps, each free slot has a
\* producer of its own on the way to it.
NoStrandedPush == ThreadsAt({"pushWait"}) # {}
                    => QueSize <= Len(que) + Cardinality(ActivePushes)

\* The part of the invariant that is inductive without counting threads.
QueueInv == /\ TQTypeOK
            /\ MutexHeld
            /\ WithinCapacity
            /\ FrontIsThere
            /\ SleepsOnEmpty
------------------------------------------------------------------------------
\* The promise: a call is pending until the step that answers it.
PendingCall == [t \in Threads |->
                  IF pc[t] \in PushStates THEN "put"
                  ELSE IF pc[t] \in PopStates THEN "take" ELSE "none"]

Buffer == INSTANCE BoundedBuffer
            WITH buf <- que, open <- flag, call <- PendingCall, val <- reg,
                 Capacity <- QueSize

\* TaskQueue implements the bounded FIFO buffer: every answer of push() and
\* pop() is one atomic effect on the buffer, in the order of the effects.
ImplementsBuffer == Buffer!Spec
==============================================================================
