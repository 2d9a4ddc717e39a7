--------------------------- MODULE TaskQueueProofs ---------------------------
(***************************************************************************)
(* What TLC checks of TaskQueue for a few threads and slots, proved for    *)
(* every finite set of threads, every set of tasks and every queue size.   *)
(***************************************************************************)
EXTENDS TaskQueue, FiniteSetTheorems, SequenceTheorems, TLAPS

\* Lock moves a thread from before the mutex to the test that follows it.
LEMMA AfterLockValues ==
  /\ DOMAIN AfterLock = {"pushLock", "pushWake", "popLock", "popWake"}
  /\ AfterLock["pushLock"] = "pushTest" /\ AfterLock["pushWake"] = "pushTest"
  /\ AfterLock["popLock"] = "popTest" /\ AfterLock["popWake"] = "popTest"
BY DEF AfterLock

LEMMA InitQueueInv == TQInit => QueueInv
<1> SUFFICES ASSUME TQInit PROVE QueueInv
  OBVIOUS
<1> USE DEF TQInit
<1>1. TQTypeOK
  BY DEF TQTypeOK, QueueStates, PushStates
<1>2. MutexHeld /\ FrontIsThere /\ SleepsOnEmpty
  BY TaskQueueAssumption DEF MutexHeld, FrontIsThere, SleepsOnEmpty, Critical
<1>3. WithinCapacity
  BY TaskQueueAssumption DEF WithinCapacity
<1> QED
  BY <1>1, <1>2, <1>3 DEF QueueInv

\* Every step of the queue keeps QueueInv, one step of the proof per action.
LEMMA StepQueueInv == QueueInv /\ [TQNext]_tqVars => QueueInv'
<1> SUFFICES ASSUME QueueInv, [TQNext]_tqVars PROVE QueueInv'
  OBVIOUS
<1> USE TaskQueueAssumption
    DEF QueueInv, TQTypeOK, QueueStates, PushStates, PopStates, MutexHeld, Critical,
        WithinCapacity, FrontIsThere, SleepsOnEmpty, Empty
<1>1. ASSUME NEW t \in Threads, Lock(t) PROVE QueueInv'
  BY <1>1, AfterLockValues DEF Lock
<1>2. ASSUME NEW t \in Threads, PushSleep(t) PROVE QueueInv'
  BY <1>2 DEF PushSleep, Sleep
<1>3. ASSUME NEW t \in Threads, PushDone(t) PROVE QueueInv'
  <2>1. /\ pc[t] = "pushTest"
        /\ que' = Append(que, reg[t]) /\ Len(que) # QueSize
        /\ owner' = NoThread
        /\ flag' = flag /\ reg' = reg
        /\ \/ pc' = [pc EXCEPT ![t] = "out"]
           \/ \E u \in Threads : /\ pc[u] = "popWait"
                                 /\ pc' = [pc EXCEPT ![t] = "out", ![u] = "popWake"]
    BY <1>3 DEF PushDone, LeaveAndNotify, ThreadsAt, Full
  <2>2. que' \in Seq(Tasks) /\ Len(que') = Len(que) + 1
    BY <2>1
  <2>3. \A u \in Threads : pc'[u] \in {pc[u], "out", "popWake"} /\ pc'[t] = "out"
    BY <2>1
  <2>4. TQTypeOK'
    BY <2>1, <2>2
  <2>5. MutexHeld' /\ FrontIsThere' /\ SleepsOnEmpty'
    BY <2>1, <2>3
  <2>6. WithinCapacity'
    BY <2>1, <2>2
  <2> QED
    BY <2>4, <2>5, <2>6
<1>4. ASSUME NEW t \in Threads, PopTest(t) PROVE QueueInv'
  BY <1>4 DEF PopTest
<1>5. ASSUME NEW t \in Threads, PopSleep(t) PROVE QueueInv'
  BY <1>5 DEF PopSleep, Sleep
<1>6. ASSUME NEW t \in Threads, PopTake(t) PROVE QueueInv'
  <2>1. /\ pc[t] = "popTake" /\ que # <<>>
        /\ que' = Tail(que)
        /\ reg' = [reg EXCEPT ![t] = Head(que)]
        /\ owner' = NoThread
        /\ flag' = flag
        /\ \/ pc' = [pc EXCEPT ![t] = "out"]
           \/ \E u \in Threads : /\ pc[u] = "pushWait"
                                 /\ pc' = [pc EXCEPT ![t] = "out", ![u] = "pushWake"]
    BY <1>6 DEF PopTake, LeaveAndNotify, ThreadsAt
  <2>2. /\ Head(que) \in Tasks
        /\ que' \in Seq(Tasks) /\ Len(que') = Len(que) - 1
    BY <2>1, HeadTailProperties
  <2>3. \A u \in Threads : pc'[u] \in {pc[u], "out", "pushWake"} /\ pc'[t] = "out"
    BY <2>1
  <2>4. TQTypeOK'
    BY <2>1, <2>2
  <2>5. MutexHeld' /\ FrontIsThere' /\ SleepsOnEmpty'
    BY <2>1, <2>3
  <2>6. WithinCapacity'
    BY <2>1, <2>2
  <2> QED
    BY <2>4, <2>5, <2>6
<1>7. ASSUME NEW t \in Threads, PopNull(t) PROVE QueueInv'
  BY <1>7 DEF PopNull
<1>8. ASSUME NEW t \in Threads, WakeupNotify(t) PROVE QueueInv'
  BY <1>8 DEF WakeupNotify
<1>9. ASSUME NEW t \in Threads, QueueCall(t) PROVE QueueInv'
  <2>1. CASE CallPop(t)
    BY <2>1 DEF CallPop
  <2>2. CASE WakeupFlag(t)
    BY <2>2 DEF WakeupFlag
  <2>3. ASSUME NEW x \in Tasks, CallPush(t, x) PROVE QueueInv'
    BY <2>3 DEF CallPush
  <2> QED
    BY <1>9, <2>1, <2>2, <2>3 DEF QueueCall
<1>10. ASSUME NEW t \in Threads, SpuriousWake(t) PROVE QueueInv'
  BY <1>10 DEF SpuriousWake
<1>11. CASE UNCHANGED tqVars
  BY <1>11 DEF tqVars
<1> QED
  BY <1>1, <1>2, <1>3, <1>4, <1>5, <1>6, <1>7, <1>8, <1>9, <1>10, <1>11
  DEF TQNext, QueueStep
------------------------------------------------------------------------------
\* A set of threads is finite, and growing it does not lower its count.
LEMMA ThreadCounts ==
  ASSUME NEW A \in SUBSET Threads, NEW B \in SUBSET Threads
  PROVE  /\ Cardinality(A) \in Nat
         /\ A \subseteq B => Cardinality(A) <= Cardinality(B)
         /\ \A t \in A : B = A \ {t} => Cardinality(B) = Cardinality(A) - 1
         /\ \A t \in B : A = B \ {t} => Cardinality(B) = Cardinality(A) + 1
<1>1. IsFiniteSet(A) /\ IsFiniteSet(B)
  BY FS_Subset, TaskQueueAssumption
<1>2. Cardinality(A) \in Nat /\ Cardinality(B) \in Nat
  BY <1>1, FS_CardinalityType
<1>3. A \subseteq B => Cardinality(A) <= Cardinality(B)
  BY <1>1, FS_Subset
<1>4. \A t \in A : B = A \ {t} => Cardinality(B) = Cardinality(A) - 1
  BY <1>1, FS_RemoveElement
<1>5. \A t \in B : A = B \ {t} => Cardinality(A) = Cardinality(B) - 1
  BY <1>1, FS_RemoveElement
<1> QED
  BY <1>2, <1>3, <1>4, <1>5

\* Every step keeps NoStrandedPop: a push that meets a sleeping consumer sends
\* one on its way, and a consumer that gives up has seen an empty queue.
LEMMA StepNoStrandedPop ==
  QueueInv /\ NoStrandedPop /\ [TQNext]_tqVars => NoStrandedPop'
<1> SUFFICES ASSUME QueueInv, NoStrandedPop, [TQNext]_tqVars,
                    flag', ThreadsAt({"popWait"})' # {}
             PROVE  Len(que') <= Cardinality(ActivePops')
  BY DEF NoStrandedPop
<1> USE TaskQueueAssumption
    DEF QueueInv, TQTypeOK, QueueStates, PushStates, PopStates, SleepsOnEmpty, Empty
<1>1. ActivePops \in SUBSET Threads /\ ActivePops' \in SUBSET Threads
  BY DEF ActivePops, ThreadsAt
<1>2. Cardinality(ActivePops) \in Nat /\ Cardinality(ActivePops') \in Nat
  BY <1>1, ThreadCounts
<1>3. ASSUME flag, que' = que, ActivePops \subseteq ActivePops',
             ThreadsAt({"popWait"}) # {}
      PROVE  Len(que') <= Cardinality(ActivePops')
  <2>1. Cardinality(ActivePops) <= Cardinality(ActivePops')
    BY <1>1, <1>3, ThreadCounts
  <2>2. Len(que) \in Nat /\ Len(que) <= Cardinality(ActivePops)
    BY <1>3 DEF NoStrandedPop
  <2> QED
    BY <1>2, <1>3, <2>1, <2>2
<1>4. ASSUME que' = <<>> PROVE Len(que') <= Cardinality(ActivePops')
  BY <1>2, <1>4
<1>5. ASSUME NEW t \in Threads, Lock(t)
      PROVE  Len(que') <= Cardinality(ActivePops')
  BY <1>3, <1>5, AfterLockValues DEF Lock, ActivePops, ThreadsAt
<1>6. ASSUME NEW t \in Threads, PushSleep(t)
      PROVE  Len(que') <= Cardinality(ActivePops')
  BY <1>3, <1>6 DEF PushSleep, Sleep, ActivePops, ThreadsAt
<1>7. ASSUME NEW t \in Threads, PushDone(t)
      PROVE  Len(que') <= Cardinality(ActivePops')
  <2>1. PICK u \in Threads : /\ pc[u] = "popWait"
                             /\ pc' = [pc EXCEPT ![t] = "out", ![u] = "popWake"]
    BY <1>7 DEF PushDone, LeaveAndNotify, ThreadsAt
  <2>2. u \in ActivePops' /\ ActivePops = ActivePops' \ {u}
    BY <1>7, <2>1 DEF PushDone, ActivePops, ThreadsAt
  <2>3. Cardinality(ActivePops') = Cardinality(ActivePops) + 1
    BY <1>1, <2>2, ThreadCounts
  <2>4. Len(que') = Len(que) + 1 /\ Len(que) \in Nat
    BY <1>7 DEF PushDone
  <2>5. Len(que) <= Cardinality(ActivePops)
    BY <1>7, <2>1 DEF PushDone, NoStrandedPop, ThreadsAt
  <2> QED
    BY <1>2, <2>3, <2>4, <2>5
<1>8. ASSUME NEW t \in Threads, PopTest(t)
      PROVE  Len(que') <= Cardinality(ActivePops')
  BY <1>3, <1>4, <1>8 DEF PopTest, ActivePops, ThreadsAt
<1>9. ASSUME NEW t \in Threads, PopSleep(t)
      PROVE  Len(que') <= Cardinality(ActivePops')
  BY <1>4, <1>9 DEF PopSleep, Sleep
<1>10. ASSUME NEW t \in Threads, PopTake(t)
       PROVE  Len(que') <= Cardinality(ActivePops')
  <2>1. \/ pc' = [pc EXCEPT ![t] = "out"]
        \/ \E u \in Threads : /\ pc[u] = "pushWait"
                              /\ pc' = [pc EXCEPT ![t] = "out", ![u] = "pushWake"]
    BY <1>10 DEF PopTake, LeaveAndNotify, ThreadsAt
  <2>2. t \in ActivePops /\ ActivePops' = ActivePops \ {t}
    BY <1>10, <2>1 DEF PopTake, ActivePops, ThreadsAt
  <2>3. Cardinality(ActivePops') = Cardinality(ActivePops) - 1
    BY <1>1, <2>2, ThreadCounts
  <2>4. Len(que') = Len(que) - 1 /\ Len(que) \in Nat
    BY <1>10, HeadTailProperties DEF PopTake, FrontIsThere
  <2>5. ThreadsAt({"popWait"}) # {}
    BY <1>10, <2>1 DEF PopTake, ThreadsAt
  <2>6. Len(que) <= Cardinality(ActivePops)
    BY <1>10, <2>5 DEF PopTake, NoStrandedPop
  <2> QED
    BY <1>2, <2>3, <2>4, <2>6
<1>11. ASSUME NEW t \in Threads, PopNull(t) \/ WakeupFlag(t)
       PROVE  FALSE
  BY <1>11 DEF PopNull, WakeupFlag
<1>12. ASSUME NEW t \in Threads, WakeupNotify(t)
       PROVE  FALSE
  BY <1>12 DEF WakeupNotify, ThreadsAt
<1>13. ASSUME NEW t \in Threads, CallPop(t)
       PROVE  Len(que') <= Cardinality(ActivePops')
  BY <1>3, <1>13 DEF CallPop, ActivePops, ThreadsAt
<1>14. ASSUME NEW t \in Threads, NEW x \in Tasks, CallPush(t, x)
       PROVE  Len(que') <= Cardinality(ActivePops')
  BY <1>3, <1>14 DEF CallPush, ActivePops, ThreadsAt
<1>15. ASSUME NEW t \in Threads, SpuriousWake(t)
       PROVE  Len(que') <= Cardinality(ActivePops')
  BY <1>3, <1>15 DEF SpuriousWake, ActivePops, ThreadsAt
<1>16. CASE UNCHANGED tqVars
  BY <1>3, <1>16 DEF tqVars, ActivePops, ThreadsAt
<1> QED
  BY <1>5, <1>6, <1>7, <1>8, <1>9, <1>10, <1>11, <1>12, <1>13, <1>14, <1>15, <1>16
  DEF TQNext, QueueStep, QueueCall

\* Every step keeps NoStrandedPush: a pop that meets a sleeping producer sends
\* one on its way, and a producer that gives up has seen a full queue.
LEMMA StepNoStrandedPush ==
  QueueInv /\ NoStrandedPush /\ [TQNext]_tqVars => NoStrandedPush'
<1> SUFFICES ASSUME QueueInv, NoStrandedPush, [TQNext]_tqVars,
                    ThreadsAt({"pushWait"})' # {}
             PROVE  QueSize <= Len(que') + Cardinality(ActivePushes')
  BY DEF NoStrandedPush
<1> USE TaskQueueAssumption
    DEF QueueInv, TQTypeOK, QueueStates, PushStates, PopStates
<1>1. ActivePushes \in SUBSET Threads /\ ActivePushes' \in SUBSET Threads
  BY DEF ActivePushes, ThreadsAt
<1>2. Cardinality(ActivePushes) \in Nat /\ Cardinality(ActivePushes') \in Nat
  BY <1>1, ThreadCounts
<1>3. ASSUME que' = que, ActivePushes \subseteq ActivePushes',
             ThreadsAt({"pushWait"}) # {}
      PROVE  QueSize <= Len(que') + Cardinality(ActivePushes')
  <2>1. Cardinality(ActivePushes) <= Cardinality(ActivePushes')
    BY <1>1, <1>3, ThreadCounts
  <2>2. Len(que) \in Nat /\ QueSize <= Len(que) + Cardinality(ActivePushes)
    BY <1>3 DEF NoStrandedPush
  <2> QED
    BY <1>2, <1>3, <2>1, <2>2
<1>4. ASSUME NEW t \in Threads, Lock(t)
      PROVE  QueSize <= Len(que') + Cardinality(ActivePushes')
  BY <1>3, <1>4, AfterLockValues DEF Lock, ActivePushes, ThreadsAt
<1>5. ASSUME NEW t \in Threads, PushSleep(t)
      PROVE  QueSize <= Len(que') + Cardinality(ActivePushes')
  <2>1. que' = que /\ Len(que) = QueSize
    BY <1>5 DEF PushSleep, Sleep, Full
  <2> QED
    BY <1>2, <2>1
<1>6. ASSUME NEW t \in Threads, PushDone(t)
      PROVE  QueSize <= Len(que') + Cardinality(ActivePushes')
  <2>1. \/ pc' = [pc EXCEPT ![t] = "out"]
        \/ \E u \in Threads : /\ pc[u] = "popWait"
                              /\ pc' = [pc EXCEPT ![t] = "out", ![u] = "popWake"]
    BY <1>6 DEF PushDone, LeaveAndNotify, ThreadsAt
  <2>2. t \in ActivePushes /\ ActivePushes' = ActivePushes \ {t}
    BY <1>6, <2>1 DEF PushDone, ActivePushes, ThreadsAt
  <2>3. Cardinality(ActivePushes') = Cardinality(ActivePushes) - 1
    BY <1>1, <2>2, ThreadCounts
  <2>4. Len(que') = Len(que) + 1 /\ Len(que) \in Nat
    BY <1>6 DEF PushDone
  <2>5. ThreadsAt({"pushWait"}) # {}
    BY <1>6, <2>1 DEF PushDone, ThreadsAt
  <2>6. QueSize <= Len(que) + Cardinality(ActivePushes)
    BY <2>5 DEF NoStrandedPush
  <2> QED
    BY <1>2, <2>3, <2>4, <2>6
<1>7. ASSUME NEW t \in Threads, PopTest(t) \/ PopNull(t)
      PROVE  QueSize <= Len(que') + Cardinality(ActivePushes')
  BY <1>3, <1>7 DEF PopTest, PopNull, ActivePushes, ThreadsAt
<1>8. ASSUME NEW t \in Threads, PopSleep(t)
      PROVE  QueSize <= Len(que') + Cardinality(ActivePushes')
  BY <1>3, <1>8 DEF PopSleep, Sleep, ActivePushes, ThreadsAt
<1>9. ASSUME NEW t \in Threads, PopTake(t)
      PROVE  QueSize <= Len(que') + Cardinality(ActivePushes')
  <2>1. PICK u \in Threads : /\ pc[u] = "pushWait"
                             /\ pc' = [pc EXCEPT ![t] = "out", ![u] = "pushWake"]
    BY <1>9 DEF PopTake, LeaveAndNotify, ThreadsAt
  <2>2. u \in ActivePushes' /\ ActivePushes = ActivePushes' \ {u}
    BY <1>9, <2>1 DEF PopTake, ActivePushes, ThreadsAt
  <2>3. Cardinality(ActivePushes') = Cardinality(ActivePushes) + 1
    BY <1>1, <2>2, ThreadCounts
  <2>4. Len(que') = Len(que) - 1 /\ Len(que) \in Nat
    BY <1>9, HeadTailProperties DEF PopTake, FrontIsThere, Empty
  <2>5. QueSize <= Len(que) + Cardinality(ActivePushes)
    BY <2>1 DEF NoStrandedPush, ThreadsAt
  <2> QED
    BY <1>2, <2>3, <2>4, <2>5
<1>10. ASSUME NEW t \in Threads, WakeupNotify(t)
       PROVE  QueSize <= Len(que') + Cardinality(ActivePushes')
  BY <1>3, <1>10 DEF WakeupNotify, ActivePushes, ThreadsAt
<1>11. ASSUME NEW t \in Threads, CallPop(t) \/ WakeupFlag(t)
       PROVE  QueSize <= Len(que') + Cardinality(ActivePushes')
  BY <1>3, <1>11 DEF CallPop, WakeupFlag, ActivePushes, ThreadsAt
<1>12. ASSUME NEW t \in Threads, NEW x \in Tasks, CallPush(t, x)
       PROVE  QueSize <= Len(que') + Cardinality(ActivePushes')
  BY <1>3, <1>12 DEF CallPush, ActivePushes, ThreadsAt
<1>13. ASSUME NEW t \in Threads, SpuriousWake(t)
       PROVE  QueSize <= Len(que') + Cardinality(ActivePushes')
  BY <1>3, <1>13 DEF SpuriousWake, ActivePushes, ThreadsAt
<1>14. CASE UNCHANGED tqVars
  BY <1>3, <1>14 DEF tqVars, ActivePushes, ThreadsAt
<1> QED
  BY <1>4, <1>5, <1>6, <1>7, <1>8, <1>9, <1>10, <1>11, <1>12, <1>13, <1>14
  DEF TQNext, QueueStep, QueueCall
------------------------------------------------------------------------------
\* The inductive invariant of the queue holds in every reachable state.
THEOREM QueueInvariant == TQSpec => []QueueInv
BY InitQueueInv, StepQueueInv, PTL DEF TQSpec

\* Type correctness; nothing but a task is ever put into the queue.
THEOREM TypeCorrect == TQSpec => []TQTypeOK
<1>1. QueueInv => TQTypeOK
  BY DEF QueueInv
<1> QED
  BY <1>1, QueueInvariant, PTL

\* At most one thread is between lock and unlock, and it is the owner.
THEOREM MutualExclusion == TQSpec => []MutexHeld
<1>1. QueueInv => MutexHeld
  BY DEF QueueInv
<1> QED
  BY <1>1, QueueInvariant, PTL

\* The queue never holds more than _queSize tasks, whatever wakes a producer.
THEOREM Capacity == TQSpec => []WithinCapacity
<1>1. QueueInv => WithinCapacity
  BY DEF QueueInv
<1> QED
  BY <1>1, QueueInvariant, PTL

\* pop() never takes the front of an empty queue, wakeup() included.
THEOREM NeverPopsEmpty == TQSpec => []FrontIsThere
<1>1. QueueInv => FrontIsThere
  BY DEF QueueInv
<1> QED
  BY <1>1, QueueInvariant, PTL

\* No consumer sleeps beside a task nobody is coming for.
THEOREM ConsumersNotStranded == TQSpec => []NoStrandedPop
<1>1. TQInit => NoStrandedPop
  BY DEF TQInit, NoStrandedPop, ThreadsAt
<1> QED
  BY <1>1, QueueInvariant, StepNoStrandedPop, PTL DEF TQSpec

\* No producer sleeps beside a free slot nobody is coming for.
THEOREM ProducersNotStranded == TQSpec => []NoStrandedPush
<1>1. TQInit => NoStrandedPush
  BY DEF TQInit, NoStrandedPush, ThreadsAt
<1> QED
  BY <1>1, QueueInvariant, StepNoStrandedPush, PTL DEF TQSpec
------------------------------------------------------------------------------
\* A fresh queue is an empty open buffer with no call pending.
LEMMA InitRefines == TQInit => Buffer!Init
BY DEF TQInit, Buffer!Init, PendingCall, PushStates, PopStates

\* Every step inside a call is a step of the buffer or invisible in it: the
\* locks, tests, sleeps and wakeups are, and PushDone, PopTake and PopNull
\* are the answers.
LEMMA StepRefines == QueueInv /\ [TQNext]_tqVars => [Buffer!Next]_(Buffer!vars)
<1> SUFFICES ASSUME QueueInv, [TQNext]_tqVars
             PROVE  [Buffer!Next]_(Buffer!vars)
  OBVIOUS
<1> USE DEF QueueInv, TQTypeOK, QueueStates, PushStates, PopStates
<1>1. ASSUME que' = que, flag' = flag, reg' = reg, PendingCall' = PendingCall
      PROVE  UNCHANGED Buffer!vars
  BY <1>1 DEF Buffer!vars
<1>2. ASSUME NEW t \in Threads, Lock(t) PROVE UNCHANGED Buffer!vars
  BY <1>1, <1>2, AfterLockValues DEF Lock, PendingCall
<1>3. ASSUME NEW t \in Threads, PushSleep(t) PROVE UNCHANGED Buffer!vars
  BY <1>1, <1>3 DEF PushSleep, Sleep, PendingCall
<1>4. ASSUME NEW t \in Threads, PopTest(t) PROVE UNCHANGED Buffer!vars
  BY <1>1, <1>4 DEF PopTest, PendingCall
<1>5. ASSUME NEW t \in Threads, PopSleep(t) PROVE UNCHANGED Buffer!vars
  BY <1>1, <1>5 DEF PopSleep, Sleep, PendingCall
<1>6. ASSUME NEW t \in Threads, SpuriousWake(t) PROVE UNCHANGED Buffer!vars
  BY <1>1, <1>6 DEF SpuriousWake, PendingCall
<1>7. ASSUME NEW t \in Threads, WakeupNotify(t) PROVE UNCHANGED Buffer!vars
  BY <1>1, <1>7 DEF WakeupNotify, PendingCall
<1>8. ASSUME NEW t \in Threads, WakeupFlag(t) PROVE Buffer!Close
  BY <1>8 DEF WakeupFlag, PendingCall, Buffer!Close
<1>9. ASSUME NEW t \in Threads, CallPop(t) PROVE Buffer!InvokeTake(t)
  BY <1>9 DEF CallPop, PendingCall, Buffer!InvokeTake
<1>10. ASSUME NEW t \in Threads, NEW x \in Tasks, CallPush(t, x)
       PROVE  Buffer!InvokePut(t, x)
  BY <1>10 DEF CallPush, PendingCall, Buffer!InvokePut
<1>11. ASSUME NEW t \in Threads, PushDone(t) PROVE Buffer!Put(t)
  <2>1. Len(que) < QueSize
    BY <1>11, TaskQueueAssumption DEF PushDone, Full, WithinCapacity
  <2>2. PendingCall[t] = "put" /\ PendingCall' = [PendingCall EXCEPT ![t] = "none"]
    BY <1>11 DEF PushDone, LeaveAndNotify, ThreadsAt, PendingCall
  <2> QED
    BY <1>11, <2>1, <2>2 DEF PushDone, Buffer!Put
<1>12. ASSUME NEW t \in Threads, PopTake(t) PROVE Buffer!Take(t)
  <2>1. que # <<>>
    BY <1>12 DEF PopTake, FrontIsThere, Empty
  <2>2. PendingCall[t] = "take" /\ PendingCall' = [PendingCall EXCEPT ![t] = "none"]
    BY <1>12 DEF PopTake, LeaveAndNotify, ThreadsAt, PendingCall
  <2> QED
    BY <1>12, <2>1, <2>2 DEF PopTake, Buffer!Take
<1>13. ASSUME NEW t \in Threads, PopNull(t) PROVE Buffer!TakeClosed(t)
  BY <1>13 DEF PopNull, PendingCall, Buffer!TakeClosed
<1>14. CASE UNCHANGED tqVars
  BY <1>1, <1>14 DEF tqVars, PendingCall
<1> QED
  BY <1>2, <1>3, <1>4, <1>5, <1>6, <1>7, <1>8, <1>9, <1>10, <1>11, <1>12, <1>13, <1>14
  DEF TQNext, QueueStep, QueueCall, Buffer!Next

\* TaskQueue is the bounded FIFO buffer its callers take it for.
THEOREM QueueRefinesBuffer == TQSpec => ImplementsBuffer
<1>1. TQSpec => Buffer!Init /\ [][Buffer!Next]_(Buffer!vars)
  BY InitRefines, StepRefines, QueueInvariant, PTL DEF TQSpec
<1> QED
  BY <1>1 DEF ImplementsBuffer, Buffer!Spec
==============================================================================
