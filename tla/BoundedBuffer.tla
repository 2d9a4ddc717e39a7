---------------------------- MODULE BoundedBuffer ----------------------------
(***************************************************************************)
(* What class TaskQueue promises its callers, without the mutex and the    *)
(* condition variables: a FIFO buffer of at most Capacity tasks.  A thread *)
(* calls put or take and stays in the call until the buffer answers it;    *)
(* the answer, and its whole effect on the buffer, is one atomic step.     *)
(* After close() every take is answered with NoTask, whatever the buffer   *)
(* still holds, and put goes on as before.                                 *)
(***************************************************************************)
EXTENDS Naturals, Sequences

CONSTANTS Threads,    \* the threads that may call the buffer
          Tasks,      \* what is put and taken
          Capacity,   \* the most tasks the buffer holds
          NoTask      \* what a take returns once the buffer is closed

VARIABLES buf,    \* the tasks in the buffer, oldest first
          open,   \* FALSE once close() was called
          call,   \* the call a thread is in
          val     \* the task of a put, or the answer of the last take

vars == <<buf, open, call, val>>

Init == /\ buf = <<>>
        /\ open = TRUE
        /\ call = [t \in Threads |-> "none"]
        /\ val = [t \in Threads |-> NoTask]

InvokePut(t, x) == /\ call[t] = "none"
                   /\ call' = [call EXCEPT ![t] = "put"]
                   /\ val' = [val EXCEPT ![t] = x]
                   /\ UNCHANGED <<buf, open>>

InvokeTake(t) == /\ call[t] = "none"
                 /\ call' = [call EXCEPT ![t] = "take"]
                 /\ val' = [val EXCEPT ![t] = NoTask]
                 /\ UNCHANGED <<buf, open>>

\* The task enters the buffer at the far end, and only when there is room.
Put(t) == /\ call[t] = "put"
          /\ Len(buf) < Capacity
          /\ buf' = Append(buf, val[t])
          /\ call' = [call EXCEPT ![t] = "none"]
          /\ UNCHANGED <<open, val>>

\* A take of an open buffer gets the oldest task.
Take(t) == /\ call[t] = "take"
           /\ open
           /\ buf # <<>>
           /\ val' = [val EXCEPT ![t] = Head(buf)]
           /\ buf' = Tail(buf)
           /\ call' = [call EXCEPT ![t] = "none"]
           /\ UNCHANGED open

TakeClosed(t) == /\ call[t] = "take"
                 /\ ~open
                 /\ call' = [call EXCEPT ![t] = "none"]
                 /\ UNCHANGED <<buf, open, val>>

Close == open' = FALSE /\ UNCHANGED <<buf, call, val>>

Next == \/ \E t \in Threads : \/ InvokeTake(t)
                              \/ Put(t)
                              \/ Take(t)
                              \/ TakeClosed(t)
                              \/ \E x \in Tasks : InvokePut(t, x)
        \/ Close

Spec == Init /\ [][Next]_vars
==============================================================================
