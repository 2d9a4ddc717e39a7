----------------------------- MODULE FileServer -----------------------------
(***************************************************************************)
(* Class FileServer: the event loop, the task queue and the workers put    *)
(* together.  The queue is the bounded buffer that TaskQueue implements.   *)
(*                                                                         *)
(* onMessage() builds its FileTask on the loop thread's stack and queues a *)
(* pointer to it.  Every call of onMessage builds it in the same place, the *)
(* slot, and destroys it on return, so that a worker finds in the slot the *)
(* connection of the last message, in a FileTask that is alive only while  *)
(* the loop is still inside onMessage().  What using a destroyed FileTask  *)
(* does is undefined; here it either works on what is left in the slot or  *)
(* ends the process.                                                       *)
(*                                                                         *)
(* The clients are connected from the start, and the loop's removal of     *)
(* those that have closed is left to EventLoop.                            *)
(***************************************************************************)
EXTENDS Naturals, Sequences, FiniteSets, SequencesExt

CONSTANTS Clients,   \* the connections
          Workers,   \* the threads of the pool
          Loop,      \* the event loop's thread
          QueSize,   \* _queSize
          NoClient,  \* what a worker without a task holds
          MaxUnread  \* bound: the messages unread in a connection

ASSUME FileServerAssumption ==
  /\ IsFiniteSet(Clients)
  /\ Loop \notin Workers
  /\ NoClient \notin Clients
  /\ QueSize \in Nat \ {0} /\ MaxUnread \in Nat \ {0}

VARIABLES buf, open, call, val,  \* the task queue; a task is named by the
                                 \* connection whose message started it
          unread,   \* the messages in each connection's receive buffer
          peer,     \* the client's end: "open", "closed" or "reset"
          batch,    \* the connections of this epoll_wait still to be handled
          slot,     \* the connection in onMessage's FileTask
          serving,  \* the connection each worker's process() receives from
          up        \* the process runs

queue == <<buf, open, call, val>>
clients == <<unread, peer>>
vars == <<queue, clients, batch, slot, serving, up>>

Queue == INSTANCE BoundedBuffer
           WITH Threads <- Workers \union {Loop}, Tasks <- Clients,
                Capacity <- QueSize, NoTask <- NoClient

Init == /\ Queue!Init
        /\ unread = [c \in Clients |-> 0]
        /\ peer = [c \in Clients |-> "open"]
        /\ batch = <<>>
        /\ slot = NoClient
        /\ serving = [w \in Workers |-> NoClient]
        /\ up = TRUE

\* The loop is inside onMessage(): the FileTask in the slot is alive.
InOnMessage == call[Loop] = "put"

\* A receive from connection c would block.
Silent(c) == unread[c] = 0 /\ peer[c] = "open"
------------------------------------------------------------------------------
Send(c) == /\ peer[c] = "open"
           /\ unread[c] < MaxUnread
           /\ unread' = [unread EXCEPT ![c] = @ + 1]
           /\ UNCHANGED <<queue, peer, batch, slot, serving, up>>

Leave(c) == /\ peer[c] = "open"
            /\ \E how \in {"closed", "reset"} : peer' = [peer EXCEPT ![c] = how]
            /\ UNCHANGED <<queue, unread, batch, slot, serving, up>>

\* epoll_wait reports, in any order, the connections that have something to
\* read, as long as they have.
Readable == {c \in Clients : unread[c] > 0 \/ peer[c] = "reset"}

Wait == /\ up
        /\ call[Loop] = "none" /\ batch = <<>>
        /\ Readable # {}
        /\ batch' \in SetToSeqs(Readable)
        /\ UNCHANGED <<queue, clients, slot, serving, up>>

\* The peek at the next connection: data, or the error of a reset, which the
\* peek consumes, and onMessage() makes a FileTask and calls addTask() ...
Peek == /\ up
        /\ call[Loop] = "none" /\ batch # <<>>
        /\ batch' = Tail(batch)

OnMessage(c) == /\ Peek
                /\ c = Head(batch)
                /\ \/ unread[c] > 0 /\ UNCHANGED peer
                   \/ /\ unread[c] = 0 /\ peer[c] = "reset"
                      /\ peer' = [peer EXCEPT ![c] = "closed"]
                /\ Queue!InvokePut(Loop, c)
                /\ slot' = c
                /\ UNCHANGED <<unread, serving, up>>

\* ... the end of the stream, and the connection is removed ...
OnClose == /\ Peek
           /\ unread[Head(batch)] = 0 /\ peer[Head(batch)] = "closed"
           /\ UNCHANGED <<queue, clients, slot, serving, up>>

\* ... or, when a worker has been quicker, nothing: the peek waits.
PeekWaits == /\ call[Loop] = "none" /\ batch # <<>>
             /\ Silent(Head(batch))

\* Mutant: full() is not asked.
AddTaskToFull == /\ up
                 /\ InOnMessage
                 /\ buf' = Append(buf, val[Loop])
                 /\ call' = [call EXCEPT ![Loop] = "none"]
                 /\ UNCHANGED <<open, val, clients, batch, slot, serving, up>>

\* addTask() returns, and onMessage() with it.
OnMessageReturns == /\ up
                    /\ Queue!Put(Loop)
                    /\ UNCHANGED <<clients, batch, slot, serving, up>>

\* doTask(): getTask().
GetTask(w) == /\ up
              /\ serving[w] = NoClient
              /\ \/ val[w] = NoClient /\ Queue!InvokeTake(w)
                 \/ Queue!Take(w)
              /\ UNCHANGED <<clients, batch, slot, serving, up>>

\* process() reaches for _con, at its start and before each receive.
UseSlot(w) == \/ /\ serving' = [serving EXCEPT ![w] = slot]
                 /\ UNCHANGED up
              \/ /\ ~InOnMessage
                 /\ up' = FALSE
                 /\ UNCHANGED serving

StartTask(w) == /\ up
                /\ call[w] = "none" /\ val[w] # NoClient /\ serving[w] = NoClient
                /\ UseSlot(w)
                /\ UNCHANGED <<queue, clients, batch, slot>>

\* Mutant: the worker never comes back for another task.
ReceiveForever(w) == /\ up
                     /\ serving[w] # NoClient
                     /\ unread[serving[w]] > 0
                     /\ UNCHANGED vars

\* A receive takes what is there and waits for the rest; then process() goes on
\* or is at its end.
Receive(w) == /\ up
              /\ serving[w] # NoClient
              /\ unread[serving[w]] > 0
              /\ unread' = [unread EXCEPT ![serving[w]] = @ - 1]
              /\ \/ UNCHANGED <<serving, val, up>>
                 \/ UseSlot(w) /\ UNCHANGED val
                 \/ /\ serving' = [serving EXCEPT ![w] = NoClient]
                    /\ val' = [val EXCEPT ![w] = NoClient]
                    /\ UNCHANGED up
              /\ UNCHANGED <<buf, open, call, peer, batch, slot>>

\* The client has left: the receive returns nothing, and the task ends.
ReceiveNothing(w) == /\ up
                     /\ serving[w] # NoClient
                     /\ unread[serving[w]] = 0 /\ peer[serving[w]] # "open"
                     /\ serving' = [serving EXCEPT ![w] = NoClient]
                     /\ val' = [val EXCEPT ![w] = NoClient]
                     /\ UNCHANGED <<buf, open, call, clients, batch, slot, up>>
------------------------------------------------------------------------------
LoopStep == \/ Wait
            \/ \E c \in Clients : OnMessage(c)
            \/ OnClose
            \/ OnMessageReturns

WorkerStep(w) == GetTask(w) \/ StartTask(w) \/ Receive(w) \/ ReceiveNothing(w)

Next == \/ LoopStep
        \/ \E c \in Clients : Send(c) \/ Leave(c)
        \/ \E w \in Workers : WorkerStep(w)

\* Every thread runs.  A receive is a step only when there is something to
\* receive or the client has left, and so is the loop's peek.
Fairness == /\ WF_vars(LoopStep)
            /\ \A w \in Workers : WF_vars(WorkerStep(w))

Spec == Init /\ [][Next]_vars /\ Fairness
------------------------------------------------------------------------------
\* Type invariant of the server.
TypeOK == /\ buf \in Seq(Clients) /\ Len(buf) <= QueSize /\ open = TRUE
          /\ call \in [Workers \union {Loop} -> {"none", "put", "take"}]
          /\ val \in [Workers \union {Loop} -> Clients \union {NoClient}]
          /\ unread \in [Clients -> 0 .. MaxUnread]
          /\ peer \in [Clients -> {"open", "closed", "reset"}]
          /\ batch \in Seq(Clients)
          /\ slot \in Clients \union {NoClient}
          /\ serving \in [Workers -> Clients \union {NoClient}]
          /\ up \in BOOLEAN

\* Every worker is in a receive from a client that has sent nothing and stays.
AllWait == \A w \in Workers : serving[w] # NoClient /\ Silent(serving[w])

\* Clients send for ever; the slot may then never be a given client's for long
\* enough.
SendingGoesOn == []<><<\E c \in Clients : Send(c)>>_vars

\* A client's messages are read in the end, unless clients go on sending for
\* ever, the process dies, the workers all wait for silent clients for good, or
\* the loop's peek does.  A full queue and an overwritten slot lead to no other
\* way to be stuck.
ReadOrStuck == \A c \in Clients :
  \/ unread[c] > 0 ~> unread[c] = 0
  \/ SendingGoesOn
  \/ <>~up
  \/ <>[]AllWait
  \/ <>[]PeekWaits

\* The comment in handleMessage: the callback is for the message that has
\* arrived.  So the task works on the connection that message came from.
ServesItsOwn == \A w \in Workers : serving[w] # NoClient => serving[w] = val[w]
==============================================================================
