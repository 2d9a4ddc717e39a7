----------------------------- MODULE EventLoop ------------------------------
(***************************************************************************)
(* Class EventLoop with Acceptor and TcpConnection: one thread that waits  *)
(* for descriptors with level-triggered epoll, accepts clients, and for    *)
(* each readable connection peeks whether the client has closed.  The      *)
(* message callback is FileServer's: it queues a task, and waits while the *)
(* queue is full.                                                          *)
(*                                                                         *)
(* The loop shares two things with the workers that take these tasks: the  *)
(* data in a socket, which a worker reads at any time, and the process's   *)
(* table of descriptors, in which the kernel always hands out the lowest   *)
(* free number.  A TcpConnection holds its descriptor twice (_sock and     *)
(* _sockIO) and both close it, which is why the end of a connection is two *)
(* steps.                                                                  *)
(***************************************************************************)
EXTENDS Naturals, Sequences, FiniteSets, FiniteSetsExt, SequencesExt

CONSTANTS Clients,    \* the clients, each connects once
          Fds,        \* the descriptors left once the server has started
          Workers,    \* the threads that run the tasks
          EvtSize,    \* the size of _evtList (1024 in the code)
          MaxUnread,  \* bound: pieces of data unread in a socket
          QueSize,    \* _queSize of the task queue
          Listening,  \* somebody has called Acceptor::ready(), which binds and
                      \* listens: FALSE is the code as it stands
          Free, File, \* what a descriptor is besides a client's socket
          Listen,     \* the descriptor of _acceptor
          NoFd        \* a worker that has nothing open

ASSUME EventLoopAssumption ==
  /\ IsFiniteSet(Clients)
  /\ IsFiniteSet(Fds) /\ Fds \subseteq Nat
  /\ EvtSize \in Nat \ {0} /\ MaxUnread \in Nat \ {0} /\ QueSize \in Nat \ {0}
  /\ Listening \in BOOLEAN
  /\ Free \notin Clients /\ File \notin Clients /\ Free # File
  /\ Listen \notin Fds /\ NoFd \notin Fds

VARIABLES peer,     \* the client's end: "new", "open", "closed" or "reset"
          unread,   \* pieces of data in the server's receive buffer
          backlog,  \* connected clients that wait for accept
          desc,     \* the descriptor table
          conns,    \* _conns
          at,       \* where the loop thread is
          batch,    \* the events of this epoll_wait still to be handled
          cur,      \* the descriptor handleMessage works on
          looping,  \* _isLooping
          queued,   \* the tasks in the queue
          slot,     \* the descriptor of the connection in onMessage's FileTask
          serves,   \* the descriptor from which each worker's task receives
          opened,   \* the descriptor each worker has open
          hit       \* a second close has closed what was not the loop's

clients == <<peer, unread, backlog>>
work == <<queued, slot, serves, opened>>
table == <<desc, conns, hit>>
place == <<at, batch, cur>>
vars == <<clients, work, table, place, looping>>

LoopStates == {"start", "top", "wait", "dispatch", "peek", "callback", "closeAgain",
               "ended"}

FreeFds == {fd \in Fds : desc[fd] = Free}
Lowest == Min(FreeFds)

\* The sockets, by descriptor, and the clients the loop has a connection for.
Sockets == [fd \in {fd \in Fds : desc[fd] \in Clients} |-> desc[fd]]
Connected == Range(conns)

Init == /\ peer = [c \in Clients |-> "new"]
        /\ unread = [c \in Clients |-> 0]
        /\ backlog = <<>>
        /\ desc = [fd \in Fds |-> Free]
        /\ conns = <<>>
        /\ at = "start"
        /\ batch = <<>>
        /\ cur = Listen
        /\ looping = FALSE
        /\ queued = 0
        /\ slot = NoFd
        /\ serves = [w \in Workers |-> NoFd]
        /\ opened = [w \in Workers |-> NoFd]
        /\ hit = FALSE
------------------------------------------------------------------------------
\* The clients: a client may close, or reset the connection, at any time.
Connect(c) == /\ Listening
              /\ peer[c] = "new"
              /\ peer' = [peer EXCEPT ![c] = "open"]
              /\ backlog' = Append(backlog, c)
              /\ UNCHANGED <<work, table, place, unread, looping>>

Send(c) == /\ peer[c] = "open"
           /\ unread[c] < MaxUnread
           /\ unread' = [unread EXCEPT ![c] = @ + 1]
           /\ UNCHANGED <<work, table, place, peer, backlog, looping>>

Leave(c) == /\ peer[c] = "open"
            /\ \E how \in {"closed", "reset"} : peer' = [peer EXCEPT ![c] = how]
            /\ UNCHANGED <<work, table, place, unread, backlog, looping>>

\* A worker takes a task, and finds in it the connection that the slot on the
\* loop's stack holds by now (FileServer has what else it may find there).
TakeTask(w) ==
  /\ serves[w] = NoFd
  /\ queued > 0
  /\ queued' = queued - 1
  /\ serves' = [serves EXCEPT ![w] = slot]
  /\ UNCHANGED <<clients, table, place, looping, slot, opened>>

\* A receive takes what is there, and waits for the rest; then the task ends or
\* goes on to the next.
TaskReads(w) ==
  /\ serves[w] # NoFd
  /\ desc[serves[w]] \in Clients
  /\ LET c == desc[serves[w]]
     IN /\ unread[c] > 0
        /\ \E n \in 0 .. unread[c] - 1 : unread' = [unread EXCEPT ![c] = n]
  /\ \E fd \in {serves[w], slot, NoFd} : serves' = [serves EXCEPT ![w] = fd]
  /\ UNCHANGED <<table, place, peer, backlog, looping, queued, slot, opened>>

\* Mutant: a task closes the descriptor of its connection when it fails.
TaskFailsCloses(w) ==
  /\ serves[w] # NoFd
  /\ serves' = [serves EXCEPT ![w] = NoFd]
  /\ desc' = [desc EXCEPT ![serves[w]] = Free]
  /\ UNCHANGED <<clients, place, conns, hit, looping, queued, slot, opened>>

\* At the end of the stream, or on an error, the task ends.
TaskFails(w) ==
  /\ serves[w] # NoFd
  /\ LET c == desc[serves[w]] IN c \in Clients => unread[c] = 0 /\ peer[c] # "open"
  /\ serves' = [serves EXCEPT ![w] = NoFd]
  /\ UNCHANGED <<clients, table, place, looping, queued, slot, opened>>

\* A worker opens and closes a descriptor of its own: the file, or the socket
\* of its Redis client.
WorkerOpens(w) ==
  /\ serves[w] # NoFd
  /\ opened[w] = NoFd
  /\ FreeFds # {}
  /\ opened' = [opened EXCEPT ![w] = Lowest]
  /\ desc' = [desc EXCEPT ![Lowest] = File]
  /\ UNCHANGED <<clients, place, looping, conns, hit, queued, slot, serves>>

WorkerCloses(w) ==
  /\ opened[w] # NoFd
  /\ desc' = [desc EXCEPT ![opened[w]] = Free]
  /\ opened' = [opened EXCEPT ![w] = NoFd]
  /\ UNCHANGED <<clients, place, looping, conns, hit, queued, slot, serves>>
------------------------------------------------------------------------------
\* loop() and unloop(), which another thread calls.  loop() sets the flag, so
\* an unloop() before it is lost.
StartLoop == /\ at = "start"
             /\ at' = "top"
             /\ looping' = TRUE
             /\ UNCHANGED <<clients, work, table, batch, cur>>

Unloop == /\ looping' = FALSE
          /\ UNCHANGED <<clients, work, table, place>>

\* Mutant: while(true).
TestLoopingNot == /\ at = "top"
                  /\ at' = "wait"
                  /\ UNCHANGED <<clients, work, table, batch, cur, looping>>

TestLooping == /\ at = "top"
               /\ at' = IF looping THEN "wait" ELSE "ended"
               /\ UNCHANGED <<clients, work, table, batch, cur, looping>>

\* The sockets with data, or the end of the stream, to read.
Readable == {fd \in DOMAIN Sockets : \/ unread[Sockets[fd]] > 0
                                     \/ peer[Sockets[fd]] # "open"}

\* Mutant: the listening descriptor is edge-triggered, one accept per edge.
ReadyOnEdge == Readable \union (IF Len(backlog) = 1 THEN {Listen} ELSE {})

\* Level-triggered EPOLLIN.  A descriptor leaves epoll when its socket closes.
Ready == Readable \union (IF backlog = <<>> THEN {} ELSE {Listen})

\* waitEpollFd(): at most _evtList.size() events, in any order.  When they
\* fill the list, reserve() raises its capacity, and not its size, which is all
\* that epoll_wait is told.
Wait == /\ at = "wait"
        /\ Ready # {}
        /\ \E evts \in kSubset(Min({EvtSize, Cardinality(Ready)}), Ready) :
             \E order \in SetToSeqs(evts) : batch' = order
        /\ at' = "dispatch"
        /\ UNCHANGED <<clients, work, table, cur, looping>>

\* epoll_wait times out after 3000ms, fails or reports no EPOLLIN, or the batch
\* is done: back to the loop's test.
NothingToDo == /\ \/ at = "wait" /\ Ready = {}
                  \/ at = "dispatch" /\ batch = <<>>
               /\ at' = "top"
               /\ UNCHANGED <<clients, work, table, batch, cur, looping>>
------------------------------------------------------------------------------
\* The next event, if it is for descriptor fd.
Event(fd) == /\ at = "dispatch"
             /\ batch # <<>>
             /\ Head(batch) = fd
             /\ batch' = Tail(batch)

\* handleNewConnection(): accept gives the lowest free descriptor.  Should
\* _conns hold an old connection of that number, the assignment destroys it
\* and with it closes the descriptor, now the new client's.
Accept == /\ Event(Listen)
          /\ FreeFds # {}
          /\ backlog' = Tail(backlog)
          /\ conns' = [fd \in DOMAIN conns \union {Lowest} |->
                         IF fd = Lowest THEN Head(backlog) ELSE conns[fd]]
          /\ IF Lowest \in DOMAIN conns
             THEN /\ at' = "closeAgain"
                  /\ cur' = Lowest
                  /\ UNCHANGED desc
             ELSE /\ desc' = [desc EXCEPT ![Lowest] = Head(backlog)]
                  /\ UNCHANGED <<at, cur>>
          /\ UNCHANGED <<work, peer, unread, looping, hit>>

\* Mutant: the result of a failed accept is used as a descriptor.
AcceptFailsUnchecked == /\ Event(Listen)
                        /\ FreeFds = {}
                        /\ conns' = [fd \in DOMAIN conns \union {NoFd} |->
                                       IF fd = NoFd THEN Head(backlog) ELSE conns[fd]]
                        /\ UNCHANGED <<clients, work, desc, hit, at, cur, looping>>

\* accept fails: no descriptor is left.
AcceptFails == /\ Event(Listen)
               /\ FreeFds = {}
               /\ UNCHANGED <<clients, work, table, at, cur, looping>>

\* handleMessage() finds the connection, or says there is none.
FindConnection(fd) == /\ Event(fd)
                      /\ IF fd \in DOMAIN conns THEN at' = "peek" /\ cur' = fd
                                                ELSE UNCHANGED <<at, cur>>
                      /\ UNCHANGED <<clients, work, table, looping>>

\* isClosed() is FALSE on data, and on an error as well: a reset, which the
\* error consumes, or a descriptor that is no socket.  The message callback
\* builds its FileTask.  With no data and an open client recv() blocks.
HandleMessage ==
  /\ at = "peek"
  /\ IF desc[cur] \in Clients
     THEN \/ unread[desc[cur]] > 0 /\ UNCHANGED peer
          \/ /\ unread[desc[cur]] = 0
             /\ peer[desc[cur]] = "reset"
             /\ peer' = [peer EXCEPT ![desc[cur]] = "closed"]
     ELSE UNCHANGED peer
  /\ slot' = cur
  /\ at' = "callback"
  /\ UNCHANGED <<table, unread, backlog, batch, cur, looping, queued, serves, opened>>

\* addTask() waits while the queue is full; then the callback returns.
AddTask == /\ at = "callback"
           /\ queued < QueSize
           /\ queued' = queued + 1
           /\ at' = "dispatch"
           /\ UNCHANGED <<clients, table, batch, cur, looping, slot, serves, opened>>

\* recv() returns 0.
EndOfStream == /\ desc[cur] \in Clients
               /\ unread[desc[cur]] = 0
               /\ peer[desc[cur]] = "closed"

\* Mutants: the erase is forgotten; the end of the stream is not acted upon.
HandleCloseKeeps == /\ at = "peek"
                    /\ EndOfStream
                    /\ desc' = [desc EXCEPT ![cur] = Free]
                    /\ at' = "closeAgain"
                    /\ UNCHANGED <<clients, work, conns, hit, cur, batch, looping>>

HandleCloseNot == /\ at = "peek"
                  /\ EndOfStream
                  /\ at' = "dispatch"
                  /\ UNCHANGED <<clients, work, table, cur, batch, looping>>

\* isClosed() is TRUE: close callback, delEpollReadFd, erase; the erase ends
\* the TcpConnection, whose _sock closes the descriptor ...
HandleClose == /\ at = "peek"
               /\ EndOfStream
               /\ conns' = [fd \in DOMAIN conns \ {cur} |-> conns[fd]]
               /\ desc' = [desc EXCEPT ![cur] = Free]
               /\ at' = "closeAgain"
               /\ UNCHANGED <<clients, work, hit, cur, batch, looping>>

\* ... and whose _sockIO closes it a second time, whatever it is by now.
CloseAgain == /\ at = "closeAgain"
              /\ hit' = (hit \/ desc[cur] # Free)
              /\ desc' = [desc EXCEPT ![cur] = Free]
              /\ at' = "dispatch"
              /\ UNCHANGED <<clients, work, batch, cur, looping, conns>>
------------------------------------------------------------------------------
LoopStep == \/ StartLoop
            \/ TestLooping
            \/ Wait
            \/ NothingToDo
            \/ Accept
            \/ AcceptFails
            \/ \E fd \in Fds : FindConnection(fd)
            \/ HandleMessage
            \/ AddTask
            \/ HandleClose
            \/ CloseAgain

Next == \/ LoopStep
        \/ Unloop
        \/ \E c \in Clients : Connect(c) \/ Send(c) \/ Leave(c)
        \/ \E w \in Workers : \/ TakeTask(w) \/ TaskReads(w) \/ TaskFails(w)
                              \/ WorkerOpens(w) \/ WorkerCloses(w)

\* The loop thread runs, a worker without a task takes one, and the kernel's
\* ready list rotates, so that a descriptor that is ready at every epoll_wait
\* is reported by some.  No task is asked to read, or to end: it may wait for
\* a silent client for ever.
Reported(fd) == Wait /\ fd \in ToSet(batch')

Fairness == /\ WF_vars(LoopStep)
            /\ \A w \in Workers : WF_vars(TakeTask(w))
            /\ \A fd \in Fds \union {Listen} : SF_vars(Reported(fd))

Spec == Init /\ [][Next]_vars /\ Fairness
------------------------------------------------------------------------------
\* Type invariant of the loop.
TypeOK == /\ peer \in [Clients -> {"new", "open", "closed", "reset"}]
          /\ unread \in [Clients -> 0 .. MaxUnread]
          /\ ToSet(backlog) \subseteq Clients
          /\ desc \in [Fds -> Clients \union {Free, File}]
          /\ DOMAIN conns \subseteq Fds /\ Connected \subseteq Clients
          /\ at \in LoopStates
          /\ ToSet(batch) \subseteq Fds \union {Listen}
          /\ cur \in Fds \union {Listen}
          /\ looping \in BOOLEAN /\ hit \in BOOLEAN
          /\ queued \in 0 .. QueSize
          /\ slot \in Fds \union {NoFd}
          /\ serves \in [Workers -> Fds \union {NoFd}]
          /\ opened \in [Workers -> Fds \union {NoFd}]

\* As long as no second close hit anything, _conns is exact: an entry for
\* every client's socket and for no other descriptor.  So the second close is
\* the only way a connection comes to name a descriptor that is not its own.
ConnsAreSockets == ~hit => conns = Sockets

\* As long as no second close hit anything, a worker's descriptor is its own
\* from open to close.
OpenedIsMine == ~hit => \A w \in Workers : opened[w] # NoFd => desc[opened[w]] = File

\* The loop thread stands in recv() and there is nothing to receive.
Blocked == /\ at = "peek"
           /\ desc[cur] \in Clients
           /\ unread[desc[cur]] = 0
           /\ peer[desc[cur]] = "open"

\* It stands in addTask(): the queue is full and every worker is in a task.
Full == /\ at = "callback"
        /\ queued = QueSize
        /\ \A w \in Workers : serves[w] # NoFd

\* It stands there for good: in recv(), where again and again there is nothing,
\* or a worker has been quicker, or in addTask().
Stuck == (<>[](at = "peek") /\ []<>Blocked) \/ <>[]Full

\* A client that has left is removed from _conns, unless the loop is stuck for
\* good, no task ever reads what the client has sent, a second close has done
\* damage, or unloop() was called.
LeaversAreReaped == \A c \in Clients :
  \/ c \in Connected /\ peer[c] \in {"closed", "reset"} ~> c \notin Connected
  \/ Stuck
  \/ <>[](unread[c] > 0)
  \/ <>[](hit \/ ~looping)

\* A client that waits in the backlog is accepted, unless there is again and
\* again no descriptor for it, the loop is stuck for good, or unloop() was called.
WaitersAreAccepted == \A c \in Clients :
  \/ c \in ToSet(backlog) ~> c \notin ToSet(backlog)
  \/ []<>(FreeFds = {})
  \/ Stuck
  \/ <>[]~looping

\* unloop() ends a loop that has begun, unless the loop is stuck for good.
UnloopEnds == (at # "start" /\ ~looping ~> at = "ended") \/ Stuck

\* What the comment in handleMessage takes for granted: a connection that is
\* in _conns exists, data can be sent and received on its descriptor.
FoundConnectionExists == \A fd \in DOMAIN conns : desc[fd] = conns[fd]
==============================================================================
