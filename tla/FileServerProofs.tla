--------------------------- MODULE FileServerProofs --------------------------
(***************************************************************************)
(* FileServer for any set of clients and workers and any size of the       *)
(* queue: its types, which thread makes which call of the queue, and what  *)
(* is in the slot when a worker reaches for it.                            *)
(***************************************************************************)
EXTENDS FileServer, FiniteSetTheorems, TLAPS

\* The loop puts and the workers take.  What the loop puts is in the slot, so
\* that nobody holds a task before a message has filled the slot.
Roles == /\ call[Loop] \in {"none", "put"}
         /\ call[Loop] = "put" => val[Loop] \in Clients /\ slot = val[Loop]
         /\ buf # <<>> => slot \in Clients
         /\ \A w \in Workers :
              /\ call[w] \in {"none", "take"}
              /\ call[w] = "take" => val[w] = NoClient
              /\ val[w] # NoClient => slot \in Clients
              /\ serving[w] # NoClient => call[w] = "none" /\ val[w] # NoClient

ServerInv == TypeOK /\ Roles

LEMMA InitServerInv == Init => ServerInv
BY FileServerAssumption
   DEF Init, Queue!Init, ServerInv, TypeOK, Roles

LEMMA ClientStep ==
  ASSUME ServerInv, NEW c \in Clients, Send(c) \/ Leave(c)
  PROVE  ServerInv'
<1> USE FileServerAssumption DEF ServerInv, TypeOK, Roles, queue
<1>1. CASE Send(c)
  <2>1. /\ unread' = [unread EXCEPT ![c] = @ + 1]
        /\ unread[c] + 1 \in 0 .. MaxUnread
        /\ UNCHANGED <<queue, peer, batch, slot, serving, up>>
    BY <1>1 DEF Send
  <2>2. unread' \in [Clients -> 0 .. MaxUnread]
    BY <2>1
  <2> QED
    BY <2>1, <2>2
<1>2. CASE Leave(c)
  BY <1>2 DEF Leave
<1> QED
  BY <1>1, <1>2

\* The batch of an epoll_wait is a sequence of connections.
LEMMA WaitBatch == ServerInv /\ Wait => batch' \in Seq(Clients)
<1> SUFFICES ASSUME Wait PROVE batch' \in Seq(Clients)
  OBVIOUS
<1>1. Readable \subseteq Clients /\ Cardinality(Readable) \in Nat
  BY FileServerAssumption, FS_Subset, FS_CardinalityType DEF Readable
<1>2. batch' \in [1 .. Cardinality(Readable) -> Readable]
  BY DEF Wait, SetToSeqs
<1>3. batch' \in [1 .. Cardinality(Readable) -> Clients]
  BY <1>1, <1>2
<1> QED
  BY <1>1, <1>3

LEMMA LoopKeeps ==
  ASSUME ServerInv, LoopStep
  PROVE  ServerInv'
<1> USE FileServerAssumption DEF ServerInv, TypeOK, Roles, clients
<1>1. ASSUME NEW c \in Clients, OnMessage(c)
      PROVE  ServerInv'
  <2>1. batch' \in Seq(Clients)
    BY <1>1 DEF OnMessage, Peek
  <2>2. peer' \in [Clients -> {"open", "closed", "reset"}]
    BY <1>1 DEF OnMessage
  <2>3. /\ call[Loop] = "none" /\ Queue!InvokePut(Loop, c) /\ slot' = c
        /\ UNCHANGED <<unread, serving, up>>
    BY <1>1 DEF OnMessage, Peek
  <2> QED
    BY <2>1, <2>2, <2>3 DEF Queue!InvokePut
<1>2. CASE OnMessageReturns
  <2>1. /\ call[Loop] = "put" /\ val[Loop] \in Clients /\ Len(buf) < QueSize
        /\ buf' = Append(buf, val[Loop])
        /\ call' = [call EXCEPT ![Loop] = "none"]
        /\ UNCHANGED <<open, val, unread, peer, batch, slot, serving, up>>
    BY <1>2 DEF OnMessageReturns, Queue!Put
  <2>2. buf' \in Seq(Clients) /\ Len(buf') = Len(buf) + 1
    BY <2>1
  <2> QED
    BY <2>1, <2>2
<1>3. CASE Wait
  BY <1>3, WaitBatch DEF Wait, queue
<1>4. CASE OnClose
  <2>1. batch' \in Seq(Clients)
    BY <1>4 DEF OnClose, Peek
  <2> QED
    BY <1>4, <2>1 DEF OnClose, queue
<1> QED
  BY <1>1, <1>2, <1>3, <1>4 DEF LoopStep

LEMMA WorkerSteps ==
  ASSUME ServerInv, NEW w \in Workers, WorkerStep(w)
  PROVE  ServerInv'
<1> USE FileServerAssumption DEF ServerInv, TypeOK, Roles, clients, queue
<1>1. CASE GetTask(w)
  <2>1. CASE val[w] = NoClient /\ Queue!InvokeTake(w)
    BY <1>1, <2>1 DEF GetTask, Queue!InvokeTake
  <2>2. CASE Queue!Take(w)
    <3>1. /\ call[w] = "take" /\ buf # <<>> /\ open = TRUE /\ serving[w] = NoClient
          /\ val' = [val EXCEPT ![w] = Head(buf)]
          /\ buf' = Tail(buf)
          /\ call' = [call EXCEPT ![w] = "none"]
          /\ UNCHANGED <<open, unread, peer, batch, slot, serving, up>>
      BY <1>1, <2>2 DEF GetTask, Queue!Take
    <3>2. Head(buf) \in Clients /\ buf' \in Seq(Clients) /\ Len(buf') <= QueSize
      BY <3>1
    <3> QED
      BY <3>1, <3>2
  <2> QED
    BY <1>1, <2>1, <2>2 DEF GetTask
<1>2. CASE StartTask(w)
  BY <1>2 DEF StartTask, UseSlot
<1>3. CASE Receive(w)
  <2>1. /\ serving[w] \in Clients
        /\ unread[serving[w]] - 1 \in 0 .. MaxUnread
        /\ unread' = [unread EXCEPT ![serving[w]] = @ - 1]
        /\ UNCHANGED <<buf, open, call, peer, batch, slot>>
    BY <1>3 DEF Receive
  <2>2. CASE UseSlot(w) /\ UNCHANGED val
    <3>1. up' \in BOOLEAN /\ (serving' = [serving EXCEPT ![w] = slot] \/ serving' = serving)
      BY <2>2, <1>3 DEF UseSlot, Receive
    <3>2. call[w] = "none" /\ val[w] # NoClient /\ slot \in Clients
      BY <1>3 DEF Receive
    <3>3. TypeOK'
      <4>1. unread' \in [Clients -> 0 .. MaxUnread]
        BY <2>1
      <4>2. serving' \in [Workers -> Clients \union {NoClient}]
        BY <3>1
      <4> QED
        BY <2>1, <2>2, <3>1, <4>1, <4>2
    <3>4. Roles'
      BY <2>1, <2>2, <3>1, <3>2
    <3> QED
      BY <3>3, <3>4
  <2>3. CASE /\ serving' = [serving EXCEPT ![w] = NoClient]
             /\ val' = [val EXCEPT ![w] = NoClient]
             /\ UNCHANGED up
    BY <2>1, <2>3
  <2>4. CASE UNCHANGED <<serving, val, up>>
    <3>1. unread' \in [Clients -> 0 .. MaxUnread]
      BY <2>1
    <3> QED
      BY <2>1, <2>4, <3>1
  <2> QED
    BY <1>3, <2>2, <2>3, <2>4 DEF Receive
<1>4. CASE ReceiveNothing(w)
  BY <1>4 DEF ReceiveNothing
<1> QED
  BY <1>1, <1>2, <1>3, <1>4 DEF WorkerStep

\* The loop puts what is in the slot, and the workers take it, in every state.
THEOREM ServerInvariant == Spec => []ServerInv
<1>1. ServerInv /\ [Next]_vars => ServerInv'
  <2> SUFFICES ASSUME ServerInv, [Next]_vars
               PROVE  ServerInv'
    OBVIOUS
  <2>1. CASE UNCHANGED vars
    BY <2>1 DEF ServerInv, TypeOK, Roles, vars, queue, clients
  <2> QED
    BY <2>1, ClientStep, LoopKeeps, WorkerSteps DEF Next
<1> QED
  BY <1>1, InitServerInv, PTL DEF Spec

\* Type correctness of the server: the queue's calls and its capacity, the
\* messages that wait to be read, and what the workers and the slot hold.
THEOREM ServerTypeCorrect == Spec => []TypeOK
<1>1. ServerInv => TypeOK
  BY DEF ServerInv
<1> QED
  BY <1>1, ServerInvariant, PTL

\* Every step of the server is one that the task queue allows, or leaves the
\* queue and the calls alone: onMessage() and doTask() use it as its theorems
\* assume.
THEOREM ServerUsesQueue == Spec => [][Queue!Next \/ UNCHANGED <<buf, open, call>>]_vars
<1>1. ASSUME Next
      PROVE  Queue!Next \/ UNCHANGED <<buf, open, call>>
  <2>1. ASSUME NEW c \in Clients, Send(c) \/ Leave(c) \/ OnMessage(c)
        PROVE  Queue!Next \/ UNCHANGED <<buf, open, call>>
    BY <2>1 DEF Send, Leave, OnMessage, queue, Queue!Next
  <2>2. CASE Wait \/ OnClose \/ OnMessageReturns
    BY <2>2 DEF Wait, OnClose, OnMessageReturns, queue, Queue!Next
  <2>3. ASSUME NEW w \in Workers, WorkerStep(w)
        PROVE  Queue!Next \/ UNCHANGED <<buf, open, call>>
    BY <2>3 DEF WorkerStep, GetTask, StartTask, Receive, ReceiveNothing, queue, Queue!Next
  <2> QED
    BY <1>1, <2>1, <2>2, <2>3 DEF Next, LoopStep
<1> QED
  BY <1>1, PTL DEF Spec

\* A worker that starts on a task, or goes on with one, finds a connection in
\* the slot, never nothing: the slot was filled before the task was queued, and
\* onMessage() does not empty it.  Whose connection it is, is another matter.
THEOREM SlotIsFilled ==
  Spec => [](\A w \in Workers : val[w] # NoClient => slot \in Clients)
<1>1. ServerInv => \A w \in Workers : val[w] # NoClient => slot \in Clients
  BY DEF ServerInv, Roles
<1> QED
  BY <1>1, ServerInvariant, PTL

\* The queue between the loop and the workers never holds more than _queSize
\* tasks, and what the loop is putting is the task in the slot.
THEOREM QueueIsBounded ==
  Spec => [](Len(buf) <= QueSize /\ (InOnMessage => slot = val[Loop]))
<1>1. ServerInv => Len(buf) <= QueSize /\ (InOnMessage => slot = val[Loop])
  BY DEF ServerInv, TypeOK, Roles, InOnMessage
<1> QED
  BY <1>1, ServerInvariant, PTL
==============================================================================
