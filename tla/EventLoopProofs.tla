---------------------------- MODULE EventLoopProofs ----------------------------
(***************************************************************************)
(* EventLoop proved: its types, that _conns is exact until a second close  *)
(* of a connection's descriptor hits another's, and that until then a      *)
(* worker's descriptor is its own.  For every set of clients, descriptors  *)
(* and workers, and every size of the event list and of the queue.         *)
(***************************************************************************)
EXTENDS EventLoop, WellFoundedInduction, FiniteSetTheorems, TLAPS

LEMMA LeastNatural ==
  ASSUME NEW S \in SUBSET Nat, S # {}
  PROVE  \E m \in S : \A n \in S : m <= n
<1> DEFINE R == OpToRel(<, Nat)
<1>1. IsWellFoundedOn(R, Nat)
  BY NatLessThanWellFounded
<1>2. \A x, y \in Nat : y < x => <<y, x>> \in R
  BY DEF OpToRel
<1> HIDE DEF R
<1>3. \E m \in S : \A n \in S : ~ (<<n, m>> \in R)
  BY <1>1, WFMin
<1>4. PICK m \in S : \A n \in S : ~ (<<n, m>> \in R)
  BY <1>3
<1>5. \A n \in S : ~(n < m)
  BY <1>2, <1>4
<1> QED
  BY <1>5

LEMMA LowestIsFree == FreeFds # {} => Lowest \in FreeFds
<1> SUFFICES ASSUME FreeFds # {} PROVE Lowest \in FreeFds
  OBVIOUS
<1>1. FreeFds \in SUBSET Nat
  BY EventLoopAssumption DEF FreeFds
<1>2. \E m \in FreeFds : \A n \in FreeFds : m =< n
  BY <1>1, LeastNatural
<1> QED
  BY <1>2 DEF Lowest, Min
------------------------------------------------------------------------------
Typed == /\ peer \in [Clients -> {"new", "open", "closed", "reset"}]
         /\ unread \in [Clients -> 0 .. MaxUnread]
         /\ backlog \in Seq(Clients)
         /\ desc \in [Fds -> Clients \union {Free, File}]
         /\ conns = [fd \in DOMAIN conns |-> conns[fd]]
         /\ DOMAIN conns \subseteq Fds
         /\ \A fd \in DOMAIN conns : conns[fd] \in Clients
         /\ at \in LoopStates
         /\ batch \in Seq(Fds \union {Listen})
         /\ cur \in Fds \union {Listen}
         /\ at \in {"peek", "callback", "closeAgain"} => cur \in Fds
         /\ looping \in BOOLEAN /\ hit \in BOOLEAN
         /\ queued \in 0 .. QueSize
         /\ slot \in Fds \union {NoFd}
         /\ serves \in [Workers -> Fds \union {NoFd}]
         /\ opened \in [Workers -> Fds \union {NoFd}]

\* _conns has an entry for a descriptor exactly if it is a client's socket, and
\* the entry is that client's.
Exact == \A fd \in Fds : /\ fd \in DOMAIN conns <=> desc[fd] \in Clients
                         /\ fd \in DOMAIN conns => conns[fd] = desc[fd]

\* A worker's descriptor is open, is no socket and belongs to no other worker.
Mine == \A w \in Workers : opened[w] # NoFd =>
          /\ desc[opened[w]] = File
          /\ \A v \in Workers \ {w} : opened[v] # opened[w]

Inv == Typed /\ (~hit => Exact /\ Mine)

LEMMA ElementsOf ==
  ASSUME NEW S, NEW s \in Seq(S)
  PROVE  ToSet(s) \subseteq S
BY DEF ToSet

LEMMA TypedIsTypeOK == Typed => TypeOK
<1> SUFFICES ASSUME Typed PROVE TypeOK
  OBVIOUS
<1>1. ToSet(backlog) \subseteq Clients
  BY ElementsOf DEF Typed
<1>2. ToSet(batch) \subseteq Fds \union {Listen}
  BY ElementsOf DEF Typed
<1>3. Connected \subseteq Clients
  BY DEF Typed, Connected, Range
<1> QED
  BY <1>1, <1>2, <1>3 DEF Typed, TypeOK

LEMMA InvSaysExact == Inv => ConnsAreSockets
<1> SUFFICES ASSUME Inv, ~hit PROVE conns = Sockets
  BY DEF ConnsAreSockets
<1>1. /\ conns = [fd \in DOMAIN conns |-> conns[fd]]
      /\ DOMAIN conns \subseteq Fds /\ Exact
  BY DEF Inv, Typed
<1>2. DOMAIN conns = {fd \in Fds : desc[fd] \in Clients}
  BY <1>1 DEF Exact
<1>3. \A fd \in DOMAIN conns : conns[fd] = desc[fd]
  BY <1>1 DEF Exact
<1> QED
  BY <1>1, <1>2, <1>3 DEF Sockets

LEMMA InvSaysMine == Inv => OpenedIsMine
BY DEF Inv, Mine, OpenedIsMine

LEMMA InitInv == Init => Inv
<1> SUFFICES ASSUME Init PROVE Inv
  OBVIOUS
<1>1. DOMAIN conns = {} /\ conns = [fd \in DOMAIN conns |-> conns[fd]]
  BY DEF Init
<1>2. Typed
  <2>1. unread \in [Clients -> 0 .. MaxUnread] /\ backlog \in Seq(Clients)
    BY EventLoopAssumption DEF Init
  <2>2. desc \in [Fds -> Clients \union {Free, File}] /\ opened \in [Workers -> Fds \union {NoFd}]
    BY DEF Init
  <2>3. batch \in Seq(Fds \union {Listen})
    BY EventLoopAssumption DEF Init
  <2>4. peer \in [Clients -> {"new", "open", "closed", "reset"}]
    BY DEF Init
  <2>5. queued \in 0 .. QueSize /\ slot \in Fds \union {NoFd} /\ serves \in [Workers -> Fds \union {NoFd}]
    BY EventLoopAssumption DEF Init
  <2> QED
    BY <1>1, <2>1, <2>2, <2>3, <2>4, <2>5 DEF Init, Typed, LoopStates
<1>3. Exact /\ Mine
  BY <1>1, EventLoopAssumption DEF Init, Exact, Mine
<1> QED
  BY <1>2, <1>3 DEF Inv
------------------------------------------------------------------------------
LEMMA ClientStep ==
  ASSUME Inv, NEW c \in Clients, Connect(c) \/ Send(c) \/ Leave(c)
  PROVE  Inv'
<1>1. /\ UNCHANGED <<work, table, place, looping>>
      /\ peer' \in [Clients -> {"new", "open", "closed", "reset"}]
  <2>1. UNCHANGED <<work, table, place, looping>>
    BY DEF Connect, Send, Leave
  <2>2. peer \in [Clients -> {"new", "open", "closed", "reset"}]
    BY DEF Inv, Typed
  <2>3. CASE Connect(c)
    BY <2>1, <2>2, <2>3 DEF Connect
  <2>4. CASE Send(c)
    BY <2>1, <2>2, <2>4 DEF Send
  <2>5. CASE Leave(c)
    BY <2>1, <2>2, <2>5 DEF Leave
  <2> QED
    BY <2>3, <2>4, <2>5
<1>2. unread' \in [Clients -> 0 .. MaxUnread] /\ backlog' \in Seq(Clients)
  <2>1. CASE Send(c)
    <3>1. unread[c] + 1 \in 0 .. MaxUnread
      BY <2>1, EventLoopAssumption DEF Inv, Typed, Send
    <3>2. unread' = [unread EXCEPT ![c] = unread[c] + 1] /\ backlog' = backlog
      BY <2>1 DEF Send
    <3>3. unread' \in [Clients -> 0 .. MaxUnread]
      <4> DEFINE S == 0 .. MaxUnread
      <4>1. unread \in [Clients -> S] /\ unread[c] + 1 \in S
        BY <3>1 DEF Inv, Typed
      <4> HIDE DEF S
      <4>2. unread' \in [Clients -> S]
        BY <3>2, <4>1
      <4> QED
        BY <4>2 DEF S
    <3>4. backlog' \in Seq(Clients)
      BY <3>2 DEF Inv, Typed
    <3> QED
      BY <3>3, <3>4
  <2>2. CASE Connect(c) \/ Leave(c)
    <3>1. backlog \in Seq(Clients) /\ UNCHANGED unread
      BY <2>2 DEF Inv, Typed, Connect, Leave
    <3>2. backlog' = Append(backlog, c) \/ backlog' = backlog
      BY <2>2 DEF Connect, Leave
    <3>3. backlog' \in Seq(Clients)
      BY <3>1, <3>2
    <3>4. unread' \in [Clients -> 0 .. MaxUnread]
      BY <3>1 DEF Inv, Typed
    <3> QED
      BY <3>3, <3>4
  <2> QED
    BY <2>1, <2>2
<1> QED
  BY <1>1, <1>2 DEF Inv, Typed, Exact, Mine, work, table, place

LEMMA TaskStep ==
  ASSUME Inv, NEW w \in Workers, TakeTask(w) \/ TaskReads(w) \/ TaskFails(w)
  PROVE  Inv'
<1>1. /\ UNCHANGED <<table, place, peer, backlog, looping, slot, opened>>
      /\ queued' \in 0 .. QueSize
  <2>1. CASE TakeTask(w)
    BY <2>1, EventLoopAssumption DEF Inv, Typed, TakeTask, clients
  <2>2. CASE TaskReads(w)
    BY <2>2 DEF Inv, Typed, TaskReads
  <2>3. CASE TaskFails(w)
    BY <2>3 DEF Inv, Typed, TaskFails, clients
  <2> QED
    BY <2>1, <2>2, <2>3
<1>2. serves' \in [Workers -> Fds \union {NoFd}]
  <2>1. \E fd \in {serves[w], slot, NoFd} : serves' = [serves EXCEPT ![w] = fd]
    <3>1. CASE TaskReads(w)
      BY <3>1 DEF TaskReads
    <3>2. CASE TakeTask(w) \/ TaskFails(w)
      BY <3>2 DEF TakeTask, TaskFails
    <3> QED
      BY <3>1, <3>2
  <2> QED
    BY <2>1 DEF Inv, Typed
<1>3. unread' \in [Clients -> 0 .. MaxUnread]
  <2>1. CASE TaskReads(w)
    <3> DEFINE c == desc[serves[w]]
    <3>1. PICK n \in 0 .. unread[c] - 1 : unread' = [unread EXCEPT ![c] = n]
      BY <2>1 DEF TaskReads
    <3>2. c \in Clients
      BY <2>1 DEF TaskReads
    <3> HIDE DEF c
    <3>3. unread[c] \in 0 .. MaxUnread
      BY <3>2 DEF Inv, Typed
    <3>4. n \in 0 .. MaxUnread
      BY <3>3, EventLoopAssumption
    <3> QED
      BY <3>1, <3>4 DEF Inv, Typed
  <2>2. CASE TakeTask(w) \/ TaskFails(w)
    BY <2>2 DEF Inv, Typed, TakeTask, TaskFails, clients
  <2> QED
    BY <2>1, <2>2
<1> QED
  BY <1>1, <1>2, <1>3 DEF Inv, Typed, Exact, Mine, table, place

LEMMA WorkerOpensStep ==
  ASSUME Inv, NEW w \in Workers, WorkerOpens(w)
  PROVE  Inv'
<1> DEFINE fd == Lowest
<1>1. /\ UNCHANGED <<clients, place, looping, conns, hit, queued, slot, serves>>
      /\ opened' = [opened EXCEPT ![w] = fd]
      /\ desc' = [desc EXCEPT ![fd] = File]
  BY DEF WorkerOpens
<1>2. fd \in Fds /\ desc[fd] = Free
  BY LowestIsFree DEF WorkerOpens, FreeFds
<1> HIDE DEF fd
<1>3. Typed'
  BY <1>1, <1>2 DEF Inv, Typed, clients, place
<1>4. ASSUME ~hit' PROVE Exact' /\ Mine'
  <2>1. Exact /\ Mine
    BY <1>1, <1>4 DEF Inv
  <2>2. Exact'
    BY <1>1, <1>2, <2>1, EventLoopAssumption DEF Inv, Typed, Exact
  <2>3. \A v \in Workers : opened[v] # fd
    BY <1>2, <2>1, EventLoopAssumption DEF Mine
  <2>4. Mine'
    BY <1>1, <1>2, <2>1, <2>3, EventLoopAssumption DEF Inv, Typed, Mine
  <2> QED
    BY <2>2, <2>4
<1> QED
  BY <1>3, <1>4 DEF Inv

LEMMA WorkerClosesStep ==
  ASSUME Inv, NEW w \in Workers, WorkerCloses(w)
  PROVE  Inv'
<1> DEFINE fd == opened[w]
<1>1. /\ UNCHANGED <<clients, place, looping, conns, hit, queued, slot, serves>>
      /\ opened' = [opened EXCEPT ![w] = NoFd]
      /\ desc' = [desc EXCEPT ![fd] = Free]
      /\ fd # NoFd
  BY DEF WorkerCloses
<1>2. fd \in Fds
  BY <1>1 DEF Inv, Typed
<1>3. Typed'
  BY <1>1, <1>2 DEF Inv, Typed, clients, place
<1>4. ASSUME ~hit' PROVE Exact' /\ Mine'
  <2>1. Exact /\ Mine
    BY <1>1, <1>4 DEF Inv
  <2>2. desc[fd] = File /\ \A v \in Workers \ {w} : opened[v] # fd
    BY <1>1, <2>1 DEF Mine
  <2>3. Exact'
    BY <1>1, <1>2, <2>1, <2>2, EventLoopAssumption DEF Inv, Typed, Exact
  <2>4. Mine'
    BY <1>1, <1>2, <2>1, <2>2, EventLoopAssumption DEF Inv, Typed, Mine
  <2> QED
    BY <2>3, <2>4
<1> QED
  BY <1>3, <1>4 DEF Inv
------------------------------------------------------------------------------
\* A step that changes neither the table of descriptors nor who has what open.
LEMMA TableAlone ==
  ASSUME Inv, Typed', UNCHANGED <<desc, conns, hit, opened>>
  PROVE  Inv'
BY DEF Inv, Exact, Mine

LEMMA StartStep ==
  ASSUME Inv, StartLoop \/ Unloop \/ TestLooping
  PROVE  Inv'
<1>1. Typed'
  BY DEF Inv, Typed, StartLoop, Unloop, TestLooping, clients, work, table, place,
     LoopStates
<1> QED
  BY <1>1, TableAlone DEF StartLoop, Unloop, TestLooping, work, table

LEMMA WaitStep ==
  ASSUME Inv, Wait
  PROVE  Inv'
<1> DEFINE D == Fds \union {Listen}
<1>1. PICK evts \in kSubset(Min({EvtSize, Cardinality(Ready)}), Ready) :
        batch' \in SetToSeqs(evts)
  BY DEF Wait
<1>2. evts \subseteq Ready /\ Ready \subseteq D /\ IsFiniteSet(D)
  <2>1. evts \subseteq Ready
    BY <1>1 DEF kSubset
  <2>2. Ready \subseteq D
    BY DEF Ready, Readable, Sockets
  <2>3. IsFiniteSet(D)
    BY EventLoopAssumption, FS_AddElement
  <2> QED
    BY <2>1, <2>2, <2>3
<1>3. Cardinality(evts) \in Nat
  BY <1>2, FS_Subset, FS_CardinalityType
<1>4. batch' \in Seq(D)
  <2>1. batch' \in [1 .. Cardinality(evts) -> evts]
    BY <1>1 DEF SetToSeqs
  <2>2. batch' \in [1 .. Cardinality(evts) -> D]
    BY <1>2, <2>1
  <2> QED
    BY <1>3, <2>2
<1>5. Typed'
  BY <1>4 DEF Inv, Typed, Wait, clients, work, table, LoopStates
<1> QED
  BY <1>5, TableAlone DEF Wait, work, table

\* The events still to be handled stay what they are.
LEMMA EventTyped ==
  ASSUME Inv, NEW fd, Event(fd)
  PROVE  /\ batch' \in Seq(Fds \union {Listen})
         /\ fd \in Fds \union {Listen}
BY DEF Inv, Typed, Event

LEMMA NothingToDoStep ==
  ASSUME Inv, NothingToDo
  PROVE  Inv'
<1>1. Typed'
  BY DEF Inv, Typed, NothingToDo, clients, work, table, LoopStates
<1> QED
  BY <1>1, TableAlone DEF NothingToDo, work, table

LEMMA AcceptFailsStep ==
  ASSUME Inv, AcceptFails
  PROVE  Inv'
<1>1. batch' \in Seq(Fds \union {Listen})
  BY EventTyped DEF AcceptFails
<1>2. Typed'
  BY <1>1 DEF Inv, Typed, AcceptFails, clients, work, table
<1> QED
  BY <1>2, TableAlone DEF AcceptFails, work, table

LEMMA FindConnectionStep ==
  ASSUME Inv, NEW fd \in Fds, FindConnection(fd)
  PROVE  Inv'
<1>1. batch' \in Seq(Fds \union {Listen})
  BY EventTyped DEF FindConnection
<1>2. /\ at' \in LoopStates /\ cur' \in Fds \union {Listen}
      /\ at' \in {"peek", "callback", "closeAgain"} => cur' \in Fds
  BY DEF Inv, Typed, FindConnection, Event, LoopStates
<1>3. Typed'
  BY <1>1, <1>2 DEF Inv, Typed, FindConnection, clients, work, table
<1> QED
  BY <1>3, TableAlone DEF FindConnection, work, table

LEMMA HandleMessageStep ==
  ASSUME Inv, HandleMessage
  PROVE  Inv'
<1>1. /\ UNCHANGED <<table, unread, backlog, batch, cur, looping, queued, serves, opened>>
      /\ at = "peek" /\ at' = "callback" /\ slot' = cur
      /\ peer' = peer \/ (desc[cur] \in Clients
                           /\ peer' = [peer EXCEPT ![desc[cur]] = "closed"])
  BY DEF HandleMessage
<1>2. /\ peer' \in [Clients -> {"new", "open", "closed", "reset"}]
      /\ slot' \in Fds \union {NoFd} /\ cur' \in Fds
  BY <1>1 DEF Inv, Typed
<1>3. at' \in LoopStates
  BY <1>1 DEF LoopStates
<1>4. Typed'
  BY <1>1, <1>2, <1>3 DEF Inv, Typed, table
<1> QED
  BY <1>1, <1>4, TableAlone DEF table

LEMMA AddTaskStep ==
  ASSUME Inv, AddTask
  PROVE  Inv'
<1>1. /\ UNCHANGED <<clients, table, batch, cur, looping, slot, serves, opened>>
      /\ at' = "dispatch" /\ queued < QueSize /\ queued' = queued + 1
  BY DEF AddTask
<1>2. queued' \in 0 .. QueSize
  BY <1>1, EventLoopAssumption DEF Inv, Typed
<1>3. at' \in LoopStates /\ at' \notin {"peek", "callback", "closeAgain"}
  BY <1>1 DEF LoopStates
<1>4. Typed'
  BY <1>1, <1>2, <1>3 DEF Inv, Typed, clients, table
<1> QED
  BY <1>1, <1>4, TableAlone DEF table

\* An event for the listening descriptor comes once in a batch, and only while
\* a client waits; so accept has a client to return.
Batched == /\ \A i, j \in DOMAIN batch : i # j => batch[i] # batch[j]
           /\ \A i \in DOMAIN batch : batch[i] = Listen => backlog # <<>>

LEMMA RestOfBatch ==
  ASSUME Inv, Batched, NEW fd, Event(fd)
  PROVE  /\ \A i, j \in DOMAIN batch' : i # j => batch'[i] # batch'[j]
         /\ \A i \in DOMAIN batch' : /\ batch'[i] # fd
                                     /\ batch'[i] = Listen => backlog # <<>>
         /\ fd = Listen => backlog # <<>>
<1>1. /\ batch \in Seq(Fds \union {Listen}) /\ batch # <<>>
      /\ batch' = Tail(batch) /\ fd = Head(batch)
  BY DEF Inv, Typed, Event
<1>2. \A i \in DOMAIN batch' : /\ i + 1 \in DOMAIN batch /\ batch'[i] = batch[i + 1]
                              /\ i \in Nat /\ i + 1 # 1
  BY <1>1
<1>3. 1 \in DOMAIN batch /\ fd = batch[1]
  BY <1>1
<1>4. \A i, j \in DOMAIN batch' : i # j => i + 1 # j + 1
  BY <1>2
<1> QED
  BY <1>2, <1>3, <1>4 DEF Batched

LEMMA WaitBatched ==
  ASSUME Inv, Wait
  PROVE  Batched'
<1>1. PICK evts \in kSubset(Min({EvtSize, Cardinality(Ready)}), Ready) :
        batch' \in SetToSeqs(evts)
  BY DEF Wait
<1>2. /\ batch' \in [1 .. Cardinality(evts) -> evts]
      /\ \A i, j \in 1 .. Cardinality(evts) : i # j => batch'[i] # batch'[j]
  BY <1>1 DEF SetToSeqs
<1>3. DOMAIN batch' = 1 .. Cardinality(evts) /\ \A i \in DOMAIN batch' : batch'[i] \in Ready
  BY <1>1, <1>2 DEF kSubset
<1>4. Listen \in Ready => backlog # <<>>
  BY EventLoopAssumption DEF Ready, Readable, Sockets
<1>5. backlog' = backlog
  BY DEF Wait, clients
<1> QED
  BY <1>2, <1>3, <1>4, <1>5 DEF Batched

LEMMA BatchedKept ==
  ASSUME Inv, Batched, [Next]_vars
  PROVE  Batched'
<1>1. CASE Wait
  BY <1>1, WaitBatched
<1>2. CASE Accept
  <2>1. Event(Listen)
    BY <1>2 DEF Accept
  <2> QED
    BY <2>1, RestOfBatch DEF Batched
<1>3. CASE AcceptFails \/ \E fd \in Fds : FindConnection(fd)
  <2>1. (\E fd : Event(fd)) /\ backlog' = backlog
    BY <1>3 DEF AcceptFails, FindConnection, clients
  <2> QED
    BY <2>1, RestOfBatch DEF Batched
<1>4. CASE \E c \in Clients : Connect(c)
  <2>1. PICK c \in Clients : Connect(c)
    BY <1>4
  <2>2. backlog' = Append(backlog, c) /\ batch' = batch /\ backlog \in Seq(Clients)
    BY <2>1 DEF Connect, place, Inv, Typed
  <2>3. backlog' # <<>>
    BY <2>2
  <2> QED
    BY <2>2, <2>3 DEF Batched
<1>5. CASE UNCHANGED <<batch, backlog>>
  BY <1>5 DEF Batched
<1>6. \/ Wait \/ Accept \/ AcceptFails \/ \E fd \in Fds : FindConnection(fd)
      \/ \E c \in Clients : Connect(c)
      \/ UNCHANGED <<batch, backlog>>
  BY DEF Next, LoopStep, Unloop, Send, Leave, TakeTask, TaskReads, TaskFails,
     WorkerOpens, WorkerCloses, AddTask, StartLoop, TestLooping, NothingToDo, HandleMessage, HandleClose,
     CloseAgain, vars, clients, place
<1> QED
  BY <1>1, <1>2, <1>3, <1>4, <1>5, <1>6
------------------------------------------------------------------------------
\* As long as nothing was hit, _conns has no entry for a descriptor that is
\* free, so accept closes nothing.
LEMMA AcceptStep ==
  ASSUME Inv, Batched, Accept
  PROVE  Inv'
<1> DEFINE fd == Lowest
           c == Head(backlog)
<1>1. /\ UNCHANGED <<work, peer, unread, looping, hit>>
      /\ conns' = [f \in DOMAIN conns \union {fd} |-> IF f = fd THEN c ELSE conns[f]]
      /\ Event(Listen)
      /\ fd \in Fds /\ desc[fd] = Free
      /\ backlog' = Tail(backlog)
  BY LowestIsFree DEF Accept, FreeFds
<1>2. IF fd \in DOMAIN conns
      THEN at' = "closeAgain" /\ cur' = fd /\ UNCHANGED desc
      ELSE desc' = [desc EXCEPT ![fd] = c] /\ UNCHANGED <<at, cur>>
  BY DEF Accept
<1>3. c \in Clients /\ backlog' \in Seq(Clients)
  <2>1. backlog \in Seq(Clients) /\ backlog # <<>>
    BY <1>1, RestOfBatch DEF Inv, Typed
  <2> QED
    BY <1>1, <2>1
<1>4. batch' \in Seq(Fds \union {Listen})
  BY <1>1, EventTyped
<1> HIDE DEF fd, c
<1>5. /\ conns' = [f \in DOMAIN conns' |-> conns'[f]]
      /\ DOMAIN conns' = DOMAIN conns \union {fd}
      /\ conns'[fd] = c
      /\ \A f \in DOMAIN conns \ {fd} : conns'[f] = conns[f]
  BY <1>1
<1>6. Typed'
  <2>1. /\ at' \in LoopStates /\ cur' \in Fds \union {Listen}
        /\ at' \in {"peek", "callback", "closeAgain"} => cur' \in Fds
    BY <1>1, <1>2 DEF Inv, Typed, LoopStates
  <2>2. desc' \in [Fds -> Clients \union {Free, File}]
    BY <1>1, <1>2, <1>3 DEF Inv, Typed
  <2>3. DOMAIN conns' \subseteq Fds /\ \A f \in DOMAIN conns' : conns'[f] \in Clients
    BY <1>1, <1>3, <1>5 DEF Inv, Typed
  <2> QED
    BY <1>1, <1>3, <1>4, <1>5, <2>1, <2>2, <2>3 DEF Inv, Typed, work
<1>7. ASSUME ~hit' PROVE Exact' /\ Mine'
  <2>1. Exact /\ Mine
    BY <1>1, <1>7 DEF Inv
  <2>2. fd \notin DOMAIN conns
    BY <1>1, <2>1, EventLoopAssumption DEF Exact
  <2>3. desc' = [desc EXCEPT ![fd] = c] /\ desc \in [Fds -> Clients \union {Free, File}]
    BY <1>2, <2>2 DEF Inv, Typed
  <2>4. desc'[fd] = c /\ \A f \in Fds \ {fd} : desc'[f] = desc[f]
    BY <1>1, <2>3
  <2>5. Exact'
    BY <1>3, <1>5, <2>1, <2>4 DEF Exact
  <2>6. \A w \in Workers : opened[w] # NoFd => opened[w] # fd /\ opened[w] \in Fds
    BY <1>1, <2>1, EventLoopAssumption DEF Mine, Inv, Typed
  <2>7. Mine'
    BY <1>1, <2>1, <2>4, <2>6 DEF Mine, work
  <2> QED
    BY <2>5, <2>7
<1> QED
  BY <1>6, <1>7 DEF Inv

LEMMA HandleCloseStep ==
  ASSUME Inv, HandleClose
  PROVE  Inv'
<1>1. /\ UNCHANGED <<clients, work, hit, cur, batch, looping>>
      /\ conns' = [fd \in DOMAIN conns \ {cur} |-> conns[fd]]
      /\ desc' = [desc EXCEPT ![cur] = Free]
      /\ at' = "closeAgain"
      /\ desc[cur] \in Clients
      /\ cur \in Fds
  BY DEF HandleClose, EndOfStream, Inv, Typed
<1>2. /\ conns' = [f \in DOMAIN conns' |-> conns'[f]]
      /\ DOMAIN conns' = DOMAIN conns \ {cur}
      /\ \A f \in DOMAIN conns' : conns'[f] = conns[f]
  BY <1>1
<1>3. /\ desc \in [Fds -> Clients \union {Free, File}]
      /\ desc' \in [Fds -> Clients \union {Free, File}]
      /\ desc'[cur] = Free /\ \A f \in Fds \ {cur} : desc'[f] = desc[f]
  BY <1>1 DEF Inv, Typed
<1>4. DOMAIN conns' \subseteq Fds /\ \A f \in DOMAIN conns' : conns'[f] \in Clients
  BY <1>2 DEF Inv, Typed
<1>5. at' \in LoopStates
  BY <1>1 DEF LoopStates
<1>6. Typed'
  BY <1>1, <1>2, <1>3, <1>4, <1>5 DEF Inv, Typed, clients, work
<1>7. ASSUME ~hit' PROVE Exact' /\ Mine'
  <2>1. Exact /\ Mine
    BY <1>1, <1>7 DEF Inv
  <2>2. Exact'
    BY <1>1, <1>2, <1>3, <2>1, EventLoopAssumption DEF Exact
  <2>3. \A w \in Workers : opened[w] # NoFd => opened[w] # cur /\ opened[w] \in Fds
    BY <1>1, <2>1, EventLoopAssumption DEF Mine, Inv, Typed
  <2>4. Mine'
    BY <1>1, <1>3, <2>1, <2>3 DEF Mine, work
  <2> QED
    BY <2>2, <2>4
<1> QED
  BY <1>6, <1>7 DEF Inv

\* The second close notes what it hits, or closes what is free already.
LEMMA CloseAgainStep ==
  ASSUME Inv, CloseAgain
  PROVE  Inv'
<1>1. /\ UNCHANGED <<clients, work, batch, cur, looping, conns>>
      /\ hit' = (hit \/ desc[cur] # Free)
      /\ desc' = [desc EXCEPT ![cur] = Free]
      /\ at' = "dispatch"
  BY DEF CloseAgain
<1>2. /\ desc \in [Fds -> Clients \union {Free, File}]
      /\ desc' \in [Fds -> Clients \union {Free, File}]
  BY <1>1 DEF Inv, Typed
<1>3. hit' \in BOOLEAN /\ at' \in LoopStates /\ at' \notin {"peek", "callback", "closeAgain"}
  BY <1>1 DEF LoopStates
<1>4. Typed'
  BY <1>1, <1>2, <1>3 DEF Inv, Typed, clients, work
<1>5. ASSUME ~hit' PROVE Exact' /\ Mine'
  <2>1. ~hit /\ desc[cur] = Free
    BY <1>1, <1>5
  <2>2. desc' = desc
    BY <1>1, <1>2, <2>1
  <2> QED
    BY <1>1, <2>1, <2>2 DEF Inv, Exact, Mine, work
<1> QED
  BY <1>4, <1>5 DEF Inv

LEMMA InvKept ==
  ASSUME Inv, Batched, [Next]_vars
  PROVE  Inv'
<1>1. CASE LoopStep
  BY <1>1, StartStep, WaitStep, NothingToDoStep, AcceptStep, AcceptFailsStep,
     FindConnectionStep, HandleMessageStep, AddTaskStep, HandleCloseStep, CloseAgainStep
     DEF LoopStep
<1>2. CASE Unloop
  BY <1>2, StartStep
<1>3. CASE \E c \in Clients : Connect(c) \/ Send(c) \/ Leave(c)
  BY <1>3, ClientStep
<1>4. CASE \E w \in Workers : TakeTask(w) \/ TaskReads(w) \/ TaskFails(w)
  BY <1>4, TaskStep
<1>5. CASE \E w \in Workers : WorkerOpens(w) \/ WorkerCloses(w)
  BY <1>5, WorkerOpensStep, WorkerClosesStep
<1>6. CASE UNCHANGED vars
  BY <1>6 DEF vars, clients, work, table, place, Inv, Typed, Exact, Mine
<1> QED
  BY <1>1, <1>2, <1>3, <1>4, <1>5, <1>6 DEF Next

\* The invariant of the loop: the types, that a batch names the listening
\* descriptor only while a client waits (handleNewConnection), and that _conns
\* is exact until a second close hits another's descriptor.
THEOREM LoopInvariant == Spec => [](Inv /\ Batched)
<1>1. Init => Inv /\ Batched
  <2>1. Init => Batched
    BY DEF Init, Batched
  <2> QED
    BY <2>1, InitInv
<1>2. Inv /\ Batched /\ [Next]_vars => (Inv /\ Batched)'
  BY InvKept, BatchedKept
<1> QED
  BY <1>1, <1>2, PTL DEF Spec

\* The types of the loop's state (TypeOK of EventLoop.tla).
THEOREM LoopTypeCorrect == Spec => []TypeOK
<1>1. Inv /\ Batched => TypeOK
  BY TypedIsTypeOK DEF Inv
<1> QED
  BY <1>1, LoopInvariant, PTL

\* _conns names exactly the clients' sockets until a second close of a
\* connection's descriptor hits another's: handleNewConnection, handleClose and
\* the two destructors of TcpConnection (ConnsAreSockets of EventLoop.tla).
THEOREM ConnectionsAreExact == Spec => []ConnsAreSockets
<1>1. Inv /\ Batched => ConnsAreSockets
  BY InvSaysExact
<1> QED
  BY <1>1, LoopInvariant, PTL

\* Until then a descriptor that a worker has opened, for a file or for Redis, is
\* that worker's until it closes it (OpenedIsMine of EventLoop.tla).
THEOREM WorkersOwnDescriptors == Spec => []OpenedIsMine
<1>1. Inv /\ Batched => OpenedIsMine
  BY InvSaysMine
<1> QED
  BY <1>1, LoopInvariant, PTL
=============================================================================
