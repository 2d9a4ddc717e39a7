--------------------------- MODULE SocketIOProofs ----------------------------
(***************************************************************************)
(* Proofs about SocketIO, for any number of tasks, any sizes, any way in   *)
(* which the kernel splits the bytes and any moment at which the client    *)
(* leaves: its types; that no byte is taken twice or out of order, and     *)
(* when a call may return with bytes that it has seen and not taken; and   *)
(* what a single call can rely on.  One that has its direction to itself   *)
(* moves consecutive bytes, what a function returns is what it has moved,  *)
(* and a line ends in its only newline.                                    *)
(***************************************************************************)
EXTENDS SocketIO, TLAPS

Calls == [op : {"none", "readn", "readLine", "writen"}, phase : Phases, asked : Int,
          len : Int, left : Int, total : Int, piece : Nat, nest : Nat, seen : BOOLEAN, ret : Int]

\* What the loops make of a call is a call of the same function, under way or done.
Goes(c, d) == d \in Calls /\ d.op = c.op /\ d.phase # "start"

LEMMA ToIntType == \A n \in Int : ToInt(n) \in Int
<1>1. SUFFICES ASSUME NEW n \in Int PROVE ToInt(n) \in Int
  OBVIOUS
<1>2. n % Modulus \in Int
  BY SocketIOAssumption
<1> QED
  BY <1>2, SocketIOAssumption DEF ToInt

LEMMA ReturnGoes ==
  ASSUME NEW c \in Calls, NEW r \in Int
  PROVE Goes(c, Return(c, r))
BY DEF Calls, Goes, Return, Phases

LEMMA LoopGoes ==
  ASSUME NEW c \in Calls
  PROVE Goes(c, Loop(c))
<1>1. CASE c.left > 0
  BY <1>1 DEF Calls, Goes, Loop, Phases
<1>2. CASE ~(c.left > 0)
  <2>1. (IF c.op = "readLine" THEN c.total - c.left ELSE c.len - c.left) \in Int
    BY DEF Calls
  <2> QED
    BY <1>2, <2>1, ReturnGoes DEF Loop
<1> QED
  BY <1>1, <1>2

LEMMA BrokenGoes ==
  ASSUME NEW c \in Calls
  PROVE Goes(c, Broken(c))
<1>1. (IF c.op = "readLine" THEN c.total - c.left ELSE c.len - c.left) \in Int
  BY DEF Calls
<1> QED
  BY <1>1, ReturnGoes DEF Broken

\* readLine goes on to its next piece.
LEMMA NextPiece ==
  ASSUME NEW c \in Calls
  PROVE  LET d == [c EXCEPT !.total = @ + c.piece, !.left = @ - c.piece]
         IN /\ d \in Calls /\ d.op = c.op /\ d.total = c.total + c.piece
            /\ d.seen = c.seen /\ d.left = c.left - c.piece
<1> DEFINE e == [c EXCEPT !.total = c.total + c.piece]
           d == [e EXCEPT !.left = c.left - c.piece]
<1>1. e \in Calls /\ e.op = c.op
  BY DEF Calls
<1>2. e.total = c.total + c.piece /\ e.seen = c.seen
  BY DEF Calls
<1>3. c.left - c.piece \in Int
  BY DEF Calls
<1>4. d = [c EXCEPT !.total = @ + c.piece, !.left = @ - c.piece]
  OBVIOUS
<1> HIDE DEF e
<1>5. d \in Calls /\ d.op = e.op
  BY <1>1, <1>3 DEF Calls
<1>6. d.total = e.total /\ d.seen = e.seen /\ d.left = c.left - c.piece
  BY <1>1 DEF Calls
<1> HIDE DEF d
<1> QED
  BY <1>1, <1>2, <1>4, <1>5, <1>6

LEMMA PieceTakenGoes ==
  ASSUME NEW c \in Calls
  PROVE Goes(c, PieceTaken(c))
<1>1. CASE c.seen
  <2>1. c.total + c.piece \in Int
    BY DEF Calls
  <2> QED
    BY <1>1, <2>1, ReturnGoes DEF PieceTaken
<1>2. CASE ~c.seen
  <2> DEFINE d == [c EXCEPT !.total = @ + c.piece, !.left = @ - c.piece]
  <2>1. d \in Calls /\ d.op = c.op
    BY NextPiece
  <2>2. PieceTaken(c) = Loop(d)
    BY <1>2 DEF PieceTaken
  <2> HIDE DEF d
  <2>3. Goes(d, Loop(d))
    BY <2>1, LoopGoes
  <2> QED
    BY <2>1, <2>2, <2>3 DEF Goes
<1> QED
  BY <1>1, <1>2

\* A round moves no more than is wanted.
LEMMA MovedGoes ==
  ASSUME NEW c \in Calls, c.phase # "start", NEW k \in Nat, k <= Want(c)
  PROVE Goes(c, Moved(c, k))
<1>1. CASE c.op = "readLine" /\ c.nest = k
  BY <1>1, PieceTakenGoes DEF Moved
<1>2. CASE c.op = "readLine" /\ c.nest # k
  BY <1>2 DEF Moved, Want, Calls, Goes
<1>3. CASE c.op # "readLine"
  <2> DEFINE d == [c EXCEPT !.left = c.left - k]
  <2>0. d \in Calls
    BY DEF Calls
  <2>1. d \in Calls /\ d.op = c.op
    BY <2>0, Zenon DEF Calls
  <2>2. Goes(d, Loop(d))
    BY <2>1, LoopGoes
  <2>3. Moved(c, k) = Loop(d)
    BY <1>3 DEF Moved
  <2> QED
    BY <2>1, <2>2, <2>3 DEF Goes
<1> QED
  BY <1>1, <1>2, <1>3

LEMMA GoalGoes ==
  ASSUME NEW c \in Calls, NEW size \in Nat, NEW ends \in BOOLEAN
  PROVE Goes(c, Goal(c, size, ends))
<1> DEFINE d == [c EXCEPT !.phase = "move", !.piece = size]
           e == [d EXCEPT !.nest = size, !.seen = ends]
<1>1. d \in Calls /\ d.op = c.op /\ d.phase = "move"
  BY DEF Calls, Phases
<1> HIDE DEF d
<1>2. e \in Calls /\ e.op = d.op /\ e.phase = d.phase
  BY <1>1 DEF Calls
<1>3. Goal(c, size, ends) = e
  BY DEF Goal, d
<1> QED
  BY <1>1, <1>2, <1>3 DEF Goes
------------------------------------------------------------------------------
\* How far the direction of a task's call has come.
Frontier(t) == IF call[t].op \in Reads THEN taken ELSE accepted

StreamType == /\ peer \in {"open", "closed", "reset", "gone"}
              /\ arrived \in 0 .. MaxArrived /\ taken \in 0 .. arrived
              /\ accepted \in Nat /\ drained \in 0 .. accepted

CallType == /\ call \in [Tasks -> Calls]
            /\ \A t \in Tasks : call[t].phase # "start"
            /\ got \in [Tasks -> Seq(Nat)]
            /\ shared \subseteq Tasks

\* A buffer holds bytes that its direction has passed, in order, and two
\* buffers of one direction have none in common.
Passed == \A t \in Tasks : \A i \in DOMAIN got[t] : got[t][i] <= Frontier(t)
Ordered(s) == \A i, j \in DOMAIN s : i < j => s[i] < s[j]
Apart(s, r) == \A i \in DOMAIN s, j \in DOMAIN r : s[i] # r[j]
Separate == \A t \in Tasks :
              /\ Ordered(got[t])
              /\ \A u \in Tasks \ {t} : SameWay(t, u) => Apart(got[t], got[u])

Own == Passed /\ Separate

\* The inductive invariant.
SocketInv == StreamType /\ CallType /\ Own

\* Appending the next k bytes of a stream to a buffer.
LEMMA Appending ==
  ASSUME NEW s \in Seq(Nat), NEW from \in Nat, NEW k \in Nat,
         \A i \in DOMAIN s : s[i] <= from, Ordered(s)
  PROVE /\ s \o Bytes(from, k) \in Seq(Nat)
        /\ \A i \in DOMAIN (s \o Bytes(from, k)) :
             /\ (s \o Bytes(from, k))[i] <= from + k
             /\ i \in DOMAIN s => (s \o Bytes(from, k))[i] = s[i]
             /\ i \notin DOMAIN s => (s \o Bytes(from, k))[i] > from
        /\ Ordered(s \o Bytes(from, k))
<1> DEFINE b == Bytes(from, k)
           r == s \o b
<1>1. b \in Seq(Nat) /\ Len(b) = k /\ \A i \in 1 .. k : b[i] = from + i
  BY DEF Bytes
<1> HIDE DEF b
<1>2. r \in Seq(Nat) /\ Len(r) = Len(s) + k
  BY <1>1
<1>3. \A i \in 1 .. Len(s) : r[i] = s[i]
  BY <1>1
<1>4. \A i \in Len(s) + 1 .. Len(s) + k : r[i] = from + (i - Len(s))
  BY <1>1
<1> HIDE DEF r
<1>5. DOMAIN s = 1 .. Len(s) /\ DOMAIN r = 1 .. Len(s) + k /\ Len(s) \in Nat
  BY <1>2
<1>6. \A i \in 1 .. Len(s) : s[i] \in Nat
  BY <1>5
<1>7. \A i \in DOMAIN r : /\ r[i] <= from + k
                          /\ i \in DOMAIN s => r[i] = s[i]
                          /\ i \notin DOMAIN s => r[i] > from
  BY <1>3, <1>4, <1>5, <1>6
<1>8. Ordered(r)
  <2> SUFFICES ASSUME NEW i \in DOMAIN r, NEW j \in DOMAIN r, i < j
               PROVE r[i] < r[j]
    BY DEF Ordered
  <2>1. CASE j \in DOMAIN s
    <3>1. i \in DOMAIN s
      BY <2>1, <1>5
    <3>2. s[i] < s[j]
      BY <2>1, <3>1 DEF Ordered
    <3> QED
      BY <2>1, <3>1, <3>2, <1>7, <1>5, <1>3
  <2>2. CASE i \in DOMAIN s /\ j \notin DOMAIN s
    <3>1. s[i] <= from /\ s[i] \in Nat
      BY <2>2, <1>5, <1>6
    <3>2. r[i] = s[i] /\ r[j] > from /\ r[j] \in Nat
      BY <2>2, <1>2, <1>7
    <3> QED
      BY <3>1, <3>2
  <2>3. CASE i \notin DOMAIN s
    BY <2>3, <1>4, <1>5
  <2> QED
    BY <2>1, <2>2, <2>3
<1> QED
  BY <1>2, <1>7, <1>8 DEF b, r
------------------------------------------------------------------------------
\* A step that goes on with a call and moves no byte.
LEMMA QuietStep ==
  ASSUME CallType, Own, NEW t \in Tasks, NEW d, Goes(call[t], d),
         call' = [call EXCEPT ![t] = d], UNCHANGED <<got, shared, taken, accepted>>
  PROVE CallType' /\ Own'
<1>1. CallType'
  BY DEF CallType, Goes
<1>2. \A u \in Tasks : call'[u].op = call[u].op
  BY DEF CallType, Goes
<1>3. \A u \in Tasks : Frontier(u)' = Frontier(u)
  BY <1>2 DEF Frontier, Reads
<1>4. Own'
  BY <1>2, <1>3 DEF Own, Passed, Separate, SameWay, Reads
<1> QED
  BY <1>1, <1>4

\* A step that goes on with a call and appends the next bytes of its direction.
LEMMA MovingStep ==
  ASSUME StreamType, CallType, Own, NEW t \in Tasks, NEW d, Goes(call[t], d),
         NEW k \in Nat, call' = [call EXCEPT ![t] = d],
         got' = [got EXCEPT ![t] = @ \o Bytes(Frontier(t), k)], UNCHANGED shared,
         taken' = taken + (IF call[t].op \in Reads THEN k ELSE 0),
         accepted' = accepted + (IF call[t].op \in Reads THEN 0 ELSE k)
  PROVE CallType' /\ Own'
<1> DEFINE r == got[t] \o Bytes(Frontier(t), k)
<1>0. taken \in Nat /\ accepted \in Nat
  BY DEF StreamType
<1>1. \A u \in Tasks : Frontier(u) \in Nat /\ got[u] \in Seq(Nat)
  BY <1>0 DEF Frontier, CallType
<1>2. /\ r \in Seq(Nat)
      /\ \A i \in DOMAIN r : /\ r[i] <= Frontier(t) + k
                             /\ i \in DOMAIN got[t] => r[i] = got[t][i]
                             /\ i \notin DOMAIN got[t] => r[i] > Frontier(t)
      /\ Ordered(r)
  BY <1>1, Appending DEF Own, Passed, Separate
<1> HIDE DEF r
<1>3. got' = [got EXCEPT ![t] = r]
  BY DEF r
<1>4. CallType'
  BY <1>2, <1>3 DEF CallType, Goes
<1>5. \A u \in Tasks : call'[u].op = call[u].op
  BY DEF CallType, Goes
<1>6. \A u \in Tasks : got'[u] = IF u = t THEN r ELSE got[u]
  BY <1>3 DEF CallType
<1>7. Frontier(t)' = Frontier(t) + k
  BY <1>0, <1>5 DEF Frontier, Reads
<1>8. \A u \in Tasks : Frontier(u)' >= Frontier(u)
  BY <1>0, <1>5 DEF Frontier, Reads
<1>9. Passed'
  <2> SUFFICES ASSUME NEW u \in Tasks, NEW i \in DOMAIN got'[u]
               PROVE got'[u][i] <= Frontier(u)'
    BY DEF Passed
  <2>1. CASE u = t
    BY <2>1, <1>2, <1>6, <1>7
  <2>2. CASE u # t
    <3>1. got[u][i] <= Frontier(u) /\ got[u][i] \in Nat
      BY <2>2, <1>1, <1>6 DEF Own, Passed
    <3>2. Frontier(u)' \in Nat
      BY <1>0, <1>5 DEF Frontier, Reads
    <3> QED
      BY <3>1, <3>2, <2>2, <1>1, <1>6, <1>8
  <2> QED
    BY <2>1, <2>2
<1>10. \A u \in Tasks \ {t} : SameWay(t, u) => Apart(r, got[u]) /\ Apart(got[u], r)
  <2> SUFFICES ASSUME NEW u \in Tasks \ {t}, SameWay(t, u),
                      NEW i \in DOMAIN r, NEW j \in DOMAIN got[u]
               PROVE r[i] # got[u][j]
    BY DEF Apart
  <2>1. got[u][j] \in Nat /\ got[u][j] <= Frontier(u) /\ Frontier(u) = Frontier(t)
    BY <1>1 DEF Own, Passed, SameWay, Frontier
  <2>2. CASE i \in DOMAIN got[t]
    BY <2>2, <1>2 DEF Own, Separate, Apart
  <2>3. CASE i \notin DOMAIN got[t]
    BY <2>3, <2>1, <1>1, <1>2
  <2> QED
    BY <2>2, <2>3
<1>11. \A u, v \in Tasks : SameWay(u, v)' <=> SameWay(u, v)
  BY <1>5 DEF SameWay, Reads
<1>12. Separate'
  <2> SUFFICES ASSUME NEW u \in Tasks
               PROVE /\ Ordered(got'[u])
                     /\ \A v \in Tasks \ {u} : SameWay(u, v) => Apart(got'[u], got'[v])
    BY <1>11 DEF Separate, Ordered, Apart
  <2>1. Ordered(got'[u])
    BY <1>2, <1>6 DEF Own, Separate
  <2>2. ASSUME NEW v \in Tasks \ {u}, SameWay(u, v)
        PROVE Apart(got'[u], got'[v])
    <3>1. CASE u = t
      BY <3>1, <2>2, <1>6, <1>10
    <3>2. CASE v = t
      <4>1. SameWay(t, u)
        BY <3>2, <2>2 DEF SameWay
      <4> QED
        BY <4>1, <3>2, <1>6, <1>10
    <3>3. CASE u # t /\ v # t
      BY <3>3, <2>2, <1>6 DEF Own, Separate
    <3> QED
      BY <3>1, <3>2, <3>3
  <2> QED
    BY <2>1, <2>2
<1> QED
  BY <1>4, <1>9, <1>12 DEF Own

\* No task is in a call, nor has any bytes: at first, and after SIGPIPE.
Over == /\ call = [t \in Tasks |-> NoCall]
        /\ got = [t \in Tasks |-> <<>>]
        /\ shown = [t \in Tasks |-> <<>>]
        /\ shared = {}

LEMMA NoCallIsACall == NoCall \in Calls /\ NoCall.phase = "done" /\ NoCall.op = "none"
<1>1. Call("none", 0, 0) \in Calls /\ Call("none", 0, 0).op = "none"
  BY DEF Call, Calls, Phases
<1> QED
  BY <1>1 DEF Calls, Phases, NoCall

LEMMA OverInv == Over => CallType /\ Own
<1> SUFFICES ASSUME Over PROVE CallType /\ Own
  OBVIOUS
<1>1. CallType
  BY NoCallIsACall DEF Over, CallType
<1>2. Own
  BY DEF Over, Own, Passed, Separate, Ordered, Apart
<1> QED
  BY <1>1, <1>2

LEMMA InitInv == Init => SocketInv
<1>1. Init => StreamType
  BY SocketIOAssumption DEF Init, StreamType
<1> QED
  BY <1>1, OverInv DEF Init, Over, SocketInv

\* A call that begins has an empty buffer.
LEMMA BeginKeeps ==
  ASSUME SocketInv, NEW t \in Tasks, NEW c \in Calls, Begin(t, c)
  PROVE SocketInv'
<1> DEFINE d == Loop(c)
<1>1. Goes(c, d)
  BY LoopGoes
<1> HIDE DEF d
<1>2. /\ call' = [call EXCEPT ![t] = d] /\ got' = [got EXCEPT ![t] = <<>>]
      /\ UNCHANGED stream /\ shared' \subseteq Tasks
  BY DEF Begin, d, SocketInv, CallType
<1>3. StreamType'
  BY <1>2 DEF SocketInv, StreamType, stream
<1>4. CallType'
  BY <1>1, <1>2 DEF SocketInv, CallType, Goes
<1>5. \A u \in Tasks : got'[u] = IF u = t THEN <<>> ELSE got[u]
  BY <1>2 DEF SocketInv, CallType
<1>6. \A u \in Tasks \ {t} : call'[u] = call[u]
  BY <1>2 DEF SocketInv, CallType
<1>7. \A u \in Tasks \ {t} : Frontier(u)' = Frontier(u)
  BY <1>2, <1>6 DEF Frontier, Reads, stream
<1>8. Passed'
  BY <1>5, <1>7 DEF SocketInv, Own, Passed
<1>9. Separate'
  BY <1>5, <1>6 DEF SocketInv, Own, Separate, SameWay, Ordered, Apart, Reads
<1> QED
  BY <1>3, <1>4, <1>8, <1>9 DEF SocketInv, Own

LEMMA ReadKeeps ==
  ASSUME SocketInv, NEW t \in Tasks, Read(t)
  PROVE SocketInv'
<1>1. PICK k \in 1 .. Least(Want(call[t]), Available) :
        /\ call' = [call EXCEPT ![t] = Moved(call[t], k)]
        /\ got' = [got EXCEPT ![t] = got[t] \o Bytes(taken, k)]
        /\ taken' = taken + k
        /\ UNCHANGED <<peer, arrived, accepted, drained, shared>>
  BY DEF Read
<1>2. call[t] \in Calls /\ call[t].phase # "start" /\ call[t].op \in Reads
  BY DEF SocketInv, CallType, Read
<1>3. taken \in Nat /\ arrived \in Nat /\ accepted \in Nat /\ taken <= arrived
  BY SocketIOAssumption DEF SocketInv, StreamType
<1>4. Want(call[t]) \in Int
  BY <1>2 DEF Want, Calls
<1>5. k \in Nat /\ k <= Want(call[t]) /\ taken + k <= arrived
  BY <1>3, <1>4 DEF Least, Available
<1>6. Goes(call[t], Moved(call[t], k))
  BY <1>2, <1>5, MovedGoes
<1>7. StreamType'
  BY <1>1, <1>3, <1>5 DEF SocketInv, StreamType
<1>8. /\ got' = [got EXCEPT ![t] = @ \o Bytes(Frontier(t), k)]
      /\ taken' = taken + (IF call[t].op \in Reads THEN k ELSE 0)
      /\ accepted' = accepted + (IF call[t].op \in Reads THEN 0 ELSE k)
  BY <1>1, <1>2, <1>3 DEF Frontier
<1>9. CallType' /\ Own'
  BY <1>1, <1>5, <1>6, <1>8, MovingStep, Zenon DEF SocketInv
<1> QED
  BY <1>7, <1>9 DEF SocketInv

LEMMA WriteKeeps ==
  ASSUME SocketInv, NEW t \in Tasks, Write(t)
  PROVE SocketInv'
<1>1. PICK k \in 1 .. Least(call[t].left, Free) :
        /\ call' = [call EXCEPT ![t] = Moved(call[t], k)]
        /\ got' = [got EXCEPT ![t] = got[t] \o Bytes(accepted, k)]
        /\ accepted' = accepted + k
        /\ UNCHANGED <<peer, arrived, taken, drained, shared>>
  BY DEF Write
<1>2. call[t] \in Calls /\ call[t].phase # "start" /\ call[t].op = "writen"
  BY DEF SocketInv, CallType, Write
<1>3. /\ taken \in Nat /\ accepted \in Nat /\ drained \in Nat
      /\ drained <= accepted /\ Room \in Nat
  BY SocketIOAssumption DEF SocketInv, StreamType
<1>4. call[t].left \in Int
  BY <1>2 DEF Calls
<1>5. k \in Nat /\ k <= Want(call[t])
  BY <1>2, <1>3, <1>4 DEF Least, Free, Want
<1>6. Goes(call[t], Moved(call[t], k))
  BY <1>2, <1>5, MovedGoes
<1>7. StreamType'
  BY <1>1, <1>3, <1>5 DEF SocketInv, StreamType
<1>8. /\ got' = [got EXCEPT ![t] = @ \o Bytes(Frontier(t), k)]
      /\ taken' = taken + (IF call[t].op \in Reads THEN k ELSE 0)
      /\ accepted' = accepted + (IF call[t].op \in Reads THEN 0 ELSE k)
  BY <1>1, <1>2, <1>3 DEF Frontier, Reads
<1>9. CallType' /\ Own'
  BY <1>1, <1>5, <1>6, <1>8, MovingStep, Zenon DEF SocketInv
<1> QED
  BY <1>7, <1>9 DEF SocketInv

\* The calls of the program: an int, or the room that is left, and no byte yet.
LEMMA BeginningIsACall ==
  ASSUME NEW op \in {"readn", "readLine", "writen"}, NEW n \in Int, NEW len \in Int
  PROVE Call(op, n, len) \in Calls
BY DEF Call, Calls, Phases

LEMMA TaskKeeps ==
  ASSUME SocketInv, NEW t \in Tasks, Step(t)
  PROVE SocketInv'
<1>0. call[t] \in Calls
  BY DEF SocketInv, CallType
<1>1. CASE Read(t)
  BY <1>1, ReadKeeps
<1>2. CASE Write(t)
  BY <1>2, WriteKeeps
<1>3. CASE Peek(t)
  <2>1. PICK size \in 1 .. Least(call[t].left, Available) :
          call' = [call EXCEPT ![t] = Goal(call[t], size, taken + size \in Newlines)]
    BY <1>3 DEF Peek
  <2>2. /\ UNCHANGED <<got, shared, taken, accepted>>
        /\ UNCHANGED <<peer, arrived, drained>>
    BY <1>3 DEF Peek, stream
  <2>3. size \in Nat /\ (taken + size \in Newlines) \in BOOLEAN
    <3>1. call[t].left \in Int /\ taken \in Int /\ arrived \in Int
      BY <1>0, SocketIOAssumption DEF Calls, SocketInv, StreamType
    <3> QED
      BY <3>1 DEF Least, Available
  <2>4. Goes(call[t], Goal(call[t], size, taken + size \in Newlines))
    BY <1>0, <2>3, GoalGoes
  <2>5. StreamType'
    BY <2>2 DEF SocketInv, StreamType
  <2> QED
    BY <2>1, <2>2, <2>4, <2>5, QuietStep, Zenon DEF SocketInv
<1>4. CASE EndOfStream(t)
  <2> DEFINE d == IF call[t].op = "readLine" /\ call[t].phase = "move"
                  THEN PieceTaken(call[t]) ELSE Broken(call[t])
  <2>1. Goes(call[t], d)
    BY <1>0, PieceTakenGoes, BrokenGoes
  <2>2. /\ call' = [call EXCEPT ![t] = d]
        /\ UNCHANGED <<got, shared, taken, accepted>>
        /\ UNCHANGED <<peer, arrived, drained>>
    BY <1>4 DEF EndOfStream, stream
  <2>3. StreamType'
    BY <2>2 DEF SocketInv, StreamType
  <2> HIDE DEF d
  <2> QED
    BY <2>1, <2>2, <2>3, QuietStep, Zenon DEF SocketInv
<1>5. CASE Fails(t)
  <2> DEFINE d == IF call[t].op = "readLine" /\ call[t].phase = "move"
                  THEN PieceTaken(call[t]) ELSE Return(call[t], -1)
  <2>1. Goes(call[t], d)
    BY <1>0, PieceTakenGoes, ReturnGoes
  <2>2. /\ call' = [call EXCEPT ![t] = d]
        /\ UNCHANGED <<got, shared, taken, accepted>>
        /\ UNCHANGED <<arrived, drained>> /\ peer' = "gone"
    BY <1>5 DEF Fails
  <2>3. StreamType'
    BY <2>2 DEF SocketInv, StreamType
  <2> HIDE DEF d
  <2> QED
    BY <2>1, <2>2, <2>3, QuietStep, Zenon DEF SocketInv
<1>6. CASE Sigpipe(t)
  <2>1. Over' /\ UNCHANGED stream
    BY <1>6 DEF Sigpipe, Over
  <2>2. CallType' /\ Own'
    BY <2>1, OverInv, PTL
  <2> QED
    BY <2>1, <2>2 DEF SocketInv, StreamType, stream
<1> QED
  BY <1>1, <1>2, <1>3, <1>4, <1>5, <1>6 DEF Step

LEMMA StepKeepsInv == SocketInv /\ [Next]_vars => SocketInv'
<1> SUFFICES ASSUME SocketInv, [Next]_vars PROVE SocketInv'
  OBVIOUS
<1>1. ASSUME NEW t \in Tasks, NEW n \in Sizes, Receive(t, n) \/ Send(t, n) \/ ReadLine(t, n)
      PROVE SocketInv'
  <2>1. n \in Nat /\ n \in Int /\ n - 1 \in Int /\ ToInt(n) \in Int
    BY SocketIOAssumption, ToIntType
  <2>2. CASE Receive(t, n)
    BY <2>1, <2>2, BeginningIsACall, BeginKeeps DEF Receive
  <2>3. CASE Send(t, n)
    BY <2>1, <2>3, BeginningIsACall, BeginKeeps DEF Send
  <2>4. CASE ReadLine(t, n)
    BY <2>1, <2>4, BeginningIsACall, BeginKeeps DEF ReadLine
  <2> QED
    BY <1>1, <2>2, <2>3, <2>4
<1>2. ASSUME NEW t \in Tasks, Step(t) PROVE SocketInv'
  BY <1>2, TaskKeeps
<1>3. ASSUME UNCHANGED vars PROVE SocketInv'
  BY <1>3 DEF vars, stream, SocketInv, StreamType, CallType, Own, Passed, Separate,
              Frontier, SameWay, Reads
<1>4. ASSUME ClientSends \/ ClientReads \/ ClientLeaves PROVE SocketInv'
  <2>1. StreamType'
    BY <1>4, SocketIOAssumption
       DEF ClientSends, ClientReads, ClientLeaves, SocketInv, StreamType
  <2>2. UNCHANGED <<taken, accepted, call, got, shared>>
    BY <1>4 DEF ClientSends, ClientReads, ClientLeaves
  <2>3. CallType' /\ Own'
    BY <2>2 DEF SocketInv, CallType, Own, Passed, Separate, Frontier, SameWay, Reads
  <2> QED
    BY <2>1, <2>3 DEF SocketInv
<1> QED
  BY <1>1, <1>2, <1>3, <1>4 DEF Next, Interrupted

\* The strengthened invariant holds throughout.
THEOREM SocketInvariant == Spec => []SocketInv
<1>1. Init => SocketInv
  BY InitInv
<1>2. SocketInv /\ [Next]_vars => SocketInv'
  BY StepKeepsInv
<1> QED
  BY <1>1, <1>2, PTL DEF Spec
------------------------------------------------------------------------------
Consecutive(s) == \A i \in 1 .. Len(s) - 1 : s[i + 1] = s[i] + 1

\* A call under way that nobody has joined has moved its bytes up to the frontier.
Lone == \A t \in Tasks \ shared :
          /\ Consecutive(got[t])
          /\ Busy(t) => /\ got[t] # <<>> => got[t][Len(got[t])] = Frontier(t)
                        /\ \A u \in Tasks \ {t} : SameWay(t, u) => ~Busy(u)

LEMMA LoneIsContiguous == Lone => LoneCallIsContiguous
BY DEF Lone, Consecutive, LoneCallIsContiguous

LEMMA OverLone == Over => Lone
BY NoCallIsACall DEF Over, Lone, Consecutive, Busy

\* The next bytes of a stream continue a buffer that ends where they begin.
LEMMA Continuing ==
  ASSUME NEW s \in Seq(Nat), NEW from \in Nat, NEW k \in Nat \ {0},
         Consecutive(s), s # <<>> => s[Len(s)] = from
  PROVE  /\ Consecutive(s \o Bytes(from, k))
         /\ (s \o Bytes(from, k))[Len(s \o Bytes(from, k))] = from + k
<1> DEFINE b == Bytes(from, k)
           r == s \o b
<1>1. b \in Seq(Nat) /\ Len(b) = k /\ \A i \in 1 .. k : b[i] = from + i
  BY DEF Bytes
<1> HIDE DEF b
<1>2. r \in Seq(Nat) /\ Len(r) = Len(s) + k /\ Len(s) \in Nat
  BY <1>1
<1>3. \A i \in 1 .. Len(s) : r[i] = s[i] /\ s[i] \in Nat
  BY <1>1
<1>4. \A i \in Len(s) + 1 .. Len(s) + k : r[i] = from + (i - Len(s))
  BY <1>1
<1> HIDE DEF r
<1>5. Consecutive(r)
  <2> SUFFICES ASSUME NEW i \in 1 .. Len(r) - 1 PROVE r[i + 1] = r[i] + 1
    BY DEF Consecutive
  <2>0. i \in Nat /\ 1 <= i /\ i + 1 <= Len(s) + k
    BY <1>2
  <2>1. CASE i < Len(s)
    <3>1. s[i + 1] = s[i] + 1
      BY <1>2, <2>1 DEF Consecutive
    <3>2. i \in 1 .. Len(s) /\ i + 1 \in 1 .. Len(s)
      BY <1>2, <2>0, <2>1
    <3>3. r[i] = s[i] /\ r[i + 1] = s[i + 1]
      BY <1>3, <3>2
    <3> QED
      BY <3>1, <3>3
  <2>2. CASE i = Len(s)
    <3>1. r[i] = s[Len(s)] /\ s # <<>>
      BY <1>2, <1>3, <2>2
    <3>2. i + 1 \in Len(s) + 1 .. Len(s) + k /\ (i + 1) - Len(s) = 1
      BY <1>2, <2>0, <2>2
    <3>3. r[i + 1] = from + 1
      BY <1>4, <3>2
    <3> QED
      BY <3>1, <3>3
  <2>3. CASE i > Len(s)
    <3>1. i \in Len(s) + 1 .. Len(s) + k /\ i + 1 \in Len(s) + 1 .. Len(s) + k
      BY <1>2, <2>0, <2>3
    <3>2. r[i] = from + (i - Len(s)) /\ r[i + 1] = from + ((i + 1) - Len(s))
      BY <1>4, <3>1
    <3> QED
      BY <1>2, <2>0, <3>2
  <2> QED
    BY <1>2, <2>1, <2>2, <2>3
<1>6. r[Len(r)] = from + k
  BY <1>2, <1>4
<1> QED
  BY <1>5, <1>6 DEF r, b

\* A call that begins: alone, or every call it overlaps is noted.
LEMMA BeginLone ==
  ASSUME SocketInv, Lone, NEW t \in Tasks, NEW c \in Calls, Begin(t, c)
  PROVE  Lone'
<1> DEFINE d == Loop(c)
<1>1. Goes(c, d)
  BY LoopGoes
<1> HIDE DEF d
<1>2. /\ call' = [call EXCEPT ![t] = d] /\ got' = [got EXCEPT ![t] = <<>>]
      /\ UNCHANGED stream
      /\ ~Busy(t)
  BY DEF Begin, d
<1> DEFINE with == {u \in Tasks \ {t} : Busy(u) /\ (c.op \in Reads <=> call[u].op \in Reads)}
<1>3. shared' = IF with = {} THEN shared \ {t} ELSE shared \union with \union {t}
  BY DEF Begin
<1>4. /\ call'[t] = d /\ got'[t] = <<>>
      /\ \A u \in Tasks \ {t} : call'[u] = call[u] /\ got'[u] = got[u]
  BY <1>2 DEF SocketInv, CallType
<1>5. d.op = c.op
  BY <1>1 DEF Goes
<1> SUFFICES ASSUME NEW u \in Tasks \ shared'
             PROVE /\ Consecutive(got'[u])
                   /\ Busy(u)' => /\ got'[u] # <<>> => got'[u][Len(got'[u])] = Frontier(u)'
                                  /\ \A v \in Tasks \ {u} : SameWay(u, v)' => ~Busy(v)'
  BY DEF Lone, Consecutive
<1>6. CASE u = t
  <2>1. with = {}
    BY <1>3, <1>6
  <2>2. \A v \in Tasks \ {t} : SameWay(t, v)' => ~Busy(v)'
    BY <1>4, <1>5, <2>1 DEF SameWay, Busy, Reads
  <2> QED
    BY <1>4, <1>6, <2>2 DEF Consecutive
<1>7. CASE u # t
  <2>1. u \notin shared /\ u \notin with
    BY <1>3, <1>7
  <2>2. Frontier(u)' = Frontier(u)
    BY <1>2, <1>4, <1>7 DEF Frontier, Reads, stream
  <2>3. ASSUME Busy(u)', NEW v \in Tasks \ {u}, SameWay(u, v)' PROVE ~Busy(v)'
    <3>1. CASE v = t
      BY <1>4, <1>5, <1>7, <2>1, <2>3, <3>1 DEF SameWay, Busy, Reads
    <3>2. CASE v # t
      BY <1>4, <1>7, <2>1, <2>3, <3>2 DEF Lone, SameWay, Busy, Reads
    <3> QED
      BY <3>1, <3>2
  <2> QED
    BY <1>4, <1>7, <2>1, <2>2, <2>3 DEF Lone, Busy, Consecutive
<1> QED
  BY <1>6, <1>7

\* A step of a call under way that moves no byte.
LEMMA QuietLone ==
  ASSUME CallType, Lone, NEW t \in Tasks, NEW d, Goes(call[t], d), Busy(t),
         call' = [call EXCEPT ![t] = d], UNCHANGED <<got, shared, taken, accepted>>
  PROVE  Lone'
<1>1. \A u \in Tasks : call'[u].op = call[u].op /\ (Busy(u)' => Busy(u))
  BY DEF CallType, Goes, Busy
<1> QED
  BY <1>1 DEF Lone, SameWay, Reads, Frontier, Consecutive

\* A step of a call under way that moves the next bytes of its direction.
LEMMA MovingLone ==
  ASSUME StreamType, CallType, Lone, NEW t \in Tasks, NEW d, Goes(call[t], d), Busy(t),
         NEW k \in Nat \ {0}, call' = [call EXCEPT ![t] = d],
         got' = [got EXCEPT ![t] = @ \o Bytes(Frontier(t), k)], UNCHANGED shared,
         taken' = taken + (IF call[t].op \in Reads THEN k ELSE 0),
         accepted' = accepted + (IF call[t].op \in Reads THEN 0 ELSE k)
  PROVE  Lone'
<1> DEFINE r == got[t] \o Bytes(Frontier(t), k)
<1>1. taken \in Nat /\ accepted \in Nat
  BY DEF StreamType
<1>2. Frontier(t) \in Nat /\ got[t] \in Seq(Nat)
  BY <1>1 DEF Frontier, CallType
<1>3. t \notin shared => Consecutive(r) /\ r[Len(r)] = Frontier(t) + k
  BY <1>2, Continuing DEF Lone
<1>4. got'[t] = r /\ \A u \in Tasks \ {t} : got'[u] = got[u]
  BY DEF CallType
<1> HIDE DEF r
<1>5. \A u \in Tasks : call'[u].op = call[u].op /\ (Busy(u)' => Busy(u))
  BY DEF CallType, Goes, Busy
<1>6. Frontier(t)' = Frontier(t) + k
  BY <1>1, <1>5 DEF Frontier, Reads
<1>7. \A u \in Tasks \ {t} : ~SameWay(t, u) => Frontier(u)' = Frontier(u)
  BY <1>1, <1>5 DEF Frontier, Reads, SameWay
<1>8. \A u, v \in Tasks : SameWay(u, v)' <=> SameWay(u, v)
  BY <1>5 DEF SameWay, Reads
<1> SUFFICES ASSUME NEW u \in Tasks \ shared
             PROVE /\ Consecutive(got'[u])
                   /\ Busy(u)' => /\ got'[u] # <<>> => got'[u][Len(got'[u])] = Frontier(u)'
                                  /\ \A v \in Tasks \ {u} : SameWay(u, v)' => ~Busy(v)'
  BY DEF Lone, Consecutive
<1>9. Busy(u)' => \A v \in Tasks \ {u} : SameWay(u, v)' => ~Busy(v)'
  BY <1>5, <1>8 DEF Lone
<1>10. CASE u = t
  BY <1>3, <1>4, <1>6, <1>9, <1>10
<1>11. CASE u # t
  <2>1. Busy(u) => ~SameWay(t, u)
    BY <1>11 DEF Lone, SameWay
  <2> QED
    BY <1>4, <1>5, <1>7, <1>9, <1>11, <2>1 DEF Lone
<1> QED
  BY <1>10, <1>11
------------------------------------------------------------------------------
Counting == {"readn", "writen"}

\* left counts what a call c with the buffer s still has to move, and the
\* returned count, with the client's end at p, is true.
Counted(c, s, p) ==
  c.op \in Counting =>
    /\ c.asked \in Nat /\ c.len = ToInt(c.asked)
    /\ c.phase # "done" => c.phase = "move" /\ c.left > 0 /\ c.left = c.len - Len(s)
    /\ c.phase = "done" => /\ c.ret \in {-1, Len(s)}
                           /\ c.ret # c.asked => p # "open" \/ c.asked # ToInt(c.asked)

Count == \A t \in Tasks : Counted(call[t], got[t], peer)

LEMMA CountIsTrue == Count => ReturnIsTrue
BY DEF Count, Counted, Counting, ReturnIsTrue, Busy

LEMMA OverCount == Over => Count
BY NoCallIsACall DEF Over, Count, Counted, Counting

\* A round of the loops of readn and writen: there is more to move, or the
\* call is done with all of it, or has asked for less than nothing.
LEMMA LoopCounts ==
  ASSUME NEW c \in Calls, NEW s \in Seq(Nat), NEW p,
         c.asked \in Nat, c.len = ToInt(c.asked), c.op \in Counting,
         c.left = c.len - Len(s), c.left >= 0 \/ Len(s) = 0
  PROVE  Counted(Loop(c), s, p)
<1>1. Len(s) \in Nat /\ c.len \in Int /\ c.left \in Int /\ c.op # "readLine"
  BY DEF Calls, Counting
<1>2. CASE c.left > 0
  <2>1. Loop(c) = [c EXCEPT !.phase = "move"]
    BY <1>1, <1>2 DEF Loop
  <2> QED
    BY <2>1, <1>2 DEF Counted, Calls
<1>3. CASE ~(c.left > 0)
  <2> DEFINE d == [c EXCEPT !.phase = "done", !.ret = c.len - c.left]
  <2>1. Loop(c) = d
    BY <1>1, <1>3 DEF Loop, Return
  <2>2. /\ d.phase = "done" /\ d.ret = c.len - c.left /\ d.asked = c.asked
        /\ d.len = c.len
    BY DEF Calls
  <2>3. c.len - c.left = Len(s)
    BY <1>1
  <2>4. Len(s) # c.asked => c.asked # c.len
    BY <1>1, <1>3
  <2> HIDE DEF d
  <2> QED
    BY <2>1, <2>2, <2>3, <2>4 DEF Counted
<1> QED
  BY <1>2, <1>3

\* A step of the task t: the other calls keep their counts, as the client does
\* not come back.
LEMMA CountStep ==
  ASSUME CallType, Count, NEW t \in Tasks, NEW d, NEW s,
         call' = [call EXCEPT ![t] = d], got' = [got EXCEPT ![t] = s],
         peer' = "open" => peer = "open", Counted(d, s, peer')
  PROVE  Count'
<1>1. call'[t] = d /\ got'[t] = s
  BY DEF CallType
<1>2. \A u \in Tasks \ {t} : call'[u] = call[u] /\ got'[u] = got[u]
  BY DEF CallType
<1>3. \A u \in Tasks \ {t} : Counted(call[u], got[u], peer')
  BY DEF Count, Counted
<1> QED
  BY <1>1, <1>2, <1>3 DEF Count

LEMMA BeginCount ==
  ASSUME SocketInv, Count, NEW t \in Tasks, NEW c \in Calls, Begin(t, c), c.left = c.len,
         c.op \in Counting => c.asked \in Nat /\ c.len = ToInt(c.asked)
  PROVE  Count'
<1>1. Counted(Loop(c), <<>>, peer)
  <2>1. CASE c.op \in Counting
    <3>1. c.left = c.len - Len(<<>>) /\ Len(<<>>) = 0 /\ <<>> \in Seq(Nat)
      BY DEF Calls
    <3> QED
      BY <2>1, <3>1, LoopCounts
  <2>2. CASE c.op \notin Counting
    BY <2>2, LoopGoes DEF Goes, Counted
  <2> QED
    BY <2>1, <2>2
<1>2. /\ call' = [call EXCEPT ![t] = Loop(c)] /\ got' = [got EXCEPT ![t] = <<>>]
      /\ peer' = peer
  BY DEF Begin, stream
<1> QED
  BY <1>1, <1>2, CountStep DEF SocketInv

\* A step that moves k bytes.
LEMMA MovingCount ==
  ASSUME SocketInv, Count, NEW t \in Tasks, call[t].phase = "move",
         NEW k \in Nat, k <= Want(call[t]), NEW from \in Nat,
         call' = [call EXCEPT ![t] = Moved(@, k)],
         got' = [got EXCEPT ![t] = @ \o Bytes(from, k)], UNCHANGED peer
  PROVE  Count'
<1> DEFINE c == call[t]
           s == got[t] \o Bytes(from, k)
<1>1. c \in Calls /\ c.phase # "start" /\ got[t] \in Seq(Nat)
  BY DEF SocketInv, CallType
<1>2. Counted(c, got[t], peer)
  BY DEF Count
<1>3. Bytes(from, k) \in Seq(Nat) /\ Len(Bytes(from, k)) = k
  BY DEF Bytes
<1>4. s \in Seq(Nat) /\ Len(s) = Len(got[t]) + k
  <2>1. \A a, b \in Seq(Nat) : a \o b \in Seq(Nat) /\ Len(a \o b) = Len(a) + Len(b)
    OBVIOUS
  <2> QED
    BY <1>1, <1>3, <2>1
<1>5. Counted(Moved(c, k), s, peer)
  <2>1. CASE c.op \in Counting
    <3> DEFINE d == [c EXCEPT !.left = c.left - k]
    <3>0. c.left - k \in Int /\ c.op # "readLine"
      BY <1>1, <2>1 DEF Calls, Counting
    <3>1. /\ d \in Calls /\ d.left = c.left - k /\ d.len = c.len
          /\ d.asked = c.asked /\ d.op = c.op
      BY <1>1, <3>0 DEF Calls
    <3>2. Moved(c, k) = Loop(d)
      BY <3>0 DEF Moved
    <3>3. c.left - k = c.len - Len(s) /\ c.left - k >= 0
      <4>1. c.left = c.len - Len(got[t]) /\ k <= c.left
        BY <1>2, <2>1, <3>0 DEF Counted, Want
      <4>2. c.left \in Int /\ c.len \in Int /\ Len(got[t]) \in Nat
        BY <1>1 DEF Calls
      <4> HIDE DEF c, s
      <4> QED
        BY <1>4, <4>1, <4>2
    <3> HIDE DEF d, s
    <3> QED
      BY <1>2, <1>4, <2>1, <3>1, <3>2, <3>3, LoopCounts DEF Counted
  <2>2. CASE c.op \notin Counting
    BY <1>1, <2>2, MovedGoes DEF Goes, Counted
  <2> QED
    BY <2>1, <2>2
<1> QED
  BY <1>5, CountStep DEF SocketInv
------------------------------------------------------------------------------
\* The two kinds of steps in a call: one moves the next bytes of its direction ...
Moves(t, k) ==
  /\ k <= Want(call[t]) /\ call[t].phase = "move"
  /\ call' = [call EXCEPT ![t] = Moved(@, k)]
  /\ got' = [got EXCEPT ![t] = @ \o Bytes(Frontier(t), k)]
  /\ taken' = taken + (IF call[t].op \in Reads THEN k ELSE 0)
  /\ accepted' = accepted + (IF call[t].op \in Reads THEN 0 ELSE k)
  /\ UNCHANGED <<shared, peer>>

\* ... and one moves none: readLine has peeked, or a call has been told that the
\* client is not there.
Quiet(t, d) ==
  /\ Goes(call[t], d) /\ Busy(t)
  /\ call' = [call EXCEPT ![t] = d]
  /\ peer' = "open" => peer = "open"
  /\ Counted(d, got[t], peer')
  /\ UNCHANGED <<got, shared, taken, accepted>>

LEMMA ReadMoves ==
  ASSUME SocketInv, NEW t \in Tasks, Read(t) PROVE \E k \in Nat \ {0} : Moves(t, k)
<1>1. PICK k \in 1 .. Least(Want(call[t]), Available) :
        /\ call' = [call EXCEPT ![t] = Moved(call[t], k)]
        /\ got' = [got EXCEPT ![t] = got[t] \o Bytes(taken, k)]
        /\ taken' = taken + k
  BY DEF Read
<1>2. /\ call[t].op \in Reads /\ call[t].phase = "move"
      /\ UNCHANGED <<peer, accepted, shared>>
  BY DEF Read
<1>3. taken \in Nat /\ arrived \in Nat /\ accepted \in Nat
  BY SocketIOAssumption DEF SocketInv, StreamType
<1>4. Want(call[t]) \in Int
  BY DEF SocketInv, CallType, Want, Calls
<1>5. k \in Nat \ {0} /\ k <= Want(call[t])
  BY <1>3, <1>4 DEF Least, Available
<1>6. Moves(t, k)
  BY <1>1, <1>2, <1>3, <1>5 DEF Moves, Frontier
<1> QED
  BY <1>5, <1>6

LEMMA WriteMoves ==
  ASSUME SocketInv, NEW t \in Tasks, Write(t) PROVE \E k \in Nat \ {0} : Moves(t, k)
<1>1. PICK k \in 1 .. Least(call[t].left, Free) :
        /\ call' = [call EXCEPT ![t] = Moved(call[t], k)]
        /\ got' = [got EXCEPT ![t] = got[t] \o Bytes(accepted, k)]
        /\ accepted' = accepted + k
  BY DEF Write
<1>2. /\ call[t].op = "writen" /\ call[t].phase = "move"
      /\ UNCHANGED <<peer, taken, shared>>
  BY DEF Write
<1>3. taken \in Nat /\ accepted \in Nat /\ drained \in Nat /\ Room \in Nat
  BY SocketIOAssumption DEF SocketInv, StreamType
<1>4. call[t].left \in Int
  BY DEF SocketInv, CallType, Calls
<1>5. k \in Nat \ {0} /\ k <= Want(call[t])
  BY <1>2, <1>3, <1>4 DEF Least, Free, Want
<1>6. Moves(t, k)
  BY <1>1, <1>2, <1>3, <1>5 DEF Moves, Frontier, Reads
<1> QED
  BY <1>5, <1>6

LEMMA PeekIsQuiet ==
  ASSUME SocketInv, Count, NEW t \in Tasks, Peek(t) PROVE \E d : Quiet(t, d)
<1>1. PICK size \in 1 .. Least(call[t].left, Available) :
        call' = [call EXCEPT ![t] = Goal(call[t], size, taken + size \in Newlines)]
  BY DEF Peek
<1> DEFINE ends == taken + size \in Newlines
           d == Goal(call[t], size, ends)
<1>2. call[t] \in Calls /\ call[t].phase = "peek" /\ call[t].op \notin Counting
  BY DEF SocketInv, CallType, Peek, Count, Counted
<1>3. size \in Nat /\ ends \in BOOLEAN
  <2>1. call[t].left \in Int /\ taken \in Int /\ arrived \in Int
    BY <1>2, SocketIOAssumption DEF Calls, SocketInv, StreamType
  <2> QED
    BY <2>1 DEF Least, Available
<1>4. Goes(call[t], d)
  BY <1>2, <1>3, GoalGoes
<1>5. UNCHANGED <<peer, got, shared, taken, accepted>>
  BY DEF Peek, stream
<1> HIDE DEF d
<1>6. Quiet(t, d)
  BY <1>1, <1>2, <1>4, <1>5 DEF Quiet, Counted, Goes, Busy, d
<1> QED
  BY <1>6

LEMMA EndIsQuiet ==
  ASSUME SocketInv, Count, NEW t \in Tasks, EndOfStream(t) PROVE \E d : Quiet(t, d)
<1> DEFINE c == call[t]
           d == IF c.op = "readLine" /\ c.phase = "move" THEN PieceTaken(c) ELSE Broken(c)
<1>1. c \in Calls
  BY DEF SocketInv, CallType
<1>2. Goes(c, d)
  BY <1>1, PieceTakenGoes, BrokenGoes
<1>3. /\ call' = [call EXCEPT ![t] = d] /\ Busy(t) /\ peer # "open" /\ peer' = peer
      /\ UNCHANGED <<got, shared, taken, accepted>>
  BY DEF EndOfStream, stream
<1>4. Counted(d, got[t], peer)
  <2>1. CASE c.op \in Counting
    <3>1. /\ d = [c EXCEPT !.phase = "done", !.ret = c.len - c.left]
          /\ c.left = c.len - Len(got[t]) /\ c.asked \in Nat /\ c.len = ToInt(c.asked)
      BY <1>3, <2>1 DEF Counting, Count, Counted, Busy, Broken, Return
    <3>2. /\ d.phase = "done" /\ d.ret = c.len - c.left /\ d.asked = c.asked /\ d.len = c.len
      BY <1>1, <3>1 DEF Calls
    <3>3. c.len - c.left = Len(got[t])
      BY <1>1, <3>1 DEF Calls, SocketInv, CallType
    <3> QED
      BY <1>3, <3>1, <3>2, <3>3 DEF Counted
  <2>2. CASE c.op \notin Counting
    BY <1>2, <2>2 DEF Counted, Goes
  <2> QED
    BY <2>1, <2>2
<1> HIDE DEF d
<1>5. Quiet(t, d)
  BY <1>2, <1>3, <1>4 DEF Quiet
<1> QED
  BY <1>5

LEMMA FailIsQuiet ==
  ASSUME SocketInv, Count, NEW t \in Tasks, Fails(t) PROVE \E d : Quiet(t, d)
<1> DEFINE c == call[t]
           d == IF c.op = "readLine" /\ c.phase = "move" THEN PieceTaken(c) ELSE Return(c, -1)
<1>1. c \in Calls
  BY DEF SocketInv, CallType
<1>2. Goes(c, d)
  BY <1>1, PieceTakenGoes, ReturnGoes
<1>3. /\ call' = [call EXCEPT ![t] = d] /\ Busy(t) /\ peer' = "gone"
      /\ UNCHANGED <<got, shared, taken, accepted>>
  BY DEF Fails
<1>4. Counted(d, got[t], "gone")
  <2>1. CASE c.op \in Counting
    <3>1. /\ d = [c EXCEPT !.phase = "done", !.ret = -1]
          /\ c.asked \in Nat /\ c.len = ToInt(c.asked)
      BY <1>3, <2>1 DEF Counting, Count, Counted, Return
    <3>2. /\ d.phase = "done" /\ d.ret = -1 /\ d.asked = c.asked /\ d.len = c.len
      BY <1>1, <3>1 DEF Calls
    <3> QED
      BY <3>1, <3>2 DEF Counted
  <2>2. CASE c.op \notin Counting
    BY <1>2, <2>2 DEF Counted, Goes
  <2> QED
    BY <2>1, <2>2
<1> HIDE DEF d
<1>5. Quiet(t, d)
  BY <1>2, <1>3, <1>4 DEF Quiet
<1> QED
  BY <1>5

CallInv == Lone /\ Count

LEMMA MovesKeepCalls ==
  ASSUME SocketInv, CallInv, NEW t \in Tasks, NEW k \in Nat \ {0}, Moves(t, k)
  PROVE  CallInv'
<1>1. call[t] \in Calls /\ call[t].phase # "start" /\ Busy(t) /\ k \in Nat
  BY DEF SocketInv, CallType, Moves, Busy
<1>2. Goes(call[t], Moved(call[t], k))
  BY <1>1, MovedGoes DEF Moves
<1>3. Frontier(t) \in Nat
  BY DEF SocketInv, StreamType, Frontier
<1>4. Lone'
  BY <1>1, <1>2, MovingLone DEF Moves, SocketInv, CallInv
<1>5. Count'
  BY <1>1, <1>3, MovingCount DEF Moves, CallInv
<1> QED
  BY <1>4, <1>5 DEF CallInv

LEMMA QuietKeepsCalls ==
  ASSUME SocketInv, CallInv, NEW t \in Tasks, NEW d, Quiet(t, d)
  PROVE  CallInv'
<1>1. Lone'
  BY QuietLone DEF Quiet, SocketInv, CallInv
<1>2. got' = [got EXCEPT ![t] = got[t]]
  BY DEF Quiet, SocketInv, CallType
<1>3. Count'
  BY <1>2, CountStep DEF Quiet, SocketInv, CallInv
<1> QED
  BY <1>1, <1>3 DEF CallInv

LEMMA BeginKeepsCalls ==
  ASSUME SocketInv, CallInv, NEW t \in Tasks, NEW n \in Sizes,
         Receive(t, n) \/ Send(t, n) \/ ReadLine(t, n)
  PROVE  CallInv'
<1>1. n \in Nat /\ n \in Int /\ n - 1 \in Int /\ ToInt(n) \in Int
  BY SocketIOAssumption, ToIntType
<1>2. ASSUME NEW op \in {"readn", "readLine", "writen"}, NEW len \in Int,
             op \in Counting => len = ToInt(n), Begin(t, Call(op, n, len))
      PROVE  CallInv'
  <2> DEFINE c == Call(op, n, len)
  <2>1. c \in Calls
    BY <1>1, BeginningIsACall
  <2>2. c.op = op /\ c.left = len /\ c.len = len /\ c.asked = n
    BY DEF Call
  <2>3. Begin(t, c)
    BY <1>2
  <2> HIDE DEF c
  <2>4. Lone'
    BY <2>1, <2>3, BeginLone DEF CallInv
  <2>5. Count'
    BY <1>1, <1>2, <2>1, <2>2, <2>3, BeginCount DEF CallInv
  <2> QED
    BY <2>4, <2>5 DEF CallInv
<1>3. CASE Receive(t, n)
  BY <1>1, <1>2, <1>3 DEF Receive, Counting
<1>4. CASE Send(t, n)
  BY <1>1, <1>2, <1>4 DEF Send, Counting
<1>5. CASE ReadLine(t, n)
  BY <1>1, <1>2, <1>5 DEF ReadLine, Counting
<1> QED
  BY <1>3, <1>4, <1>5

LEMMA StepKeepsCalls == SocketInv /\ CallInv /\ [Next]_vars => CallInv'
<1> SUFFICES ASSUME SocketInv, CallInv, [Next]_vars PROVE CallInv'
  OBVIOUS
<1>1. ASSUME NEW t \in Tasks, NEW n \in Sizes, Receive(t, n) \/ Send(t, n) \/ ReadLine(t, n)
      PROVE CallInv'
  BY <1>1, BeginKeepsCalls
<1>2. ASSUME NEW t \in Tasks, Step(t) PROVE CallInv'
  <2>1. CASE Read(t) \/ Write(t)
    BY <2>1, ReadMoves, WriteMoves, MovesKeepCalls
  <2>2. CASE Peek(t) \/ EndOfStream(t) \/ Fails(t)
    BY <2>2, PeekIsQuiet, EndIsQuiet, FailIsQuiet, QuietKeepsCalls DEF CallInv
  <2>3. CASE Sigpipe(t)
    <3>1. Over'
      BY <2>3 DEF Sigpipe, Over
    <3> QED
      BY <3>1, OverLone, OverCount, PTL DEF CallInv
  <2> QED
    BY <1>2, <2>1, <2>2, <2>3 DEF Step
<1>3. ASSUME ClientSends \/ ClientReads \/ ClientLeaves \/ UNCHANGED vars PROVE CallInv'
  <2>1. /\ UNCHANGED <<taken, accepted, call, got, shared>>
        /\ peer' = "open" => peer = "open"
    BY <1>3 DEF ClientSends, ClientReads, ClientLeaves, vars, stream
  <2>2. Lone'
    BY <2>1 DEF CallInv, Lone, Consecutive, Busy, Frontier, SameWay, Reads
  <2>3. Count'
    BY <2>1 DEF CallInv, Count, Counted
  <2> QED
    BY <2>2, <2>3 DEF CallInv
<1> QED
  BY <1>1, <1>2, <1>3 DEF Next, Interrupted

\* What holds of each call, and of the calls that overlap it.
THEOREM CallInvariant == Spec => []CallInv
<1>1. Init => CallInv
  BY OverLone, OverCount DEF Init, Over, CallInv
<1>2. SocketInv /\ CallInv /\ [Next]_vars => CallInv'
  BY StepKeepsCalls
<1> QED
  BY <1>1, <1>2, SocketInvariant, PTL DEF Spec

\* A call that had its direction to itself has moved consecutive bytes,
\* whatever the kernel, signals and the calls of the other direction did.
THEOREM LoneCallsAreContiguous == Spec => []LoneCallIsContiguous
<1>1. CallInv => LoneCallIsContiguous
  BY LoneIsContiguous DEF CallInv
<1> QED
  BY <1>1, CallInvariant, PTL

\* readn and writen return what they have moved, or -1, and less than was asked
\* for only if the client has gone or the size is no int.
THEOREM ReturnsAreTrue == Spec => []ReturnIsTrue
<1>1. CallInv => ReturnIsTrue
  BY CountIsTrue DEF CallInv
<1> QED
  BY <1>1, CallInvariant, PTL
------------------------------------------------------------------------------
\* What a peek has put into the buffer of the task t behind got: in a piece, its
\* rest, which a reader that is alone will find; after it, nothing, unless another
\* reader was quicker and the client has left.
PeekedBy(t) ==
  /\ shown[t] \in Seq(Nat)
  /\ call[t].op # "readLine" => shown[t] = <<>>
  /\ call[t].op = "readLine" /\ call[t].phase = "move" =>
       /\ Len(shown[t]) = call[t].nest
       /\ t \notin shared => call[t].nest <= Available
  /\ call[t].phase # "move" /\ shown[t] # <<>> => t \in shared /\ peer # "open"

Peeked == /\ up \in BOOLEAN
          /\ shown \in [Tasks -> Seq(Nat)]
          /\ \A t \in Tasks : PeekedBy(t)

LEMMA OverPeeked == Over /\ up \in BOOLEAN => Peeked
BY NoCallIsACall DEF Over, Peeked, PeekedBy

\* What is left of the bytes that a peek has shown.
LEMMA BehindType ==
  ASSUME NEW bytes \in Seq(Nat), NEW k \in Nat
  PROVE  /\ Behind(bytes, k) \in Seq(Nat)
         /\ k <= Len(bytes) => Len(Behind(bytes, k)) = Len(bytes) - k
         /\ bytes = <<>> => Behind(bytes, k) = <<>>
BY DEF Behind

\* After a piece readLine peeks again or returns.
LEMMA PieceTakenEnds ==
  ASSUME NEW c \in Calls, c.op = "readLine"
  PROVE  PieceTaken(c).phase # "move" /\ PieceTaken(c).op = "readLine"
<1>1. CASE c.seen
  BY <1>1 DEF PieceTaken, Return, Calls
<1>2. CASE ~c.seen
  <2> DEFINE d == [c EXCEPT !.total = @ + c.piece, !.left = @ - c.piece]
  <2>1. d \in Calls /\ d.op = c.op
    BY NextPiece
  <2>2. PieceTaken(c) = Loop(d)
    BY <1>2 DEF PieceTaken
  <2> HIDE DEF d
  <2>3. Loop(d).phase # "move" /\ Loop(d).op = "readLine"
    BY <2>1 DEF Loop, Return, Calls
  <2> QED
    BY <2>2, <2>3
<1> QED
  BY <1>1, <1>2

\* A step of the task t: what was shown to the others is still there, unless t
\* reads, and then they are not alone.
LEMMA PeekedStep ==
  ASSUME SocketInv, Lone, Peeked, NEW t \in Tasks, NEW d, NEW s \in Seq(Nat),
         call' = [call EXCEPT ![t] = d], shown' = [shown EXCEPT ![t] = s],
         UNCHANGED <<arrived, up>>, peer' = "open" => peer = "open",
         Tasks \ shared' \subseteq (Tasks \ shared) \union {t},
         taken' = taken \/ (Busy(t) /\ call[t].op \in Reads),
         PeekedBy(t)'
  PROVE  Peeked'
<1>1. up' \in BOOLEAN /\ shown' \in [Tasks -> Seq(Nat)]
  BY DEF Peeked
<1>2. ASSUME NEW u \in Tasks \ {t} PROVE PeekedBy(u)'
  <2>1. call'[u] = call[u] /\ shown'[u] = shown[u] /\ PeekedBy(u)
    BY DEF SocketInv, CallType, Peeked
  <2>2. u \notin shared' => u \notin shared
    OBVIOUS
  <2>3. CASE taken' = taken
    BY <2>1, <2>2, <2>3 DEF PeekedBy, Available
  <2>4. CASE Busy(t) /\ call[t].op \in Reads
    <3>1. call[u].op = "readLine" /\ call[u].phase = "move" => u \in shared
      BY <2>4 DEF Lone, SameWay, Reads, Busy
    <3> QED
      BY <2>1, <2>2, <3>1 DEF PeekedBy
  <2> QED
    BY <2>3, <2>4
<1> QED
  BY <1>1, <1>2 DEF Peeked

LEMMA BeginPeeked ==
  ASSUME SocketInv, Lone, Peeked, NEW t \in Tasks, NEW c \in Calls, Begin(t, c)
  PROVE  Peeked'
<1> DEFINE d == Loop(c)
<1>1. d.op = c.op /\ (c.op = "readLine" => d.phase # "move")
  BY DEF Loop, Return, Calls
<1> HIDE DEF d
<1>2. /\ call' = [call EXCEPT ![t] = d] /\ shown' = [shown EXCEPT ![t] = <<>>]
      /\ UNCHANGED <<arrived, up, peer, taken>>
      /\ Tasks \ shared' \subseteq (Tasks \ shared) \union {t}
  BY DEF Begin, stream, d
<1>3. call'[t] = d /\ shown'[t] = <<>>
  BY <1>2 DEF SocketInv, CallType, Peeked
<1>4. PeekedBy(t)'
  BY <1>1, <1>3 DEF PeekedBy
<1>5. <<>> \in Seq(Nat)
  OBVIOUS
<1> QED
  BY <1>2, <1>4, <1>5, PeekedStep

\* The inner readn writes the bytes it takes over the first ones that were shown.
LEMMA ReadPeeked ==
  ASSUME SocketInv, Lone, Peeked, NEW t \in Tasks, Read(t)
  PROVE  Peeked'
<1>1. PICK k \in 1 .. Least(Want(call[t]), Available) :
        /\ call' = [call EXCEPT ![t] = Moved(call[t], k)]
        /\ shown' = [shown EXCEPT ![t] = Behind(shown[t], k)]
        /\ taken' = taken + k
  BY DEF Read
<1> DEFINE c == call[t]
           d == Moved(c, k)
           s == Behind(shown[t], k)
<1>2. /\ c \in Calls /\ c.phase = "move" /\ c.phase # "start" /\ c.op \in Reads /\ Busy(t)
      /\ UNCHANGED <<peer, arrived, shared, up>>
  BY DEF Read, SocketInv, CallType, Busy
<1>3. taken \in Nat /\ arrived \in Nat /\ Want(c) \in Int
  BY <1>2, SocketIOAssumption DEF SocketInv, StreamType, Want, Calls
<1>4. k \in Nat \ {0} /\ k <= Want(c)
  BY <1>3 DEF Least, Available
<1>5. shown[t] \in Seq(Nat) /\ PeekedBy(t)
  BY DEF Peeked
<1>6. s \in Seq(Nat) /\ (shown[t] = <<>> => s = <<>>)
  BY <1>4, <1>5, BehindType
<1>7. call'[t] = d /\ shown'[t] = s
  BY <1>1 DEF SocketInv, CallType, Peeked
<1>8. d.op = c.op
  BY <1>2, <1>4, MovedGoes DEF Goes
<1>9. PeekedBy(t)'
  <2>1. CASE c.op # "readLine"
    BY <1>5, <1>6, <1>7, <1>8, <2>1 DEF PeekedBy
  <2>2. CASE c.op = "readLine"
    <3>1. /\ Len(shown[t]) = c.nest /\ k <= c.nest /\ c.nest \in Nat
          /\ t \notin shared => c.nest <= Available
      BY <1>2, <1>4, <1>5, <2>2 DEF PeekedBy, Want, Calls
    <3>2. Len(s) = c.nest - k
      BY <1>4, <1>5, <3>1, BehindType
    <3>3. Available' = Available - k
      BY <1>1, <1>2, <1>3, <1>4 DEF Available
    <3>4. CASE c.nest = k
      <4>1. d.phase # "move"
        BY <1>2, <2>2, <3>4, PieceTakenEnds DEF Moved
      <4>2. s = <<>>
        BY <1>6, <3>2, <3>4
      <4> QED
        BY <1>6, <1>7, <4>1, <4>2 DEF PeekedBy
    <3>5. CASE c.nest # k
      <4>1. d.phase = "move" /\ d.nest = c.nest - k
        BY <1>2, <2>2, <3>5 DEF Moved, Calls
      <4>2. t \notin shared' => c.nest - k <= Available'
        BY <1>2, <1>3, <1>4, <3>1, <3>3 DEF Available
      <4> QED
        BY <1>6, <1>7, <1>8, <2>2, <3>2, <4>1, <4>2 DEF PeekedBy
    <3> QED
      BY <3>4, <3>5
  <2> QED
    BY <2>1, <2>2
<1> HIDE DEF c, d, s
<1> QED
  BY <1>1, <1>2, <1>6, <1>9, PeekedStep DEF c, d, s

LEMMA PeekPeeked ==
  ASSUME SocketInv, Lone, Peeked, NEW t \in Tasks, Peek(t)
  PROVE  Peeked'
<1>1. PICK size \in 1 .. Least(call[t].left, Available) :
        /\ call' = [call EXCEPT ![t] = Goal(call[t], size, taken + size \in Newlines)]
        /\ shown' = [shown EXCEPT ![t] = Bytes(taken, size)]
  BY DEF Peek
<1> DEFINE c == call[t]
           d == Goal(c, size, taken + size \in Newlines)
           s == Bytes(taken, size)
<1>2. /\ c \in Calls /\ UNCHANGED <<peer, arrived, taken, shared, up>>
  BY DEF Peek, stream, SocketInv, CallType
<1>3. taken \in Nat /\ arrived \in Nat /\ c.left \in Int
  BY <1>2, SocketIOAssumption DEF SocketInv, StreamType, Calls
<1>4. size \in Nat /\ size <= Available
  BY <1>3 DEF Least, Available
<1>5. s \in Seq(Nat) /\ Len(s) = size
  BY <1>3, <1>4 DEF Bytes
<1>6. d.op = c.op /\ d.phase = "move" /\ d.nest = size
  BY <1>2 DEF Goal, Calls
<1>7. call'[t] = d /\ shown'[t] = s
  BY <1>1 DEF SocketInv, CallType, Peeked
<1>8. c.op = "readLine"
  BY DEF Peek
<1>9. Available' = Available
  BY <1>2 DEF Available
<1>10. PeekedBy(t)'
  BY <1>4, <1>5, <1>6, <1>7, <1>8, <1>9 DEF PeekedBy
<1> HIDE DEF c, d, s
<1> QED
  BY <1>1, <1>2, <1>5, <1>10, PeekedStep DEF c, d, s

\* A write shows nothing, and nothing was shown to it.
LEMMA WritePeeked ==
  ASSUME SocketInv, Lone, Peeked, NEW t \in Tasks, Write(t)
  PROVE  Peeked'
<1>1. PICK k \in Nat \ {0} : Moves(t, k)
  BY WriteMoves
<1> DEFINE c == call[t]
           d == Moved(c, k)
<1>2. /\ c \in Calls /\ c.phase # "start" /\ c.op = "writen" /\ Busy(t)
      /\ UNCHANGED <<peer, arrived, taken, shown, shared, up>>
  BY DEF Write, SocketInv, CallType, Busy
<1>3. call' = [call EXCEPT ![t] = d] /\ call'[t] = d /\ d.op = "writen"
  BY <1>1, <1>2, MovedGoes DEF Moves, Goes, SocketInv, CallType
<1>4. shown[t] = <<>> /\ shown' = [shown EXCEPT ![t] = <<>>]
  BY <1>2 DEF Peeked, PeekedBy
<1>5. PeekedBy(t)'
  BY <1>2, <1>3, <1>4 DEF PeekedBy
<1>6. <<>> \in Seq(Nat) /\ taken' = taken /\ UNCHANGED <<arrived, up>>
      /\ (peer' = "open" => peer = "open")
      /\ Tasks \ shared' \subseteq (Tasks \ shared) \union {t}
  BY <1>2
<1> HIDE DEF c, d
<1> QED
  BY <1>3, <1>4, <1>5, <1>6, PeekedStep

\* The client has gone: what was shown and not taken stays in the buffer.  A
\* reader that is alone has nothing left to take.
LEMMA LeavingPeeked ==
  ASSUME SocketInv, Lone, Peeked, NEW t \in Tasks, EndOfStream(t) \/ Fails(t)
  PROVE  Peeked'
<1> DEFINE c == call[t]
<1>1. PICK d : /\ call' = [call EXCEPT ![t] = d] /\ d.op = c.op
               /\ c.op = "readLine" => d.phase # "move"
  <2>1. c \in Calls
    BY DEF SocketInv, CallType
  <2>2. Goes(c, PieceTaken(c)) /\ Goes(c, Broken(c)) /\ Goes(c, Return(c, -1))
    BY <2>1, PieceTakenGoes, BrokenGoes, ReturnGoes
  <2>3. /\ c.op = "readLine" => PieceTaken(c).phase # "move"
        /\ Broken(c).phase = "done" /\ Return(c, -1).phase = "done"
    BY <2>1, PieceTakenEnds DEF Broken, Return, Calls
  <2> QED
    BY <2>2, <2>3 DEF EndOfStream, Fails, Goes
<1>2. /\ peer' # "open" /\ UNCHANGED <<arrived, taken, shown, shared, up>>
      /\ c.op \in Reads => Available = 0
  BY DEF EndOfStream, Fails, stream
<1>3. call'[t] = d
  BY <1>1 DEF SocketInv, CallType
<1>4. shown[t] \in Seq(Nat) /\ PeekedBy(t) /\ shown' = [shown EXCEPT ![t] = shown[t]]
  BY <1>2 DEF Peeked
<1>5. PeekedBy(t)'
  <2>1. CASE c.op # "readLine"
    BY <1>1, <1>2, <1>3, <1>4, <2>1 DEF PeekedBy
  <2>2. CASE c.op = "readLine"
    <3>1. t \notin shared => shown[t] = <<>>
      <4>1. CASE c.phase = "move"
        <5>1. t \notin shared => Len(shown[t]) <= 0
          BY <1>2, <1>4, <2>2, <4>1 DEF PeekedBy, Reads
        <5> QED
          BY <1>4, <5>1
      <4>2. CASE c.phase # "move"
        BY <1>4, <4>2 DEF PeekedBy
      <4> QED
        BY <4>1, <4>2
    <3> QED
      BY <1>1, <1>2, <1>3, <1>4, <2>2, <3>1 DEF PeekedBy
  <2> QED
    BY <2>1, <2>2
<1> HIDE DEF c
<1> QED
  BY <1>1, <1>2, <1>4, <1>5, PeekedStep

LEMMA StepKeepsPeeked == SocketInv /\ CallInv /\ Peeked /\ [Next]_vars => Peeked'
<1> SUFFICES ASSUME SocketInv, CallInv, Peeked, [Next]_vars PROVE Peeked'
  OBVIOUS
<1>0. Lone
  BY DEF CallInv
<1>1. ASSUME NEW t \in Tasks, NEW n \in Sizes, Receive(t, n) \/ Send(t, n) \/ ReadLine(t, n)
      PROVE  Peeked'
  <2>1. n \in Int /\ n - 1 \in Int /\ ToInt(n) \in Int
    BY SocketIOAssumption, ToIntType
  <2>2. PICK c \in Calls : Begin(t, c)
    BY <1>1, <2>1, BeginningIsACall DEF Receive, Send, ReadLine
  <2> QED
    BY <1>0, <2>2, BeginPeeked
<1>2. ASSUME NEW t \in Tasks, Step(t) PROVE Peeked'
  <2>1. CASE Sigpipe(t)
    <3>1. Over' /\ (up \in BOOLEAN)'
      BY <2>1 DEF Sigpipe, Over
    <3> QED
      BY <3>1, OverPeeked, PTL
  <2> QED
    BY <1>0, <1>2, <2>1, ReadPeeked, PeekPeeked, WritePeeked, LeavingPeeked DEF Step
<1>3. ASSUME ClientSends \/ ClientReads \/ ClientLeaves \/ UNCHANGED vars PROVE Peeked'
  <2>1. /\ UNCHANGED <<taken, call, shown, shared, up>> /\ (peer' = "open" => peer = "open")
        /\ arrived' \in {arrived, arrived + 1}
    BY <1>3 DEF ClientSends, ClientReads, ClientLeaves, vars, stream
  <2>2. taken \in Int /\ arrived \in Int /\ \A t \in Tasks : call[t].nest \in Int
    BY SocketIOAssumption DEF SocketInv, StreamType, CallType, Calls
  <2>3. \A t \in Tasks : call[t].nest <= Available => call[t].nest <= Available'
    BY <2>1, <2>2 DEF Available
  <2> QED
    BY <2>1, <2>3 DEF Peeked, PeekedBy
<1> QED
  BY <1>1, <1>2, <1>3 DEF Next, Interrupted

\* What a peek has shown is taken, or was lost to another reader.
THEOREM PeekInvariant == Spec => []Peeked
<1>1. Init => Peeked
  BY OverPeeked DEF Init, Over
<1> QED
  BY <1>1, StepKeepsPeeked, SocketInvariant, CallInvariant, PTL DEF Spec

\* readn, readLine and writen keep their types, and never take bytes that have
\* not arrived, for any sizes and any number of tasks.
THEOREM SocketTypeCorrect == Spec => []TypeOK
<1>1. SocketInv /\ Peeked => TypeOK
  BY DEF SocketInv, StreamType, CallType, Peeked, TypeOK, Calls
<1> QED
  BY <1>1, SocketInvariant, PeekInvariant, PTL

\* However the calls of many tasks on one connection interleave, each byte is
\* taken by one call only and every call takes bytes in the order of the stream.
\* A call returns with bytes that a peek has shown it and no read has taken only
\* if another reader was there to take them and the client has left.
THEOREM BytesAreOwn == Spec => []OwnBytes
<1>1. \A s, r : Apart(s, r) => Range(s) \intersect Range(r) = {}
  BY DEF Apart, Range
<1>2. Separate /\ Peeked => OwnBytes
  BY <1>1 DEF Separate, Ordered, Peeked, PeekedBy, Busy, OwnBytes
<1>3. SocketInv => Separate
  BY DEF SocketInv, Own
<1> QED
  BY <1>2, <1>3, SocketInvariant, PeekInvariant, PTL
------------------------------------------------------------------------------
Plain(s) == \A i \in DOMAIN s : s[i] \notin Newlines

\* Where the call c of readLine stands, with the buffer s and its direction at
\* from.  Before a peek, total counts the buffer; in a piece, the bytes to come
\* are those that the peek has shown, and only the last may be a newline.
Lined(c, s, from) ==
  c.op = "readLine" /\ c.asked > 0 =>
    /\ c.phase = "peek" => c.left > 0 /\ c.total = Len(s) /\ ~c.seen /\ Plain(s)
    /\ c.phase = "move" =>
         /\ c.nest > 0 /\ c.piece <= c.left /\ Len(s) + c.nest = c.total + c.piece
         /\ Plain(s)
         /\ \A i \in 1 .. c.nest - 1 : from + i \notin Newlines
         /\ c.seen <=> from + c.nest \in Newlines
    /\ c.phase = "done" =>
         /\ c.ret = Len(s)
         /\ \A i \in DOMAIN s : s[i] \in Newlines <=> c.seen /\ i = Len(s)

Lines == peer = "open" => \A t \in Tasks \ shared : Lined(call[t], got[t], taken)

LEMMA LinesAreLines == Lines /\ CallType /\ Peeked => LineIsALine
<1> SUFFICES ASSUME Lines, CallType, Peeked, peer = "open",
                    NEW t \in Tasks \ shared, ~Busy(t), call[t].op = "readLine",
                    call[t].asked > 0
             PROVE  /\ call[t].ret = Len(Buffer(t))
                    /\ \A i \in DOMAIN Buffer(t) :
                         Buffer(t)[i] \in Newlines <=> call[t].seen /\ i = Len(Buffer(t))
  BY DEF LineIsALine
<1>1. shown[t] = <<>> /\ got[t] \in Seq(Nat)
  BY DEF Peeked, PeekedBy, Busy, CallType
<1>2. Buffer(t) = got[t]
  BY <1>1 DEF Buffer
<1>3. Lined(call[t], got[t], taken) /\ call[t].phase = "done"
  BY DEF Lines, Busy
<1> QED
  BY <1>2, <1>3 DEF Lined

LEMMA OverLines == Over => Lines
BY NoCallIsACall DEF Over, Lines, Lined

\* The test of readLine's loop, when total counts the buffer.
LEMMA LoopLined ==
  ASSUME NEW c \in Calls, NEW s \in Seq(Nat), NEW from,
         c.op = "readLine", c.left >= 0, c.total = Len(s), ~c.seen, Plain(s)
  PROVE  Lined(Loop(c), s, from)
<1>1. CASE c.left > 0
  <2> DEFINE d == [c EXCEPT !.phase = "peek"]
  <2>1. Loop(c) = d
    BY <1>1 DEF Loop
  <2>2. /\ d.phase = "peek" /\ d.left = c.left /\ d.total = c.total /\ d.seen = c.seen
    BY DEF Calls
  <2> HIDE DEF d
  <2> QED
    BY <1>1, <2>1, <2>2 DEF Lined
<1>2. CASE ~(c.left > 0)
  <2> DEFINE d == [c EXCEPT !.phase = "done", !.ret = c.total - c.left]
  <2>1. Loop(c) = d
    BY <1>2 DEF Loop, Return
  <2>2. d.phase = "done" /\ d.ret = c.total - c.left /\ d.seen = c.seen
    BY DEF Calls
  <2>3. c.left = 0 /\ c.total - c.left = Len(s)
    BY <1>2 DEF Calls
  <2> HIDE DEF d
  <2> QED
    BY <2>1, <2>2, <2>3 DEF Lined, Plain
<1> QED
  BY <1>1, <1>2

\* A round of the inner readn: k bytes of the piece.
LEMMA MovedLined ==
  ASSUME NEW c \in Calls, NEW s \in Seq(Nat), NEW from \in Nat, NEW k \in Nat,
         c.op = "readLine", c.asked > 0, c.phase = "move", k <= c.nest, Lined(c, s, from)
  PROVE  Lined(Moved(c, k), s \o Bytes(from, k), from + k)
<1> DEFINE r == s \o Bytes(from, k)
<1>1. /\ c.nest > 0 /\ c.piece <= c.left /\ Len(s) + c.nest = c.total + c.piece
      /\ Plain(s)
      /\ \A i \in 1 .. c.nest - 1 : from + i \notin Newlines
      /\ c.seen <=> from + c.nest \in Newlines
  BY DEF Lined
<1>2. /\ c.nest \in Nat /\ c.piece \in Nat /\ c.total \in Int /\ c.left \in Int
      /\ c.seen \in BOOLEAN
  BY DEF Calls
<1>3. /\ r \in Seq(Nat) /\ Len(r) = Len(s) + k /\ Len(s) \in Nat
      /\ \A i \in 1 .. Len(s) : r[i] = s[i]
      /\ \A i \in Len(s) + 1 .. Len(s) + k : r[i] = from + (i - Len(s))
  <2> DEFINE b == Bytes(from, k)
  <2>1. b \in Seq(Nat) /\ Len(b) = k /\ \A i \in 1 .. k : b[i] = from + i
    BY DEF Bytes
  <2> HIDE DEF b
  <2>2. s \o b \in Seq(Nat) /\ Len(s \o b) = Len(s) + k
    BY <2>1
  <2>3. \A i \in 1 .. Len(s) : (s \o b)[i] = s[i]
    BY <2>1
  <2>4. \A i \in Len(s) + 1 .. Len(s) + k : (s \o b)[i] = from + (i - Len(s))
    BY <2>1
  <2> QED
    BY <2>2, <2>3, <2>4 DEF b
<1>4. DOMAIN r = 1 .. Len(s) + k /\ DOMAIN s = 1 .. Len(s)
  BY <1>3
<1> HIDE DEF r
<1>5. \A i \in DOMAIN r : r[i] \in Newlines <=> i = Len(s) + k /\ k = c.nest /\ c.seen
  <2> SUFFICES ASSUME NEW i \in 1 .. Len(s) + k
               PROVE  r[i] \in Newlines <=> i = Len(s) + k /\ k = c.nest /\ c.seen
    BY <1>4
  <2>1. CASE i <= Len(s)
    <3>1. r[i] \notin Newlines
      BY <1>1, <1>3, <1>4, <2>1 DEF Plain
    <3>2. i = Len(s) + k => k = 0 /\ c.nest # 0
      BY <1>1, <1>2, <1>3, <2>1
    <3> QED
      BY <3>1, <3>2
  <2>2. CASE i > Len(s)
    <3>1. r[i] = from + (i - Len(s)) /\ i - Len(s) \in 1 .. k
      BY <1>3, <2>2
    <3>2. CASE i - Len(s) < c.nest
      <4>1. i - Len(s) \in 1 .. c.nest - 1
        BY <1>2, <3>1, <3>2
      <4>2. ~(i = Len(s) + k /\ k = c.nest)
        BY <1>3, <3>2
      <4> QED
        BY <1>1, <3>1, <4>1, <4>2
    <3>3. CASE ~(i - Len(s) < c.nest)
      <4>1. i - Len(s) = k /\ k = c.nest /\ i = Len(s) + k
        BY <1>2, <1>3, <3>1, <3>3
      <4> QED
        BY <1>1, <3>1, <4>1
    <3> QED
      BY <3>2, <3>3
  <2> QED
    BY <1>3, <2>1, <2>2
<1>6. CASE c.nest = k /\ c.seen
  <2> DEFINE d == [c EXCEPT !.phase = "done", !.ret = c.total + c.piece]
  <2>1. Moved(c, k) = d
    BY <1>6 DEF Moved, PieceTaken, Return
  <2>2. d.phase = "done" /\ d.ret = c.total + c.piece /\ d.seen = c.seen
    BY DEF Calls
  <2>3. c.total + c.piece = Len(r)
    BY <1>1, <1>3, <1>6
  <2> HIDE DEF d
  <2> QED
    BY <1>3, <1>5, <1>6, <2>1, <2>2, <2>3 DEF Lined, r
<1>7. CASE c.nest = k /\ ~c.seen
  <2> DEFINE d == [c EXCEPT !.total = @ + c.piece, !.left = @ - c.piece]
  <2>2. Moved(c, k) = Loop(d)
    BY <1>7 DEF Moved, PieceTaken
  <2>3. /\ d \in Calls /\ d.op = c.op /\ d.total = c.total + c.piece /\ d.seen = c.seen
        /\ d.left = c.left - c.piece
    BY NextPiece
  <2>4. c.total + c.piece = Len(r) /\ c.left - c.piece >= 0 /\ Plain(r)
    BY <1>1, <1>2, <1>3, <1>5, <1>7 DEF Plain
  <2> HIDE DEF d
  <2>5. Lined(Loop(d), r, from + k)
    BY <1>3, <1>7, <2>3, <2>4, LoopLined
  <2> QED
    BY <2>2, <2>5 DEF r
<1>8. CASE c.nest # k
  <2> DEFINE d == [c EXCEPT !.nest = c.nest - k]
  <2>1. Moved(c, k) = d
    BY <1>8 DEF Moved
  <2>2. /\ d.phase = "move" /\ d.nest = c.nest - k /\ d.piece = c.piece
        /\ d.left = c.left /\ d.total = c.total /\ d.seen = c.seen
    BY DEF Calls
  <2>3. c.nest - k > 0 /\ Len(r) + (c.nest - k) = c.total + c.piece
    BY <1>1, <1>2, <1>3, <1>8
  <2>4. Plain(r)
    BY <1>5, <1>8 DEF Plain
  <2>5. \A i \in 1 .. (c.nest - k) - 1 : from + k + i \notin Newlines
    <3> SUFFICES ASSUME NEW i \in 1 .. (c.nest - k) - 1
                 PROVE  from + k + i \notin Newlines
      OBVIOUS
    <3>1. k + i \in 1 .. c.nest - 1 /\ from + k + i = from + (k + i)
      BY <1>2
    <3> QED
      BY <1>1, <3>1
  <2>6. from + k + (c.nest - k) = from + c.nest
    BY <1>2
  <2> HIDE DEF d
  <2> QED
    BY <1>1, <2>1, <2>2, <2>3, <2>4, <2>5, <2>6 DEF Lined, r
<1> QED
  BY <1>6, <1>7, <1>8

\* A step of the task t by which t's own call stays in line: the other calls
\* stay, as one that reads alone is the only one that takes bytes.
LEMMA LinesStep ==
  ASSUME CallType, Lone, Lines, NEW t \in Tasks, NEW d, NEW s,
         call' = [call EXCEPT ![t] = d], got' = [got EXCEPT ![t] = s],
         peer' = "open" => peer = "open",
         Tasks \ shared' \subseteq (Tasks \ shared) \union {t},
         taken' = taken \/ (Busy(t) /\ call[t].op \in Reads),
         t \notin shared' /\ peer' = "open" => Lined(d, s, taken')
  PROVE  Lines'
<1> SUFFICES ASSUME peer' = "open", NEW u \in Tasks, u \notin shared'
             PROVE  Lined(call'[u], got'[u], taken')
  BY DEF Lines
<1>1. CASE u = t
  BY <1>1 DEF CallType
<1>2. CASE u # t
  <2>1. call'[u] = call[u] /\ got'[u] = got[u] /\ u \notin shared
    BY <1>2 DEF CallType
  <2>2. Lined(call[u], got[u], taken)
    BY <2>1 DEF Lines
  <2>3. CASE taken' = taken
    BY <2>1, <2>2, <2>3
  <2>4. CASE Busy(t) /\ call[t].op \in Reads
    <3>1. call[u].op = "readLine" => ~Busy(u)
      BY <1>2, <2>1, <2>4 DEF Lone, SameWay, Reads
    <3>2. call[u].op = "readLine" => call[u].phase = "done"
      BY <3>1 DEF Busy
    <3> QED
      BY <2>1, <2>2, <3>2 DEF Lined
  <2> QED
    BY <2>3, <2>4
<1> QED
  BY <1>1, <1>2

LEMMA BeginLines ==
  ASSUME SocketInv, Lone, Lines, NEW t \in Tasks, NEW c \in Calls, Begin(t, c),
         c.op = "readLine" /\ c.asked > 0 => c.left >= 0 /\ c.total = 0 /\ ~c.seen
  PROVE  Lines'
<1>1. /\ call' = [call EXCEPT ![t] = Loop(c)] /\ got' = [got EXCEPT ![t] = <<>>]
      /\ peer' = peer /\ taken' = taken
      /\ Tasks \ shared' \subseteq (Tasks \ shared) \union {t}
  BY DEF Begin, stream
<1>2. Lined(Loop(c), <<>>, taken)
  <2>1. CASE c.op = "readLine" /\ c.asked > 0
    <3>1. Len(<<>>) = 0 /\ <<>> \in Seq(Nat) /\ Plain(<<>>)
      BY DEF Plain
    <3> QED
      BY <2>1, <3>1, LoopLined
  <2>2. CASE c.op # "readLine"
    BY <2>2, LoopGoes DEF Goes, Lined
  <2>3. CASE ~(c.asked > 0)
    <3>1. Loop(c).asked = c.asked
      BY DEF Loop, Return, Calls
    <3> QED
      BY <2>3, <3>1 DEF Lined
  <2> QED
    BY <2>1, <2>2, <2>3
<1> QED
  BY <1>1, <1>2, LinesStep DEF SocketInv

LEMMA MovesKeepLines ==
  ASSUME SocketInv, Lone, Lines, NEW t \in Tasks, NEW k \in Nat \ {0}, Moves(t, k)
  PROVE  Lines'
<1> DEFINE c == call[t]
           s == got[t] \o Bytes(Frontier(t), k)
<1>1. /\ c \in Calls /\ c.phase = "move" /\ Busy(t) /\ k \in Nat /\ k <= Want(c)
      /\ got[t] \in Seq(Nat) /\ taken \in Nat
  BY DEF SocketInv, StreamType, CallType, Moves, Busy
<1>2. /\ call' = [call EXCEPT ![t] = Moved(c, k)] /\ got' = [got EXCEPT ![t] = s]
      /\ peer' = peer /\ shared' = shared
      /\ taken' = taken + (IF c.op \in Reads THEN k ELSE 0)
  BY DEF Moves
<1>3. taken' = taken \/ (Busy(t) /\ c.op \in Reads)
  BY <1>1, <1>2
<1>4. ASSUME t \notin shared', peer' = "open"
      PROVE  Lined(Moved(c, k), s, taken')
  <2>1. Goes(c, Moved(c, k))
    BY <1>1, MovedGoes
  <2>2. CASE c.op = "readLine" /\ c.asked > 0
    <3>1. Lined(c, got[t], taken) /\ k <= c.nest
      BY <1>1, <1>2, <1>4, <2>2 DEF Lines, Want
    <3>2. Frontier(t) = taken /\ taken' = taken + k
      BY <1>2, <2>2 DEF Frontier, Reads
    <3> HIDE DEF c
    <3> QED
      BY <1>1, <2>2, <3>1, <3>2, MovedLined
  <2>3. CASE c.op # "readLine"
    BY <2>1, <2>3 DEF Goes, Lined
  <2>4. CASE c.op = "readLine" /\ ~(c.asked > 0)
    <3>1. Moved(c, k).asked = c.asked
      BY <1>1 DEF Moved, PieceTaken, Loop, Return, Calls
    <3> QED
      BY <2>4, <3>1 DEF Lined
  <2> QED
    BY <2>2, <2>3, <2>4
<1> HIDE DEF c, s
<1>5. Tasks \ shared' \subseteq (Tasks \ shared) \union {t}
  BY <1>2
<1> QED
  BY <1>2, <1>3, <1>4, <1>5, LinesStep DEF SocketInv, c

\* The peek shows what the next bytes are, up to the end of a line.
LEMMA PeekKeepsLines ==
  ASSUME SocketInv, Lone, Lines, NEW t \in Tasks, Peek(t)
  PROVE  Lines'
<1>1. PICK size \in 1 .. Least(call[t].left, Available) :
        /\ \A i \in 1 .. size - 1 : taken + i \notin Newlines
        /\ call' = [call EXCEPT ![t] = Goal(call[t], size, taken + size \in Newlines)]
  BY DEF Peek
<1> DEFINE c == call[t]
           d == Goal(c, size, taken + size \in Newlines)
<1>2. c \in Calls /\ c.phase = "peek" /\ got[t] \in Seq(Nat) /\ taken \in Nat /\ arrived \in Nat
  BY SocketIOAssumption DEF SocketInv, StreamType, CallType, Peek
<1>3. size \in Nat /\ size > 0 /\ size <= c.left /\ c.left \in Int
  <2>1. c.left \in Int /\ Available \in Int
    BY <1>2 DEF Calls, Available
  <2> QED
    BY <2>1 DEF Least
<1>4. /\ d.op = c.op /\ d.asked = c.asked /\ d.phase = "move" /\ d.piece = size
      /\ d.nest = size /\ d.seen = (taken + size \in Newlines)
      /\ d.left = c.left /\ d.total = c.total
  BY <1>2 DEF Goal, Calls
<1>5. UNCHANGED <<peer, got, shared, taken>>
  BY DEF Peek, stream
<1>6. got' = [got EXCEPT ![t] = got[t]]
  BY <1>5 DEF SocketInv, CallType
<1>7. call' = [call EXCEPT ![t] = d]
  BY <1>1
<1> HIDE DEF d
<1>8. ASSUME t \notin shared', peer' = "open"
      PROVE  Lined(d, got[t], taken)
  <2>1. Lined(c, got[t], taken)
    BY <1>5, <1>8 DEF Lines
  <2>2. SUFFICES ASSUME c.op = "readLine", c.asked > 0
                 PROVE  Lined(d, got[t], taken)
    BY <1>4 DEF Lined
  <2>3. c.total = Len(got[t]) /\ Plain(got[t])
    BY <1>2, <2>1, <2>2 DEF Lined
  <2>4. Len(got[t]) + size = c.total + size
    BY <2>3
  <2> QED
    BY <1>1, <1>3, <1>4, <2>3, <2>4 DEF Lined
<1> QED
  BY <1>5, <1>6, <1>7, <1>8, LinesStep DEF SocketInv

\* The other steps in a call need a client that has gone.
LEMMA LeavingKeepsLines ==
  ASSUME NEW t \in Tasks, EndOfStream(t) \/ Fails(t)
  PROVE  Lines'
BY DEF EndOfStream, Fails, stream, Lines

LEMMA StepKeepsLines == SocketInv /\ CallInv /\ Lines /\ [Next]_vars => Lines'
<1> SUFFICES ASSUME SocketInv, CallInv, Lines, [Next]_vars PROVE Lines'
  OBVIOUS
<1>0. Lone
  BY DEF CallInv
<1>1. ASSUME NEW t \in Tasks, NEW n \in Sizes, Receive(t, n) \/ Send(t, n) \/ ReadLine(t, n)
      PROVE  Lines'
  <2>1. n \in Nat /\ n \in Int /\ n - 1 \in Int /\ ToInt(n) \in Int
    BY SocketIOAssumption, ToIntType
  <2>2. PICK op \in {"readn", "readLine", "writen"}, len \in Int :
          Begin(t, Call(op, n, len)) /\ (op = "readLine" => len = n - 1)
    BY <1>1, <2>1 DEF Receive, Send, ReadLine
  <2> DEFINE c == Call(op, n, len)
  <2>3. c \in Calls
    BY <2>1, BeginningIsACall
  <2>4. c.op = op /\ c.left = len /\ c.asked = n /\ c.total = 0 /\ ~c.seen
    BY DEF Call
  <2>5. c.op = "readLine" /\ c.asked > 0 => c.left >= 0 /\ c.total = 0 /\ ~c.seen
    BY <2>1, <2>2, <2>4
  <2>6. Begin(t, c)
    BY <2>2
  <2> HIDE DEF c
  <2> QED
    BY <1>0, <2>3, <2>5, <2>6, BeginLines
<1>2. ASSUME NEW t \in Tasks, Step(t) PROVE Lines'
  <2>1. CASE Read(t) \/ Write(t)
    BY <1>0, <2>1, ReadMoves, WriteMoves, MovesKeepLines
  <2>2. CASE Peek(t)
    BY <1>0, <2>2, PeekKeepsLines
  <2>3. CASE EndOfStream(t) \/ Fails(t)
    BY <2>3, LeavingKeepsLines
  <2>4. CASE Sigpipe(t)
    <3>1. Over'
      BY <2>4 DEF Sigpipe, Over
    <3> QED
      BY <3>1, OverLines, PTL
  <2> QED
    BY <1>2, <2>1, <2>2, <2>3, <2>4 DEF Step
<1>3. ASSUME ClientSends \/ ClientReads \/ ClientLeaves \/ UNCHANGED vars PROVE Lines'
  <2>1. UNCHANGED <<taken, call, got, shared>> /\ (peer' = "open" => peer = "open")
    BY <1>3 DEF ClientSends, ClientReads, ClientLeaves, vars, stream
  <2> QED
    BY <2>1 DEF Lines, Lined
<1> QED
  BY <1>1, <1>2, <1>3 DEF Next, Interrupted

\* A line that readLine has found, alone and with the client there, ends in its
\* only newline, and the value returned is its length: for any size, any newlines
\* and any way in which the bytes arrive, are shown and are taken.
THEOREM LinesAreWhole == Spec => []LineIsALine
<1>1. Init => Lines
  BY OverLines DEF Init, Over
<1>2. Spec => []Lines
  BY <1>1, StepKeepsLines, SocketInvariant, CallInvariant, PTL DEF Spec
<1>3. Lines /\ CallType /\ Peeked => LineIsALine
  BY LinesAreLines
<1> QED
  BY <1>2, <1>3, SocketInvariant, PeekInvariant, PTL DEF SocketInv
==============================================================================
