------------------------------- MODULE SocketIO -------------------------------
(***************************************************************************)
(* Class SocketIO (tcppart/SocketIO.cc) behind TcpConnection::send and     *)
(* receive: loops around read, write and a peeking recv that go on until   *)
(* all bytes are there, for one connection that several tasks may use.     *)
(*                                                                         *)
(* A byte is its position in the stream it belongs to, the one from the    *)
(* client or the one to it.  Every system call moves as many bytes as the  *)
(* kernel likes; between two of them another task may use the socket.  A   *)
(* call that waits and is interrupted (EINTR) waits again.                 *)
(*                                                                         *)
(* readLine, which nothing in the repository calls, lets a peek put bytes  *)
(* into its buffer before its inner readn takes them, or fails to.         *)
(***************************************************************************)
EXTENDS Integers, Sequences, FiniteSets, Functions

CONSTANTS Tasks,       \* the threads that use the connection
          Sizes,       \* the sizes (long long) asked of receive and send
          Modulus,     \* how many ints there are (2^32)
          Newlines,    \* where the client's newlines are
          Room,        \* the bytes the send buffer holds
          MaxArrived,  \* bound: the bytes the client sends
          MaxAccepted  \* bound: the bytes sent to it

ASSUME SocketIOAssumption ==
  /\ IsFiniteSet(Tasks) /\ Sizes \subseteq Nat
  /\ Modulus \in Nat \ {0} /\ Newlines \subseteq Nat /\ Room \in Nat \ {0}
  /\ MaxArrived \in Nat /\ MaxAccepted \in Nat

VARIABLES peer,      \* the client's end: "open", "closed", "reset", or "gone"
                     \* when the reset has been reported to a call
          arrived,   \* bytes of the client that have arrived
          taken,     \* those that a read has taken
          accepted,  \* bytes for the client that a write has handed over
          drained,   \* those that the client has read
          call,      \* by task, its call of SocketIO
          got,       \* by task, the bytes its call has moved
          shown,     \* by task, the bytes behind them that a peek has put into
                     \* the buffer; what is behind the line is left out
          shared,    \* the tasks whose call overlapped another in its direction
          up         \* the process runs

stream == <<peer, arrived, taken, accepted, drained>>
vars == <<stream, call, got, shown, shared, up>>

\* An int from a long long: what is left of it modulo 2^32, as a signed number.
ToInt(n) == LET low == n % Modulus IN IF 2 * low >= Modulus THEN low - Modulus ELSE low

Least(a, b) == IF a < b THEN a ELSE b

\* A call: the function, the size it was asked for, len and left; of readLine,
\* total, what its inner readn is to take (piece), how much of that is missing
\* (nest), and whether the piece ends in a newline (seen); in the end, ret.
Call(op, n, len) == [op |-> op, phase |-> "start", asked |-> n, len |-> len,
                     left |-> len, total |-> 0, piece |-> 0, nest |-> 0,
                     seen |-> FALSE, ret |-> 0]

NoCall == [Call("none", 0, 0) EXCEPT !.phase = "done"]

Init == /\ peer = "open"
        /\ arrived = 0 /\ taken = 0 /\ accepted = 0 /\ drained = 0
        /\ call = [t \in Tasks |-> NoCall]
        /\ got = [t \in Tasks |-> <<>>]
        /\ shown = [t \in Tasks |-> <<>>]
        /\ shared = {}
        /\ up = TRUE
------------------------------------------------------------------------------
Reads == {"readn", "readLine"}
Busy(t) == call[t].phase # "done"
SameWay(t, u) == call[t].op \in Reads <=> call[u].op \in Reads
Available == arrived - taken
Free == Room - (accepted - drained)
Buffer(t) == got[t] \o shown[t]

Return(c, r) == [c EXCEPT !.phase = "done", !.ret = r]

\* The tests of the while loops: what a call does after a round of its loop.
Loop(c) == IF c.left > 0
           THEN [c EXCEPT !.phase = IF c.op = "readLine" THEN "peek" ELSE "move"]
           ELSE Return(c, IF c.op = "readLine" THEN c.total - c.left ELSE c.len - c.left)

\* Mutant: only the last piece is counted.
PieceTakenAlone(c) ==
  IF c.seen THEN Return(c, c.piece)
  ELSE Loop([c EXCEPT !.total = @ + c.piece, !.left = @ - c.piece])

\* readLine after its inner readn, whose result it does not look at.
PieceTaken(c) ==
  IF c.seen THEN Return(c, c.total + c.piece)
  ELSE Loop([c EXCEPT !.total = @ + c.piece, !.left = @ - c.piece])

\* A call begins; the history notes the calls it overlaps.
Begin(t, c) ==
  LET with == {u \in Tasks \ {t} : Busy(u) /\ (c.op \in Reads <=> call[u].op \in Reads)}
  IN /\ up
     /\ ~Busy(t)
     /\ call' = [call EXCEPT ![t] = Loop(c)]
     /\ got' = [got EXCEPT ![t] = <<>>]
     /\ shown' = [shown EXCEPT ![t] = <<>>]
     /\ shared' = IF with = {} THEN shared \ {t} ELSE shared \union with \union {t}
     /\ UNCHANGED <<stream, up>>

\* TcpConnection::receive and send hand a long long to an int.
Receive(t, n) == Begin(t, Call("readn", n, ToInt(n)))
Send(t, n) == /\ accepted + ToInt(n) <= MaxAccepted
              /\ Begin(t, Call("writen", n, ToInt(n)))

\* readLine leaves room for the final zero.
ReadLine(t, n) == Begin(t, Call("readLine", n, n - 1))
------------------------------------------------------------------------------
\* k bytes have been moved by a system call of the innermost loop.
Moved(c, k) == IF c.op = "readLine"
               THEN IF c.nest = k THEN PieceTaken(c) ELSE [c EXCEPT !.nest = @ - k]
               ELSE Loop([c EXCEPT !.left = @ - k])

\* What the innermost loop still wants.  (Mutant: all of the line.)
WantAll(c) == c.left
Want(c) == IF c.op = "readLine" THEN c.nest ELSE c.left

Bytes(from, k) == [i \in 1 .. k |-> from + i]

\* k bytes that are taken are written over the first that a peek has shown.
Behind(bytes, k) == SubSeq(bytes, k + 1, Len(bytes))

\* Mutants: the bytes stay in the socket; a round counts as one byte.
ReadLeaves(t) ==
  /\ call[t].op \in Reads /\ call[t].phase = "move"
  /\ \E k \in 1 .. Least(Want(call[t]), Available) :
       /\ call' = [call EXCEPT ![t] = Moved(@, k)]
       /\ got' = [got EXCEPT ![t] = @ \o Bytes(taken, k)]
       /\ shown' = [shown EXCEPT ![t] = Behind(@, k)]
  /\ UNCHANGED <<stream, shared, up>>
ReadCountsOne(t) ==
  /\ call[t].op \in Reads /\ call[t].phase = "move"
  /\ \E k \in 1 .. Least(Want(call[t]), Available) :
       /\ call' = [call EXCEPT ![t] = Moved(@, 1)]
       /\ got' = [got EXCEPT ![t] = @ \o Bytes(taken, 1)]
       /\ shown' = [shown EXCEPT ![t] = Behind(@, 1)]
       /\ taken' = taken + k
  /\ UNCHANGED <<peer, arrived, accepted, drained, shared, up>>

Read(t) ==
  /\ call[t].op \in Reads /\ call[t].phase = "move"
  /\ \E k \in 1 .. Least(Want(call[t]), Available) :
       /\ call' = [call EXCEPT ![t] = Moved(@, k)]
       /\ got' = [got EXCEPT ![t] = @ \o Bytes(taken, k)]
       /\ shown' = [shown EXCEPT ![t] = Behind(@, k)]
       /\ taken' = taken + k
  /\ UNCHANGED <<peer, arrived, accepted, drained, shared, up>>

\* recv with MSG_PEEK copies bytes up to left into the buffer; readLine goes for
\* the line's end if they show it, and for what they show if not.
Goal(c, size, ends) ==
  [c EXCEPT !.phase = "move", !.piece = size, !.nest = size, !.seen = ends]

Peek(t) ==
  /\ call[t].op = "readLine" /\ call[t].phase = "peek"
  /\ \E size \in 1 .. Least(call[t].left, Available) :
       /\ \A i \in 1 .. size - 1 : taken + i \notin Newlines
       /\ call' = [call EXCEPT ![t] = Goal(@, size, taken + size \in Newlines)]
       /\ shown' = [shown EXCEPT ![t] = Bytes(taken, size)]
  /\ UNCHANGED <<stream, got, shared, up>>

Write(t) ==
  /\ call[t].op = "writen" /\ call[t].phase = "move"
  /\ peer \in {"open", "closed"}
  /\ \E k \in 1 .. Least(call[t].left, Free) :
       /\ call' = [call EXCEPT ![t] = Moved(@, k)]
       /\ got' = [got EXCEPT ![t] = @ \o Bytes(accepted, k)]
       /\ accepted' = accepted + k
  /\ UNCHANGED <<peer, arrived, taken, drained, shown, shared, up>>

\* The loops leave by break: readn and writen return what they have moved,
\* readLine's subtraction is the one of the source.
Broken(c) == Return(c, IF c.op = "readLine" THEN c.total - c.left ELSE c.len - c.left)

\* Mutant: only the peek takes 0 for the end of the stream.
EndOfStreamGoesOn(t) ==
  /\ call[t].phase = "peek" /\ peer \in {"closed", "gone"} /\ Available = 0
  /\ call' = [call EXCEPT ![t] = Broken(@)]
  /\ UNCHANGED <<stream, got, shown, shared, up>>

\* 0 of read or recv: the client has closed and all it sent was taken.  What a
\* peek has shown, and the inner readn not got, stays in the buffer and counts.
EndOfStream(t) ==
  /\ Busy(t) /\ call[t].op \in Reads
  /\ peer \in {"closed", "gone"} /\ Available = 0
  /\ call' = [call EXCEPT ![t] = IF @.op = "readLine" /\ @.phase = "move"
                                 THEN PieceTaken(@) ELSE Broken(@)]
  /\ UNCHANGED <<stream, got, shown, shared, up>>

\* -1: the connection was reset.  One call is told so, a reader after it has
\* taken what had arrived; then the stream has ended ...
Fails(t) ==
  /\ Busy(t)
  /\ peer = "reset"
  /\ call[t].op \in Reads => Available = 0
  /\ call' = [call EXCEPT ![t] = IF @.op = "readLine" /\ @.phase = "move"
                                 THEN PieceTaken(@) ELSE Return(@, -1)]
  /\ peer' = "gone"
  /\ UNCHANGED <<arrived, taken, accepted, drained, got, shown, shared, up>>

\* ... and a write, or the first one already if the client had closed before the
\* reset, raises SIGPIPE, which nobody ignores: the process ends.
Sigpipe(t) ==
  /\ Busy(t)
  /\ call[t].op \notin Reads
  /\ peer \in {"reset", "gone"}
  /\ up' = FALSE
  /\ call' = [u \in Tasks |-> NoCall]
  /\ got' = [u \in Tasks |-> <<>>]
  /\ shown' = [u \in Tasks |-> <<>>]
  /\ shared' = {}
  /\ UNCHANGED stream

\* -1 with EINTR: continue.  (Mutant: break.)
InterruptedEnds(t) == /\ Busy(t)
                      /\ call' = [call EXCEPT ![t] = Broken(@)]
                      /\ UNCHANGED <<stream, got, shown, shared, up>>
Interrupted(t) == Busy(t) /\ UNCHANGED vars
------------------------------------------------------------------------------
\* The client sends, reads what it was sent, closes its sending side, or all of it.
ClientSends == /\ peer = "open" /\ arrived < MaxArrived
               /\ arrived' = arrived + 1
               /\ UNCHANGED <<peer, taken, accepted, drained, call, got, shown, shared, up>>

ClientReads == /\ peer \in {"open", "closed"} /\ drained < accepted
               /\ drained' = drained + 1
               /\ UNCHANGED <<peer, arrived, taken, accepted, call, got, shown, shared, up>>

ClientLeaves == /\ \/ peer = "open" /\ peer' \in {"closed", "reset"}
                   \/ peer = "closed" /\ accepted > drained /\ peer' = "reset"
                /\ UNCHANGED <<arrived, taken, accepted, drained, call, got, shown, shared, up>>

Step(t) == \/ Read(t) \/ Peek(t) \/ Write(t)
           \/ EndOfStream(t) \/ Fails(t) \/ Sigpipe(t)

Next == \/ \E t \in Tasks : \/ \E n \in Sizes : Receive(t, n) \/ Send(t, n) \/ ReadLine(t, n)
                            \/ Step(t)
                            \/ Interrupted(t)
        \/ ClientSends \/ ClientReads \/ ClientLeaves

\* A thread in a call runs when the kernel lets it.
Fairness == \A t \in Tasks : WF_vars(Step(t))

Spec == Init /\ [][Next]_vars /\ Fairness
------------------------------------------------------------------------------
Phases == {"start", "peek", "move", "done"}

\* Type invariant; nobody takes what has not arrived, nor drains what was not sent.
TypeOK == /\ peer \in {"open", "closed", "reset", "gone"}
          /\ taken \in 0 .. arrived /\ arrived \in 0 .. MaxArrived
          /\ drained \in 0 .. accepted /\ accepted \in Nat
          /\ \A t \in Tasks : /\ call[t].phase \in Phases \ {"start"}
                              /\ call[t].left \in Int /\ call[t].nest \in Nat
                              /\ got[t] \in Seq(Nat) /\ shown[t] \in Seq(Nat)
          /\ shared \subseteq Tasks
          /\ up \in BOOLEAN

\* However calls interleave, a byte is taken by one call only, and a call takes
\* bytes in the order in which they were sent.  A call returns with bytes in its
\* buffer that it has seen and not taken only if it was not alone and the client
\* has left: then a byte can be in two buffers.
OwnBytes ==
  \A t \in Tasks :
    /\ \A i, j \in DOMAIN got[t] : i < j => got[t][i] < got[t][j]
    /\ \A u \in Tasks \ {t} :
         SameWay(t, u) => Range(got[t]) \intersect Range(got[u]) = {}
    /\ ~Busy(t) /\ shown[t] # <<>> => t \in shared /\ peer # "open"

\* A call that had its direction to itself has moved consecutive bytes: no
\* call, whatever the kernel and signals do, skips or repeats any.
LoneCallIsContiguous ==
  \A t \in Tasks \ shared :
    \A i \in 1 .. Len(got[t]) - 1 : got[t][i + 1] = got[t][i] + 1

\* What readn and writen return is what they moved, or -1; and they move less
\* than was asked for only if the client has gone or the size is no int.
ReturnIsTrue ==
  \A t \in Tasks :
    ~Busy(t) /\ call[t].op \in {"readn", "writen"} =>
      /\ call[t].ret \in {-1, Len(got[t])}
      /\ call[t].ret # call[t].asked => peer # "open" \/ call[t].asked # ToInt(call[t].asked)

\* A line that readLine has found ends in its only newline, and the value
\* returned is its length: alone, and if the client stays until then.
LineIsALine ==
  \A t \in Tasks \ shared :
    ~Busy(t) /\ call[t].op = "readLine" /\ peer = "open" /\ call[t].asked > 0 =>
      /\ call[t].ret = Len(Buffer(t))
      /\ \A i \in DOMAIN Buffer(t) :
           Buffer(t)[i] \in Newlines <=> call[t].seen /\ i = Len(Buffer(t))

\* No call lasts for ever, but one that waits for a client that has stopped
\* sending and has not closed, or that neither reads nor resets.  (A call of a
\* process that has ended is over.)
CallsReturn ==
  \A t \in Tasks : \/ []<>~Busy(t)
                   \/ <>[](/\ Busy(t)
                           /\ IF call[t].op \in Reads THEN Available = 0 /\ peer = "open"
                              ELSE Free = 0 /\ peer \in {"open", "closed"})
==============================================================================
