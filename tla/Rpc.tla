---------------------------------- MODULE Rpc ----------------------------------
(***************************************************************************)
(* The stubs that srpc_generator has made from the two .proto files        *)
(* (UserSign.srpc.h, FileManager.srpc.h): for each of five services a      *)
(* server side, which registers a method, and five clients, one for each   *)
(* protocol, which call it with a callback, with a future, by waiting, or  *)
(* by a task that the caller starts itself.                                *)
(*                                                                         *)
(* The caller owns the request and may change it as soon as the stub has   *)
(* returned; the network and the server answer at any time or never, and a *)
(* call that has timed out may still be executed.                          *)
(***************************************************************************)
EXTENDS Wire

CONSTANTS Calls,      \* identities of calls
          Kinds,      \* the protocols of the clients: "SRPC", "SRPCHttp", ...
          Spoken,     \* those that the servers speak (the repository's: "SRPC")
          Requests,   \* by request type, what a caller may put into a request
          Responses   \* by response type, what a handler may answer

ASSUME RpcAssumption ==
  /\ Kinds \subseteq {"SRPC", "SRPCHttp", "BRPC", "TRPC", "TRPCHttp"}
  /\ Spoken \subseteq Kinds
  /\ \A T \in {"UserSign", "DirInfo"} : \A m \in Requests[T] : IsMessage(T, m)
  /\ \A T \in {"UserRet", "DirRet"} : \A m \in Responses[T] : IsMessage(T, m)

VARIABLES req,      \* by call, the caller's request object
          resp,     \* by call, the response variable that a waiting caller passes
          call,     \* by call, the client's task
          work,     \* by call, what the server does for it
          asked     \* by call, the request as it was when it was serialised

vars == <<req, resp, call, work, asked>>

\* What the servers register: add_method in each Service's constructor.
Registered == {<<"UserSignUpService", "SignUp">>, <<"UserSignInService", "SignIn">>,
               <<"DirAddService", "DirAdd">>, <<"DirRmService", "DirRm">>,
               <<"DirQueryService", "DirQuery">>}

RequestType(service) ==
  IF service \in {"UserSignUpService", "UserSignInService"} THEN "UserSign" ELSE "DirInfo"
ResponseType(service) ==
  IF service \in {"UserSignUpService", "UserSignInService"} THEN "UserRet" ELSE "DirRet"

Forms == {"callback", "future", "wait", "task"}

NoTask == [stage |-> "none", kind |-> "none", form |-> "none", service |-> "none",
           method |-> <<>>, wire |-> <<>>, out |-> <<>>, ok |-> FALSE, dones |-> 0]
NoWork == [stage |-> "none", req |-> <<>>, resp |-> <<>>, runs |-> 0]

Init == /\ req = [c \in Calls |-> <<>>]
        /\ resp = [c \in Calls |-> <<>>]
        /\ call = [c \in Calls |-> NoTask]
        /\ work = [c \in Calls |-> NoWork]
        /\ asked = [c \in Calls |-> <<>>]
------------------------------------------------------------------------------
\* A stub of a client of one of the kinds is called: it makes a task for the
\* method, serialises the request and starts it.  create_..._task makes the
\* task and leaves the rest to the caller.
Stub(c, kinds, service, method) ==
  /\ call[c].stage = "none"
  /\ \E kind \in kinds \intersect Kinds, form \in Forms,
        r \in Requests[RequestType(service)] :
       LET task == [NoTask EXCEPT !.kind = kind, !.form = form,
                                  !.service = service, !.method = method]
       IN /\ req' = [req EXCEPT ![c] = r]
          /\ resp' = [resp EXCEPT ![c] = New(ResponseType(service))]
          /\ IF form = "task"
             THEN /\ call' = [call EXCEPT ![c] = [task EXCEPT !.stage = "made"]]
                  /\ UNCHANGED asked
             ELSE /\ call' = [call EXCEPT ![c] =
                       [task EXCEPT !.stage = "sent",
                                    !.wire = Serialize(RequestType(service), r)]]
                  /\ asked' = [asked EXCEPT ![c] = r]
  /\ UNCHANGED work

\* The clients that name the method alone, the service being the client's ...
Plain == {"SRPC", "SRPCHttp", "BRPC"}
SignUp(c) == Stub(c, Plain, "UserSignUpService", <<"UserSignUpService", "SignUp">>)
SignIn(c) == Stub(c, Plain, "UserSignInService", <<"UserSignInService", "SignIn">>)
DirAdd(c) == Stub(c, Plain, "DirAddService", <<"DirAddService", "DirAdd">>)
DirRm(c) == Stub(c, Plain, "DirRmService", <<"DirRmService", "DirRm">>)
DirQuery(c) == Stub(c, Plain, "DirQueryService", <<"DirQueryService", "DirQuery">>)

\* ... and those of tRPC, of which one names both in a path of its own.
\* (Mutant: a path that names another method.)
Trpc == {"TRPC", "TRPCHttp"}
DirRmMisnamed(c) == Stub(c, Trpc, "DirRmService", <<"DirRmService", "DirQuery">>)
SignUpTRPC(c) == Stub(c, Trpc, "UserSignUpService", <<"UserSignUpService", "SignUp">>)
SignInTRPC(c) == Stub(c, Trpc, "UserSignInService", <<"UserSignInService", "SignIn">>)
DirAddTRPC(c) == Stub(c, Trpc, "DirAddService", <<"DirAddService", "DirAdd">>)
DirRmTRPC(c) == Stub(c, Trpc, "DirRmService", <<"DirRmService", "DirRm">>)
DirQueryTRPC(c) == Stub(c, Trpc, "DirQueryService", <<"DirQueryService", "DirQuery">>)

\* The caller of create_..._task: serialize_input, and start in a series.
SerializeInput(c) ==
  /\ call[c].stage = "made" /\ asked[c] = <<>>
  /\ call' = [call EXCEPT ![c].wire = Serialize(RequestType(call[c].service), req[c])]
  /\ asked' = [asked EXCEPT ![c] = req[c]]
  /\ UNCHANGED <<req, resp, work>>

\* Mutant: the request is not serialised.
StartTaskUnserialised(c) == /\ call[c].stage = "made"
                            /\ call' = [call EXCEPT ![c].stage = "sent"]
                            /\ UNCHANGED <<req, resp, work, asked>>
StartTask(c) ==
  /\ call[c].stage = "made" /\ asked[c] # <<>>
  /\ call' = [call EXCEPT ![c].stage = "sent"]
  /\ UNCHANGED <<req, resp, work, asked>>

\* The caller changes its request, or frees it once it has been serialised;
\* but not while it waits in the stub.
ChangeRequest(c) ==
  /\ call[c].stage # "none" /\ req[c] # <<>>
  /\ call[c].form = "wait" => call[c].stage = "over"
  /\ \E r \in Requests[RequestType(call[c].service)] \union {<<>>} :
       /\ r = <<>> => asked[c] # <<>>
       /\ req' = [req EXCEPT ![c] = r]
  /\ UNCHANGED <<resp, call, work, asked>>
------------------------------------------------------------------------------
\* The server: it finds the method and parses the request, or says why not.
Deliver(c) ==
  /\ call[c].stage \in {"sent", "over"} /\ work[c].stage = "none"
  /\ call[c].kind \in Spoken
  /\ LET parsed == ParseInto(RequestType(call[c].service),
                             New(RequestType(call[c].service)), call[c].wire)
     IN work' =
          IF call[c].method \notin Registered \/ call[c].method[1] # call[c].service
          THEN [work EXCEPT ![c].stage = "no_method"]
          ELSE IF ~parsed.ok THEN [work EXCEPT ![c].stage = "not_parsed"]
          ELSE [work EXCEPT ![c].stage = "runs", ![c].req = parsed.msg, ![c].runs = @ + 1]
  /\ UNCHANGED <<req, resp, call, asked>>

\* The handler's series ends, and the response is serialised.
Handle(c) ==
  /\ work[c].stage = "runs"
  /\ \E r \in Responses[ResponseType(call[c].service)] :
       work' = [work EXCEPT ![c].stage = "answered", ![c].resp = r]
  /\ UNCHANGED <<req, resp, call, asked>>

\* The end of a call: the callback is called, the future has its value, the
\* waiting stub returns; with the response, or with NULL.
Finish(c, ok, out) ==
  call' = [call EXCEPT ![c].stage = "over", ![c].ok = ok, ![c].out = out,
                       ![c].dones = @ + 1]

\* Mutants of Fail: a call that has failed is not reported, or once more after
\* it has ended, or a waiting stub moves what it does not have.
FailSilently(c) == call[c].stage = "sent" /\ UNCHANGED vars
FailAgain(c) == /\ call[c].stage \in {"sent", "over"}
                /\ Finish(c, FALSE, <<>>)
                /\ UNCHANGED <<req, resp, work, asked>>
FailMoves(c) == /\ call[c].stage = "sent"
                /\ Finish(c, FALSE, <<>>)
                /\ resp' = [resp EXCEPT ![c] = <<>>]
                /\ UNCHANGED <<req, work, asked>>

\* A waiting stub moves the response into the caller's, if there is one.
Answer(c) ==
  /\ call[c].stage = "sent" /\ work[c].stage = "answered"
  /\ LET T == ResponseType(call[c].service)
         parsed == ParseInto(T, New(T), Serialize(T, work[c].resp))
     IN /\ Finish(c, parsed.ok, IF parsed.ok THEN parsed.msg ELSE <<>>)
        /\ resp' = IF call[c].form = "wait" /\ parsed.ok
                   THEN [resp EXCEPT ![c] = Swap(@, parsed.msg)[1]] ELSE resp
  /\ UNCHANGED <<req, work, asked>>

\* No server, no such method, a request that could not be parsed, a timeout.
Fail(c) ==
  /\ call[c].stage = "sent"
  /\ Finish(c, FALSE, <<>>)
  /\ UNCHANGED <<req, resp, work, asked>>

Call(c) == \/ SignUp(c) \/ SignIn(c) \/ DirAdd(c) \/ DirRm(c) \/ DirQuery(c)
           \/ SignUpTRPC(c) \/ SignInTRPC(c) \/ DirAddTRPC(c) \/ DirRmTRPC(c)
           \/ DirQueryTRPC(c)

Next == \E c \in Calls : \/ Call(c) \/ SerializeInput(c) \/ StartTask(c) \/ ChangeRequest(c)
                         \/ Deliver(c) \/ Handle(c) \/ Answer(c) \/ Fail(c)

\* Every call has a timeout; the caller of create_..._task starts its task.
Fairness == \A c \in Calls : /\ WF_vars(Answer(c) \/ Fail(c))
                             /\ WF_vars(SerializeInput(c) \/ StartTask(c))

Spec == Init /\ [][Next]_vars /\ Fairness
------------------------------------------------------------------------------
\* Type invariant; the stages of a call and of the server's work for it.
TypeOK ==
  \A c \in Calls :
    /\ call[c].stage \in {"none", "made", "sent", "over"} /\ call[c].dones \in 0 .. 1
    /\ work[c].stage \in {"none", "no_method", "not_parsed", "runs", "answered"}
    /\ call[c].stage # "none" => call[c].kind \in Kinds /\ call[c].form \in Forms
    /\ call[c].stage = "none" => req[c] = <<>> /\ work[c] = NoWork

\* What a handler works on is the request as it was when it was serialised, no
\* matter what the caller has done with the object since, and a call reaches
\* the handler of its service whichever client made it.
HandledAsAsked ==
  \A c \in Calls :
    /\ work[c].stage # "no_method"
    /\ work[c].stage \in {"runs", "answered"} => work[c].req = asked[c]

\* A result reported as a success is the handler's answer, its negative code
\* included; one reported as a failure leaves a waiting caller's response alone.
ResultIsTheAnswer ==
  \A c \in Calls : call[c].stage = "over" =>
    IF call[c].ok
    THEN /\ work[c].stage = "answered" /\ call[c].out = work[c].resp
         /\ call[c].form = "wait" => resp[c] = work[c].resp
    ELSE call[c].out = <<>> /\ resp[c] = New(ResponseType(call[c].service))

\* No handler and no callback gets a text that is not UTF-8: the handlers put
\* them into SQL and the callbacks into JSON, whose dump would throw.
OnlyText ==
  \A c \in Calls :
    /\ work[c].stage \in {"runs", "answered"} =>
         Clean(RequestType(call[c].service), work[c].req)
    /\ call[c].stage = "over" /\ call[c].ok =>
         Clean(ResponseType(call[c].service), call[c].out)

\* The three spellings of a class agree: parsing what another object has
\* serialised, on top of an object, merges the two, unknown entries included,
\* and the buffer that was sized by ByteSizeLong holds exactly the entries.
SpellingsAgree ==
  \A c \in Calls : call[c].stage \in {"sent", "over"} =>
    LET T == RequestType(call[c].service)
    IN /\ \A o \in Requests[T] :
            Clean(T, asked[c]) =>
              ParseInto(T, o, call[c].wire) = [ok |-> TRUE, msg |-> MergeFrom(T, o, asked[c])]
       /\ ByteSizeLong(T, asked[c]) = WireSize(call[c].wire)
       /\ CopyFrom(T, asked[c]) = asked[c]
       /\ work[c].stage = "answered" =>
            LET R == ResponseType(call[c].service)
            IN ByteSizeLong(R, work[c].resp) = WireSize(Serialize(R, work[c].resp))

\* Every call comes to its end, with a result or without: the protocols that
\* nobody speaks, the server that is gone and the method that fails included.
CallsEnd == \A c \in Calls : call[c].stage \in {"made", "sent"} ~> call[c].dones = 1
==============================================================================
