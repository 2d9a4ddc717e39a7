------------------------------- MODULE Accounts -------------------------------
(***************************************************************************)
(* The account service (httppart/use_rpcserver.cc, Utilty.cc): SignUp and  *)
(* SignIn push one statement into the series of their call; its callback   *)
(* fills the response.  The session is stored by a task of its own, which  *)
(* starts beside the response and whose result nobody looks at.            *)
(*                                                                         *)
(* Salt and MD5 are abstracted: two passwords of a user have the same      *)
(* encpwd if and only if they are the same.  The username and the encpwd   *)
(* are put into the statement's text as they come, between quotes that     *)
(* they may end themselves.  What the statement then does is known for a   *)
(* username in Plain alone; with any other, it is another statement.       *)
(***************************************************************************)
EXTENDS Sessions

CONSTANTS Plain,         \* the usernames that a text holds as they are, and that
                         \* the table tells apart
          Tables,        \* what other statements may leave of the table: a bound
          Garbage,       \* what a string holds that is copied from itself, or an
                         \* encpwd that its own bytes have spoilt
          FirstUsers,    \* the rows of the table when the processes start
          FirstSessions  \* and the sessions in Redis

\* A uuid has 36 characters, so it is not empty.
ASSUME AccountsAssumption ==
  /\ "" \notin Uuids
  /\ FirstUsers \in Seq([username : Plain, password : STRING])
  /\ Tables \subseteq Seq([username : STRING, password : STRING])
  /\ DOMAIN FirstSessions \subseteq Uuids

VARIABLES users,       \* the table user; a row's id is its position
          sign,        \* by request, what the service does for it
          setting,     \* the HMSETs on their way to Redis
          given,       \* history: the uuids drawn
          accountsUp   \* the process runs

accounts == <<users, sign, setting, given, accountsUp>>

NoSign == [stage |-> "idle", asked |-> M!New("UserSign"), ret |-> M!New("UserRet")]

AccountsInit == /\ users = FirstUsers
                /\ sign = [r \in Requests |-> NoSign]
                /\ setting = {}
                /\ given = DOMAIN FirstSessions
                /\ accountsUp = TRUE
                /\ sessions = [u \in Uuids |-> IF u \in given THEN FirstSessions[u] ELSE NoSession]
------------------------------------------------------------------------------
Taken(name) == \E i \in DOMAIN users : users[i].username = name

\* The handlers: the request is copied, the statement pushed into the series.
Handler(r, stage, m) == /\ accountsUp /\ sign[r].stage = "idle"
                        /\ sign' = [sign EXCEPT ![r].stage = stage, ![r].asked = m]
                        /\ UNCHANGED <<users, setting, given, accountsUp, sessions>>
SignUp(r, m) == Handler(r, "insert", m)
SignIn(r, m) == Handler(r, "select", m)

Reply(r, code, msg, uuid) ==
  sign' = [sign EXCEPT ![r].stage = "answered",
                       ![r].ret = M!SetUserRet(@, code, msg, uuid)]

\* Mutant: a uuid that was drawn before.
GenUuidAgain(u) == u \in Uuids

\* gen_uuid: it has not been drawn before.
GenUuid(u) == u \in Uuids \ given

\* A uuid is drawn, its session's task started and the response filled.
GiveSession(r, name, id) ==
  \E u \in Uuids :
    /\ GenUuid(u)
    /\ given' = given \union {u}
    /\ setting' = setting \union {[uuid |-> u, name |-> name, id |-> id]}
    /\ Reply(r, 0, "ok!", u)
    /\ UNCHANGED <<accountsUp, sessions>>

Refuse(r, msg) == /\ Reply(r, -1, msg, "")
                  /\ UNCHANGED <<setting, given, accountsUp, sessions>>

\* The process ends: the calls in it and the HMSETs not yet sent are lost.
AccountsDie ==
  /\ accountsUp' = FALSE
  /\ sign' = [r \in Requests |-> IF sign[r].stage = "idle" THEN sign[r]
                                 ELSE [NoSign EXCEPT !.stage = "lost"]]
  /\ setting' = {}
  /\ UNCHANGED <<given, sessions>>

\* A statement that the username has changed: it may leave other tables, and
\* answer with other names and ids.
OtherStatement(r, names, msg) ==
  /\ sign[r].asked.username \notin Plain /\ "done" \in Statements
  /\ users' \in Tables \union {users}
  /\ \/ \E name \in names, id \in 0 .. Len(users) + 1 : GiveSession(r, name, id)
     \/ Refuse(r, msg)
     \/ AccountsDie

\* What an INSERT adds for a request: the encpwd's bytes are part of the text.
Rows(m) == [username : {m.username}, password : {m.password, Garbage}]

\* The callback of SignUp.  A name that is taken cannot be inserted (UNIQUE);
\* whatever went wrong, the answer is that it is taken.  In the other branch
\* string username=username copies a string that has not been constructed.
Inserted(r) ==
  /\ accountsUp /\ sign[r].stage = "insert"
  /\ \/ users' = users /\ Refuse(r, "duplicated username")
     \/ /\ sign[r].asked.username \in Plain /\ ~Taken(sign[r].asked.username)
        /\ \E row \in Rows(sign[r].asked) : users' = Append(users, row)
        /\ \/ /\ "done" \in Statements
              /\ GiveSession(r, Garbage, Len(users) + 1) \/ AccountsDie
           \/ "unreported" \in Statements /\ Refuse(r, "duplicated username")
     \/ OtherStatement(r, {Garbage}, "duplicated username")

\* The callback of SignIn: a row, and the password that belongs to it.
Selected(r) ==
  /\ accountsUp /\ sign[r].stage = "select"
  /\ \/ users' = users /\ Refuse(r, "login error username")
     \/ /\ sign[r].asked.username \in Plain /\ "done" \in Statements
        /\ UNCHANGED users
        /\ \E i \in DOMAIN users :
             /\ users[i].username = sign[r].asked.username
             /\ users[i].password = sign[r].asked.password
             /\ GiveSession(r, users[i].username, i)
     \/ OtherStatement(r, {Garbage} \union {users[i].username : i \in DOMAIN users},
                       "login error username")

\* Redis executes an HMSET, or it fails and the task's empty callback is called.
StoreSession(s) == /\ setting' = setting \ {s}
                   /\ \/ sessions' = [sessions EXCEPT ![s.uuid] = Session(s.name, s.id)]
                      \/ UNCHANGED sessions
                   /\ UNCHANGED <<users, sign, given, accountsUp>>

RestartAccounts == /\ ~accountsUp
                   /\ accountsUp' = TRUE
                   /\ UNCHANGED <<users, sign, setting, given, sessions>>

AccountsStep == \/ \E r \in Requests : Inserted(r) \/ Selected(r)
                \/ \E s \in setting : StoreSession(s)
                \/ RestartAccounts
------------------------------------------------------------------------------
AccountsTypeOK ==
  /\ \A r \in Requests : sign[r].stage \in {"idle", "insert", "select", "answered", "lost"}
  /\ \A s \in setting : s.uuid \in given /\ s.id \in Nat
  /\ given \subseteq Uuids
  /\ accountsUp \in BOOLEAN
==============================================================================
