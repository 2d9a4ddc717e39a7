------------------------------ MODULE ApiServer ------------------------------
(***************************************************************************)
(* The API server (httppart/ApiServer.cc) put together with the account    *)
(* and the directory service: an HTTP request is a series with one RPC,    *)
(* whose callback fills the HTTP response; the series' callback frees the  *)
(* RPC's request.                                                          *)
(*                                                                         *)
(* The callbacks read the RPC's response, which is NULL if the call has    *)
(* failed: no answer within the timeout, or nobody at the port.            *)
(***************************************************************************)
EXTENDS Accounts, Directories

CONSTANTS Signs,     \* the names and passwords browsers send to /register and /login
          DirIds,    \* what they send to the others, with a name
          Reachable  \* the services at the ports that are called:
                     \* {"accounts"} is the code as it stands

\* A response without a cookie; one whose uuid is empty has the cookie "".
NoCookie == "no cookie"

ASSUME ApiServerAssumption ==
  /\ NoCookie \notin Uuids
  /\ Reachable \subseteq {"accounts", "directories"}
  /\ DirIds \subseteq Int

VARIABLES http,   \* by request, its series and what the browser is sent
          apiUp   \* the process runs

vars == <<http, apiUp, sessions, accounts, directories>>

NoHttp == [stage |-> "none", path |-> "", sign |-> M!New("UserSign"), info |-> M!New("DirInfo"),
           cookie |-> NoCookie, status |-> 0, body |-> ""]

Init == /\ AccountsInit /\ DirectoriesInit
        /\ http = [r \in Requests |-> NoHttp]
        /\ apiUp = TRUE
------------------------------------------------------------------------------
\* A browser's request: the message is filled and serialised, the RPC pushed
\* into the series.
Post(r, path, m) ==
  /\ apiUp /\ http[r].stage = "none"
  /\ \A q \in Requests : q < r => http[q].stage # "none"
  /\ http' = [http EXCEPT ![r].stage = "calling", ![r].path = path,
                          ![r].sign = IF path \in {"/register", "/login"} THEN m ELSE @,
                          ![r].info = IF path \in {"/register", "/login"} THEN @ ELSE m]
  /\ UNCHANGED <<apiUp, sessions, accounts, directories>>

SignMessages == {M!SetUserSign(M!New("UserSign"), s[1], s[2]) : s \in Signs}

Register(r) == \E m \in SignMessages : Post(r, "/register", m)
Login(r) == \E m \in SignMessages : Post(r, "/login", m)

\* The uuids a browser may send: those of its cookies, or none.
Cookies == ({http[q].cookie : q \in Requests} \ {NoCookie}) \union {""} \union DOMAIN FirstSessions
DirMessages == {M!SetDirInfo(M!New("DirInfo"), d, "docs", u) : d \in DirIds, u \in Cookies}

QueryDir(r) == \E m \in DirMessages : Post(r, "/querydir", m)
AddDir(r) == \E m \in DirMessages : Post(r, "/adddir", m)
RmDir(r) == \E m \in DirMessages : Post(r, "/rmdir", m)

\* The call arrives, possibly when the caller has given it up.
Deliver(r) ==
  /\ http[r].stage # "none"
  /\ \/ /\ "accounts" \in Reachable
        /\ \/ http[r].path = "/register" /\ SignUp(r, http[r].sign)
           \/ http[r].path = "/login" /\ SignIn(r, http[r].sign)
        /\ UNCHANGED directories
     \/ /\ "directories" \in Reachable
        /\ \/ http[r].path = "/querydir" /\ DirQuery(r, http[r].info)
           \/ http[r].path = "/adddir" /\ DirAdd(r, http[r].info)
           \/ http[r].path = "/rmdir" /\ DirRm(r, http[r].info)
        /\ UNCHANGED <<sessions, accounts>>
  /\ UNCHANGED <<http, apiUp>>

Answered(r) == sign[r].stage = "answered" \/ dir[r].stage = "answered"

\* The callbacks of /register and /login: a cookie, which has the empty uuid if
\* the status is not 0, the status and the text; those of the others hand
\* jsoninfo through.
RpcDone(r) ==
  /\ apiUp /\ http[r].stage = "calling"
  /\ \/ /\ sign[r].stage = "answered"
        /\ http' = [http EXCEPT ![r].stage = "done", ![r].cookie = sign[r].ret.uuid,
                                ![r].status = sign[r].ret.code, ![r].body = sign[r].ret.msg]
     \/ /\ dir[r].stage = "answered"
        /\ http' = [http EXCEPT ![r].stage = "done", ![r].body = dir[r].ret.jsoninfo]
  /\ UNCHANGED <<apiUp, sessions, accounts, directories>>

\* Mutant: a call that has failed is never given up.
RpcFailsNot(r) == apiUp /\ http[r].stage = "calling" /\ Answered(r) /\ UNCHANGED vars

\* A call that has failed: ret is NULL, and reading it ends the process, with
\* every request in it.
RpcFails(r) ==
  /\ apiUp /\ http[r].stage = "calling"
  /\ apiUp' = FALSE
  /\ http' = [q \in Requests |-> IF http[q].stage = "calling"
                                 THEN [http[q] EXCEPT !.stage = "lost"] ELSE http[q]]
  /\ UNCHANGED <<sessions, accounts, directories>>

RestartApi == /\ ~apiUp
              /\ apiUp' = TRUE
              /\ UNCHANGED <<http, sessions, accounts, directories>>

Next ==
  \/ \E r \in Requests : \/ Register(r) \/ Login(r) \/ QueryDir(r) \/ AddDir(r) \/ RmDir(r)
                         \/ Deliver(r) \/ RpcDone(r) \/ RpcFails(r)
  \/ AccountsStep /\ UNCHANGED <<http, apiUp, directories>>
  \/ DirectoriesStep /\ UNCHANGED <<http, apiUp, sessions, accounts>>
  \/ RestartApi

\* A call is answered or times out.
Fairness == \A r \in Requests : WF_vars(RpcDone(r) \/ RpcFails(r))

Spec == Init /\ [][Next]_vars /\ Fairness
------------------------------------------------------------------------------
DirPaths == {"/querydir", "/adddir", "/rmdir"}

\* Type invariant of the three processes; each RPC is in the service of its path.
TypeOK ==
  /\ AccountsTypeOK /\ DirectoriesTypeOK /\ apiUp \in BOOLEAN
  /\ \A r \in Requests :
       /\ http[r].stage \in {"none", "calling", "done", "lost"}
       /\ sign[r].stage # "idle" => http[r].path \in {"/register", "/login"}
       /\ dir[r].stage # "idle" => http[r].path \in DirPaths

\* The names that browsers have sent to the account service are held by the
\* statements' texts as they are.  What is said of the tables is said of such runs.
PlainNames == \A r \in Requests : http[r].path \in {"/register", "/login"} =>
                                    http[r].sign.username \in Plain

\* The rows that are the account a browser has sent: the encpwd of a new one may
\* be spoilt.
AccountsOf(r) == {a \in Rows(http[r].sign) :
                    http[r].path = "/login" => a.password = http[r].sign.password}

\* A session belongs to whoever was given its uuid: no two answers hand out the
\* same one and no later HMSET replaces it.  If all names were plain, then
\* whenever it is stored, it is that of the account that the browser has sent.
SessionIsTheirs ==
  /\ \A r, q \in Requests : r # q /\ http[r].cookie \in Uuids => http[r].cookie # http[q].cookie
  /\ \A u \in DOMAIN FirstSessions : sessions[u] = FirstSessions[u]
  /\ PlainNames => \A r \in Requests, u \in Uuids :
       http[r].cookie = u /\ sessions[u] # NoSession =>
         /\ users[sessions[u][4]] \in AccountsOf(r)
         /\ sessions[u][2] \in {http[r].sign.username, Garbage}

\* What a browser is told is what was done: a uuid with the status 0 alone.  If
\* all names were plain, then the status 0 comes for an account that is in the
\* table; and one row is added, or removed, by the request that is told so,
\* whatever is done at the same time, and none by one whose answer is empty.
AnswersAreTrue ==
  \A r \in Requests : http[r].stage = "done" =>
    LET added == {i \in DOMAIN tree : tree[i].by = r}
        removed == {i \in DOMAIN tree : tree[i].gone = r}
        signs == http[r].path \in {"/register", "/login"}
    IN /\ signs => (http[r].status = 0 <=> http[r].cookie \in Uuids)
       /\ PlainNames =>
            /\ signs /\ http[r].status = 0 =>
                 \E i \in DOMAIN users : users[i] \in AccountsOf(r)
            /\ http[r].body = "added" => Cardinality(added) = 1
            /\ http[r].body = "del ok!" => Cardinality(removed) = 1
            /\ http[r].body \in {"", "data"} => added = {} /\ removed = {}

\* Every request comes to its end: answered, or lost with the process.
RequestsEnd == \A r \in Requests : http[r].stage = "calling" ~> http[r].stage # "calling"

\* The README: /querydir lists what is under a dirid, /adddir makes a directory.
\* So their requests are answered.
DirectoriesAnswer ==
  \A r \in Requests :
    http[r].stage = "calling" /\ http[r].path \in DirPaths ~> http[r].stage = "done"
==============================================================================
