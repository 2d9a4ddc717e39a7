---------------------------- MODULE ApiServerProofs ----------------------------
(***************************************************************************)
(* ApiServer with both of its services proved: its types, that a session   *)
(* belongs to whoever was given its uuid, and that a browser is told what  *)
(* was done.  For any number of requests, however the statements end, and  *)
(* whichever process dies; what is said of accounts and of rows, as long   *)
(* as the names that browsers send are plain.                              *)
(***************************************************************************)
EXTENDS ApiServer, FiniteSetTheorems, TLAPS

SignPaths == {"/register", "/login"}

\* What the lemmas need of a new message.
LEMMA NewUserRet ==
  /\ {"code", "msg", "uuid"} \subseteq DOMAIN M!New("UserRet")
  /\ M!New("UserRet").uuid = ""
<1> DEFINE F == {M!Int32("code"), M!Text("msg"), M!Text("uuid")}
<1>1. M!Members["UserRet"] = F
  BY DEF M!Members, M!UserRetMembers
<1>2. /\ {"code", "msg", "uuid"} \subseteq {m.name : m \in F}
      /\ (CHOOSE m \in F : m.name = "uuid").type = "string"
  BY DEF M!Int32, M!Text
<1> HIDE DEF F
<1> QED
  BY <1>1, <1>2 DEF M!New, M!Default

LEMMA NewDirRet ==
  /\ {"code", "jsoninfo"} \subseteq DOMAIN M!New("DirRet")
  /\ M!New("DirRet").jsoninfo = ""
<1> DEFINE F == {M!Int32("code"), M!Text("jsoninfo")}
<1>1. M!Members["DirRet"] = F
  BY DEF M!Members, M!DirRetMembers
<1>2. /\ {"code", "jsoninfo"} \subseteq {m.name : m \in F}
      /\ (CHOOSE m \in F : m.name = "jsoninfo").type = "string"
  BY DEF M!Int32, M!Text
<1> HIDE DEF F
<1> QED
  BY <1>1, <1>2 DEF M!New, M!Default

LEMMA NewDirInfo ==
  /\ {"dirid", "name", "uuid"} \subseteq DOMAIN M!New("DirInfo")
  /\ M!New("DirInfo").dirid = 0
<1> DEFINE F == {M!Int64("dirid"), M!Text("name"), M!Text("uuid")}
<1>1. M!Members["DirInfo"] = F
  BY DEF M!Members, M!DirInfoMembers
<1>2. /\ {"dirid", "name", "uuid"} \subseteq {m.name : m \in F}
      /\ (CHOOSE m \in F : m.name = "dirid").type = "int64"
  BY DEF M!Int64, M!Text
<1> HIDE DEF F
<1> QED
  BY <1>1, <1>2 DEF M!New, M!Default
------------------------------------------------------------------------------
\* Tables: sequences of which only the length is known.
IsList(s) == \E n \in Nat : s = [i \in 1 .. n |-> s[i]]

LEMMA SequenceIsList ==
  ASSUME NEW R, NEW s \in Seq(R)
  PROVE  IsList(s) /\ \A i \in DOMAIN s : s[i] \in R
<1>1. Len(s) \in Nat /\ s = [i \in 1 .. Len(s) |-> s[i]]
  OBVIOUS
<1>2. \A i \in DOMAIN s : s[i] \in R
  OBVIOUS
<1> QED
  BY <1>1, <1>2 DEF IsList

LEMMA ListLength ==
  ASSUME NEW s, IsList(s)
  PROVE  /\ Len(s) \in Nat /\ DOMAIN s = 1 .. Len(s)
         /\ s = [i \in 1 .. Len(s) |-> s[i]]
<1>1. PICK n \in Nat : s = [i \in 1 .. n |-> s[i]]
  BY DEF IsList
<1> DEFINE S == {s[i] : i \in 1 .. n}
<1>2. s \in [1 .. n -> S]
  BY <1>1
<1> HIDE DEF S
<1>3. s \in Seq(S) /\ Len(s) = n
  BY <1>2
<1> QED
  BY <1>1, <1>3

LEMMA Appended ==
  ASSUME NEW s, IsList(s), NEW x
  PROVE  /\ IsList(Append(s, x)) /\ DOMAIN Append(s, x) = 1 .. Len(s) + 1
         /\ Append(s, x)[Len(s) + 1] = x
         /\ \A i \in DOMAIN s : i \in DOMAIN Append(s, x) /\ Append(s, x)[i] = s[i]
<1> DEFINE n == Len(s)
           S == {s[i] : i \in 1 .. n} \union {x}
<1>1. n \in Nat /\ DOMAIN s = 1 .. n /\ s = [i \in 1 .. n |-> s[i]]
  BY ListLength
<1>2. s \in [1 .. n -> S] /\ x \in S
  BY <1>1
<1> HIDE DEF S
<1>3. s \in Seq(S)
  BY <1>1, <1>2
<1> DEFINE t == Append(s, x)
<1>4. t \in Seq(S) /\ Len(t) = n + 1 /\ t[n + 1] = x /\ \A i \in 1 .. n : t[i] = s[i]
  BY <1>1, <1>2, <1>3
<1> HIDE DEF t
<1>5. n + 1 \in Nat /\ t = [i \in 1 .. n + 1 |-> t[i]] /\ DOMAIN t = 1 .. n + 1
  BY <1>1, <1>4
<1>6. IsList(t)
  BY <1>5 DEF IsList
<1> QED
  BY <1>1, <1>4, <1>5, <1>6 DEF t
------------------------------------------------------------------------------
HttpFields(h) == [stage |-> h.stage, path |-> h.path, sign |-> h.sign, info |-> h.info,
                  cookie |-> h.cookie, status |-> h.status, body |-> h.body]
SignFields(a) == [stage |-> a.stage, asked |-> a.asked, ret |-> a.ret]
DirFields(d) == [stage |-> d.stage, op |-> d.op, asked |-> d.asked, user |-> d.user,
                 ret |-> d.ret]
RowFields(t) == [user |-> t.user, name |-> t.name, dirid |-> t.dirid, by |-> t.by,
                 gone |-> t.gone]
UserFields(u) == [username |-> u.username, password |-> u.password]

\* The types, process by process.
HttpTyped(r) == /\ http[r] = HttpFields(http[r])
                /\ http[r].stage \in {"none", "calling", "done", "lost"}
                /\ http[r].info.dirid \in Int
                /\ http[r].stage # "none" => http[r].path \in SignPaths \union DirPaths
                /\ http[r].stage = "none" => http[r].path = ""

SignTyped(r) == /\ sign[r] = SignFields(sign[r])
                /\ {"code", "msg", "uuid"} \subseteq DOMAIN sign[r].ret
                /\ sign[r].stage \in {"idle", "insert", "select", "answered", "lost"}
                /\ sign[r].stage # "idle" => http[r].stage # "none" /\ http[r].path \in SignPaths
                /\ sign[r].stage \in {"insert", "select"} => sign[r].asked = http[r].sign
                /\ sign[r].stage = "insert" => http[r].path = "/register"

DirTyped(r) == /\ dir[r] = DirFields(dir[r])
               /\ {"code", "jsoninfo"} \subseteq DOMAIN dir[r].ret
               /\ dir[r].stage \in {"idle", "hgetall", "statement", "answered", "lost"}
               /\ dir[r].asked.dirid \in Int
               /\ dir[r].stage # "idle" => http[r].stage # "none" /\ http[r].path \in DirPaths

ByRequest == /\ http = [r \in Requests |-> http[r]]
             /\ sign = [r \in Requests |-> sign[r]]
             /\ dir = [r \in Requests |-> dir[r]]
             /\ \A r \in Requests : HttpTyped(r) /\ SignTyped(r) /\ DirTyped(r)

UsersTyped == IsList(users) /\ \A i \in DOMAIN users : users[i] = UserFields(users[i])

TreeTyped == /\ IsList(tree)
             /\ \A i \in DOMAIN tree : /\ tree[i] = RowFields(tree[i])
                                       /\ tree[i].dirid \in Nat \union {Removed}
                                       /\ tree[i].by \in Requests \union {0}
                                       /\ tree[i].gone # 0 => tree[i].dirid = Removed

SessionsTyped == /\ sessions = [u \in Uuids |-> sessions[u]]
                 /\ DOMAIN FirstSessions \subseteq given /\ given \subseteq Uuids
                 /\ \A s \in setting : s.uuid \in given /\ s.id \in Nat

Typed == /\ ByRequest /\ UsersTyped /\ TreeTyped /\ SessionsTyped
         /\ apiUp \in BOOLEAN /\ accountsUp \in BOOLEAN /\ directoriesUp \in BOOLEAN

LEMMA TypedIsTypeOK == Typed => TypeOK
BY DEF Typed, ByRequest, HttpTyped, SignTyped, DirTyped, TreeTyped, SessionsTyped,
   TypeOK, AccountsTypeOK, DirectoriesTypeOK, SignPaths

LEMMA Fixed ==
  /\ NoHttp = HttpFields(NoHttp) /\ NoHttp.stage = "none" /\ NoHttp.cookie = NoCookie
  /\ NoHttp.path = ""
  /\ NoHttp.info.dirid \in Int
  /\ NoSign = SignFields(NoSign) /\ NoSign.stage = "idle" /\ NoSign.ret.uuid = ""
  /\ {"code", "msg", "uuid"} \subseteq DOMAIN NoSign.ret
  /\ NoDir = DirFields(NoDir) /\ NoDir.stage = "idle" /\ NoDir.ret.jsoninfo = ""
  /\ NoDir.asked.dirid \in Int
  /\ {"code", "jsoninfo"} \subseteq DOMAIN NoDir.ret
<1>1. /\ NoHttp = HttpFields(NoHttp) /\ NoHttp.stage = "none" /\ NoHttp.cookie = NoCookie
      /\ NoHttp.path = ""
      /\ NoHttp.info.dirid \in Int
  BY NewDirInfo DEF NoHttp, HttpFields
<1>2. /\ NoSign = SignFields(NoSign) /\ NoSign.stage = "idle" /\ NoSign.ret.uuid = ""
      /\ {"code", "msg", "uuid"} \subseteq DOMAIN NoSign.ret
  BY NewUserRet DEF NoSign, SignFields
<1>3. /\ NoDir = DirFields(NoDir) /\ NoDir.stage = "idle" /\ NoDir.ret.jsoninfo = ""
      /\ NoDir.asked.dirid \in Int
      /\ {"code", "jsoninfo"} \subseteq DOMAIN NoDir.ret
  <2>1. /\ NoDir = DirFields(NoDir) /\ NoDir.stage = "idle"
        /\ NoDir.ret = M!New("DirRet") /\ NoDir.asked = M!New("DirInfo")
    BY DEF NoDir, DirFields
  <2>2. NoDir.asked.dirid \in Int
    BY <2>1, NewDirInfo
  <2>3. /\ NoDir.ret.jsoninfo = ""
        /\ {"code", "jsoninfo"} \subseteq DOMAIN NoDir.ret
    BY <2>1, NewDirRet
  <2> QED
    BY <2>1, <2>2, <2>3
<1> QED
  BY <1>1, <1>2, <1>3

LEMMA InitTyped == Init => Typed
<1> SUFFICES ASSUME Init PROVE Typed
  OBVIOUS
<1>1. ByRequest
  BY Fixed DEF Init, AccountsInit, DirectoriesInit, ByRequest, HttpTyped, SignTyped, DirTyped
<1>2. UsersTyped
  <2>1. IsList(users) /\ \A i \in DOMAIN users : users[i] \in [username : Plain, password : STRING]
    BY AccountsAssumption, SequenceIsList DEF Init, AccountsInit
  <2> QED
    BY <2>1 DEF UsersTyped, UserFields
<1>3. TreeTyped
  <2>1. /\ IsList(tree)
        /\ \A i \in DOMAIN tree : tree[i] \in [user : STRING, name : STRING,
              dirid : Nat \union {Removed}, by : {0}, gone : {0}]
    BY DirectoriesAssumption, SequenceIsList DEF Init, DirectoriesInit
  <2> QED
    BY <2>1 DEF TreeTyped, RowFields
<1>4. SessionsTyped
  BY AccountsAssumption DEF Init, AccountsInit, SessionsTyped
<1> QED
  BY <1>1, <1>2, <1>3, <1>4 DEF Init, AccountsInit, DirectoriesInit, Typed
------------------------------------------------------------------------------
\* The steps, by what they change.  A step of the API server ...
ApiKeeps == UNCHANGED <<sessions, accounts, directories>>

\* ... of the account service, which may come with a call that arrives there ...
AccountsKeep == UNCHANGED <<http, apiUp, directories>>

\* ... and of the directory service.
DirectoriesKeep == UNCHANGED <<http, apiUp, sessions, accounts>>

\* The other requests are left alone.
HttpAlone(r) == \A q \in Requests \ {r} : http'[q] = http[q]
SignAlone(r) == \A q \in Requests \ {r} : sign'[q] = sign[q]
DirAlone(r) == \A q \in Requests \ {r} : dir'[q] = dir[q]

\* A new request.
Posts(r) == /\ ApiKeeps /\ HttpAlone(r)
            /\ http[r].stage = "none" /\ http'[r].stage = "calling"
            /\ http'[r].path \in SignPaths \union DirPaths
            /\ http'[r].cookie = http[r].cookie

LEMMA InfoNumber ==
  ASSUME NEW m \in DirMessages PROVE m.dirid \in Int
<1>1. PICK d \in DirIds, u \in Cookies : m = M!SetDirInfo(M!New("DirInfo"), d, "docs", u)
  BY DEF DirMessages
<1> QED
  BY <1>1, NewDirInfo, ApiServerAssumption DEF M!SetDirInfo

LEMMA PostStep ==
  ASSUME Typed, NEW r \in Requests,
         Register(r) \/ Login(r) \/ QueryDir(r) \/ AddDir(r) \/ RmDir(r)
  PROVE  Typed' /\ Posts(r)
<1>1. PICK path \in SignPaths \union DirPaths, m \in SignMessages \union DirMessages :
        Post(r, path, m) /\ (path \in DirPaths => m.dirid \in Int)
  BY InfoNumber DEF Register, Login, QueryDir, AddDir, RmDir, SignPaths, DirPaths
<1>2. /\ http[r] = HttpFields(http[r]) /\ http[r].stage = "none"
      /\ http[r].info.dirid \in Int
      /\ UNCHANGED <<apiUp, sessions, accounts, directories>>
  BY <1>1 DEF Post, Typed, ByRequest, HttpTyped
<1>3. /\ http' = [q \in Requests |-> http'[q]] /\ HttpAlone(r)
      /\ http'[r] = [http[r] EXCEPT !.stage = "calling", !.path = path,
                         !.sign = IF path \in {"/register", "/login"} THEN m ELSE @,
                         !.info = IF path \in {"/register", "/login"} THEN @ ELSE m]
  BY <1>1 DEF Post, Typed, ByRequest, HttpAlone
<1>4. /\ http'[r] = HttpFields(http'[r])
      /\ http'[r].stage = "calling" /\ http'[r].path = path
      /\ http'[r].cookie = http[r].cookie
      /\ http'[r].info = IF path \in {"/register", "/login"} THEN http[r].info ELSE m
  BY <1>2, <1>3 DEF HttpFields
<1>5. http'[r].info.dirid \in Int
  BY <1>1, <1>2, <1>4 DEF SignPaths
<1>6. \A q \in Requests : HttpTyped(q)' /\ SignTyped(q)' /\ DirTyped(q)'
  <2> SUFFICES ASSUME NEW q \in Requests
               PROVE  HttpTyped(q)' /\ SignTyped(q)' /\ DirTyped(q)'
    OBVIOUS
  <2>1. HttpTyped(q) /\ SignTyped(q) /\ DirTyped(q)
    BY DEF Typed, ByRequest
  <2>2. CASE q = r
    BY <1>2, <1>4, <1>5, <2>1, <2>2 DEF HttpTyped, SignTyped, DirTyped, accounts, directories
  <2>3. CASE q # r
    BY <1>2, <1>3, <2>1, <2>3 DEF HttpTyped, SignTyped, DirTyped, HttpAlone, accounts, directories
  <2> QED
    BY <2>2, <2>3
<1>7. Typed'
  BY <1>2, <1>3, <1>6 DEF Typed, ByRequest, UsersTyped, TreeTyped, SessionsTyped,
     accounts, directories
<1> QED
  BY <1>2, <1>3, <1>4, <1>7 DEF Posts, ApiKeeps

\* An answer that is handed to the browser, by the one service or by the other.
HandsSign(r) == /\ ApiKeeps /\ HttpAlone(r)
                /\ http[r].stage = "calling" /\ sign[r].stage = "answered"
                /\ http'[r] = [http[r] EXCEPT !.stage = "done", !.cookie = sign[r].ret.uuid,
                                   !.status = sign[r].ret.code, !.body = sign[r].ret.msg]

HandsDir(r) == /\ ApiKeeps /\ HttpAlone(r)
               /\ http[r].stage = "calling" /\ dir[r].stage = "answered"
               /\ http'[r] = [http[r] EXCEPT !.stage = "done", !.body = dir[r].ret.jsoninfo]

\* Requests that are lost with the process.
Loses == /\ ApiKeeps
         /\ \A q \in Requests :
              \/ http'[q] = http[q]
              \/ http[q].stage = "calling" /\ http'[q] = [http[q] EXCEPT !.stage = "lost"]

\* Whatever the API server does to a request that it has, the types stay.
LEMMA ApiTyped ==
  ASSUME Typed, ApiKeeps, apiUp' \in BOOLEAN, http' = [q \in Requests |-> http'[q]],
         \A q \in Requests :
           \/ http'[q] = http[q]
           \/ /\ http[q].stage # "none"
              /\ http'[q] = HttpFields(http'[q])
              /\ http'[q].stage \in {"calling", "done", "lost"}
              /\ http'[q].info = http[q].info /\ http'[q].sign = http[q].sign
              /\ http'[q].path = http[q].path
  PROVE  Typed'
<1>1. \A q \in Requests : HttpTyped(q)' /\ SignTyped(q)' /\ DirTyped(q)'
  <2> SUFFICES ASSUME NEW q \in Requests
               PROVE  HttpTyped(q)' /\ SignTyped(q)' /\ DirTyped(q)'
    OBVIOUS
  <2>1. HttpTyped(q) /\ SignTyped(q) /\ DirTyped(q)
    BY DEF Typed, ByRequest
  <2>2. UNCHANGED <<sign, dir>>
    BY DEF ApiKeeps, accounts, directories
  <2>3. CASE http'[q] = http[q]
    BY <2>1, <2>2, <2>3 DEF HttpTyped, SignTyped, DirTyped
  <2>4. CASE http'[q] # http[q]
    BY <2>1, <2>2, <2>4 DEF HttpTyped, SignTyped, DirTyped
  <2> QED
    BY <2>3, <2>4
<1> QED
  BY <1>1 DEF Typed, ByRequest, UsersTyped, TreeTyped, SessionsTyped, ApiKeeps,
     accounts, directories

LEMMA RpcDoneStep ==
  ASSUME Typed, NEW r \in Requests, RpcDone(r)
  PROVE  Typed' /\ (HandsSign(r) \/ HandsDir(r))
<1>1. /\ http[r] = HttpFields(http[r]) /\ http[r].stage = "calling"
      /\ ApiKeeps /\ apiUp' = apiUp
  BY DEF RpcDone, Typed, ByRequest, HttpTyped, ApiKeeps
<1>2. CASE /\ sign[r].stage = "answered"
           /\ http' = [http EXCEPT ![r].stage = "done", ![r].cookie = sign[r].ret.uuid,
                           ![r].status = sign[r].ret.code, ![r].body = sign[r].ret.msg]
  <2>1. /\ http' = [q \in Requests |-> http'[q]] /\ HttpAlone(r)
        /\ http'[r] = [http[r] EXCEPT !.stage = "done", !.cookie = sign[r].ret.uuid,
                           !.status = sign[r].ret.code, !.body = sign[r].ret.msg]
    BY <1>2 DEF Typed, ByRequest, HttpAlone
  <2>2. /\ http'[r] = HttpFields(http'[r]) /\ http'[r].stage = "done"
        /\ http'[r].info = http[r].info /\ http'[r].sign = http[r].sign
        /\ http'[r].path = http[r].path
    BY <1>1, <2>1 DEF HttpFields
  <2>3. Typed'
    BY <1>1, <2>1, <2>2, ApiTyped DEF HttpAlone, Typed
  <2> QED
    BY <1>1, <1>2, <2>1, <2>3 DEF HandsSign
<1>3. CASE /\ dir[r].stage = "answered"
           /\ http' = [http EXCEPT ![r].stage = "done", ![r].body = dir[r].ret.jsoninfo]
  <2>1. /\ http' = [q \in Requests |-> http'[q]] /\ HttpAlone(r)
        /\ http'[r] = [http[r] EXCEPT !.stage = "done", !.body = dir[r].ret.jsoninfo]
    BY <1>3 DEF Typed, ByRequest, HttpAlone
  <2>2. /\ http'[r] = HttpFields(http'[r]) /\ http'[r].stage = "done"
        /\ http'[r].info = http[r].info /\ http'[r].sign = http[r].sign
        /\ http'[r].path = http[r].path
    BY <1>1, <2>1 DEF HttpFields
  <2>3. Typed'
    BY <1>1, <2>1, <2>2, ApiTyped DEF HttpAlone, Typed
  <2> QED
    BY <1>1, <1>3, <2>1, <2>3 DEF HandsDir
<1> QED
  BY <1>2, <1>3 DEF RpcDone

LEMMA RpcFailsStep ==
  ASSUME Typed, NEW r \in Requests, RpcFails(r)
  PROVE  Typed' /\ Loses
<1>1. /\ ApiKeeps /\ apiUp' = FALSE
      /\ http' = [q \in Requests |-> IF http[q].stage = "calling"
                                     THEN [http[q] EXCEPT !.stage = "lost"] ELSE http[q]]
  BY DEF RpcFails, ApiKeeps
<1>2. http' = [q \in Requests |-> http'[q]]
  BY <1>1
<1>3. \A q \in Requests :
        \/ http'[q] = http[q]
        \/ http[q].stage = "calling" /\ http'[q] = [http[q] EXCEPT !.stage = "lost"]
  BY <1>1
<1>4. ASSUME NEW q \in Requests, http[q].stage = "calling",
             http'[q] = [http[q] EXCEPT !.stage = "lost"]
      PROVE  /\ http'[q] = HttpFields(http'[q]) /\ http'[q].stage = "lost"
             /\ http'[q].info = http[q].info /\ http'[q].sign = http[q].sign
             /\ http'[q].path = http[q].path
  <2>1. http[q] = HttpFields(http[q])
    BY DEF Typed, ByRequest, HttpTyped
  <2> QED
    BY <1>4, <2>1 DEF HttpFields
<1>5. \A q \in Requests :
        \/ http'[q] = http[q]
        \/ /\ http[q].stage # "none"
           /\ http'[q] = HttpFields(http'[q])
           /\ http'[q].stage \in {"calling", "done", "lost"}
           /\ http'[q].info = http[q].info /\ http'[q].sign = http[q].sign
           /\ http'[q].path = http[q].path
  BY <1>3, <1>4
<1> QED
  BY <1>1, <1>2, <1>3, <1>5, ApiTyped DEF Loses

LEMMA RestartApiStep ==
  ASSUME Typed, RestartApi
  PROVE  Typed' /\ Loses
BY ApiTyped DEF RestartApi, Loses, ApiKeeps, Typed, ByRequest
------------------------------------------------------------------------------
\* The account service: a call arrives; it is answered with a session, or with
\* a refusal; a session is stored; the process ends, or starts.
ArrivesSign(r) == /\ AccountsKeep /\ SignAlone(r)
                  /\ sign'[r].ret = sign[r].ret
                  /\ sign'[r].stage \in {"insert", "select"}
                  /\ http[r].stage # "none"
                  /\ UNCHANGED <<users, setting, given, sessions>>

Longer == \A i \in DOMAIN users : i \in DOMAIN users' /\ users'[i] = users[i]

\* The table grows, if the names are plain; otherwise it may be another one.
UsersGrow == UsersTyped' /\ (PlainNames => Longer)

\* A row that is the account of a call.
Asks(r, row) == row \in Rows(sign[r].asked)
                /\ (sign[r].stage = "select" => row.password = sign[r].asked.password)

Gives(r, u, name, id) ==
  /\ AccountsKeep /\ SignAlone(r) /\ UsersGrow
  /\ sign[r].stage \in {"insert", "select"}
  /\ u \in Uuids \ given /\ id \in Nat
  /\ PlainNames => /\ name \in {sign[r].asked.username, Garbage}
                   /\ id \in DOMAIN users' /\ Asks(r, users'[id])
  /\ given' = given \union {u}
  /\ setting' = setting \union {[uuid |-> u, name |-> name, id |-> id]}
  /\ sign'[r].stage = "answered"
  /\ sign'[r].ret.uuid = u /\ sign'[r].ret.code = 0 /\ sign'[r].ret.msg = "ok!"
  /\ UNCHANGED sessions

Refuses(r) ==
  /\ AccountsKeep /\ SignAlone(r) /\ UsersGrow
  /\ sign[r].stage \in {"insert", "select"}
  /\ sign'[r].stage = "answered"
  /\ sign'[r].ret.uuid = "" /\ sign'[r].ret.code = -1
  /\ sign'[r].ret.msg \in {"duplicated username", "login error username"}
  /\ UNCHANGED <<setting, given, sessions>>

Forgets == /\ AccountsKeep /\ UsersGrow
           /\ \A q \in Requests : sign'[q] = sign[q] \/ (sign'[q].ret.uuid = ""
                                                        /\ sign'[q].stage = "lost")
           /\ setting' \subseteq setting
           /\ UNCHANGED <<given, sessions>>

Stores(s) == /\ AccountsKeep
             /\ setting' = setting \ {s}
             /\ \/ sessions' = [sessions EXCEPT ![s.uuid] = Session(s.name, s.id)]
                \/ UNCHANGED sessions
             /\ UNCHANGED <<users, sign, given>>

\* The types of the account service, one request at a time.
LEMMA AccountsTyped ==
  ASSUME Typed, AccountsKeep, sign' = [q \in Requests |-> sign'[q]],
         \A q \in Requests : SignTyped(q)',
         UsersTyped', SessionsTyped', accountsUp' \in BOOLEAN
  PROVE  Typed'
<1>1. \A q \in Requests : HttpTyped(q)' /\ DirTyped(q)'
  BY DEF Typed, ByRequest, AccountsKeep, directories, HttpTyped, DirTyped
<1>2. ByRequest' /\ TreeTyped'
  BY <1>1 DEF Typed, ByRequest, TreeTyped, AccountsKeep, directories
<1> QED
  BY <1>2 DEF Typed, AccountsKeep, directories

LEMMA SignedAlone ==
  ASSUME Typed, AccountsKeep, NEW r \in Requests, SignAlone(r),
         sign' = [q \in Requests |-> sign'[q]],
         sign'[r] = SignFields(sign'[r]),
         {"code", "msg", "uuid"} \subseteq DOMAIN sign'[r].ret,
         sign'[r].stage \in {"insert", "select", "answered"},
         http[r].stage # "none", http[r].path \in SignPaths,
         sign'[r].stage \in {"insert", "select"} => sign'[r].asked = http[r].sign,
         sign'[r].stage = "insert" => http[r].path = "/register",
         UsersTyped', SessionsTyped', accountsUp' \in BOOLEAN
  PROVE  Typed'
<1>1. \A q \in Requests : SignTyped(q)'
  <2> SUFFICES ASSUME NEW q \in Requests PROVE SignTyped(q)'
    OBVIOUS
  <2>1. SignTyped(q) /\ http' = http
    BY DEF Typed, ByRequest, AccountsKeep
  <2>2. CASE q = r
    BY <2>1, <2>2 DEF SignTyped
  <2>3. CASE q # r
    BY <2>1, <2>3 DEF SignTyped, SignAlone
  <2> QED
    BY <2>2, <2>3
<1> QED
  BY <1>1, AccountsTyped

LEMMA ArrivesSignStep ==
  ASSUME Typed, NEW r \in Requests, http[r].stage # "none",
         \/ http[r].path = "/register" /\ SignUp(r, http[r].sign)
         \/ http[r].path = "/login" /\ SignIn(r, http[r].sign),
         AccountsKeep
  PROVE  Typed' /\ ArrivesSign(r)
<1>1. PICK stage \in {"insert", "select"} :
        /\ Handler(r, stage, http[r].sign)
        /\ http[r].path \in SignPaths /\ (stage = "insert" => http[r].path = "/register")
  BY DEF SignUp, SignIn, SignPaths
<1>2. /\ UNCHANGED <<users, setting, given, accountsUp, sessions>>
      /\ sign' = [q \in Requests |-> sign'[q]] /\ SignAlone(r)
      /\ sign'[r] = [sign[r] EXCEPT !.stage = stage, !.asked = http[r].sign]
  BY <1>1 DEF Handler, Typed, ByRequest, SignAlone
<1>3. sign[r] = SignFields(sign[r]) /\ {"code", "msg", "uuid"} \subseteq DOMAIN sign[r].ret
  BY DEF Typed, ByRequest, SignTyped
<1>4. /\ sign'[r] = SignFields(sign'[r]) /\ sign'[r].stage = stage
      /\ sign'[r].asked = http[r].sign /\ sign'[r].ret = sign[r].ret
  BY <1>2, <1>3 DEF SignFields
<1>5. UsersTyped' /\ SessionsTyped'
  BY <1>2 DEF Typed, UsersTyped, SessionsTyped
<1>6. Typed'
  BY <1>1, <1>2, <1>3, <1>4, <1>5, SignedAlone DEF Typed
<1> QED
  BY <1>2, <1>4, <1>6 DEF ArrivesSign

\* The response of a call: its types and what it says.
LEMMA Replied ==
  ASSUME Typed, NEW r \in Requests, NEW code, NEW msg, NEW uuid, Reply(r, code, msg, uuid)
  PROVE  /\ sign' = [q \in Requests |-> sign'[q]] /\ SignAlone(r)
         /\ sign'[r] = SignFields(sign'[r]) /\ sign'[r].stage = "answered"
         /\ {"code", "msg", "uuid"} \subseteq DOMAIN sign'[r].ret
         /\ sign'[r].ret.uuid = uuid /\ sign'[r].ret.code = code /\ sign'[r].ret.msg = msg
<1>1. sign[r] = SignFields(sign[r]) /\ {"code", "msg", "uuid"} \subseteq DOMAIN sign[r].ret
  BY DEF Typed, ByRequest, SignTyped
<1> DEFINE ret == M!SetUserRet(sign[r].ret, code, msg, uuid)
<1>2. /\ sign' = [q \in Requests |-> sign'[q]] /\ SignAlone(r)
      /\ sign'[r] = [sign[r] EXCEPT !.stage = "answered", !.ret = ret]
  BY DEF Reply, Typed, ByRequest, SignAlone
<1>3. DOMAIN ret = DOMAIN sign[r].ret /\ ret.uuid = uuid /\ ret.code = code /\ ret.msg = msg
  BY <1>1 DEF M!SetUserRet
<1> HIDE DEF ret
<1>4. /\ sign'[r] = SignFields(sign'[r]) /\ sign'[r].stage = "answered"
      /\ sign'[r].ret = ret
  BY <1>1, <1>2 DEF SignFields
<1> QED
  BY <1>1, <1>2, <1>3, <1>4

\* A session is given for the row id: with plain names, that row is the asker's.
LEMMA Giving ==
  ASSUME Typed, NEW r \in Requests, sign[r].stage \in {"insert", "select"},
         AccountsKeep, UsersGrow,
         NEW name, NEW id \in Nat, GiveSession(r, name, id),
         PlainNames => /\ name \in {sign[r].asked.username, Garbage}
                       /\ id \in DOMAIN users' /\ Asks(r, users'[id])
  PROVE  Typed' /\ \E u \in Uuids : Gives(r, u, name, id)
<1>1. PICK u \in Uuids :
        /\ GenUuid(u)
        /\ given' = given \union {u}
        /\ setting' = setting \union {[uuid |-> u, name |-> name, id |-> id]}
        /\ Reply(r, 0, "ok!", u)
        /\ UNCHANGED <<accountsUp, sessions>>
  BY DEF GiveSession
<1>2. /\ sign' = [q \in Requests |-> sign'[q]] /\ SignAlone(r)
      /\ sign'[r] = SignFields(sign'[r]) /\ sign'[r].stage = "answered"
      /\ {"code", "msg", "uuid"} \subseteq DOMAIN sign'[r].ret
      /\ sign'[r].ret.uuid = u /\ sign'[r].ret.code = 0 /\ sign'[r].ret.msg = "ok!"
  BY <1>1, Replied
<1>3. SessionsTyped'
  BY <1>1 DEF Typed, SessionsTyped, UsersGrow
<1>4. http[r].stage # "none" /\ http[r].path \in SignPaths
  BY DEF Typed, ByRequest, SignTyped
<1>5. Typed'
  BY <1>1, <1>2, <1>3, <1>4, SignedAlone DEF UsersGrow, Typed
<1>6. u \in Uuids \ given
  BY <1>1 DEF GenUuid
<1>7. Gives(r, u, name, id)
  BY <1>1, <1>2, <1>6 DEF Gives
<1> QED
  BY <1>5, <1>7

LEMMA Refusing ==
  ASSUME Typed, NEW r \in Requests, sign[r].stage \in {"insert", "select"},
         AccountsKeep, UsersGrow,
         NEW msg \in {"duplicated username", "login error username"}, Refuse(r, msg)
  PROVE  Typed' /\ Refuses(r)
<1>1. Reply(r, -1, msg, "") /\ UNCHANGED <<setting, given, accountsUp, sessions>>
  BY DEF Refuse
<1>2. /\ sign' = [q \in Requests |-> sign'[q]] /\ SignAlone(r)
      /\ sign'[r] = SignFields(sign'[r]) /\ sign'[r].stage = "answered"
      /\ {"code", "msg", "uuid"} \subseteq DOMAIN sign'[r].ret
      /\ sign'[r].ret.uuid = "" /\ sign'[r].ret.code = -1 /\ sign'[r].ret.msg = msg
  <2>1. \A m : Reply(r, -1, m, "") =>
          /\ sign' = [q \in Requests |-> sign'[q]] /\ SignAlone(r)
          /\ sign'[r] = SignFields(sign'[r]) /\ sign'[r].stage = "answered"
          /\ {"code", "msg", "uuid"} \subseteq DOMAIN sign'[r].ret
          /\ sign'[r].ret.uuid = "" /\ sign'[r].ret.code = -1 /\ sign'[r].ret.msg = m
    BY Replied, ZenonT(60)
  <2> QED
    BY <1>1, <2>1, Zenon
<1>3. SessionsTyped'
  BY <1>1 DEF Typed, SessionsTyped, UsersGrow
<1>4. http[r].stage # "none" /\ http[r].path \in SignPaths
  BY DEF Typed, ByRequest, SignTyped
<1>5. Typed'
  BY <1>1, <1>2, <1>3, <1>4, SignedAlone DEF UsersGrow, Typed
<1> QED
  BY <1>1, <1>2, <1>5 DEF Refuses

LEMMA AccountsDying ==
  ASSUME Typed, AccountsKeep, UsersGrow, AccountsDie
  PROVE  Typed' /\ Forgets
<1>1. /\ accountsUp' = FALSE /\ setting' = {} /\ UNCHANGED <<given, sessions>>
      /\ sign' = [q \in Requests |-> IF sign[q].stage = "idle" THEN sign[q]
                                     ELSE [NoSign EXCEPT !.stage = "lost"]]
  BY DEF AccountsDie
<1> DEFINE Gone == [NoSign EXCEPT !.stage = "lost"]
<1>2. /\ Gone = SignFields(Gone) /\ Gone.stage = "lost" /\ Gone.ret = NoSign.ret
  BY DEF NoSign, SignFields
<1>3. /\ Gone.ret.uuid = "" /\ {"code", "msg", "uuid"} \subseteq DOMAIN Gone.ret
  BY <1>2, Fixed
<1>4. \A q \in Requests : sign'[q] = sign[q] \/ (sign[q].stage # "idle" /\ sign'[q] = Gone)
  BY <1>1
<1> HIDE DEF Gone
<1>5. \A q \in Requests : SignTyped(q)'
  <2> SUFFICES ASSUME NEW q \in Requests PROVE SignTyped(q)'
    OBVIOUS
  <2>1. SignTyped(q) /\ http' = http
    BY DEF Typed, ByRequest, AccountsKeep
  <2>2. CASE sign'[q] = sign[q]
    BY <2>1, <2>2 DEF SignTyped
  <2>3. CASE sign[q].stage # "idle" /\ sign'[q] = Gone
    BY <1>2, <1>3, <2>1, <2>3 DEF SignTyped
  <2> QED
    BY <1>4, <2>2, <2>3
<1>6. sign' = [q \in Requests |-> sign'[q]]
  BY <1>1
<1>7. UsersTyped' /\ SessionsTyped'
  BY <1>1 DEF UsersGrow, Typed, SessionsTyped
<1>8. Typed'
  BY <1>1, <1>5, <1>6, <1>7, AccountsTyped
<1> QED
  BY <1>1, <1>2, <1>3, <1>4, <1>8 DEF Forgets

\* The name of a call to the account service is plain if all names are.
LEMMA NameIsPlain ==
  ASSUME Typed, NEW r \in Requests, sign[r].stage \in {"insert", "select"}, PlainNames
  PROVE  sign[r].asked.username \in Plain
BY DEF Typed, ByRequest, SignTyped, PlainNames, SignPaths

LEMMA RangeIsNat == \A k \in Nat : \A i \in 0 .. k + 1 : i \in Nat
OBVIOUS

LEMMA OtherStep ==
  ASSUME Typed, NEW r \in Requests, AccountsKeep, sign[r].stage \in {"insert", "select"},
         NEW names, NEW msg \in {"duplicated username", "login error username"},
         OtherStatement(r, names, msg)
  PROVE  /\ Typed'
         /\ \/ \E u \in Uuids : \E name, id : Gives(r, u, name, id)
            \/ Refuses(r)
            \/ Forgets
<1>1. /\ ~PlainNames /\ users' \in Tables \union {users}
      /\ \/ \E name \in names, id \in 0 .. Len(users) + 1 : GiveSession(r, name, id)
         \/ Refuse(r, msg)
         \/ AccountsDie
  BY NameIsPlain DEF OtherStatement
<1>2. UsersTyped'
  <2>1. CASE users' \in Tables
    <3>1. users' \in Seq([username : STRING, password : STRING])
      BY <2>1, AccountsAssumption
    <3>2. IsList(users') /\ \A i \in DOMAIN users' : users'[i] \in [username : STRING, password : STRING]
      BY <3>1, SequenceIsList
    <3> QED
      BY <3>2 DEF UsersTyped, UserFields
  <2>2. CASE users' = users
    BY <2>2 DEF Typed, UsersTyped
  <2> QED
    BY <1>1, <2>1, <2>2
<1>3. UsersGrow
  BY <1>1, <1>2 DEF UsersGrow
<1>4. ASSUME NEW name \in names, NEW id \in 0 .. Len(users) + 1, GiveSession(r, name, id)
      PROVE  Typed' /\ \E u \in Uuids : Gives(r, u, name, id)
  <2>1. id \in Nat
    <3> DEFINE n == Len(users)
    <3>1. n \in Nat
      BY ListLength DEF Typed, UsersTyped
    <3>2. id \in 0 .. n + 1
      OBVIOUS
    <3> HIDE DEF n
    <3> QED
      BY <3>1, <3>2, RangeIsNat, Zenon
  <2> QED
    BY <1>1, <1>3, <1>4, <2>1, Giving
<1>5. CASE Refuse(r, msg)
  BY <1>3, <1>5, Refusing
<1>6. CASE AccountsDie
  BY <1>3, <1>6, AccountsDying
<1> QED
  BY <1>1, <1>4, <1>5, <1>6

LEMMA InsertedStep ==
  ASSUME Typed, NEW r \in Requests, AccountsKeep, Inserted(r)
  PROVE  /\ Typed'
         /\ \/ \E u \in Uuids : \E name, id : Gives(r, u, name, id)
            \/ Refuses(r)
            \/ Forgets
<1>1. sign[r].stage = "insert"
  BY DEF Inserted
<1>2. IsList(users)
  BY DEF Typed, UsersTyped
<1>3. CASE users' = users /\ Refuse(r, "duplicated username")
  <2>1. UsersGrow
    BY <1>3 DEF UsersGrow, Longer, Typed, UsersTyped
  <2> QED
    BY <1>1, <1>3, <2>1, Refusing
<1>4. ASSUME NEW row \in Rows(sign[r].asked), users' = Append(users, row),
             \/ GiveSession(r, Garbage, Len(users) + 1)
             \/ AccountsDie
             \/ Refuse(r, "duplicated username")
      PROVE  /\ Typed'
             /\ \/ \E u \in Uuids : \E name, id : Gives(r, u, name, id)
                \/ Refuses(r)
                \/ Forgets
  <2>1. /\ IsList(users') /\ DOMAIN users' = 1 .. Len(users) + 1
        /\ users'[Len(users) + 1] = row
        /\ \A i \in DOMAIN users : i \in DOMAIN users' /\ users'[i] = users[i]
    <3>1. users' = Append(users, row)
      BY <1>4
    <3> QED
      BY <1>2, <3>1, Appended
  <2>2. Len(users) \in Nat /\ DOMAIN users = 1 .. Len(users)
    BY <1>2, ListLength
  <2>3. \A i \in DOMAIN users' : users'[i] = UserFields(users'[i])
    <3> SUFFICES ASSUME NEW i \in DOMAIN users' PROVE users'[i] = UserFields(users'[i])
      OBVIOUS
    <3>1. CASE i \in DOMAIN users
      BY <2>1, <3>1 DEF Typed, UsersTyped
    <3>2. CASE i = Len(users) + 1
      BY <2>1, <3>2 DEF Rows, UserFields
    <3> QED
      BY <2>1, <2>2, <3>1, <3>2
  <2>4. UsersGrow
    BY <2>1, <2>3 DEF UsersGrow, Longer, UsersTyped
  <2>5. CASE GiveSession(r, Garbage, Len(users) + 1)
    <3>1. Len(users) + 1 \in Nat /\ Len(users) + 1 \in DOMAIN users'
      BY <2>1, <2>2
    <3>2. sign[r].stage # "select"
      BY <1>1
    <3>3. Asks(r, users'[Len(users) + 1])
      BY <2>1, <3>2 DEF Asks
    <3> QED
      BY <1>1, <2>4, <2>5, <3>1, <3>3, Giving
  <2>6. CASE AccountsDie
    BY <2>4, <2>6, AccountsDying
  <2>7. CASE Refuse(r, "duplicated username")
    BY <1>1, <2>4, <2>7, Refusing
  <2> QED
    BY <1>4, <2>5, <2>6, <2>7
<1>5. CASE OtherStatement(r, {Garbage}, "duplicated username")
  BY <1>1, <1>5, OtherStep
<1> QED
  BY <1>3, <1>4, <1>5 DEF Inserted

LEMMA SelectedStep ==
  ASSUME Typed, NEW r \in Requests, AccountsKeep, Selected(r)
  PROVE  /\ Typed'
         /\ \/ \E u \in Uuids : \E name, id : Gives(r, u, name, id)
            \/ Refuses(r)
            \/ Forgets
<1>1. sign[r].stage = "select"
  BY DEF Selected
<1>2. ASSUME users' = users PROVE UsersGrow
  BY <1>2 DEF UsersGrow, Longer, Typed, UsersTyped
<1>3. CASE users' = users /\ Refuse(r, "login error username")
  BY <1>1, <1>2, <1>3, Refusing
<1>4. ASSUME NEW i \in DOMAIN users, users' = users,
             users[i].username = sign[r].asked.username,
             users[i].password = sign[r].asked.password,
             GiveSession(r, users[i].username, i)
      PROVE  Typed' /\ \E u \in Uuids : Gives(r, u, users[i].username, i)
  <2>1. users[i] = UserFields(users[i]) /\ i \in Nat
    BY ListLength DEF Typed, UsersTyped
  <2>2. Asks(r, users'[i])
    BY <1>4, <2>1 DEF UserFields, Asks, Rows
  <2> QED
    BY <1>1, <1>2, <1>4, <2>1, <2>2, Giving
<1>5. ASSUME NEW names, OtherStatement(r, names, "login error username")
      PROVE  /\ Typed'
             /\ \/ \E u \in Uuids : \E name, id : Gives(r, u, name, id)
                \/ Refuses(r)
                \/ Forgets
  BY <1>1, <1>5, OtherStep
<1> QED
  BY <1>3, <1>4, <1>5 DEF Selected

LEMMA StoreSessionStep ==
  ASSUME Typed, AccountsKeep, NEW s \in setting, StoreSession(s)
  PROVE  Typed' /\ Stores(s)
<1>1. Stores(s) /\ accountsUp' = accountsUp
  BY DEF StoreSession, Stores
<1>2. UsersTyped' /\ SessionsTyped'
  BY <1>1 DEF Stores, Typed, UsersTyped, SessionsTyped
<1>3. \A q \in Requests : SignTyped(q)'
  BY <1>1 DEF Stores, AccountsKeep, Typed, ByRequest, SignTyped
<1>4. Typed'
  BY <1>1, <1>2, <1>3, AccountsTyped DEF Stores, Typed, ByRequest
<1> QED
  BY <1>1, <1>4

LEMMA RestartAccountsStep ==
  ASSUME Typed, AccountsKeep, RestartAccounts
  PROVE  Typed' /\ Forgets
<1>1. UNCHANGED <<users, sign, setting, given, sessions>> /\ accountsUp' = TRUE
  BY DEF RestartAccounts
<1>2. UsersTyped' /\ SessionsTyped' /\ UsersGrow
  BY <1>1 DEF Typed, UsersTyped, SessionsTyped, UsersGrow, Longer
<1>3. \A q \in Requests : SignTyped(q)'
  BY <1>1 DEF AccountsKeep, Typed, ByRequest, SignTyped
<1>4. Typed'
  BY <1>1, <1>2, <1>3, AccountsTyped DEF Typed, ByRequest
<1> QED
  BY <1>1, <1>2, <1>4 DEF Forgets
------------------------------------------------------------------------------
\* The directory service: a call arrives; its answer from Redis comes; its
\* statement ends; the process ends, or starts.
AddedBy(r) == {i \in DOMAIN tree : tree[i].by = r}
RemovedBy(r) == {i \in DOMAIN tree : tree[i].gone = r}

\* What an answer says is true of the table.
Claim(r, info) == /\ info = "added" => Cardinality(AddedBy(r)) = 1
                  /\ info = "del ok!" => Cardinality(RemovedBy(r)) = 1
                  /\ info \in {"", "data"} => AddedBy(r) = {} /\ RemovedBy(r) = {}

Untouched(r) == AddedBy(r) = {} /\ RemovedBy(r) = {}

\* A step of a request to which no statement has been executed.
Moves(r) == /\ DirAlone(r) /\ UNCHANGED tree
            /\ dir[r].stage \in {"idle", "hgetall", "statement"}
            /\ dir'[r].stage \in {"hgetall", "statement", "answered"}
            /\ dir'[r].ret = dir[r].ret
            /\ http[r].stage # "none" /\ http[r].path \in DirPaths

\* A statement's end.
Executes(r) == /\ DirAlone(r)
               /\ dir[r].stage = "statement" /\ dir'[r].stage = "answered"
               /\ Untouched(r) => Claim(r, dir[r].ret.jsoninfo)'
               /\ \A q \in Requests \ {r} :
                    AddedBy(q)' = AddedBy(q) /\ RemovedBy(q)' = RemovedBy(q)

Abandons == /\ UNCHANGED tree
            /\ \A q \in Requests : dir'[q] = dir[q] \/ dir'[q].stage = "lost"

\* The types of the directory service, one request at a time.
LEMMA DirectoriesTyped ==
  ASSUME Typed, DirectoriesKeep, dir' = [q \in Requests |-> dir'[q]],
         \A q \in Requests : DirTyped(q)', TreeTyped', directoriesUp' \in BOOLEAN
  PROVE  Typed'
<1>1. \A q \in Requests : HttpTyped(q)' /\ SignTyped(q)'
  BY DEF Typed, ByRequest, DirectoriesKeep, accounts, HttpTyped, SignTyped
<1>2. ByRequest' /\ UsersTyped' /\ SessionsTyped'
  BY <1>1 DEF Typed, ByRequest, UsersTyped, SessionsTyped, DirectoriesKeep, accounts
<1> QED
  BY <1>2 DEF Typed, DirectoriesKeep, accounts

LEMMA DirectoryAlone ==
  ASSUME Typed, DirectoriesKeep, NEW r \in Requests, DirAlone(r),
         dir' = [q \in Requests |-> dir'[q]],
         dir'[r] = DirFields(dir'[r]),
         {"code", "jsoninfo"} \subseteq DOMAIN dir'[r].ret,
         dir'[r].stage \in {"hgetall", "statement", "answered"},
         dir'[r].asked.dirid \in Int,
         http[r].stage # "none", http[r].path \in DirPaths,
         TreeTyped', directoriesUp' \in BOOLEAN
  PROVE  Typed'
<1>1. \A q \in Requests : DirTyped(q)'
  <2> SUFFICES ASSUME NEW q \in Requests PROVE DirTyped(q)'
    OBVIOUS
  <2>1. DirTyped(q) /\ http' = http
    BY DEF Typed, ByRequest, DirectoriesKeep
  <2>2. CASE q = r
    BY <2>1, <2>2 DEF DirTyped
  <2>3. CASE q # r
    BY <2>1, <2>3 DEF DirTyped, DirAlone
  <2> QED
    BY <2>2, <2>3
<1> QED
  BY <1>1, DirectoriesTyped

LEMMA ArrivesDirStep ==
  ASSUME Typed, NEW r \in Requests, DirectoriesKeep,
         http[r].stage # "none", http[r].path \in DirPaths,
         \/ DirQuery(r, http[r].info)
         \/ DirAdd(r, http[r].info)
         \/ DirRm(r, http[r].info)
  PROVE  Typed' /\ Moves(r)
<1>1. PICK op \in {"add", "rm", "query"} : Handle(r, op, http[r].info)
  BY DEF DirQuery, DirAdd, DirRm
<1>2. /\ dir[r].stage = "idle" /\ UNCHANGED <<tree, directoriesUp>>
      /\ dir' = [q \in Requests |-> dir'[q]] /\ DirAlone(r)
      /\ dir'[r] = [dir[r] EXCEPT !.stage = "hgetall", !.op = op, !.asked = http[r].info]
  BY <1>1 DEF Handle, Typed, ByRequest, DirAlone
<1>3. dir[r] = DirFields(dir[r]) /\ {"code", "jsoninfo"} \subseteq DOMAIN dir[r].ret
  BY DEF Typed, ByRequest, DirTyped
<1>4. /\ dir'[r] = DirFields(dir'[r]) /\ dir'[r].stage = "hgetall"
      /\ dir'[r].asked = http[r].info /\ dir'[r].ret = dir[r].ret
  BY <1>2, <1>3 DEF DirFields
<1>5. dir'[r].asked.dirid \in Int
  BY <1>4 DEF Typed, ByRequest, HttpTyped
<1>6. TreeTyped'
  BY <1>2 DEF Typed, TreeTyped
<1>7. Typed'
  BY <1>2, <1>3, <1>4, <1>5, <1>6, DirectoryAlone DEF Typed
<1> QED
  BY <1>2, <1>4, <1>7 DEF Moves

LEMMA DirectoriesDying ==
  ASSUME Typed, DirectoriesKeep, UNCHANGED tree, DirectoriesDie
  PROVE  Typed' /\ Abandons
<1> DEFINE Gone == [NoDir EXCEPT !.stage = "lost"]
<1>1. /\ directoriesUp' = FALSE
      /\ dir' = [q \in Requests |-> IF dir[q].stage = "idle" THEN dir[q] ELSE Gone]
  BY DEF DirectoriesDie
<1>2. /\ Gone = DirFields(Gone) /\ Gone.stage = "lost" /\ Gone.ret = NoDir.ret
      /\ Gone.asked = NoDir.asked
  <2>1. NoDir = DirFields(NoDir)
    BY Fixed
  <2> QED
    BY <2>1 DEF DirFields
<1>3. Gone.asked.dirid \in Int /\ {"code", "jsoninfo"} \subseteq DOMAIN Gone.ret
  BY <1>2, Fixed
<1>4. \A q \in Requests : dir'[q] = dir[q] \/ (dir[q].stage # "idle" /\ dir'[q] = Gone)
  BY <1>1
<1>5. dir' = [q \in Requests |-> dir'[q]]
  BY <1>1
<1> HIDE DEF Gone
<1>6. \A q \in Requests : DirTyped(q)'
  <2> SUFFICES ASSUME NEW q \in Requests PROVE DirTyped(q)'
    OBVIOUS
  <2>1. DirTyped(q) /\ http' = http
    BY DEF Typed, ByRequest, DirectoriesKeep
  <2>2. CASE dir'[q] = dir[q]
    BY <2>1, <2>2 DEF DirTyped
  <2>3. CASE dir[q].stage # "idle" /\ dir'[q] = Gone
    BY <1>2, <1>3, <2>1, <2>3 DEF DirTyped
  <2> QED
    BY <1>4, <2>2, <2>3
<1>7. TreeTyped'
  BY DEF Typed, TreeTyped
<1>8. Typed'
  BY <1>1, <1>5, <1>6, <1>7, DirectoriesTyped
<1> QED
  BY <1>2, <1>4, <1>8 DEF Abandons

LEMMA RedisCallbackStep ==
  ASSUME Typed, NEW r \in Requests, DirectoriesKeep, RedisCallback(r)
  PROVE  Typed' /\ (Moves(r) \/ Abandons)
<1>1. dir[r].stage = "hgetall" /\ UNCHANGED tree
  BY DEF RedisCallback
<1>2. CASE DirectoriesDie
  BY <1>1, <1>2, DirectoriesDying
<1>3. ASSUME NEW user, User(r, user) \/ (/\ dir' = [dir EXCEPT ![r].stage = "answered"]
                                         /\ UNCHANGED directoriesUp)
      PROVE  Typed' /\ Moves(r)
  <2>1. DirTyped(r) /\ directoriesUp' = directoriesUp
    BY <1>3 DEF Typed, ByRequest, User
  <2>2. /\ dir' = [q \in Requests |-> dir'[q]] /\ DirAlone(r)
        /\ \/ dir'[r] = [dir[r] EXCEPT !.stage = "statement", !.user = user]
           \/ dir'[r] = [dir[r] EXCEPT !.stage = "answered"]
    BY <1>3 DEF User, Typed, ByRequest, DirAlone
  <2>3. /\ dir'[r] = DirFields(dir'[r]) /\ dir'[r].stage \in {"statement", "answered"}
        /\ dir'[r].asked = dir[r].asked /\ dir'[r].ret = dir[r].ret
    BY <2>1, <2>2 DEF DirTyped, DirFields
  <2>4. TreeTyped'
    BY <1>1 DEF Typed, TreeTyped
  <2>5. Typed'
    BY <1>1, <2>1, <2>2, <2>3, <2>4, DirectoryAlone DEF DirTyped, Typed
  <2> QED
    BY <1>1, <2>1, <2>2, <2>3, <2>5 DEF Moves, DirTyped
<1> QED
  BY <1>2, <1>3 DEF RedisCallback
\* The response of a statement.
LEMMA Responded ==
  ASSUME Typed, DirectoriesKeep, NEW r \in Requests, dir[r].stage = "statement",
         NEW code, NEW info, Respond(r, code, info), TreeTyped', directoriesUp' \in BOOLEAN
  PROVE  /\ Typed' /\ DirAlone(r)
         /\ dir'[r].stage = "answered" /\ dir'[r].ret.jsoninfo = info
<1>1. DirTyped(r)
  BY DEF Typed, ByRequest
<1> DEFINE ret == M!SetDirRet(dir[r].ret, code, info)
<1>2. /\ dir' = [q \in Requests |-> dir'[q]] /\ DirAlone(r)
      /\ dir'[r] = [dir[r] EXCEPT !.stage = "answered", !.ret = ret]
  BY DEF Respond, Typed, ByRequest, DirAlone
<1>3. DOMAIN ret = DOMAIN dir[r].ret /\ ret.jsoninfo = info
  BY <1>1 DEF M!SetDirRet, DirTyped
<1> HIDE DEF ret
<1>4. /\ dir'[r] = DirFields(dir'[r]) /\ dir'[r].stage = "answered"
      /\ dir'[r].ret = ret /\ dir'[r].asked = dir[r].asked
  BY <1>1, <1>2 DEF DirFields, DirTyped
<1>5. Typed'
  BY <1>1, <1>2, <1>3, <1>4, DirectoryAlone DEF DirTyped
<1> QED
  BY <1>2, <1>3, <1>4, <1>5

\* A row is appended, by the request alone.
LEMMA RowAppended ==
  ASSUME TreeTyped, NEW r \in Requests, NEW user, NEW name, NEW dirid \in Nat,
         tree' = Append(tree, [user |-> user, name |-> name, dirid |-> dirid,
                               by |-> r, gone |-> 0])
  PROVE  /\ TreeTyped'
         /\ Untouched(r) => Cardinality(AddedBy(r)') = 1
         /\ \A q \in Requests \ {r} : AddedBy(q)' = AddedBy(q) /\ RemovedBy(q)' = RemovedBy(q)
<1> DEFINE row == [user |-> user, name |-> name, dirid |-> dirid, by |-> r, gone |-> 0]
           n == Len(tree)
<1>1. n \in Nat /\ DOMAIN tree = 1 .. n
  BY ListLength DEF TreeTyped
<1>2. /\ IsList(tree') /\ DOMAIN tree' = 1 .. n + 1 /\ tree'[n + 1] = row
      /\ \A i \in DOMAIN tree : i \in DOMAIN tree' /\ tree'[i] = tree[i]
  BY Appended DEF TreeTyped
<1>3. \A i \in DOMAIN tree' : i \in DOMAIN tree \/ i = n + 1
  BY <1>1, <1>2
<1>4. n + 1 \in DOMAIN tree' /\ n + 1 \notin DOMAIN tree
  BY <1>1, <1>2
<1>5. /\ row = RowFields(row) /\ row.dirid \in Nat /\ row.by = r /\ row.gone = 0
  BY DEF RowFields
<1> HIDE DEF row, n
<1>6. TreeTyped'
  BY <1>2, <1>3, <1>5 DEF TreeTyped
<1>7. ASSUME NEW q \in Requests \ {r}
      PROVE  AddedBy(q)' = AddedBy(q) /\ RemovedBy(q)' = RemovedBy(q)
  <2>1. q # 0 /\ q # r
    BY SessionsAssumption
  <2> QED
    BY <1>2, <1>3, <1>4, <1>5, <2>1 DEF AddedBy, RemovedBy
<1>8. ASSUME Untouched(r) PROVE Cardinality(AddedBy(r)') = 1
  <2>1. AddedBy(r)' = {n + 1}
    BY <1>2, <1>3, <1>4, <1>5, <1>8 DEF AddedBy, Untouched
  <2> QED
    BY <2>1, FS_Singleton
<1> QED
  BY <1>6, <1>7, <1>8

LEMMA InsertStep ==
  ASSUME Typed, NEW r \in Requests, DirectoriesKeep, Insert(r)
  PROVE  Typed' /\ Executes(r)
<1>1. PICK how \in Statements :
        /\ dir[r].asked.dirid < 0 => how = "failed"
        /\ tree' = IF how = "failed" THEN tree
                   ELSE Append(tree, [user |-> dir[r].user, name |-> dir[r].asked.name,
                                      dirid |-> dir[r].asked.dirid, by |-> r, gone |-> 0])
        /\ IF how = "done" THEN Respond(r, 0, "added") ELSE Respond(r, -1, "error")
  BY DEF Insert
<1>2. dir[r].stage = "statement" /\ directoriesUp' = directoriesUp
  BY DEF Insert, At
<1>3. TreeTyped /\ DirTyped(r) /\ directoriesUp \in BOOLEAN
  BY DEF Typed, ByRequest
<1>4. CASE how = "failed"
  <2>1. TreeTyped' /\ tree' = tree
    BY <1>1, <1>3, <1>4 DEF TreeTyped
  <2>2. Respond(r, -1, "error")
    BY <1>1, <1>4
  <2>3. Typed' /\ DirAlone(r) /\ dir'[r].stage = "answered" /\ dir'[r].ret.jsoninfo = "error"
    BY <1>2, <1>3, <2>1, <2>2, Responded
  <2> QED
    BY <1>2, <2>1, <2>3 DEF Executes, Claim, AddedBy, RemovedBy
<1>5. CASE how # "failed"
  <2>1. dir[r].asked.dirid \in Nat
    BY <1>1, <1>3, <1>5 DEF DirTyped
  <2>2. /\ TreeTyped'
        /\ Untouched(r) => Cardinality(AddedBy(r)') = 1
        /\ \A q \in Requests \ {r} : AddedBy(q)' = AddedBy(q) /\ RemovedBy(q)' = RemovedBy(q)
    BY <1>1, <1>3, <1>5, <2>1, RowAppended
  <2>3. PICK code \in {0, -1}, info \in {"added", "error"} : Respond(r, code, info)
    BY <1>1
  <2>4. Typed' /\ DirAlone(r) /\ dir'[r].stage = "answered" /\ dir'[r].ret.jsoninfo = info
    BY <1>2, <1>3, <2>2, <2>3, Responded
  <2>5. Untouched(r) => Claim(r, dir[r].ret.jsoninfo)'
    BY <2>2, <2>4 DEF Claim
  <2> QED
    BY <1>2, <2>2, <2>4, <2>5 DEF Executes
<1> QED
  BY <1>4, <1>5

LEMMA RemovedIsNegative == \A d \in Int : d >= 0 => d # Removed
BY DEF Removed

\* The rows that match have not been removed before: they are those that the
\* request has removed afterwards.
LEMMA RowsRemoved ==
  ASSUME TreeTyped, NEW r \in Requests, dir[r].asked.dirid \in Int,
         tree' = [i \in DOMAIN tree |->
                    IF i \in Matches(r)
                    THEN [tree[i] EXCEPT !.dirid = Removed, !.gone = r] ELSE tree[i]]
  PROVE  /\ TreeTyped'
         /\ Untouched(r) => RemovedBy(r)' = Matches(r)
         /\ \A q \in Requests \ {r} : AddedBy(q)' = AddedBy(q) /\ RemovedBy(q)' = RemovedBy(q)
<1>1. DOMAIN tree' = DOMAIN tree /\ DOMAIN tree = 1 .. Len(tree) /\ Len(tree) \in Nat
  BY ListLength DEF TreeTyped
<1>2. IsList(tree')
  <2>1. tree' = [i \in 1 .. Len(tree) |-> tree'[i]]
    BY <1>1
  <2> QED
    BY <1>1, <2>1 DEF IsList
<1>3. ASSUME NEW i \in DOMAIN tree
      PROVE  /\ tree'[i] = RowFields(tree'[i])
             /\ tree'[i].by = tree[i].by
             /\ i \in Matches(r) => /\ tree[i].gone = 0 /\ tree'[i].gone = r
                                    /\ tree'[i].dirid = Removed
             /\ i \notin Matches(r) => tree'[i] = tree[i]
  <2>1. tree[i] = RowFields(tree[i]) /\ (tree[i].gone # 0 => tree[i].dirid = Removed)
    BY DEF TreeTyped
  <2>2. CASE i \in Matches(r)
    <3>1. tree[i].dirid = dir[r].asked.dirid /\ dir[r].asked.dirid >= 0
      BY <2>2 DEF Matches
    <3>2. tree[i].gone = 0
      BY <2>1, <3>1, RemovedIsNegative
    <3>3. tree'[i] = [tree[i] EXCEPT !.dirid = Removed, !.gone = r]
      BY <2>2
    <3>4. /\ tree'[i] = RowFields(tree'[i]) /\ tree'[i].by = tree[i].by
          /\ tree'[i].gone = r /\ tree'[i].dirid = Removed
      BY <2>1, <3>3 DEF RowFields
    <3> QED
      BY <2>2, <3>2, <3>4
  <2>3. CASE i \notin Matches(r)
    BY <2>1, <2>3
  <2> QED
    BY <2>2, <2>3
<1>4. TreeTyped'
  <2>1. \A i \in DOMAIN tree : /\ tree'[i] = RowFields(tree'[i])
                               /\ tree'[i].dirid \in Nat \union {Removed}
                               /\ tree'[i].by \in Requests \union {0}
                               /\ tree'[i].gone # 0 => tree'[i].dirid = Removed
    BY <1>3 DEF TreeTyped
  <2> QED
    BY <1>1, <1>2, <2>1 DEF TreeTyped
<1>5. Matches(r) \subseteq DOMAIN tree
  BY DEF Matches
<1>6. ASSUME Untouched(r) PROVE RemovedBy(r)' = Matches(r)
  <2>1. \A i \in DOMAIN tree : tree[i].gone # r
    BY <1>6 DEF Untouched, RemovedBy
  <2>2. \A i \in DOMAIN tree : tree'[i].gone = r <=> i \in Matches(r)
    BY <1>3, <2>1
  <2> QED
    BY <1>1, <1>5, <2>2 DEF RemovedBy
<1>7. ASSUME NEW q \in Requests \ {r}
      PROVE  AddedBy(q)' = AddedBy(q) /\ RemovedBy(q)' = RemovedBy(q)
  <2>1. q # 0 /\ q # r
    BY SessionsAssumption
  <2> QED
    BY <1>1, <1>3, <2>1 DEF AddedBy, RemovedBy
<1> QED
  BY <1>4, <1>6, <1>7

LEMMA UpdateStep ==
  ASSUME Typed, NEW r \in Requests, DirectoriesKeep, Update(r)
  PROVE  Typed' /\ Executes(r)
<1>1. PICK how \in Statements :
        /\ tree' = [i \in DOMAIN tree |->
                      IF how # "failed" /\ i \in Matches(r)
                      THEN [tree[i] EXCEPT !.dirid = Removed, !.gone = r] ELSE tree[i]]
        /\ IF how = "done" /\ Cardinality(Matches(r)) = 1
           THEN Respond(r, 0, "del ok!") ELSE Respond(r, -1, "del error")
  BY DEF Update
<1>2. dir[r].stage = "statement" /\ directoriesUp' = directoriesUp
  BY DEF Update, At
<1>3. TreeTyped /\ DirTyped(r) /\ directoriesUp \in BOOLEAN
  BY DEF Typed, ByRequest
<1>4. CASE how = "failed"
  <2>1. tree' = tree
    <3>1. tree' = [i \in DOMAIN tree |-> tree[i]]
      BY <1>1, <1>4
    <3>2. tree = [i \in DOMAIN tree |-> tree[i]]
      BY <1>3, ListLength DEF TreeTyped
    <3> QED
      BY <3>1, <3>2
  <2>2. TreeTyped' /\ Respond(r, -1, "del error")
    BY <1>1, <1>3, <1>4, <2>1 DEF TreeTyped
  <2>3. Typed' /\ DirAlone(r) /\ dir'[r].stage = "answered" /\ dir'[r].ret.jsoninfo = "del error"
    BY <1>2, <1>3, <2>2, Responded
  <2> QED
    BY <1>2, <2>1, <2>3 DEF Executes, Claim, AddedBy, RemovedBy
<1>5. CASE how # "failed"
  <2>1. /\ TreeTyped'
        /\ Untouched(r) => RemovedBy(r)' = Matches(r)
        /\ \A q \in Requests \ {r} : AddedBy(q)' = AddedBy(q) /\ RemovedBy(q)' = RemovedBy(q)
    <3>1. tree' = [i \in DOMAIN tree |->
                     IF i \in Matches(r)
                     THEN [tree[i] EXCEPT !.dirid = Removed, !.gone = r] ELSE tree[i]]
      BY <1>1, <1>5
    <3> QED
      BY <1>3, <3>1, RowsRemoved DEF DirTyped
  <2>2. PICK code \in {0, -1}, info \in {"del ok!", "del error"} :
          Respond(r, code, info) /\ (info = "del ok!" => Cardinality(Matches(r)) = 1)
    BY <1>1
  <2>3. Typed' /\ DirAlone(r) /\ dir'[r].stage = "answered" /\ dir'[r].ret.jsoninfo = info
    BY <1>2, <1>3, <2>1, <2>2, Responded
  <2>4. Untouched(r) => Claim(r, dir[r].ret.jsoninfo)'
    BY <2>1, <2>2, <2>3 DEF Claim
  <2> QED
    BY <1>2, <2>1, <2>3, <2>4 DEF Executes
<1> QED
  BY <1>4, <1>5

LEMMA SelectStep ==
  ASSUME Typed, NEW r \in Requests, DirectoriesKeep, Select(r)
  PROVE  Typed' /\ Executes(r)
<1>1. dir[r].stage = "statement" /\ directoriesUp' = directoriesUp /\ tree' = tree
  BY DEF Select, At
<1>2. PICK code \in {0, -1}, info \in {"data", "error"} : Respond(r, code, info)
  BY DEF Select
<1>3. TreeTyped' /\ directoriesUp \in BOOLEAN
  BY <1>1 DEF Typed, TreeTyped
<1>4. Typed' /\ DirAlone(r) /\ dir'[r].stage = "answered" /\ dir'[r].ret.jsoninfo = info
  BY <1>1, <1>2, <1>3, Responded
<1> QED
  BY <1>1, <1>4 DEF Executes, Claim, Untouched, AddedBy, RemovedBy

LEMMA RestartDirectoriesStep ==
  ASSUME Typed, DirectoriesKeep, RestartDirectories
  PROVE  Typed' /\ Abandons
<1>1. UNCHANGED <<tree, dir>> /\ directoriesUp' = TRUE
  BY DEF RestartDirectories
<1>2. TreeTyped' /\ \A q \in Requests : DirTyped(q)'
  BY <1>1 DEF DirectoriesKeep, Typed, ByRequest, TreeTyped, DirTyped
<1>3. Typed'
  BY <1>1, <1>2, DirectoriesTyped DEF Typed, ByRequest
<1> QED
  BY <1>1, <1>3 DEF Abandons
------------------------------------------------------------------------------
\* What a step can be.
ApiMoves == \/ \E r \in Requests : Posts(r) \/ HandsSign(r) \/ HandsDir(r)
            \/ Loses

AccountsMove == \/ \E r \in Requests : ArrivesSign(r) \/ Refuses(r)
                \/ \E r \in Requests, u \in Uuids : \E name, id : Gives(r, u, name, id)
                \/ AccountsKeep /\ \E s \in setting : Stores(s)
                \/ Forgets

DirectoriesMove == DirectoriesKeep /\ (Abandons \/ \E r \in Requests : Moves(r) \/ Executes(r))

LEMMA StepKinds ==
  ASSUME Typed, Next
  PROVE  Typed' /\ (ApiMoves \/ AccountsMove \/ DirectoriesMove)
<1>1. ASSUME NEW r \in Requests,
             Register(r) \/ Login(r) \/ QueryDir(r) \/ AddDir(r) \/ RmDir(r)
      PROVE  Typed' /\ ApiMoves
  BY <1>1, PostStep DEF ApiMoves
<1>2. ASSUME NEW r \in Requests, Deliver(r)
      PROVE  Typed' /\ (AccountsMove \/ DirectoriesMove)
  <2>1. CASE /\ \/ http[r].path = "/register" /\ SignUp(r, http[r].sign)
                \/ http[r].path = "/login" /\ SignIn(r, http[r].sign)
             /\ UNCHANGED <<http, apiUp, directories>>
    <3>1. http[r].stage # "none" /\ AccountsKeep
      BY <1>2, <2>1 DEF Deliver, AccountsKeep
    <3> QED
      BY <2>1, <3>1, ArrivesSignStep DEF AccountsMove
  <2>2. CASE /\ \/ http[r].path = "/querydir" /\ DirQuery(r, http[r].info)
                \/ http[r].path = "/adddir" /\ DirAdd(r, http[r].info)
                \/ http[r].path = "/rmdir" /\ DirRm(r, http[r].info)
             /\ UNCHANGED <<http, apiUp, sessions, accounts>>
    <3>1. http[r].stage # "none" /\ http[r].path \in DirPaths /\ DirectoriesKeep
      BY <1>2, <2>2 DEF Deliver, DirPaths, DirectoriesKeep
    <3> QED
      BY <2>2, <3>1, ArrivesDirStep DEF DirectoriesMove
  <2> QED
    BY <1>2, <2>1, <2>2 DEF Deliver
<1>3. ASSUME NEW r \in Requests, RpcDone(r) \/ RpcFails(r)
      PROVE  Typed' /\ ApiMoves
  BY <1>3, RpcDoneStep, RpcFailsStep DEF ApiMoves
<1>4. ASSUME AccountsStep, AccountsKeep
      PROVE  Typed' /\ AccountsMove
  <2>1. ASSUME NEW r \in Requests, Inserted(r) \/ Selected(r)
        PROVE  Typed' /\ AccountsMove
    BY <1>4, <2>1, InsertedStep, SelectedStep DEF AccountsMove
  <2>2. ASSUME NEW s \in setting, StoreSession(s)
        PROVE  Typed' /\ AccountsMove
    BY <1>4, <2>2, StoreSessionStep DEF AccountsMove
  <2>3. CASE RestartAccounts
    BY <1>4, <2>3, RestartAccountsStep DEF AccountsMove
  <2> QED
    BY <1>4, <2>1, <2>2, <2>3 DEF AccountsStep
<1>5. ASSUME DirectoriesStep, DirectoriesKeep
      PROVE  Typed' /\ DirectoriesMove
  <2>1. ASSUME NEW r \in Requests, RedisCallback(r) \/ Insert(r) \/ Update(r) \/ Select(r)
        PROVE  Typed' /\ (Abandons \/ Moves(r) \/ Executes(r))
    BY <1>5, <2>1, RedisCallbackStep, InsertStep, UpdateStep, SelectStep
  <2> QED
    BY <1>5, <2>1, RestartDirectoriesStep DEF DirectoriesStep, DirectoriesMove
<1>6. CASE RestartApi
  BY <1>6, RestartApiStep DEF ApiMoves
<1> QED
  BY <1>1, <1>2, <1>3, <1>4, <1>5, <1>6 DEF Next, AccountsKeep, DirectoriesKeep

LEMMA Stutters ==
  ASSUME Typed, UNCHANGED vars
  PROVE  Typed'
BY DEF Typed, ByRequest, HttpTyped, SignTyped, DirTyped, UsersTyped, TreeTyped,
   SessionsTyped, vars, accounts, directories

\* The three processes hold what they may: every request is at one of its
\* stages, a call is in the service of its path alone, a session that is on its
\* way to Redis names a row of the table user, and no row of filetree is under a
\* directory that the code does not know.
THEOREM RequestsTypeCorrect == Spec => []TypeOK
<1>1. Typed /\ [Next]_vars => Typed'
  BY StepKinds, Stutters
<1> QED
  BY InitTyped, <1>1, TypedIsTypeOK, PTL DEF Spec
------------------------------------------------------------------------------
\* A uuid is in the hands of the request to which it was given: in its response
\* or in its cookie.
Owns(r, u) == u \in Uuids /\ (sign[r].ret.uuid = u \/ http[r].cookie = u)

\* A session that is that of the account that was sent.
Fits(r, name, id) == /\ id \in DOMAIN users /\ users[id] \in AccountsOf(r)
                     /\ name \in {http[r].sign.username, Garbage}

\* It is, for whoever owns the uuid, if the names are plain.
Theirs(u, name, id) == PlainNames => \A r \in Requests : Owns(r, u) => Fits(r, name, id)

FirstUuids == DOMAIN FirstSessions

NothingYet(r) == http[r].stage = "none" => sign[r].ret.uuid = "" /\ http[r].cookie = NoCookie

OwnersApart == /\ \A r \in Requests : NothingYet(r)
               /\ \A r \in Requests : \A u : Owns(r, u) => u \in given \ FirstUuids
               /\ \A r, q \in Requests : \A u : Owns(r, u) /\ Owns(q, u) => r = q

SettingFits == \A s \in setting : s.uuid \notin FirstUuids /\ Theirs(s.uuid, s.name, s.id)

Stored(u) == \/ sessions[u] = NoSession
             \/ \E name, id : /\ sessions[u] = Session(name, id) /\ u \in given
                              /\ Theirs(u, name, id)

StoredFits == /\ \A u \in Uuids \ FirstUuids : Stored(u)
              /\ \A u \in FirstUuids : sessions[u] = FirstSessions[u]

Owned == OwnersApart /\ SettingFits /\ StoredFits

LEMMA OwnedIsTheirs == Typed /\ Owned => SessionIsTheirs
<1> SUFFICES ASSUME Typed, Owned PROVE SessionIsTheirs
  OBVIOUS
<1>1. \A r, q \in Requests : r # q /\ http[r].cookie \in Uuids => http[r].cookie # http[q].cookie
  BY DEF Owned, OwnersApart, Owns
<1>2. ASSUME PlainNames, NEW r \in Requests, NEW u \in Uuids,
             http[r].cookie = u, sessions[u] # NoSession
      PROVE  /\ users[sessions[u][4]] \in AccountsOf(r)
             /\ sessions[u][2] \in {http[r].sign.username, Garbage}
  <2>1. Owns(r, u)
    BY <1>2 DEF Owns
  <2>2. u \in Uuids \ FirstUuids
    BY <2>1 DEF Owned, OwnersApart
  <2>3. PICK name, id : sessions[u] = Session(name, id) /\ Fits(r, name, id)
    BY <1>2, <2>1, <2>2 DEF Owned, StoredFits, Stored, Theirs
  <2>4. sessions[u][4] = id /\ sessions[u][2] = name
    BY <2>3 DEF Session
  <2> QED
    BY <2>3, <2>4 DEF Fits
<1>3. \A u \in DOMAIN FirstSessions : sessions[u] = FirstSessions[u]
  BY DEF Owned, StoredFits, FirstUuids
<1> QED
  BY <1>1, <1>2, <1>3 DEF SessionIsTheirs

LEMMA InitOwned == Init => Owned
<1> SUFFICES ASSUME Init PROVE Owned
  OBVIOUS
<1>1. \A r \in Requests : http[r] = NoHttp /\ sign[r] = NoSign
  BY DEF Init, AccountsInit
<1>2. \A r \in Requests : http[r].cookie = NoCookie /\ sign[r].ret.uuid = ""
  BY <1>1, Fixed
<1>3. OwnersApart
  <2>1. \A r \in Requests : NothingYet(r)
    BY <1>2 DEF NothingYet
  <2>2. \A r \in Requests : \A u : ~Owns(r, u)
    <3> SUFFICES ASSUME NEW r \in Requests, NEW u, Owns(r, u) PROVE FALSE
      OBVIOUS
    <3>1. http[r].cookie = NoCookie /\ sign[r].ret.uuid = ""
      BY <1>2
    <3>2. u \in Uuids /\ (u = sign[r].ret.uuid \/ u = http[r].cookie)
      BY DEF Owns
    <3> QED
      BY <3>1, <3>2, AccountsAssumption, ApiServerAssumption
  <2> QED
    BY <2>1, <2>2 DEF OwnersApart
<1>4. SettingFits
  BY DEF Init, AccountsInit, SettingFits
<1>5. StoredFits
  BY AccountsAssumption DEF Init, AccountsInit, StoredFits, Stored, FirstUuids
<1> QED
  BY <1>3, <1>4, <1>5 DEF Owned

\* Most steps give no uuid away and store nothing.
LEMMA OwnedKept ==
  ASSUME Owned, SessionsTyped, UNCHANGED <<given, sessions>>, setting' \subseteq setting,
         PlainNames' => PlainNames, PlainNames => Longer,
         \A r \in Requests : NothingYet(r)',
         \A r \in Requests : \A u : Owns(r, u)' => /\ Owns(r, u)
                                                   /\ http'[r].sign = http[r].sign
                                                   /\ http'[r].path = http[r].path
  PROVE  Owned'
<1>1. OwnersApart'
  BY DEF Owned, OwnersApart, FirstUuids
<1>2. ASSUME NEW u, NEW name, NEW id, Theirs(u, name, id)
      PROVE  Theirs(u, name, id)'
  <2> SUFFICES ASSUME PlainNames', NEW r \in Requests, Owns(r, u)'
               PROVE  Fits(r, name, id)'
    BY DEF Theirs
  <2>1. Fits(r, name, id) /\ Longer /\ http'[r].sign = http[r].sign /\ http'[r].path = http[r].path
    BY <1>2 DEF Theirs
  <2> QED
    BY <2>1 DEF Fits, Longer, AccountsOf, Rows
<1>3. SettingFits'
  BY <1>2 DEF Owned, SettingFits, FirstUuids
<1>4. ASSUME NEW u \in Uuids \ FirstUuids PROVE Stored(u)'
  <2>1. Stored(u)
    BY DEF Owned, StoredFits
  <2> QED
    BY <1>2, <2>1 DEF Stored
<1>5. StoredFits'
  BY <1>4 DEF Owned, StoredFits, FirstUuids
<1> QED
  BY <1>1, <1>3, <1>5 DEF Owned

\* The names of requests that there are stay.
LEMMA NamesStay ==
  ASSUME Typed, ApiMoves
  PROVE  PlainNames' => PlainNames
<1>1. ASSUME NEW q \in Requests, http[q].path \in SignPaths
      PROVE  http'[q].sign = http[q].sign /\ http'[q].path = http[q].path
  <2>1. http[q] = HttpFields(http[q]) /\ http[q].stage # "none"
    BY <1>1 DEF Typed, ByRequest, HttpTyped, SignPaths
  <2>2. CASE http'[q] = http[q]
    BY <2>2
  <2>3. CASE http'[q] = [http[q] EXCEPT !.stage = "lost"]
    BY <2>1, <2>3 DEF HttpFields
  <2>4. ASSUME NEW r \in Requests, q = r, HandsSign(r) \/ HandsDir(r)
        PROVE  http'[q].sign = http[q].sign /\ http'[q].path = http[q].path
    BY <2>1, <2>4 DEF HandsSign, HandsDir, HttpFields
  <2>5. \/ http'[q] = http[q]
        \/ http'[q] = [http[q] EXCEPT !.stage = "lost"]
        \/ \E r \in Requests : q = r /\ (HandsSign(r) \/ HandsDir(r))
    BY <2>1 DEF ApiMoves, Loses, Posts, HandsSign, HandsDir, HttpAlone
  <2> QED
    BY <2>2, <2>3, <2>4, <2>5
<1> QED
  BY <1>1 DEF PlainNames, SignPaths

LEMMA ApiOwned ==
  ASSUME Typed, Owned, ApiMoves
  PROVE  Owned'
<1>1. /\ UNCHANGED <<given, sessions, setting, users, sign>>
      /\ Longer
  BY DEF ApiMoves, Posts, HandsSign, HandsDir, Loses, ApiKeeps, accounts, Longer
<1>2. \A q \in Requests : http[q] = HttpFields(http[q]) /\ NothingYet(q)
  BY DEF Typed, ByRequest, HttpTyped, Owned, OwnersApart
<1>3. ASSUME NEW q \in Requests,
             \/ http'[q] = http[q]
             \/ /\ http[q].stage = "none" /\ http'[q].stage # "none"
                /\ http'[q].cookie = http[q].cookie
             \/ /\ http'[q].stage # "none" /\ http'[q].sign = http[q].sign
                /\ http'[q].path = http[q].path
                /\ http'[q].cookie \in {http[q].cookie, sign[q].ret.uuid}
      PROVE  /\ NothingYet(q)'
             /\ \A u : Owns(q, u)' => /\ Owns(q, u) /\ http'[q].sign = http[q].sign
                                      /\ http'[q].path = http[q].path
  <2>1. NothingYet(q)'
    BY <1>1, <1>2, <1>3 DEF NothingYet
  <2>2. ASSUME http[q].stage = "none", http'[q].cookie = http[q].cookie, NEW u PROVE ~Owns(q, u)'
    BY <1>1, <1>2, <2>2, AccountsAssumption, ApiServerAssumption DEF NothingYet, Owns
  <2> QED
    BY <1>1, <1>3, <2>1, <2>2 DEF Owns
<1>4. ASSUME NEW q \in Requests
      PROVE  \/ http'[q] = http[q]
             \/ /\ http[q].stage = "none" /\ http'[q].stage # "none"
                /\ http'[q].cookie = http[q].cookie
             \/ /\ http'[q].stage # "none" /\ http'[q].sign = http[q].sign
                /\ http'[q].path = http[q].path
                /\ http'[q].cookie \in {http[q].cookie, sign[q].ret.uuid}
  <2>1. ASSUME NEW r \in Requests, HandsSign(r), q = r
        PROVE  /\ http'[q].stage = "done" /\ http'[q].sign = http[q].sign
               /\ http'[q].path = http[q].path
               /\ http'[q].cookie = sign[q].ret.uuid
    BY <1>2, <2>1 DEF HandsSign, HttpFields
  <2>2. ASSUME NEW r \in Requests, HandsDir(r), q = r
        PROVE  /\ http'[q].stage = "done" /\ http'[q].sign = http[q].sign
               /\ http'[q].path = http[q].path
               /\ http'[q].cookie = http[q].cookie
    BY <1>2, <2>2 DEF HandsDir, HttpFields
  <2>3. ASSUME NEW r \in Requests, Posts(r) \/ HandsSign(r) \/ HandsDir(r), q # r
        PROVE  http'[q] = http[q]
    BY <2>3 DEF Posts, HandsSign, HandsDir, HttpAlone
  <2>4. ASSUME http'[q] = [http[q] EXCEPT !.stage = "lost"]
        PROVE  /\ http'[q].stage = "lost" /\ http'[q].sign = http[q].sign
               /\ http'[q].path = http[q].path
               /\ http'[q].cookie = http[q].cookie
    BY <1>2, <2>4 DEF HttpFields
  <2>5. ASSUME NEW r \in Requests, Posts(r), q = r
        PROVE  /\ http[q].stage = "none" /\ http'[q].stage # "none"
               /\ http'[q].cookie = http[q].cookie
    BY <2>5 DEF Posts
  <2> QED
    BY <2>1, <2>2, <2>3, <2>4, <2>5 DEF ApiMoves, Loses
<1>5. \A q \in Requests : /\ NothingYet(q)'
                          /\ \A u : Owns(q, u)' => /\ Owns(q, u) /\ http'[q].sign = http[q].sign
                                                   /\ http'[q].path = http[q].path
  BY <1>3, <1>4
<1> QED
  BY <1>1, <1>5, NamesStay, OwnedKept DEF Typed

LEMMA GivesOwned ==
  ASSUME Typed, Owned, NEW r \in Requests, NEW g \in Uuids, NEW name, NEW id,
         Gives(r, g, name, id)
  PROVE  Owned'
<1>1. /\ g \notin given /\ FirstUuids \subseteq given
      /\ given' = given \union {g} /\ http' = http /\ sessions' = sessions
      /\ sign'[r].ret.uuid = g
  BY DEF Gives, AccountsKeep, Typed, SessionsTyped, FirstUuids
<1>2. PlainNames' <=> PlainNames
  BY <1>1 DEF PlainNames
<1>3. sign[r].asked = http[r].sign /\ http[r].stage # "none" /\ http[r].path \in SignPaths
      /\ (sign[r].stage = "insert" => http[r].path = "/register")
  BY DEF Gives, Typed, ByRequest, SignTyped
<1>4. PlainNames => Fits(r, name, id)'
  <2> SUFFICES ASSUME PlainNames PROVE Fits(r, name, id)'
    OBVIOUS
  <2>1. /\ name \in {http[r].sign.username, Garbage}
        /\ id \in DOMAIN users' /\ users'[id] \in Rows(http[r].sign)
        /\ sign[r].stage = "select" => users'[id].password = http[r].sign.password
        /\ sign[r].stage \in {"insert", "select"}
    BY <1>3 DEF Gives, Asks
  <2>2. http[r].path = "/login" => users'[id].password = http[r].sign.password
    BY <1>3, <2>1
  <2> QED
    BY <1>1, <2>1, <2>2 DEF Fits, AccountsOf, Rows
<1>5. \A q \in Requests : \A u : Owns(q, u)' => Owns(q, u) \/ (q = r /\ u = g)
  BY <1>1 DEF Gives, SignAlone, Owns
<1>6. \A q \in Requests : ~Owns(q, g)
  BY <1>1 DEF Owned, OwnersApart
<1>7. OwnersApart'
  <2>1. \A q \in Requests : NothingYet(q)'
    BY <1>1, <1>3 DEF Gives, SignAlone, NothingYet, Owned, OwnersApart
  <2>2. \A q \in Requests : \A u : Owns(q, u)' => u \in given' \ FirstUuids
    BY <1>1, <1>5 DEF Owned, OwnersApart
  <2>3. \A q, p \in Requests : \A u : Owns(q, u)' /\ Owns(p, u)' => q = p
    BY <1>5, <1>6 DEF Owned, OwnersApart
  <2> QED
    BY <2>1, <2>2, <2>3 DEF OwnersApart, FirstUuids
<1>8. ASSUME NEW u \in given, NEW n, NEW i, Theirs(u, n, i)
      PROVE  Theirs(u, n, i)'
  <2> SUFFICES ASSUME PlainNames', NEW q \in Requests, Owns(q, u)'
               PROVE  Fits(q, n, i)'
    BY DEF Theirs
  <2>1. Owns(q, u) /\ PlainNames
    BY <1>1, <1>2, <1>5
  <2>2. Fits(q, n, i) /\ Longer
    BY <1>8, <2>1 DEF Theirs, Gives, UsersGrow
  <2> QED
    BY <1>1, <2>2 DEF Fits, Longer, AccountsOf, Rows
<1>9. SettingFits'
  <2> SUFFICES ASSUME NEW s \in setting'
               PROVE  s.uuid \notin FirstUuids /\ Theirs(s.uuid, s.name, s.id)'
    BY DEF SettingFits, FirstUuids
  <2>1. CASE s \in setting
    <3>1. s.uuid \in given /\ s.uuid \notin FirstUuids /\ Theirs(s.uuid, s.name, s.id)
      BY <2>1 DEF Typed, SessionsTyped, Owned, SettingFits
    <3> QED
      BY <1>8, <3>1
  <2>2. CASE s = [uuid |-> g, name |-> name, id |-> id]
    <3>1. s.uuid = g /\ s.name = name /\ s.id = id
      BY <2>2
    <3>2. Theirs(g, name, id)'
      BY <1>2, <1>4, <1>5, <1>6 DEF Theirs
    <3> QED
      BY <1>1, <3>1, <3>2
  <2> QED
    BY <2>1, <2>2 DEF Gives
<1>10. ASSUME NEW u \in Uuids \ FirstUuids PROVE Stored(u)'
  <2>1. Stored(u)
    BY DEF Owned, StoredFits
  <2> QED
    BY <1>1, <1>8, <2>1 DEF Stored
<1>11. StoredFits'
  BY <1>1, <1>10 DEF Owned, StoredFits, FirstUuids
<1> QED
  BY <1>7, <1>9, <1>11 DEF Owned

LEMMA StoresOwned ==
  ASSUME Typed, Owned, AccountsKeep, NEW s \in setting, Stores(s)
  PROVE  Owned'
<1>1. /\ UNCHANGED <<http, users, sign, given>> /\ setting' \subseteq setting
      /\ s.uuid \in given /\ s.uuid \notin FirstUuids /\ Theirs(s.uuid, s.name, s.id)
  BY DEF AccountsKeep, Stores, Typed, SessionsTyped, Owned, SettingFits
<1>2. \A q \in Requests : \A u : Owns(q, u)' <=> Owns(q, u)
  BY <1>1 DEF Owns
<1>3. \A u, n, i : Theirs(u, n, i)' <=> Theirs(u, n, i)
  BY <1>1 DEF Theirs, PlainNames, Owns, Fits, AccountsOf, Rows
<1>4. OwnersApart'
  BY <1>1, <1>2 DEF Owned, OwnersApart, NothingYet, FirstUuids
<1>5. SettingFits'
  BY <1>1, <1>3 DEF Owned, SettingFits, FirstUuids
<1>6. \A u \in Uuids : \/ sessions'[u] = sessions[u]
                       \/ u = s.uuid /\ sessions'[u] = Session(s.name, s.id)
  BY DEF Stores, Typed, SessionsTyped
<1>7. ASSUME NEW u \in Uuids \ FirstUuids PROVE Stored(u)'
  <2>1. CASE sessions'[u] = sessions[u]
    <3>1. Stored(u)
      BY DEF Owned, StoredFits
    <3> QED
      BY <1>1, <1>3, <2>1, <3>1 DEF Stored
  <2>2. CASE u = s.uuid /\ sessions'[u] = Session(s.name, s.id)
    BY <1>1, <1>3, <2>2 DEF Stored
  <2> QED
    BY <1>6, <2>1, <2>2
<1>8. \A u \in FirstUuids : sessions'[u] = FirstSessions[u]
  BY <1>1, <1>6 DEF Owned, StoredFits, Typed, SessionsTyped, FirstUuids
<1>9. StoredFits'
  BY <1>7, <1>8 DEF StoredFits, FirstUuids
<1> QED
  BY <1>4, <1>5, <1>9 DEF Owned

LEMMA AccountsOwned ==
  ASSUME Typed, Owned, AccountsMove
  PROVE  Owned'
<1>1. ASSUME AccountsKeep, UNCHANGED <<given, sessions>>, setting' \subseteq setting,
             PlainNames => Longer,
             \A q \in Requests : sign'[q].ret.uuid \in {sign[q].ret.uuid, ""}
      PROVE  Owned'
  <2>1. \A q \in Requests : NothingYet(q)'
    BY <1>1 DEF AccountsKeep, NothingYet, Owned, OwnersApart
  <2>2. \A q \in Requests : \A u : Owns(q, u)' => /\ Owns(q, u) /\ http'[q].sign = http[q].sign
                                                  /\ http'[q].path = http[q].path
    BY <1>1, AccountsAssumption DEF AccountsKeep, Owns
  <2>3. PlainNames' => PlainNames
    BY <1>1 DEF AccountsKeep, PlainNames
  <2> QED
    BY <1>1, <2>1, <2>2, <2>3, OwnedKept DEF Typed
<1>2. ASSUME NEW r \in Requests, ArrivesSign(r) PROVE Owned'
  BY <1>1, <1>2 DEF ArrivesSign, SignAlone, Longer
<1>3. ASSUME NEW r \in Requests, Refuses(r) PROVE Owned'
  BY <1>1, <1>3 DEF Refuses, SignAlone, UsersGrow
<1>4. CASE Forgets
  BY <1>1, <1>4 DEF Forgets, UsersGrow
<1> QED
  BY <1>2, <1>3, <1>4, GivesOwned, StoresOwned DEF AccountsMove

LEMMA OwnedSame ==
  ASSUME Typed, Owned, UNCHANGED <<http, sessions, accounts>>
  PROVE  Owned'
<1>1. \A q \in Requests : /\ NothingYet(q)'
                          /\ \A u : Owns(q, u)' => /\ Owns(q, u) /\ http'[q].sign = http[q].sign
                                                   /\ http'[q].path = http[q].path
  BY DEF accounts, NothingYet, Owns, Owned, OwnersApart
<1>2. (PlainNames' => PlainNames) /\ Longer
  BY DEF PlainNames, Longer, accounts
<1> QED
  BY <1>1, <1>2, OwnedKept DEF accounts, Typed

LEMMA NextOwned == Typed /\ Owned /\ [Next]_vars => Typed' /\ Owned'
<1> SUFFICES ASSUME Typed, Owned, [Next]_vars PROVE Typed' /\ Owned'
  OBVIOUS
<1>1. CASE Next
  BY <1>1, StepKinds, ApiOwned, AccountsOwned, OwnedSame DEF DirectoriesMove, DirectoriesKeep
<1>2. CASE UNCHANGED vars
  BY <1>2, Stutters, OwnedSame DEF vars
<1> QED
  BY <1>1, <1>2

\* No two answers hand out the same uuid and what is stored under one stays,
\* whatever names browsers send and whichever HMSET comes when.  As long as the
\* names are plain, a session that is stored is that of the account that came with
\* the request to which its uuid was given: its name, and at a login its password.
THEOREM SessionsBelong == Spec => []SessionIsTheirs
BY InitTyped, InitOwned, NextOwned, OwnedIsTheirs, PTL DEF Spec
------------------------------------------------------------------------------
\* The account that a request has sent is in the table, if the names are plain.
Known(r) == PlainNames => \E i \in DOMAIN users : users[i] \in AccountsOf(r)

Texts == {"ok!", "duplicated username", "login error username"}

\* What the account service answers is true, and so is what the browser is told
\* of it.
SignTold(r) == sign[r].stage = "answered" =>
                 /\ sign[r].ret.code = 0 <=> sign[r].ret.uuid \in Uuids
                 /\ sign[r].ret.code = 0 => Known(r)
                 /\ sign[r].ret.msg \in Texts

SignDone(r) == http[r].stage = "done" /\ http[r].path \in SignPaths =>
                 /\ http[r].status = 0 <=> http[r].cookie \in Uuids
                 /\ http[r].status = 0 => Known(r)
                 /\ http[r].body \in Texts

\* So with the directory service, whose rows are nobody's until the statement.
DirTold(r) == /\ dir[r].stage \in {"idle", "hgetall", "statement"} =>
                   Untouched(r) /\ dir[r].ret.jsoninfo = ""
              /\ dir[r].stage = "answered" => Claim(r, dir[r].ret.jsoninfo)

DirDone(r) == http[r].stage = "done" /\ http[r].path \in DirPaths =>
                dir[r].stage \in {"answered", "lost"} /\ Claim(r, http[r].body)

SignsTold == \A r \in Requests : SignTold(r) /\ SignDone(r)
DirsTold == \A r \in Requests : DirTold(r) /\ DirDone(r)
Told == SignsTold /\ DirsTold

LEMMA PathsApart == SignPaths \intersect DirPaths = {}
BY DEF SignPaths, DirPaths

LEMMA ToldIsTrue == Typed /\ Told => AnswersAreTrue
<1> SUFFICES ASSUME Typed, Told, NEW r \in Requests, http[r].stage = "done"
             PROVE  /\ http[r].path \in SignPaths =>
                         /\ http[r].status = 0 <=> http[r].cookie \in Uuids
                         /\ http[r].status = 0 => Known(r)
                    /\ Claim(r, http[r].body)
  BY DEF AnswersAreTrue, Claim, AddedBy, RemovedBy, Known, SignPaths
<1>1. http[r].path \in SignPaths \union DirPaths
  BY DEF Typed, ByRequest, HttpTyped
<1>2. CASE http[r].path \in SignPaths
  <2>1. /\ http[r].status = 0 <=> http[r].cookie \in Uuids
        /\ http[r].status = 0 => Known(r)
        /\ http[r].body \in Texts
    BY <1>2 DEF Told, SignsTold, SignDone
  <2>2. Claim(r, http[r].body)
    BY <2>1 DEF Texts, Claim
  <2> QED
    BY <2>1, <2>2
<1>3. CASE http[r].path \in DirPaths
  BY <1>3, PathsApart DEF Told, DirsTold, DirDone
<1> QED
  BY <1>1, <1>2, <1>3

LEMMA InitTold == Init => Told
<1> SUFFICES ASSUME Init, NEW r \in Requests
             PROVE  SignTold(r) /\ SignDone(r) /\ DirTold(r) /\ DirDone(r)
  BY DEF Told, SignsTold, DirsTold
<1>1. http[r] = NoHttp /\ sign[r] = NoSign /\ dir[r] = NoDir
  BY DEF Init, AccountsInit, DirectoriesInit
<1>2. /\ http[r].stage = "none" /\ sign[r].stage = "idle" /\ dir[r].stage = "idle"
      /\ dir[r].ret.jsoninfo = ""
  BY <1>1, Fixed
<1>3. Untouched(r)
  <2>1. \A i \in DOMAIN tree : tree[i] \in [user : STRING, name : STRING,
              dirid : Nat \union {Removed}, by : {0}, gone : {0}]
    BY DirectoriesAssumption, SequenceIsList DEF Init, DirectoriesInit
  <2>2. r # 0
    BY SessionsAssumption
  <2> QED
    BY <2>1, <2>2 DEF Untouched, AddedBy, RemovedBy
<1> QED
  BY <1>2, <1>3 DEF SignTold, SignDone, DirTold, DirDone

\* What is told of accounts stays true as the table grows.
LEMMA KnownStays ==
  ASSUME NEW r \in Requests, Known(r), http'[r].sign = http[r].sign,
         http'[r].path = http[r].path, PlainNames' => PlainNames, PlainNames => Longer
  PROVE  Known(r)'
<1> SUFFICES ASSUME PlainNames' PROVE \E i \in DOMAIN users' : users'[i] \in AccountsOf(r)'
  BY DEF Known
<1>1. PICK i \in DOMAIN users : users[i] \in AccountsOf(r)
  BY DEF Known
<1>2. i \in DOMAIN users' /\ users'[i] = users[i]
  BY DEF Longer
<1> QED
  BY <1>1, <1>2 DEF AccountsOf, Rows

LEMMA ApiTold ==
  ASSUME Typed, Told, ApiMoves
  PROVE  Told'
<1>1. UNCHANGED <<users, sign, tree, dir>> /\ Longer
  BY DEF ApiMoves, Posts, HandsSign, HandsDir, Loses, ApiKeeps, accounts, directories, Longer
<1>2. \A q \in Requests : \A info : Claim(q, info)' <=> Claim(q, info)
  BY <1>1 DEF Claim, AddedBy, RemovedBy
<1>3. \A q \in Requests : DirTold(q)'
  BY <1>1, <1>2 DEF Told, DirsTold, DirTold, Untouched, AddedBy, RemovedBy
<1>4. ASSUME NEW q \in Requests
      PROVE  SignTold(q)' /\ SignDone(q)' /\ DirDone(q)'
  <2>1. /\ http[q] = HttpFields(http[q]) /\ SignTold(q) /\ SignDone(q) /\ DirTold(q)
        /\ DirDone(q) /\ SignTyped(q) /\ DirTyped(q)
    BY DEF Typed, ByRequest, HttpTyped, Told, SignsTold, DirsTold
  <2> DEFINE Stays == http'[q].sign = http[q].sign /\ http'[q].path = http[q].path
  <2>stays. Stays /\ Known(q) => Known(q)'
    BY <1>1, NamesStay, KnownStays
  <2>2. CASE http'[q] = http[q]
    BY <1>1, <1>2, <2>1, <2>2, <2>stays DEF SignTold, SignDone, DirDone
  <2>3. ASSUME NEW r \in Requests, Posts(r), q = r
        PROVE  SignTold(q)' /\ SignDone(q)' /\ DirDone(q)'
    BY <1>1, <2>1, <2>3 DEF Posts, SignTyped, SignTold, SignDone, DirDone
  <2>4. CASE http'[q] = [http[q] EXCEPT !.stage = "lost"]
    <3>1. http'[q].stage = "lost" /\ Stays
      BY <2>1, <2>4 DEF HttpFields
    <3> QED
      BY <1>1, <2>1, <2>stays, <3>1 DEF SignTold, SignDone, DirDone
  <2>5. ASSUME NEW r \in Requests, HandsSign(r), q = r
        PROVE  SignTold(q)' /\ SignDone(q)' /\ DirDone(q)'
    <3>1. /\ http'[q].sign = http[q].sign /\ http'[q].path = http[q].path
          /\ http'[q].cookie = sign[q].ret.uuid /\ http'[q].status = sign[q].ret.code
          /\ http'[q].body = sign[q].ret.msg
      BY <2>1, <2>5 DEF HandsSign, HttpFields
    <3>2. http[q].path \in SignPaths /\ sign[q].stage = "answered"
      BY <2>1, <2>5 DEF HandsSign, SignTyped
    <3>3. Known(q) => Known(q)'
      BY <2>stays, <3>1
    <3> QED
      BY <1>1, <2>1, <3>1, <3>2, <3>3, PathsApart DEF SignTold, SignDone, DirDone
  <2>6. ASSUME NEW r \in Requests, HandsDir(r), q = r
        PROVE  SignTold(q)' /\ SignDone(q)' /\ DirDone(q)'
    <3>1. /\ http'[q].sign = http[q].sign /\ http'[q].path = http[q].path
          /\ http'[q].body = dir[q].ret.jsoninfo
      BY <2>1, <2>6 DEF HandsDir, HttpFields
    <3>2. http[q].path \in DirPaths /\ dir[q].stage = "answered"
      BY <2>1, <2>6 DEF HandsDir, DirTyped
    <3>3. Known(q) => Known(q)'
      BY <2>stays, <3>1
    <3> QED
      BY <1>1, <1>2, <2>1, <3>1, <3>2, <3>3, PathsApart DEF SignTold, SignDone, DirTold, DirDone
  <2>7. \/ http'[q] = http[q]
        \/ http'[q] = [http[q] EXCEPT !.stage = "lost"]
        \/ \E r \in Requests : q = r /\ (Posts(r) \/ HandsSign(r) \/ HandsDir(r))
    BY DEF ApiMoves, Loses, Posts, HandsSign, HandsDir, HttpAlone
  <2> QED
    BY <2>2, <2>3, <2>4, <2>5, <2>6, <2>7
<1> QED
  BY <1>3, <1>4 DEF Told, SignsTold, DirsTold

\* The account service leaves what was told before.
LEMMA DirsToldSame ==
  ASSUME DirsTold, UNCHANGED <<http, tree, dir>>
  PROVE  DirsTold'
<1>1. \A q \in Requests : AddedBy(q)' = AddedBy(q) /\ RemovedBy(q)' = RemovedBy(q)
  BY DEF AddedBy, RemovedBy
<1>2. \A q \in Requests : \A info : Claim(q, info)' <=> Claim(q, info)
  BY <1>1 DEF Claim
<1>3. \A q \in Requests : Untouched(q)' <=> Untouched(q)
  BY <1>1 DEF Untouched
<1> QED
  BY <1>2, <1>3 DEF DirsTold, DirTold, DirDone

LEMMA SignsToldKept ==
  ASSUME SignsTold, UNCHANGED http, NEW r \in Requests \union {0}, PlainNames => Longer,
         \A q \in Requests \ {r} : sign'[q] = sign[q] \/ sign'[q].stage # "answered",
         r \in Requests => SignTold(r)'
  PROVE  SignsTold'
<1> SUFFICES ASSUME NEW q \in Requests PROVE SignTold(q)' /\ SignDone(q)'
  BY DEF SignsTold
<1>1. SignTold(q) /\ SignDone(q) /\ (Known(q) => Known(q)')
  BY KnownStays DEF SignsTold, PlainNames
<1>2. SignDone(q)'
  BY <1>1 DEF SignDone
<1>3. CASE q = r
  BY <1>2, <1>3
<1>4. CASE q # r
  BY <1>1, <1>2, <1>4 DEF SignTold
<1> QED
  BY <1>3, <1>4

LEMMA AccountsTold ==
  ASSUME Typed, Told, AccountsMove
  PROVE  Told'
<1>1. DirsTold' /\ http' = http
  BY DirsToldSame DEF Told, AccountsMove, ArrivesSign, Refuses, Gives, Forgets,
     AccountsKeep, directories
<1>2. ASSUME NEW r \in Requests, ArrivesSign(r) PROVE SignsTold'
  <2>1. SignTold(r)'
    BY <1>2 DEF ArrivesSign, SignTold
  <2> QED
    BY <1>1, <1>2, <2>1, SignsToldKept DEF Told, ArrivesSign, SignAlone, Longer
<1>3. ASSUME NEW r \in Requests, Refuses(r) PROVE SignsTold'
  <2>1. SignTold(r)'
    <3>1. -1 # 0
      OBVIOUS
    <3> QED
      BY <1>3, <3>1, AccountsAssumption DEF Refuses, SignTold, Texts
  <2> QED
    BY <1>1, <1>3, <2>1, SignsToldKept DEF Told, Refuses, SignAlone, UsersGrow
<1>4. ASSUME NEW r \in Requests, NEW u \in Uuids, NEW name, NEW id, Gives(r, u, name, id)
      PROVE  SignsTold'
  <2>1. /\ sign[r].asked = http[r].sign /\ http[r].path \in SignPaths
        /\ sign[r].stage = "insert" => http[r].path = "/register"
        /\ sign[r].stage \in {"insert", "select"}
    BY <1>4 DEF Gives, Typed, ByRequest, SignTyped
  <2>2. Known(r)'
    <3> SUFFICES ASSUME PlainNames' PROVE \E i \in DOMAIN users' : users'[i] \in AccountsOf(r)'
      BY DEF Known
    <3>1. PlainNames
      BY <1>1 DEF PlainNames
    <3>2. /\ id \in DOMAIN users' /\ users'[id] \in Rows(http[r].sign)
          /\ sign[r].stage = "select" => users'[id].password = http[r].sign.password
      BY <1>4, <2>1, <3>1 DEF Gives, Asks
    <3>3. http[r].path = "/login" => users'[id].password = http[r].sign.password
      BY <2>1, <3>2
    <3> QED
      BY <1>1, <3>2, <3>3 DEF AccountsOf, Rows
  <2>3. SignTold(r)'
    BY <1>4, <2>2 DEF Gives, SignTold, Texts
  <2> QED
    BY <1>1, <1>4, <2>3, SignsToldKept DEF Told, Gives, SignAlone, UsersGrow
<1>5. ASSUME NEW s \in setting, Stores(s) PROVE SignsTold'
  BY <1>1, <1>5, SignsToldKept, SessionsAssumption DEF Told, Stores, Longer
<1>6. CASE Forgets
  BY <1>1, <1>6, SignsToldKept, SessionsAssumption DEF Told, Forgets, UsersGrow
<1> QED
  BY <1>1, <1>2, <1>3, <1>4, <1>5, <1>6 DEF Told, AccountsMove

\* The directory service leaves what was told of accounts, and of other requests.
LEMMA SignsToldSame ==
  ASSUME SignsTold, UNCHANGED <<http, users, sign>>
  PROVE  SignsTold'
BY DEF SignsTold, SignTold, SignDone, Known, PlainNames, AccountsOf, Rows

LEMMA DirectoriesTold ==
  ASSUME Typed, Told, DirectoriesMove
  PROVE  Told'
<1>1. SignsTold' /\ http' = http
  BY SignsToldSame DEF Told, DirectoriesMove, DirectoriesKeep, accounts
<1>2. ASSUME NEW q \in Requests, dir'[q] = dir[q] \/ dir'[q].stage = "lost",
             AddedBy(q)' = AddedBy(q), RemovedBy(q)' = RemovedBy(q)
      PROVE  DirTold(q)' /\ DirDone(q)'
  <2>1. DirTold(q) /\ DirDone(q)
    BY DEF Told, DirsTold
  <2>2. Untouched(q)' <=> Untouched(q)
    BY <1>2 DEF Untouched
  <2>3. \A info : Claim(q, info)' <=> Claim(q, info)
    BY <1>2 DEF Claim
  <2> QED
    BY <1>1, <1>2, <2>1, <2>2, <2>3 DEF DirTold, DirDone
<1>3. tree' = tree => \A q \in Requests : AddedBy(q)' = AddedBy(q) /\ RemovedBy(q)' = RemovedBy(q)
  BY DEF AddedBy, RemovedBy
<1>4. CASE Abandons
  BY <1>1, <1>2, <1>3, <1>4 DEF Abandons, Told, DirsTold
<1>5. ASSUME NEW r \in Requests, Moves(r) PROVE Told'
  <2>1. DirTold(r) /\ DirDone(r)
    BY DEF Told, DirsTold
  <2>2. Untouched(r)' /\ dir'[r].ret.jsoninfo = "" /\ dir[r].stage \notin {"answered", "lost"}
    BY <1>3, <1>5, <2>1 DEF Moves, DirTold, Untouched
  <2>3. DirTold(r)' /\ DirDone(r)'
    BY <1>1, <2>1, <2>2 DEF DirTold, DirDone, Claim, Untouched
  <2>4. \A q \in Requests \ {r} : DirTold(q)' /\ DirDone(q)'
    BY <1>2, <1>3, <1>5 DEF Moves, DirAlone
  <2> QED
    BY <1>1, <2>3, <2>4 DEF Told, DirsTold
<1>6. ASSUME NEW r \in Requests, Executes(r) PROVE Told'
  <2>1. DirTold(r) /\ DirDone(r) /\ dir[r].stage = "statement" /\ dir'[r].stage = "answered"
    BY <1>6 DEF Told, DirsTold, Executes
  <2>2. Claim(r, dir[r].ret.jsoninfo)'
    BY <1>6, <2>1 DEF Executes, DirTold
  <2>3. DirTold(r)' /\ DirDone(r)'
    BY <1>1, <2>1, <2>2 DEF DirTold, DirDone
  <2>4. \A q \in Requests \ {r} : DirTold(q)' /\ DirDone(q)'
    BY <1>2, <1>6 DEF Executes, DirAlone
  <2> QED
    BY <1>1, <2>3, <2>4 DEF Told, DirsTold
<1> QED
  BY <1>4, <1>5, <1>6 DEF DirectoriesMove

LEMMA NextTold == Typed /\ Told /\ [Next]_vars => Typed' /\ Told'
<1> SUFFICES ASSUME Typed, Told, [Next]_vars PROVE Typed' /\ Told'
  OBVIOUS
<1>1. CASE Next
  BY <1>1, StepKinds, ApiTold, AccountsTold, DirectoriesTold
<1>2. CASE UNCHANGED vars
  BY <1>2, Stutters, SignsToldSame, DirsToldSame DEF vars, accounts, directories, Told
<1> QED
  BY <1>1, <1>2

\* A browser is told what was done: it is given a uuid exactly if its status is 0.
\* As long as the names are plain, the account it has sent is then in the table;
\* where it reads that a directory was added or removed, its request has added or
\* removed one row; and where it reads nothing of the kind, none, whatever other
\* requests have done meanwhile.
THEOREM AnswersTrue == Spec => []AnswersAreTrue
BY InitTyped, InitTold, NextTold, ToldIsTrue, PTL DEF Spec
=============================================================================
