------------------------------- MODULE Messages -------------------------------
(***************************************************************************)
(* The four messages of UserSign.proto and FileManager.proto as the        *)
(* generated classes treat them: UserSign, UserRet, DirInfo and DirRet.    *)
(*                                                                         *)
(* Each class spells out its fields three times: in the switch over tags   *)
(* of the parser, in the serialisers with the computation of the size, and *)
(* in the functions that merge, clear and swap.  A table stands for each   *)
(* of the three; the operators after them are what the classes share.      *)
(***************************************************************************)
EXTENDS Integers, Sequences

Text(name) == [name |-> name, type |-> "string"]
Int32(name) == [name |-> name, type |-> "int32"]
Int64(name) == [name |-> name, type |-> "int64"]

\* The parsers: by field number, the field and its type.
UserSignTags == <<Text("username"), Text("password"), Text("uuid")>>
UserRetTags == <<Int32("code"), Text("msg"), Text("uuid")>>
DirInfoTags == <<Int64("dirid"), Text("name"), Text("uuid")>>
DirRetTags == <<Int32("code"), Text("jsoninfo")>>

\* The serialisers, and ByteSizeLong: the fields as they are written.
UserSignFields == <<Text("username"), Text("password"), Text("uuid")>>
UserRetFields == <<Int32("code"), Text("msg"), Text("uuid")>>
DirInfoFields == <<Int64("dirid"), Text("name"), Text("uuid")>>
DirRetFields == <<Int32("code"), Text("jsoninfo")>>

\* MergeFrom, CopyFrom, Clear, the copy constructor and InternalSwap: the
\* fields they handle.
UserSignMembers == {Text("username"), Text("password"), Text("uuid")}
UserRetMembers == {Int32("code"), Text("msg"), Text("uuid")}
DirInfoMembers == {Int64("dirid"), Text("name"), Text("uuid")}
DirRetMembers == {Int32("code"), Text("jsoninfo")}

Tags == [UserSign |-> UserSignTags, UserRet |-> UserRetTags,
         DirInfo |-> DirInfoTags, DirRet |-> DirRetTags]
Fields == [UserSign |-> UserSignFields, UserRet |-> UserRetFields,
           DirInfo |-> DirInfoFields, DirRet |-> DirRetFields]
Members == [UserSign |-> UserSignMembers, UserRet |-> UserRetMembers,
            DirInfo |-> DirInfoMembers, DirRet |-> DirRetMembers]

Default(type) == IF type = "string" THEN "" ELSE 0

\* A new message: every member has its default; unknown is what
\* _internal_metadata_ keeps of entries that no field takes.
New(T) == [f \in {m.name : m \in Members[T]} \union {"unknown"} |->
             IF f = "unknown" THEN <<>>
             ELSE Default((CHOOSE m \in Members[T] : m.name = f).type)]

\* The setters, as their callers in ApiServer.cc, use_rpcserver.cc and
\* dirinfoserver.cc call them one after the other.
SetUserSign(m, username, password) == [m EXCEPT !.username = username, !.password = password]
SetUserRet(m, code, msg, uuid) == [m EXCEPT !.code = code, !.msg = msg, !.uuid = uuid]
SetDirInfo(m, dirid, name, uuid) == [m EXCEPT !.dirid = dirid, !.name = name, !.uuid = uuid]
SetDirRet(m, code, jsoninfo) == [m EXCEPT !.code = code, !.jsoninfo = jsoninfo]
------------------------------------------------------------------------------
MergeFrom(T, m, from) ==
  [f \in DOMAIN m |->
     IF f = "unknown" THEN m[f] \o from[f]
     ELSE IF f \in DOMAIN from /\ from[f] # New(T)[f] THEN from[f] ELSE m[f]]

CopyFrom(T, from) == MergeFrom(T, New(T), from)

\* InternalSwap, which is what a move assignment does: both messages.
Swap(m, other) == <<other, m>>
==============================================================================
