-------------------------------- MODULE MCRpc --------------------------------
(* Rpc for TLC: one call by each stub, of a client that the servers speak and *)
(* of four that they do not; an int32 of three bits, an int64 of five.        *)
EXTENDS Rpc
MCSign == {SetUserSign(New("UserSign"), u, p) : u \in {"", "ann", "\\xff"}, p \in {"", "pw"}}
MCDir == {SetDirInfo(New("DirInfo"), d, n, u) : d \in {-2, 0, 5}, n \in {"", "\\xff"},
                                                u \in {"id"}} \union {New("DirInfo")}
MCNewer == [SetDirInfo(New("DirInfo"), 5, "", "id") EXCEPT
              !.unknown = <<[num |-> 9, wt |-> "varint", val |-> 1],
                            [num |-> 2, wt |-> "varint", val |-> 31]>>]
MCRequests == [UserSign |-> MCSign, DirInfo |-> MCDir \union {MCNewer}]
MCResponses ==
  [UserRet |-> {SetUserRet(New("UserRet"), 0, "ok!", "id"),
                SetUserRet(New("UserRet"), -1, "", ""), New("UserRet")},
   DirRet |-> {SetDirRet(New("DirRet"), 0, "json"), SetDirRet(New("DirRet"), -1, "\\xff"),
               New("DirRet")}]
MCGarbled == {"\\xff"}
==============================================================================
