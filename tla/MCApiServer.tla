----------------------------- MODULE MCApiServer -----------------------------
(* ApiServer for TLC: ann has an account, a session and three rows, two of    *)
(* them in one directory; two requests, of ann with the right and the wrong   *)
(* password, of bob, of a name that is not plain, or without a session.       *)
EXTENDS ApiServer
MCSigns == {<<"ann", "p">>, <<"ann", "q">>, <<"bob", "p">>, <<"odd", "p">>}
MCPlain == {"ann", "bob"}
Account(name, password) == [username |-> name, password |-> password]
MCTables == {<<Account("bob", "q")>>}
MCDirIds == {-1, 1, 2}
MCUsers == <<Account("ann", "p")>>
MCSessions == [u \in {"id0"} |-> Session("ann", 1)]
Row(d) == [user |-> "ann", name |-> "docs", dirid |-> d, by |-> 0, gone |-> 0]
MCTree == <<Row(1), Row(2), Row(2)>>
AnyEnd == {"done", "failed", "unreported"}
AlwaysFails == {"failed"}
==============================================================================
