----------------------------- MODULE MCCgiServer -----------------------------
(***************************************************************************)
(* An instance of CgiServer for TLC: two browsers ask for consoles, the    *)
(* second with a query that names less than the first, so that the table   *)
(* still has hosts of the first; the third asks for the panel or for worse.   *)
(***************************************************************************)
EXTENDS CgiServer

CONSTANTS b1, b2, b3

AllBrowsers == {b1, b2, b3}
OneLeaving == {b2}
OneDying == {<<b2, 1>>}

MayAsk == [b \in Browsers |-> IF b = b3 THEN Targets \ {"console"} ELSE {"console"}]

Host(name, file) == [name |-> name, port |-> "p", file |-> file]

OnlyFile(file) == [name |-> "", port |-> "", file |-> file]

Queries ==
    [b \in Browsers |->
        CASE b = b1 -> <<Host("up", "t1"), Host("down", "t2")>>
          [] b = b2 -> <<OnlyFile("t2"), NoHost>>
          [] OTHER -> <<NoHost, NoHost>>]

Reaching == {<<"up", "p">>}

Scripts == [f \in {"", "t1", "t2"} |->
               CASE f = "t1" -> <<"ls", "exit">> [] f = "t2" -> <<"exit">> [] f = "" -> <<>>]
=============================================================================
