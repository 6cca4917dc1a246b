----------------------------- MODULE MCConsole -----------------------------
(***************************************************************************)
(* Instances of Console for TLC: a file that ends with exit, one that does *)
(* not, and a host that cannot be reached.                                 *)
(***************************************************************************)
EXTENDS Console

\* "date" prints a percent sign that is no prompt, "ls" two texts.
TheOutput == [cmd \in {"ls", "date", "exit"} |->
                 CASE cmd = "ls" -> <<"text", "text">>
                   [] cmd = "date" -> <<"percent", "text">>
                   [] OTHER -> <<>>]
TheScript == << <<"date", "ls", "date">>, <<"ls", "date", "exit">>, <<"exit">> >>
Third == {3}
Second == {2}
First == {1}
=============================================================================
