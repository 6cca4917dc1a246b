---------------------------- MODULE MCForkServers ----------------------------
(***************************************************************************)
(* An instance of ForkServers for TLC: three clients, two with requests    *)
(* and one that only connects.                                             *)
(***************************************************************************)
EXTENDS ForkServers

CONSTANTS c1, c2, c3

ThreeClients == {c1, c2, c3}
JustOne == {c1}
ASecond == {c3}

Requests ==
    [c \in Clients |-> CASE c = c1 -> <<"start", "line">>
                         [] c = c2 -> <<"line", "bad", "rest">>
                         [] c = c3 -> <<>>]
=============================================================================
