--------------------------- MODULE MCSelectServer ---------------------------
(***************************************************************************)
(* Instances of SelectServer for TLC: three or four clients, a table of    *)
(* three positions, and the lines each instance is about.                  *)
(***************************************************************************)
EXTENDS SelectServer, TLC

CONSTANTS u1, u2, u3, u4, alice

ThreePeers == {u1, u2, u3}
FourPeers == {u1, u2, u3, u4}
JustOne == {u3}
NoPeers == {}

exit == [kind |-> "exit"]
print == [kind |-> "print"]
empty == [kind |-> "none"]
yell == [kind |-> "yell"]
tell(u) == [kind |-> "tell", who |-> u]
rename(n) == [kind |-> "name", new |-> n]

Cmd(from, to) == [from |-> from, to |-> to, big |-> FALSE]
run(cmd) == [kind |-> "run", cmds |-> <<cmd>>]
runBoth(first, second) == [kind |-> "run", cmds |-> <<first, second>>]

\* cat >1, cat <2, cat <1 >1, cat <2 | cat >1, cat >1 | cat <2, which
\* leaks when there is nothing to read, cat >1 | cat <1, which waits for itself,
\* and lines that talk: the first two clients use user pipes, the third talks
\* and may vanish, the fourth is one too many when the others are there.
UserTexts ==
    {<<l>> : l \in {exit, yell, rename(alice), run(Cmd(0, 1)), run(Cmd(2, 0)),
                    run(Cmd(1, 1)), runBoth(Cmd(2, 0), Cmd(0, 1)),
                    runBoth(Cmd(0, 1), Cmd(2, 0)), runBoth(Cmd(0, 1), Cmd(1, 0))}}

TalkTexts ==
    {<<l>> : l \in {empty, tell(1), tell(4), run([from |-> 0, to |-> 1, big |-> TRUE])}}

AllTexts ==
    [p \in Peers |-> CASE p = u3 -> TalkTexts [] p = u4 -> {} [] OTHER -> UserTexts]

PairTexts == [p \in Peers |-> {<<print>>, <<print, yell>>}]
=============================================================================
