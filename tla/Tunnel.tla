------------------------------- MODULE Tunnel -------------------------------
(***************************************************************************)
(* What socks_server promises a client and the destination of its request, *)
(* with no process, socket or buffer in it: a destination is there only    *)
(* for a command that socks.conf permits when the request is judged, what  *)
(* comes out at one end is what went in at the other, after the replies,   *)
(* and nothing comes out before there is a destination.                    *)
(***************************************************************************)
EXTENDS Naturals, Sequences

CONSTANTS
    Clients,   \* the clients, each with one request
    Naming,    \* those of them whose request has a user id
    Confs      \* what socks.conf may permit: sets of commands

VARIABLES
    conf,      \* the commands permitted now
    command,   \* the command of each request
    verdict,   \* "none", "permitted", "rejected", "over" after "permitted", or "closed"
    linked,    \* has there been a destination?
    sent,      \* units each end has sent
    got        \* what each end has received

vars == <<conf, command, verdict, linked, sent, got>>

Directions == {"up", "down"}
Token(kind) == [kind |-> kind, n |-> 0]

Init ==
    /\ conf \in Confs
    /\ command = [c \in Clients |-> "none"]
    /\ verdict = [c \in Clients |-> "none"]
    /\ linked = [c \in Clients |-> FALSE]
    /\ sent = [c \in Clients |-> [d \in Directions |-> 0]]
    /\ got = [c \in Clients |-> [d \in Directions |-> <<>>]]

----------------------------------------------------------------------------
EditConf == conf' \in Confs /\ UNCHANGED <<command, verdict, linked, sent, got>>

Ask(c) ==
    /\ verdict[c] = "none" /\ command[c] = "none"
    /\ \E cmd \in {"connect", "bind", "other"} : command' = [command EXCEPT ![c] = cmd]
    /\ UNCHANGED <<conf, verdict, linked, sent, got>>

Judge(c, decision) ==
    /\ verdict' = [verdict EXCEPT ![c] = decision]
    /\ UNCHANGED <<conf, command, linked, sent, got>>

Permit(c) == verdict[c] = "none" /\ command[c] \in conf /\ Judge(c, "permitted")

Reject(c) ==
    /\ verdict[c] = "none" /\ command[c] \notin conf \cup {"none"}
    /\ Judge(c, "rejected")

End(c) == verdict[c] = "permitted" /\ Judge(c, "over")

\* A client may be left without an answer, but not told that it is rejected and
\* not be.
Close(c) == got[c]["down"] # <<Token("Reject")>> /\ Judge(c, "closed")

Link(c) ==
    /\ verdict[c] = "permitted" /\ ~linked[c]
    /\ linked' = [linked EXCEPT ![c] = TRUE]
    /\ UNCHANGED <<conf, command, verdict, sent, got>>

Send(c, d) ==
    /\ verdict[c] \in {"none", "permitted"}
    /\ IF d = "up" THEN command[c] # "none" ELSE linked[c]
    /\ sent' = [sent EXCEPT ![c][d] = @ + 1]
    /\ UNCHANGED <<conf, command, verdict, linked, got>>

----------------------------------------------------------------------------
\* What comes before the units: the rest of the request, or the replies, two to
\* a BIND.
Preface(c, d) ==
    IF d = "up" THEN IF c \in Naming THEN <<Token("user id")>> ELSE <<>>
    ELSE IF command[c] = "bind" THEN <<Token("Accept"), Token("Accept")>>
                                ELSE <<Token("Accept")>>

Stream(c, d) == Preface(c, d) \o [n \in 1..sent[c][d] |-> [kind |-> "data", n |-> n]]

Receives(c, d, unit) ==
    /\ got' = [got EXCEPT ![c][d] = Append(@, unit)]
    /\ UNCHANGED <<conf, command, verdict, linked, sent>>

\* The next unit of the stream; of the replies, the last waits for the
\* destination as all that follows does.
Deliver(c, d) ==
    LET i == Len(got[c][d]) + 1
    IN  /\ \/ linked[c]
           \/ verdict[c] \in {"permitted", "over"} /\ d = "down" /\ i < Len(Preface(c, d))
        /\ i <= Len(Stream(c, d))
        /\ Receives(c, d, Stream(c, d)[i])

TellReject(c) ==
    /\ verdict[c] = "rejected" /\ got[c]["down"] = <<>>
    /\ Receives(c, "down", Token("Reject"))

Next ==
    \/ EditConf
    \/ \E c \in Clients :
          \/ Ask(c) \/ Permit(c) \/ Reject(c) \/ End(c) \/ Close(c) \/ Link(c)
          \/ TellReject(c)
          \/ \E d \in Directions : Send(c, d) \/ Deliver(c, d)

Spec == Init /\ [][Next]_vars
=============================================================================
