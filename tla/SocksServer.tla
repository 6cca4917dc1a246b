---------------------------- MODULE SocksServer ----------------------------
(***************************************************************************)
(* socks_server (pj4): the parent accepts clients and forks a child for    *)
(* each; the child reads one SOCKS4 request, asks the firewall, connects   *)
(* to the destination or waits for it to connect (BIND), and then relays   *)
(* in both directions until the first of its reads or writes fails.        *)
(*                                                                         *)
(* A direction is the way of the bytes from one peer of a child to the     *)
(* other: "up" from the client to the destination, "down" back.  Bytes     *)
(* come in units, numbered as their peer sends them.                       *)
(***************************************************************************)
EXTENDS Naturals, Sequences, FiniteSets

CONSTANTS
    Clients,     \* the clients, each of which connects once
    Naming,      \* those of them whose request has a user id
    Confs,       \* what socks.conf may permit: sets of commands
    MaxProcs,    \* how many children, zombies included, the system allows
    MaxUnits,    \* bound: units a peer sends
    Cap          \* units the kernel keeps between two sockets

ASSUME SocksServerAssumption ==
    /\ Naming \subseteq Clients
    /\ Confs \subseteq SUBSET {"connect", "bind"}
    /\ MaxProcs \in Nat
    /\ MaxUnits \in Nat
    /\ Cap \in Nat \ {0}

VARIABLES
    conf,     \* socks.conf: the commands it permits to the clients' addresses
    command,  \* the command of each client's request
    child,    \* what the child of each client is at
    cause,    \* the direction and the reason the relay ended for
    peer,     \* how each end of each child's two connections stands
    sent,     \* units each peer has sent
    arrived,  \* bytes in the kernel's queue from a peer to the child
    buffer,   \* source_buffer_ (up) and destination_buffer_ (down)
    leaving,  \* bytes in the kernel's queue from the child to a peer
    got       \* what each peer has received

vars == <<conf, command, child, cause, peer, sent, arrived, buffer, leaving, got>>

----------------------------------------------------------------------------
Directions == {"up", "down"}
Commands == {"connect", "bind", "other"}

\* The peers a direction comes from and goes to.
From(d) == IF d = "up" THEN "client" ELSE "destination"
To(d) == IF d = "up" THEN "destination" ELSE "client"

Data(n) == [kind |-> "data", n |-> n]
Reply(status) == [kind |-> status, n |-> 0]
Request == [kind |-> "request", n |-> 0]
UserId == [kind |-> "user id", n |-> 0]
NameOf(c) == IF c \in Naming THEN <<UserId>> ELSE <<>>

\* Children that still run, and those that have ended: nobody waits for them,
\* as handle_signal_wait belongs to a signal set that no signal is added to.
Running == {"reading", "connecting", "accepting", "relaying"}
Processes == {c \in Clients : child[c] \in Running \cup {"ended"}}

EachWay(v) == [d \in Directions |-> v]

Init ==
    /\ conf \in Confs
    /\ command = [c \in Clients |-> "none"]
    /\ child = [c \in Clients |-> "none"]
    /\ cause = [c \in Clients |-> <<"none", "none">>]
    /\ peer = [c \in Clients |-> [client |-> "away", destination |-> "away"]]
    /\ sent = [c \in Clients |-> EachWay(0)]
    /\ arrived = [c \in Clients |-> EachWay(<<>>)]
    /\ buffer = [c \in Clients |-> EachWay(<<>>)]
    /\ leaving = [c \in Clients |-> EachWay(<<>>)]
    /\ got = [c \in Clients |-> EachWay(<<>>)]

----------------------------------------------------------------------------
(***************************************************************************)
(* Clients, destinations and the administrator.                            *)
(***************************************************************************)
EditConf ==
    /\ conf' \in Confs
    /\ UNCHANGED <<command, child, cause, peer, sent, arrived, buffer, leaving, got>>

Connect(c) ==
    /\ child[c] = "none"
    /\ child' = [child EXCEPT ![c] = "waiting"]
    /\ peer' = [peer EXCEPT ![c].client = "open"]
    /\ UNCHANGED <<conf, command, cause, sent, arrived, buffer, leaving, got>>

\* What a client does before its child runs is what it does just after, as far
\* as the child can tell.  The request is nine bytes and a user id.
Ask(c, cmd) ==
    /\ child[c] = "reading"
    /\ command[c] = "none"
    /\ peer[c].client = "open"
    /\ command' = [command EXCEPT ![c] = cmd]
    /\ arrived' = [arrived EXCEPT ![c]["up"] = <<Request>> \o NameOf(c)]
    /\ UNCHANGED <<conf, child, cause, peer, sent, buffer, leaving, got>>

\* What is sent to a child that is gone is lost.
Send(c, d) ==
    /\ peer[c][From(d)] = "open"
    /\ child[c] \in Running
    /\ d = "up" => command[c] # "none"
    /\ sent[c][d] < MaxUnits
    /\ sent' = [sent EXCEPT ![c][d] = @ + 1]
    /\ arrived' = [arrived EXCEPT ![c][d] = Append(@, Data(sent'[c][d]))]
    /\ UNCHANGED <<conf, command, child, cause, peer, buffer, leaving, got>>

Receive(c, d) ==
    /\ peer[c][To(d)] \in {"open", "shut"}
    /\ leaving[c][d] # <<>>
    /\ got' = [got EXCEPT ![c][d] = Append(@, Head(leaving[c][d]))]
    /\ leaving' = [leaving EXCEPT ![c][d] = Tail(@)]
    /\ UNCHANGED <<conf, command, child, cause, peer, sent, arrived, buffer>>

\* A peer says that it sends no more.
Shut(c, d) ==
    /\ child[c] # "waiting"
    /\ peer[c][From(d)] = "open"
    /\ peer' = [peer EXCEPT ![c][From(d)] = "shut"]
    /\ UNCHANGED <<conf, command, child, cause, sent, arrived, buffer, leaving, got>>

\* A peer goes away; what it has not received is lost.
Leave(c, d) ==
    /\ child[c] # "waiting"
    /\ peer[c][To(d)] \in {"open", "shut"}
    /\ peer' = [peer EXCEPT ![c][To(d)] = "gone"]
    /\ leaving' = [leaving EXCEPT ![c][d] = <<>>]
    /\ UNCHANGED <<conf, command, child, cause, sent, arrived, buffer, got>>

----------------------------------------------------------------------------
(***************************************************************************)
(* handle_accept, in the parent.  A fork that fails takes the branch of    *)
(* the parent: the client is disconnected without an answer.               *)
(***************************************************************************)
Accept(c) ==
    /\ child[c] = "waiting"
    /\ \/ /\ Cardinality(Processes) < MaxProcs
          /\ child' = [child EXCEPT ![c] = "reading"]
          /\ UNCHANGED <<peer, arrived>>
       \/ /\ Cardinality(Processes) >= MaxProcs
          /\ child' = [child EXCEPT ![c] = "refused"]
          /\ peer' = [peer EXCEPT ![c].client = "gone"]
          /\ arrived' = [arrived EXCEPT ![c] = EachWay(<<>>)]
    /\ UNCHANGED <<conf, command, cause, sent, buffer, leaving, got>>

----------------------------------------------------------------------------
(***************************************************************************)
(* The child.                                                              *)
(***************************************************************************)
Prefixes(s) == {SubSeq(s, 1, n) : n \in 0..Len(s)}
Opposite(d) == IF d = "up" THEN "down" ELSE "up"

\* The kernel takes the bytes, and drops those for a peer that is gone.
Put(c, d, bytes) == IF peer[c][To(d)] = "gone" THEN leaving[c][d]
                                              ELSE leaving[c][d] \o bytes

\* Closing a socket with unread bytes resets the connection: what its peer has
\* not been given yet may be lost.
Cut(bytes, unread) == IF unread = <<>> THEN {bytes} ELSE Prefixes(bytes)

\* The child ends: by an exception that closes its sockets or that leaves
\* io_service::run, or because nothing is pending any more.  Its last reply,
\* if any, has been written.
Ends(c, why, unread, reply) ==
    /\ child' = [child EXCEPT ![c] = "ended"]
    /\ cause' = [cause EXCEPT ![c] = why]
    /\ arrived' = [arrived EXCEPT ![c] = EachWay(<<>>)]
    /\ buffer' = [buffer EXCEPT ![c] = EachWay(<<>>)]
    /\ \E up \in Cut(leaving[c]["up"], unread["down"]),
          down \in Cut(Put(c, "down", reply), unread["up"]) :
          leaving' = [leaving EXCEPT ![c] = [up |-> up, down |-> down]]
    /\ UNCHANGED <<conf, command, peer, sent, got>>

Aborts(c) == Ends(c, <<"none", "none">>, arrived[c], <<>>)

\* Mutant of Passes: every command is looked up as CONNECT.
PassesAsConnect(c) == "connect" \in conf

\* can_pass_firewall: a command that is not BIND is looked up as CONNECT.
Passes(c) == (IF command[c] = "bind" THEN "bind" ELSE "connect") \in conf

\* receive_socks4_package.  user_id_ is empty, so that the read ends after nine
\* bytes, whether or not the request does.  A command that passes and is
\* neither CONNECT nor BIND is not answered.
ReadRequest(c) ==
    /\ child[c] = "reading"
    /\ arrived[c]["up"] # <<>>
    /\ LET rest == [arrived[c] EXCEPT !["up"] = Tail(@)]
       IN  \/ /\ Passes(c) /\ command[c] # "other"
              /\ arrived' = [arrived EXCEPT ![c] = rest]
              /\ child' = [child EXCEPT ![c] =
                              IF command[c] = "bind" THEN "accepting" ELSE "connecting"]
              /\ leaving' = [leaving EXCEPT ![c]["down"] =
                                IF command[c] = "bind" THEN Put(c, "down", <<Reply("Accept")>>)
                                                       ELSE @]
              /\ UNCHANGED <<conf, command, cause, peer, sent, buffer, got>>
           \/ /\ Passes(c) /\ command[c] = "other"
              /\ Ends(c, <<"none", "none">>, rest, <<>>)
           \/ /\ ~Passes(c)
              /\ Ends(c, <<"none", "none">>, rest, <<Reply("Reject")>>)

\* The request never comes.
NoRequest(c) ==
    /\ child[c] = "reading"
    /\ arrived[c]["up"] = <<>>
    /\ peer[c].client \in {"shut", "gone"}
    /\ Aborts(c)

\* Mutant of Open: the client is not told.
OpenSilently(c) ==
    /\ peer' = [peer EXCEPT ![c].destination = "open"]
    /\ child' = [child EXCEPT ![c] = "relaying"]
    /\ UNCHANGED <<conf, command, cause, sent, arrived, buffer, leaving, got>>

\* The destination is there: the client is told and the relay starts.
Open(c) ==
    /\ peer' = [peer EXCEPT ![c].destination = "open"]
    /\ child' = [child EXCEPT ![c] = "relaying"]
    /\ leaving' = [leaving EXCEPT ![c]["down"] = Put(c, "down", <<Reply("Accept")>>)]
    /\ UNCHANGED <<conf, command, cause, sent, arrived, buffer, got>>

\* Mutant of ConnectFails: the reply does not depend on the error code.
ConnectFailsAccepting(c) ==
    /\ child[c] = "connecting"
    /\ Ends(c, <<"none", "none">>, arrived[c], <<Reply("Accept")>>)

\* resolve and connect.
Connected(c) == child[c] = "connecting" /\ Open(c)
ConnectFails(c) == child[c] = "connecting" /\ Aborts(c)

\* acceptor_for_bind_.accept returns when somebody connects, and not before.
Accepted(c) == child[c] = "accepting" /\ Open(c)

\* It returns, and the write of the second reply throws.
AcceptedLate(c) == child[c] = "accepting" /\ peer[c].client = "gone" /\ Aborts(c)

\* remote_endpoint or the write of a reply to a client that is gone may throw.
ReplyFails(c) ==
    /\ \/ child[c] = "connecting"
       \/ child[c] = "reading" /\ arrived[c]["up"] # <<>>
    /\ peer[c].client = "gone"
    /\ Aborts(c)

\* Mutant of Read: the next read does not wait for the write.
ReadOver(c, d) ==
    /\ child[c] = "relaying"
    /\ arrived[c][d] # <<>>
    /\ buffer' = [buffer EXCEPT ![c][d] = arrived[c][d]]
    /\ arrived' = [arrived EXCEPT ![c][d] = <<>>]
    /\ UNCHANGED <<conf, command, child, cause, peer, sent, leaving, got>>

\* async_read_from_source and async_read_from_destination: a buffer is read
\* into again when all of it has been written.
Read(c, d) ==
    /\ child[c] = "relaying"
    /\ buffer[c][d] = <<>>
    /\ arrived[c][d] # <<>>
    /\ \E data \in Prefixes(arrived[c][d]) \ {<<>>} :
          /\ buffer' = [buffer EXCEPT ![c][d] = data]
          /\ arrived' = [arrived EXCEPT ![c][d] = SubSeq(@, Len(data) + 1, Len(@))]
    /\ UNCHANGED <<conf, command, child, cause, peer, sent, leaving, got>>

\* Mutants of EndOfFile: the child ends as soon as its peer does, or goes on
\* with the other direction.
EndOfFileEarly(c, d) ==
    /\ child[c] = "relaying"
    /\ peer[c][From(d)] \in {"shut", "gone"}
    /\ Ends(c, <<d, "eof">>, arrived[c], <<>>)

EndOfFileIgnored(c, d) == child[c] = "relaying" /\ UNCHANGED vars

\* End of file in either direction ends both.
EndOfFile(c, d) ==
    /\ child[c] = "relaying"
    /\ buffer[c][d] = <<>>
    /\ arrived[c][d] = <<>>
    /\ peer[c][From(d)] \in {"shut", "gone"}
    /\ Ends(c, <<d, "eof">>, arrived[c], <<>>)

\* async_write_to_destination and async_write_to_source.
Write(c, d) ==
    /\ child[c] = "relaying"
    /\ buffer[c][d] # <<>>
    /\ Len(leaving[c][d]) < Cap
    /\ leaving' = [leaving EXCEPT ![c][d] = Put(c, d, <<Head(buffer[c][d])>>)]
    /\ buffer' = [buffer EXCEPT ![c][d] = Tail(@)]
    /\ UNCHANGED <<conf, command, child, cause, peer, sent, arrived, got>>

WriteError(c, d) ==
    /\ child[c] = "relaying"
    /\ buffer[c][d] # <<>>
    /\ peer[c][To(d)] = "gone"
    /\ Ends(c, <<d, "error">>, arrived[c], <<>>)

----------------------------------------------------------------------------
Child(c) ==
    \/ ReadRequest(c)
    \/ NoRequest(c)
    \/ Connected(c)
    \/ ConnectFails(c)
    \/ ReplyFails(c)

Relay(c, d) ==
    \/ Read(c, d)
    \/ EndOfFile(c, d)
    \/ Write(c, d)
    \/ WriteError(c, d)

Peers(c, d) ==
    \/ Send(c, d)
    \/ Receive(c, d)
    \/ Shut(c, d)
    \/ Leave(c, d)

Next ==
    \/ EditConf
    \/ \E c \in Clients :
          \/ Connect(c)
          \/ \E cmd \in Commands : Ask(c, cmd)
          \/ Accept(c)
          \/ Child(c)
          \/ Accepted(c) \/ AcceptedLate(c)
          \/ \E d \in Directions : Relay(c, d) \/ Peers(c, d)

Spec == Init /\ [][Next]_vars

\* The parent and the children run; connect gives up at last; peers read what
\* they are sent.  Nothing makes anybody connect to a child that accepts.
FairSpec ==
    /\ Spec
    /\ \A c \in Clients :
          /\ WF_vars(Accept(c)) /\ WF_vars(Child(c))
          /\ \A d \in Directions : WF_vars(Relay(c, d)) /\ WF_vars(Receive(c, d))

----------------------------------------------------------------------------
\* Everything that is to come out of a direction: the replies to the client
\* first, and the rest of the request to the destination.
Replies(c) == IF command[c] = "bind" THEN <<Reply("Accept"), Reply("Accept")>>
                                     ELSE <<Reply("Accept")>>
Whole(c, d) == (IF d = "up" THEN NameOf(c) ELSE Replies(c))
                  \o [n \in 1..sent[c][d] |-> Data(n)]
Out(c, d) == got[c][d] \o leaving[c][d]

\* A relay neither loses, repeats nor reorders bytes: what a peer sent has come
\* out of the child or is still to come, as long as there is somebody to take
\* it, and nothing else comes out, whatever the other direction is at.  (What
\* comes out for a request with a user id begins with that user id.)
\* async_read_from_*, async_write_to_*.
RelayInOrder ==
    \A c \in Clients, d \in Directions :
        /\ Out(c, d) \in Prefixes(Whole(c, d)) \cup {<<Reply("Reject")>>}
        /\ child[c] = "relaying" /\ peer[c][To(d)] # "gone" =>
              Out(c, d) \o buffer[c][d] \o arrived[c][d] = Whole(c, d)

\* A download is complete: when the child ends because a peer has sent all it
\* had, and the other peer is there and has said nothing since its request,
\* all of it has been passed on.  (Left out are a peer that has said something
\* and a client whose request has a user id: their unread bytes make the end of
\* the child reset the connection.)  async_write_to_* before the next read.
DownloadComplete ==
    \A c \in Clients, d \in Directions :
        /\ cause[c] = <<d, "eof">>
        /\ peer[c][To(d)] # "gone"
        /\ sent[c][Opposite(d)] = 0
        /\ d = "down" => c \notin Naming
        => Out(c, d) = Whole(c, d)

\* The client is told only of a destination that there is: all replies of an
\* accepted request are out only when the destination is connected, and a
\* client that is rejected gets the reject alone.  receive_socks4_package.
ToldTruly ==
    \A c \in Clients :
        /\ Replies(c) \in Prefixes(Out(c, "down")) => peer[c].destination # "away"
        /\ <<Reply("Reject")>> \in Prefixes(Out(c, "down")) =>
              Out(c, "down") = <<Reply("Reject")>> /\ peer[c].destination = "away"

\* What was decided about a request, as far as its client can tell.
Verdict(c) ==
    IF child[c] \in {"none", "waiting", "reading"} THEN "none"
    ELSE IF child[c] \in {"connecting", "accepting", "relaying"} THEN "permitted"
    ELSE IF Out(c, "down") = <<>> THEN "closed"
    ELSE IF Out(c, "down") = <<Reply("Reject")>> THEN "rejected" ELSE "over"

Promised == INSTANCE Tunnel WITH
    verdict <- [c \in Clients |-> Verdict(c)],
    linked <- [c \in Clients |-> peer[c].destination # "away"]

\* A child is a tunnel that socks.conf lets be: whatever becomes of the processes,
\* the sockets and the buffers, a destination is connected only for a command
\* that was permitted when the request was read, and the two ends see the bytes
\* of each other, in order and after the replies, and nothing else.
\* can_pass_firewall, receive_socks4_package, async_read_from_*, async_write_to_*.
Contract == Promised!Spec

\* Every client is given a child or disconnected, when there is no process for
\* it, and every request that a child has is answered, or its client is
\* disconnected.  handle_accept, receive_socks4_package, connect, resolve.
Answered ==
    \A c \in Clients :
        /\ child[c] = "waiting" ~> child[c] \in {"reading", "refused"}
        /\ command[c] # "none" ~>
              child[c] = "ended" \/ Out(c, "down") # <<>> \/ peer[c].client = "gone"

\* A child ends when its client is gone, except one that waits in accept for
\* a destination.
ChildEnds ==
    \A c \in Clients :
        peer[c].client = "gone" /\ child[c] \in Running ~>
            child[c] \in {"accepting", "ended"}
=============================================================================
