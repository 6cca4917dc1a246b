----------------------------- MODULE ForkServers -----------------------------
(***************************************************************************)
(* The servers that fork a process for each client: np_simple, which waits *)
(* for it before it accepts again (simple_main.cpp), np_multi_proc, which  *)
(* reaps it in a signal handler (multi_proc_main.cpp), and http_server,    *)
(* which reaps it in its event loop and whose child reads a request once   *)
(* and becomes the CGI program (http_server.cpp).  Modelled are the accept *)
(* loops, who holds which socket, SIGCHLD, and the request of http_server. *)
(*                                                                         *)
(* What a client sends is a sequence of parts: "start" ends within the     *)
(* request line, "line" completes it, "rest" is what else may follow, and  *)
(* "bad" is a line of less than three words or a header without a value.   *)
(* For the shells of the other two it stands for lines, the last of which  *)
(* is exit.                                                                *)
(***************************************************************************)
EXTENDS Naturals, Sequences

CONSTANTS
    Clients,   \* the clients, each of which connects at most once
    Parent,    \* the server process; the child of a client has its name
    Request,   \* what each client sends
    Unknown,   \* clients that ask for a program that is not there
    Vanishing, \* clients that may go away
    Buffer,    \* parts that fit one read (1024 bytes)
    MayFail    \* do accept and fork fail?

ASSUME ForkServersAssumption ==
    /\ Parent \notin Clients
    /\ Unknown \cup Vanishing \subseteq Clients
    /\ Buffer \in Nat \ {0}
    /\ MayFail \in BOOLEAN

ASSUME RequestAssumption == Request \in [Clients -> Seq({"start", "line", "rest", "bad"})]

VARIABLES
    program,   \* which of the three servers this is
    server,    \* "accept", "fork", "wait", "stray", "close" or "dead"
    current,   \* the client it is at
    holds,     \* the client sockets each process has open
    child,     \* the process of each client
    pending,   \* SIGCHLD pending
    reaping,   \* is the handler running?
    conn,      \* each client's end of its connection
    sent,      \* parts it has sent
    inbox,     \* those in the kernel's queue
    taken,     \* those its child has read
    reply,     \* what is on its way to it
    got        \* what it has received

serverVars == <<program, server, current>>
signalVars == <<pending, reaping>>
clientVars == <<conn, sent>>
replyVars == <<inbox, taken, reply, got>>
vars == <<serverVars, holds, child, signalVars, clientVars, replyVars>>

----------------------------------------------------------------------------
Programs == {"np_simple", "np_multi_proc", "http_server"}

Processes == Clients \cup {Parent}

Init ==
    /\ program \in Programs
    /\ server = "accept"
    /\ current = Parent
    /\ holds = [q \in Processes |-> {}]
    /\ child = [c \in Clients |-> "none"]
    /\ pending = FALSE
    /\ reaping = FALSE
    /\ conn = [c \in Clients |-> "away"]
    /\ sent = [c \in Clients |-> 0]
    /\ inbox = [c \in Clients |-> <<>>]
    /\ taken = [c \in Clients |-> <<>>]
    /\ reply = [c \in Clients |-> <<>>]
    /\ got = [c \in Clients |-> <<>>]

----------------------------------------------------------------------------
(* Sockets.  A connection is closed when nobody holds it any more; closed  *)
(* with something unread it is reset, and what was on its way may be lost. *)

Held(c) == \E q \in Processes : c \in holds[q]

Beginnings(s) == {SubSeq(s, 1, n) : n \in 0..Len(s)}

\* Process q lets go of its sockets; the client it served has text on its way.
Close(q, c, text) ==
    /\ holds' = [holds EXCEPT ![q] = {}]
    /\ \E r \in {reply[c] \o text} \cup
                (IF inbox[c] = <<>> \/ \E p \in Processes \ {q} : c \in holds[p]
                 THEN {} ELSE Beginnings(reply[c])) :
          reply' = [reply EXCEPT ![c] = r]

----------------------------------------------------------------------------
(* The accept loop.  It stands still while the handler runs.               *)

At(place) == server = place /\ ~reaping

Accept(c) ==
    /\ At("accept")
    /\ conn[c] = "queued"
    /\ conn' = [conn EXCEPT ![c] = "open"]
    /\ holds' = [holds EXCEPT ![Parent] = @ \cup {c}]
    /\ server' = "fork"
    /\ current' = c
    /\ UNCHANGED <<program, child, signalVars, sent, replyVars>>

\* np_simple goes on with descriptor -1: it forks a shell at its own terminal
\* and waits for it.  np_multi_proc ends.  http_server accepts again.
AcceptFails ==
    /\ MayFail
    /\ At("accept")
    /\ \E c \in Clients : conn[c] = "queued"
    /\ server' = CASE program = "np_simple" -> "stray"
                   [] program = "np_multi_proc" -> "dead"
                   [] program = "http_server" -> "accept"
    /\ UNCHANGED <<program, current, holds, child, signalVars, clientVars, replyVars>>

StrayEnds ==
    /\ At("stray")
    /\ server' = "accept"
    /\ UNCHANGED <<program, current, holds, child, signalVars, clientVars, replyVars>>

\* Mutant: every server waits for the process it has forked.
ForkAndWait ==
    /\ At("fork")
    /\ holds' = [holds EXCEPT ![current] = holds[Parent]]
    /\ child' = [child EXCEPT ![current] =
                    IF program = "http_server" THEN "reading" ELSE "session"]
    /\ server' = "wait"
    /\ UNCHANGED <<program, current, signalVars, clientVars, replyVars>>

\* The child starts with the sockets of its parent.
Fork ==
    /\ At("fork")
    /\ holds' = [holds EXCEPT ![current] = holds[Parent]]
    /\ child' = [child EXCEPT ![current] =
                    IF program = "http_server" THEN "reading" ELSE "session"]
    /\ server' = IF program = "np_simple" THEN "wait" ELSE "close"
    /\ UNCHANGED <<program, current, signalVars, clientVars, replyVars>>

\* np_multi_proc ends.  The others take their way for the parent: the wait of
\* np_simple, without a child, returns at once.
ForkFails ==
    /\ MayFail
    /\ At("fork")
    /\ IF program = "np_multi_proc"
       THEN server' = "dead" /\ Close(Parent, current, <<>>)
       ELSE server' = "close" /\ UNCHANGED <<holds, reply>>
    /\ UNCHANGED <<program, current, child, signalVars, clientVars, inbox, taken, got>>

\* wait(nullptr) of np_simple
Wait ==
    /\ At("wait")
    /\ child[current] = "zombie"
    /\ child' = [child EXCEPT ![current] = "reaped"]
    /\ server' = "close"
    /\ UNCHANGED <<program, current, holds, signalVars, clientVars, replyVars>>

\* Mutant: the parent shuts the connection down, which ends it for all.
ShutDownSocket ==
    /\ At("close")
    /\ holds' = [q \in Processes |-> holds[q] \ {current}]
    /\ server' = "accept"
    /\ current' = Parent
    /\ UNCHANGED <<program, child, signalVars, clientVars, replyVars>>

\* Mutant: the parent keeps the client's socket.
KeepSocket ==
    /\ At("close")
    /\ server' = "accept"
    /\ current' = Parent
    /\ UNCHANGED <<program, holds, child, signalVars, clientVars, replyVars>>

CloseSocket ==
    /\ At("close")
    /\ Close(Parent, current, <<>>)
    /\ server' = "accept"
    /\ current' = Parent
    /\ UNCHANGED <<program, child, signalVars, clientVars, inbox, taken, got>>

----------------------------------------------------------------------------
(* SIGCHLD: the handler of np_multi_proc interrupts its main program at    *)
(* any point; http_server's is one more handler of its event loop.         *)

Deliver ==
    /\ pending
    /\ ~reaping
    /\ server # "dead"
    /\ program = "http_server" => server = "accept"
    /\ pending' = FALSE
    /\ reaping' = TRUE
    /\ UNCHANGED <<serverVars, holds, child, clientVars, replyVars>>

\* Mutant: one child for each signal ("if" in place of "while").
ReapOne(c) ==
    /\ reaping
    /\ child[c] = "zombie"
    /\ child' = [child EXCEPT ![c] = "reaped"]
    /\ reaping' = FALSE
    /\ UNCHANGED <<serverVars, holds, pending, clientVars, replyVars>>

\* while (waitpid(-1, ..., WNOHANG) > 0)
Reap(c) ==
    /\ reaping
    /\ child[c] = "zombie"
    /\ child' = [child EXCEPT ![c] = "reaped"]
    /\ UNCHANGED <<serverVars, holds, signalVars, clientVars, replyVars>>

ReapEnd ==
    /\ reaping
    /\ \A c \in Clients : child[c] # "zombie"
    /\ reaping' = FALSE
    /\ UNCHANGED <<serverVars, holds, child, pending, clientVars, replyVars>>

----------------------------------------------------------------------------
(* The children                                                            *)

\* Mutant: no signal is asked for, as in the signal_set of socks_server.
DiesUnnoticed(c) ==
    /\ child' = [child EXCEPT ![c] = "zombie"]
    /\ pending' = pending
    /\ UNCHANGED <<serverVars, reaping, clientVars, got>>

\* exit: np_simple has no handler, so that the signal is ignored.
Dies(c) ==
    /\ child' = [child EXCEPT ![c] = "zombie"]
    /\ pending' = (pending \/ (program # "np_simple" /\ server # "dead"))
    /\ UNCHANGED <<serverVars, reaping, clientVars, got>>

\* A shell ends on exit or when its client goes away; commands it has not
\* waited for may still have the client's socket.
ShellEnds(c) ==
    /\ child[c] = "session"
    /\ sent[c] = Len(Request[c]) \/ conn[c] = "gone"
    /\ inbox' = [inbox EXCEPT ![c] = <<>>]
    /\ taken' = [taken EXCEPT ![c] = @ \o inbox[c]]
    /\ Dies(c)
    /\ holds' \in {holds, [holds EXCEPT ![c] = {}]}
    /\ UNCHANGED reply

CommandsEnd(c) ==
    /\ child[c] \in {"zombie", "reaped"}
    /\ holds[c] # {}
    /\ holds' = [holds EXCEPT ![c] = {}]
    /\ UNCHANGED <<serverVars, child, signalVars, clientVars, replyVars>>

\* do_read: the only read.  The request line is known when its end is there.
TakeRequest(c) ==
    /\ child[c] = "reading"
    /\ inbox[c] # <<>>
    /\ LET n == IF Len(inbox[c]) < Buffer THEN Len(inbox[c]) ELSE Buffer
       IN  /\ taken' = [taken EXCEPT ![c] = SubSeq(inbox[c], 1, n)]
           /\ inbox' = [inbox EXCEPT ![c] = SubSeq(@, n + 1, Len(@))]

Within(part, parts) == \E n \in DOMAIN parts : parts[n] = part

Read(c) ==
    /\ TakeRequest(c)
    /\ ~Within("bad", taken'[c])
    /\ reply' = [reply EXCEPT ![c] = <<"status">>]
    /\ child' = [child EXCEPT ![c] = "execv"]
    /\ UNCHANGED <<serverVars, holds, signalVars, clientVars, got>>

\* parse_http_request throws, or remote_endpoint, before the status line: the
\* exception leaves the event loop and main prints it at its own terminal.
ReadThrows(c) ==
    /\ TakeRequest(c)
    /\ Within("bad", taken'[c]) \/ conn[c] = "gone"
    /\ holds' = [holds EXCEPT ![c] = {}]
    /\ Dies(c)
    /\ UNCHANGED reply

ReadError(c) ==
    /\ child[c] = "reading"
    /\ inbox[c] = <<>>
    /\ conn[c] = "gone"
    /\ Close(c, c, <<>>)
    /\ Dies(c)
    /\ UNCHANGED <<inbox, taken>>

\* TARGET is empty without a request line, and substr(1) of it throws; main
\* prints the exception, to the client by then, as perror does.
Outcome(c) ==
    IF ~Within("line", taken[c]) THEN "exception"
    ELSE IF c \in Unknown THEN "error" ELSE "page"

\* What comes after the status line, and the end of the process.
Execv(c) ==
    /\ child[c] = "execv"
    /\ Close(c, c, <<Outcome(c)>>)
    /\ Dies(c)
    /\ UNCHANGED <<inbox, taken>>

----------------------------------------------------------------------------
(* The clients                                                             *)

Connect(c) ==
    /\ conn[c] = "away"
    /\ server # "dead"
    /\ conn' = [conn EXCEPT ![c] = "queued"]
    /\ UNCHANGED <<serverVars, holds, child, signalVars, sent, replyVars>>

\* Parts may come in before the child is there, or after it has read.
Send(c) ==
    /\ conn[c] \in {"queued", "open"}
    /\ sent[c] < Len(Request[c])
    /\ conn[c] = "open" => Held(c)
    /\ sent' = [sent EXCEPT ![c] = @ + 1]
    /\ inbox' = [inbox EXCEPT ![c] = Append(@, Request[c][sent[c] + 1])]
    /\ UNCHANGED <<serverVars, holds, child, signalVars, conn, taken, reply, got>>

Receive(c) ==
    /\ conn[c] = "open"
    /\ reply[c] # <<>>
    /\ got' = [got EXCEPT ![c] = Append(@, Head(reply[c]))]
    /\ reply' = [reply EXCEPT ![c] = Tail(@)]
    /\ UNCHANGED <<serverVars, holds, child, signalVars, clientVars, inbox, taken>>

\* The client has seen the end of the connection.
Finish(c) ==
    /\ conn[c] = "open"
    /\ ~Held(c)
    /\ reply[c] = <<>>
    /\ conn' = [conn EXCEPT ![c] = "ended"]
    /\ UNCHANGED <<serverVars, holds, child, signalVars, sent, replyVars>>

Vanish(c) ==
    /\ c \in Vanishing
    /\ conn[c] = "open"
    /\ conn' = [conn EXCEPT ![c] = "gone"]
    /\ UNCHANGED <<serverVars, holds, child, signalVars, sent, replyVars>>

----------------------------------------------------------------------------
Main == (\E c \in Clients : Accept(c)) \/ Fork \/ Wait \/ CloseSocket

Failure == AcceptFails \/ ForkFails \/ StrayEnds

Handler == Deliver \/ (\E c \in Clients : Reap(c)) \/ ReapEnd

Child(c) == ShellEnds(c) \/ CommandsEnd(c) \/ Read(c) \/ ReadThrows(c) \/ ReadError(c) \/ Execv(c)

Client(c) == Connect(c) \/ Send(c) \/ Receive(c) \/ Finish(c) \/ Vanish(c)

Next == Main \/ Failure \/ Handler \/ \E c \in Clients : Child(c) \/ Client(c)

\* The server and its handler run on, and so do the children; the clients
\* read what there is, but need not send anything.
Spec ==
    /\ Init
    /\ [][Next]_vars
    /\ WF_vars(Main) /\ WF_vars(Handler)
    /\ \A c \in Clients :
          WF_vars(Child(c)) /\ WF_vars(Receive(c)) /\ WF_vars(Finish(c))

----------------------------------------------------------------------------
(* Properties                                                              *)

\* Every variable that a process's decisions depend on has its type.
TypeOK ==
    /\ program \in Programs
    /\ server \in {"accept", "fork", "wait", "stray", "close", "dead"}
    /\ current \in Processes
    /\ holds \in [Processes -> SUBSET Clients]
    /\ child \in [Clients -> {"none", "session", "reading", "execv", "zombie", "reaped"}]
    /\ pending \in BOOLEAN
    /\ reaping \in BOOLEAN

\* A client's socket is in no other client's process, and in the server only
\* until the client has a process: otherwise it would stay open as long as a
\* stranger does.  The two close(client_socket), _socket.close().
SocketsPrivate ==
    /\ \A c \in Clients : holds[c] \subseteq {c}
    /\ server = "accept" => holds[Parent] = {}

\* No zombie stays for good: however the SIGCHLD of several children coalesce
\* and interleave with the handler, a child that has ended and has not been
\* waited for is one that a signal, the running handler or wait will come to.
NoChildForgotten ==
    \A c \in Clients :
        child[c] = "zombie" =>
            \/ server = "dead"
            \/ pending \/ reaping
            \/ server = "wait" /\ current = c

\* What a request deserves: nothing if the parser throws at it, otherwise the
\* status line and the page of the program that its request line names.
Deserved(c, request) ==
    IF Within("bad", request) THEN <<>>
    ELSE <<"status",
           IF ~Within("line", request) THEN "exception"
           ELSE IF c \in Unknown THEN "error" ELSE "page">>

\* A client of http_server gets what its request deserves and nothing else, the
\* whole of it if the one read took all that the client has sent: no reset, no
\* other process and no early end of the connection takes it away.  Of a request
\* that came in several reads the first deserves the answer, and its client may
\* get only the beginning of it.
ReplyWhole ==
    \A c \in Clients :
        conn[c] = "ended" /\ program = "http_server" /\ taken[c] # <<>> =>
            /\ got[c] \in Beginnings(Deserved(c, taken[c]))
            /\ taken[c] = SubSeq(Request[c], 1, sent[c]) => got[c] = Deserved(c, taken[c])

\* np_simple serves one client at a time, or a terminal.
Occupied == program = "np_simple" /\ server \in {"wait", "stray"}

\* Its connection was closed without a process for it.
TurnedAway(c) == conn[c] # "queued" /\ ~Held(c)

\* A client that connects gets a process, unless the server fails or waits.
Served ==
    \A c \in Clients :
        conn[c] = "queued"
            ~> (child[c] # "none" \/ TurnedAway(c) \/ server = "dead" \/ Occupied)

\* When the process of a client has ended the client sees the end of its
\* connection, and the server reaps the process.
HungUp ==
    \A c \in Clients :
        child[c] = "zombie" ~> (~Held(c) /\ (child[c] = "reaped" \/ server = "dead"))
============================================================================
