---------------------------- MODULE SelectServer ----------------------------
(***************************************************************************)
(* np_single_proc (single_proc_main.cpp): one process serves all clients   *)
(* from a select loop.  Modelled are the loop and its descriptor sets, the *)
(* table of clients, the one std::cin that every client's socket is        *)
(* dup2'ed under in turn, the commands that concern other users, and the   *)
(* user pipes of PostOffice.                                               *)
(*                                                                         *)
(* A line is a record with a field kind.  A line "run" has a sequence cmds *)
(* of commands, each with the user whose pipe it reads (from) and the user *)
(* it pipes to (to), 0 for none, and whether its output overfills a pipe   *)
(* (big).  The lines that only print to their client (who, printenv, ...)  *)
(* are one kind, "print"; numbered pipes are the subject of NumberedPipes. *)
(***************************************************************************)
EXTENDS Naturals, Sequences

CONSTANTS
    Peers,      \* the clients, each of which connects at most once
    Vanishing,  \* those of them that may go away without exit
    Listener,   \* the listening socket
    Nobody,     \* a free position of the table
    NoName,     \* "(no name)"
    MaxUsers,   \* length of the table and of opened_user_pipe (35)
    Texts,      \* what each client may send at once: sequences of lines
    MaxTexts,   \* bound: texts the clients send, all together
    Lockstep    \* do the clients wait for the prompt before they send?

ASSUME SelectServerAssumption ==
    /\ Vanishing \subseteq Peers
    /\ Listener \notin Peers
    /\ Nobody \notin Peers
    /\ MaxUsers \in Nat \ {0}
    /\ MaxTexts \in Nat
    /\ Lockstep \in BOOLEAN

\* Every line the clients may send.
Lines == UNION {{text[n] : n \in DOMAIN text} : text \in UNION {Texts[p] : p \in Peers}}

ASSUME TextsAssumption == \A p \in Peers : Texts[p] \subseteq Seq(Lines)

VARIABLES
    conn,            \* each client's end of its connection
    inbox,           \* lines in the kernel's queue of each socket
    prompted,        \* has the client seen a prompt since it last sent?
    sent,            \* texts sent so far
    clients,         \* the table: who holds each position
    name,            \* and under what name
    open_sockets,    \* the sockets a broadcast goes to
    master,          \* the descriptors select watches
    read_fds,        \* those of this round that are still to be served
    cin,             \* lines in std::cin's buffer, with who sent them
    cinFailed,       \* std::cin's fail bit
    user_pipes,      \* opened_user_pipe
    to_remove,       \* user_pipe_to_remove
    running,         \* the client whose line fork_and_exec is at, or Nobody
    cmds,            \* the commands of that line it has still to start
    files_to_close,  \* the user pipes whose write end it will close
    stuck,           \* has it started a command that will never end?
    mode             \* "up", "blocked" in waitpid for ever, or "dead"

peerVars == <<conn, inbox, prompted, sent>>
tableVars == <<clients, name, open_sockets, master>>
inputVars == <<cin, cinFailed>>
pipeVars == <<user_pipes, to_remove>>
lineVars == <<running, cmds, files_to_close, stuck>>
vars == <<peerVars, tableVars, read_fds, inputVars, pipeVars, lineVars, mode>>

----------------------------------------------------------------------------
Uids == 1..MaxUsers

NoLine == [kind |-> "none"]

\* A user pipe, with the clients at its ends when it was made, and whether the
\* server holds its write end: "no", as long as its "line" runs, or for "ever".
Pipe(from, to) ==
    [from |-> from, to |-> to, sender |-> clients[from], receiver |-> clients[to],
     held |-> "line"]

\* get_client_by_fd
UidOf(p) == CHOOSE u \in Uids : clients[u] = p

\* get_client_by_uid: a free position has no uid.
Exists(u) == u \in Uids /\ clients[u] # Nobody

Init ==
    /\ conn = [p \in Peers |-> "away"]
    /\ inbox = [p \in Peers |-> <<>>]
    /\ prompted = [p \in Peers |-> FALSE]
    /\ sent = 0
    /\ clients = [u \in Uids |-> Nobody]
    /\ name = [u \in Uids |-> NoName]
    /\ open_sockets = {}
    /\ master = {Listener}
    /\ read_fds = {}
    /\ cin = <<>>
    /\ cinFailed = FALSE
    /\ user_pipes = {}
    /\ to_remove = {}
    /\ running = Nobody
    /\ cmds = <<>>
    /\ files_to_close = {}
    /\ stuck = FALSE
    /\ mode = "up"

----------------------------------------------------------------------------
(* The clients                                                             *)

serverVars == <<tableVars, read_fds, inputVars, pipeVars, lineVars, mode>>

Connect(p) ==
    /\ conn[p] = "away"
    /\ conn' = [conn EXCEPT ![p] = "knocking"]
    /\ UNCHANGED <<inbox, prompted, sent, serverVars>>

Send(p) ==
    /\ conn[p] = "open"
    /\ Lockstep => prompted[p]
    /\ sent < MaxTexts
    /\ \E text \in Texts[p] : inbox' = [inbox EXCEPT ![p] = @ \o text]
    /\ prompted' = [prompted EXCEPT ![p] = FALSE]
    /\ sent' = sent + 1
    /\ UNCHANGED <<conn, serverVars>>

Vanish(p) ==
    /\ p \in Vanishing
    /\ conn[p] = "open"
    /\ conn' = [conn EXCEPT ![p] = "closed"]
    /\ UNCHANGED <<inbox, prompted, sent, serverVars>>

----------------------------------------------------------------------------
(* What the server writes.  The first bytes that reach a closed connection *)
(* are answered with a reset; writing to it after that raises SIGPIPE,     *)
(* which kills the server.  The several sends of a command are one step.   *)

ConnAfter(socks) ==
    [p \in Peers |-> IF p \in socks /\ conn[p] = "closed" THEN "reset" ELSE conn[p]]

Survives(socks) == \A p \in socks : conn[p] # "reset"

Write(socks) ==
    /\ conn' = ConnAfter(socks)
    /\ mode' = IF Survives(socks) THEN "up" ELSE "dead"

Prompt(p) == prompted' = [prompted EXCEPT ![p] = TRUE]

----------------------------------------------------------------------------
(* The select loop                                                         *)

Looping == mode = "up" /\ running = Nobody

Readable ==
    {p \in Peers \cap master : inbox[p] # <<>> \/ conn[p] \in {"closed", "reset"}}
    \cup {s \in {Listener} : \E p \in Peers : conn[p] = "knocking"}

Select ==
    /\ Looping
    /\ read_fds = {}
    /\ Readable # {}
    /\ read_fds' = Readable
    /\ UNCHANGED <<peerVars, tableVars, inputVars, pipeVars, lineVars, mode>>

Unused == {u \in Uids : clients[u] = Nobody}

SmallestUnused == CHOOSE u \in Unused : \A v \in Unused : u <= v

\* accept, insert_new_client_and_its_user_id, the welcome and the broadcast.
\* With no position free the client is written past the end of the table.
Accept(p) ==
    /\ Looping
    /\ Listener \in read_fds
    /\ conn[p] = "knocking"
    /\ Unused # {}
    /\ master' = master \cup {p}
    /\ clients' = [clients EXCEPT ![SmallestUnused] = p]
    /\ name' = [name EXCEPT ![SmallestUnused] = NoName]
    /\ open_sockets' = open_sockets \cup {p}
    /\ conn' = [ConnAfter(open_sockets) EXCEPT ![p] = "open"]
    /\ mode' = IF Survives(open_sockets) THEN "up" ELSE "dead"
    /\ Prompt(p)
    /\ read_fds' = read_fds \ {Listener}
    /\ UNCHANGED <<inbox, sent, inputVars, pipeVars, lineVars>>

AcceptPastEnd ==
    /\ Looping
    /\ Listener \in read_fds
    /\ Unused = {}
    /\ mode' = "dead"
    /\ UNCHANGED <<peerVars, tableVars, read_fds, inputVars, pipeVars, lineVars>>

----------------------------------------------------------------------------
(* execute: std::getline(std::cin) with the client's socket as descriptor  *)
(* 0.  What the buffer still holds comes first, whoever sent it; only an   *)
(* empty buffer is filled, with all that the socket has.  The listener has *)
(* the smallest descriptor, so it is served before the clients.            *)

Buffered(p) ==
    IF cin # <<>> THEN cin
    ELSE [n \in DOMAIN inbox[p] |-> [owner |-> p, line |-> inbox[p][n]]]

\* The line that execute(p) gets, and whose it is.
Got(p) ==
    IF cinFailed \/ Buffered(p) = <<>> THEN [owner |-> p, line |-> NoLine]
    ELSE Head(Buffered(p))

TakeLine(p) ==
    /\ cin' = IF cinFailed \/ Buffered(p) = <<>> THEN cin ELSE Tail(Buffered(p))
    /\ cinFailed' = (cinFailed \/ Buffered(p) = <<>>)

\* The socket is left empty when the buffer was filled from it.
InboxAfter(p) ==
    IF cinFailed \/ cin # <<>> THEN inbox ELSE [inbox EXCEPT ![p] = <<>>]

Execute(p, kind) ==
    /\ Looping
    /\ Listener \notin read_fds
    /\ p \in read_fds
    /\ read_fds' = read_fds \ {p}
    /\ Got(p).line.kind = kind
    /\ TakeLine(p)

\* An empty line, which is also what a failed std::cin yields, and the
\* lines that only print.
PrintOnly(p) ==
    /\ \E kind \in {"none", "print"} : Execute(p, kind)
    /\ inbox' = InboxAfter(p)
    /\ Write({p})
    /\ Prompt(p)
    /\ UNCHANGED <<sent, tableVars, pipeVars, lineVars>>

Yell(p) ==
    /\ Execute(p, "yell")
    /\ inbox' = InboxAfter(p)
    /\ Write(open_sockets)
    /\ Prompt(p)
    /\ UNCHANGED <<sent, tableVars, pipeVars, lineVars>>

\* clients.at(target_uid - 1) throws, as stoi does for what is no number.  (So
\* do a setenv without a value and a <N or >N without a number; this action
\* stands for them.)
TellsOutside(p) == Got(p).line.kind = "tell" /\ Got(p).line.who \notin Uids

TellOutside(p) ==
    /\ Execute(p, "tell")
    /\ TellsOutside(p)
    /\ inbox' = InboxAfter(p)
    /\ mode' = "dead"
    /\ UNCHANGED <<conn, prompted, sent, tableVars, pipeVars, lineVars>>

Tell(p) ==
    /\ Execute(p, "tell")
    /\ ~TellsOutside(p)
    /\ inbox' = InboxAfter(p)
    /\ LET who == Got(p).line.who
       IN  Write(IF Exists(who) THEN {p, clients[who]} ELSE {p})
    /\ Prompt(p)
    /\ UNCHANGED <<sent, tableVars, pipeVars, lineVars>>

\* Mutant: only the first client's name is compared.
TakenByFirst(new) == clients[1] # Nobody /\ name[1] = new

Taken(new) == \E u \in Uids : clients[u] # Nobody /\ name[u] = new

Name(p) ==
    /\ Execute(p, "name")
    /\ inbox' = InboxAfter(p)
    /\ LET new == Got(p).line.new
       IN  \/ Taken(new) /\ Write({p}) /\ UNCHANGED name
           \/ ~Taken(new) /\ Write(open_sockets) /\ name' = [name EXCEPT ![UidOf(p)] = new]
    /\ Prompt(p)
    /\ UNCHANGED <<sent, clients, open_sockets, master, pipeVars, lineVars>>

\* Mutant: the pipes to the user who leaves are left.
NotFrom(u) == {q \in user_pipes : q.from # u}

\* The pipes delete_all_files_associate_to leaves.
NotOf(u) == {q \in user_pipes : q.from # u /\ q.to # u}

\* Mutant: the socket stays among those a broadcast goes to.
StillWith(p) == open_sockets

Without(p) == open_sockets \ {p}

\* Mutant: opened_user_pipe is one shorter.
HasPipesShort(u) == u + 1 < MaxUsers

\* opened_user_pipe.at(u) does not throw: the last position is past its end.
HasPipes(u) == u < MaxUsers

\* exit: "left" is broadcast, then the client is taken out of everything.
Exit(p) ==
    /\ Execute(p, "exit")
    /\ LET me == UidOf(p)
       IN  /\ clients' = [clients EXCEPT ![me] = Nobody]
           /\ name' = [name EXCEPT ![me] = NoName]
           /\ user_pipes' = NotOf(me)
           /\ mode' = IF Survives(open_sockets) /\ HasPipes(me) THEN "up" ELSE "dead"
    /\ open_sockets' = Without(p)
    /\ master' = master \ {p}
    /\ conn' = [ConnAfter(open_sockets) EXCEPT ![p] = "gone"]
    /\ inbox' = [inbox EXCEPT ![p] = <<>>]
    /\ UNCHANGED <<prompted, sent, to_remove, lineVars>>

----------------------------------------------------------------------------
(* fork_and_exec: the commands of a line are started one after the other,  *)
(* each after its user pipes have been looked up.                          *)

StartLine(p) ==
    /\ Execute(p, "run")
    /\ inbox' = InboxAfter(p)
    /\ running' = p
    /\ cmds' = Got(p).line.cmds
    /\ files_to_close' = {}
    /\ stuck' = FALSE
    /\ UNCHANGED <<conn, prompted, sent, tableVars, pipeVars, mode>>

\* PostOffice::erase finds the pipe from another user (the vectors it looks
\* in are too few for the last position) ...
From(u) == {q \in user_pipes : q.from = u /\ q.to = UidOf(running)}

CanRead(u) == u # 0 => Exists(u) /\ HasPipes(u) /\ From(u) # {}

\* ... and insert, after that, that there is none to the other user yet.
CanPipe(c) ==
    c.to # 0 => /\ Exists(c.to)
                /\ HasPipes(UidOf(running))
                /\ \A q \in user_pipes \ From(c.from) : q.from = UidOf(running) => q.to # c.to

\* A command that reads a pipe whose write end the server holds never sees
\* its end; one that overfills a pipe nobody reads never gets to its own.
NeverEnds(c) == (\E q \in From(c.from) : q.held # "no") \/ (c.to # 0 /\ c.big)

Made(u) == IF u = 0 THEN {} ELSE {Pipe(UidOf(running), u)}

\* Mutant: the write end is not put among the descriptors to close.
ToCloseNothing(u) == {}

ToClose(u) == IF u = 0 THEN {} ELSE {u}

\* A command that neither reads nor writes a user pipe broadcasts nothing.
Told(c) == IF c.from = 0 /\ c.to = 0 THEN {} ELSE open_sockets

StartCommand ==
    /\ mode = "up"
    /\ running # Nobody
    /\ cmds # <<>>
    /\ LET c == Head(cmds)
       IN  /\ CanRead(c.from)
           /\ CanPipe(c)
           /\ user_pipes' = (user_pipes \ From(c.from)) \cup Made(c.to)
           /\ to_remove' = to_remove \cup From(c.from)
           /\ files_to_close' = files_to_close \cup ToClose(c.to)
           /\ stuck' = (stuck \/ NeverEnds(c))
           /\ Write(Told(c))
    /\ cmds' = Tail(cmds)
    /\ UNCHANGED <<inbox, prompted, sent, tableVars, read_fds, inputVars, running>>

EndLine ==
    /\ running' = Nobody
    /\ cmds' = <<>>
    /\ files_to_close' = {}
    /\ stuck' = FALSE

\* The running line has made this pipe and is to close its write end.
OfThisLine(q) == q.from = UidOf(running) /\ q.to \in files_to_close

\* What becomes of the write ends of the line when it ends.
Ended(pipes, how) ==
    {[q EXCEPT !.held = IF @ = "line" /\ OfThisLine(q) THEN how ELSE @] : q \in pipes}

\* A user pipe cannot be had: fork_and_exec returns there and then, with the
\* pipe that was read gone from the table and no write end closed.
GiveUp ==
    /\ mode = "up"
    /\ running # Nobody
    /\ cmds # <<>>
    /\ LET c == Head(cmds)
           readable == CanRead(c.from)
           taken == IF readable THEN From(c.from) ELSE {}
       IN  /\ ~(readable /\ CanPipe(c))
           /\ user_pipes' = Ended(user_pipes \ taken, "ever")
           /\ to_remove' = Ended(to_remove \cup taken, "ever")
           /\ Write({running} \cup (IF taken = {} THEN {} ELSE open_sockets))
    /\ Prompt(running)
    /\ EndLine
    /\ UNCHANGED <<inbox, sent, tableVars, read_fds, inputVars>>

\* Every command has been waited for: the write ends are closed, and the
\* read ends of the pipes that were read.
FinishLine ==
    /\ mode = "up"
    /\ running # Nobody
    /\ cmds = <<>>
    /\ ~stuck
    /\ user_pipes' = Ended(user_pipes, "no")
    /\ to_remove' = {}
    /\ Write({running})
    /\ Prompt(running)
    /\ EndLine
    /\ UNCHANGED <<inbox, sent, tableVars, read_fds, inputVars>>

WaitForEver ==
    /\ mode = "up"
    /\ running # Nobody
    /\ cmds = <<>>
    /\ stuck
    /\ mode' = "blocked"
    /\ UNCHANGED <<peerVars, tableVars, read_fds, inputVars, pipeVars, lineVars>>

----------------------------------------------------------------------------
Serve(p) ==
    \/ PrintOnly(p) \/ Yell(p) \/ Tell(p) \/ TellOutside(p)
    \/ Name(p) \/ Exit(p) \/ StartLine(p)

Server ==
    \/ Select \/ AcceptPastEnd
    \/ \E p \in Peers : Accept(p) \/ Serve(p)
    \/ StartCommand \/ GiveUp \/ FinishLine \/ WaitForEver

Client(p) == Connect(p) \/ Send(p) \/ Vanish(p)

Next == Server \/ \E p \in Peers : Client(p)

\* The one thread of the server runs on as long as it has something to do;
\* clients need not do anything.
Spec == Init /\ [][Next]_vars /\ WF_vars(Server)

----------------------------------------------------------------------------
(* Properties                                                              *)

Conns == {"away", "knocking", "open", "closed", "reset", "gone"}

Pipes ==
    [from : Uids, to : Uids, sender : Peers, receiver : Peers, held : {"no", "line", "ever"}]

\* Every variable that the server's decisions depend on has its type.
TypeOK ==
    /\ conn \in [Peers -> Conns]
    /\ clients \in [Uids -> Peers \cup {Nobody}]
    /\ open_sockets \subseteq Peers
    /\ master \subseteq Peers \cup {Listener}
    /\ read_fds \subseteq Peers \cup {Listener}
    /\ cinFailed \in BOOLEAN
    /\ user_pipes \subseteq Pipes
    /\ to_remove \subseteq Pipes
    /\ running \in Peers \cup {Nobody}
    /\ files_to_close \subseteq Uids
    /\ stuck \in BOOLEAN
    /\ mode \in {"up", "blocked", "dead"}

\* The records of who is connected agree: a socket is watched, broadcast to
\* and in the table, at one position only, exactly while it is connected,
\* and whoever is still to be served in this round is one of them.
Registry ==
    /\ open_sockets = master \ {Listener}
    /\ open_sockets = {p \in Peers : \E u \in Uids : clients[u] = p}
    /\ open_sockets = {p \in Peers : conn[p] \in {"open", "closed", "reset"}}
    /\ \A u, v \in Uids : clients[u] = clients[v] /\ clients[u] # Nobody => u = v
    /\ read_fds \subseteq master

\* Spec 4.3: no two users on line have the same name, unless it is unset.
NamesUnique ==
    \A u, v \in Uids :
        clients[u] # Nobody /\ clients[v] # Nobody /\ name[u] = name[v] /\ u # v
            => name[u] = NoName

\* Spec 5 (5): a user pipe belongs to the two users it was made between: it
\* never outlives one of them to be found by a later user of the same id.
PipesBetween ==
    \A q \in user_pipes : clients[q.from] = q.sender /\ clients[q.to] = q.receiver

\* Spec 4.4: there is one user pipe at most from one user to another.
OnePipeEach ==
    \A q, r \in user_pipes : q.from = r.from /\ q.to = r.to => q = r

\* The server keeps no write end of a user pipe but those of the line it is at,
\* which that line will close, and those of lines it has given up: whoever reads
\* another pipe sees the end of it.
WriteEndsClosed ==
    \A q \in user_pipes : q.held = "line" => running # Nobody /\ OfThisLine(q)

\* A line is executed for the client that sent it, not for another.
Attribution ==
    [][\A p \in Peers : p \in read_fds \ read_fds' => Got(p).owner = p]_vars

\* One client spoils the server for the others in these ways only.  It goes deaf
\* (the fail bit of std::cin) when a client closes without exit, and it ends when
\* it writes to one who has, when all positions have been taken, or when
\* somebody tells a user outside the table something (or the like).
Contained ==
    [][ /\ cinFailed' # cinFailed => \E p \in open_sockets : conn[p] \in {"closed", "reset"}
        /\ mode = "up" /\ mode' = "dead" =>
              \/ \E p \in open_sockets : conn[p] = "reset"
              \/ clients[MaxUsers] # Nobody
              \/ \E p \in read_fds \cap Peers : TellsOutside(p) ]_vars

\* The server waits for ever: for a command that overfills a user pipe, for the
\* reader of a pipe that was leaked when its line was given up, or for one in
\* the line that also writes to it.
Waiting == mode = "blocked" /\ \A q \in to_remove : q.held = "line" => OfThisLine(q)

\* A line is answered with a prompt, unless its client has left by then.
Answered ==
    \A p \in Peers :
        (conn[p] = "open" /\ ~prompted[p])
            ~> (prompted[p] \/ conn[p] # "open" \/ mode = "dead" \/ Waiting)
============================================================================
