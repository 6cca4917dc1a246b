------------------------------ MODULE CgiServer ------------------------------
(***************************************************************************)
(* The all-in-one CGI server (pj3/main.cpp): one process with one          *)
(* io_service serves every browser, and plays the files of a console page  *)
(* to its hosts itself.  What console.cgi has in a process of its own is   *)
(* shared here: the table of hosts of FancyConsole, which is never         *)
(* cleared, the thread, which stands still while a write to a browser      *)
(* blocks, and the one try of main, which any exception leaves.            *)
(*                                                                         *)
(* A slot's session is named <<browser, slot>>.  Console is about what a   *)
(* prompt is; here each read returns "text", or "prompt".                  *)
(***************************************************************************)
EXTENDS Naturals, Sequences, FiniteSets

CONSTANTS
    Browsers,  \* each of which asks once
    NumSlots,  \* length of FancyConsole::hosts (5)
    Target,    \* what each may ask for, a set of Targets
    Query,     \* the name, port and file each gives for each slot, "" for none
    Leaving,   \* browsers that may go away
    Reached,   \* <<name, port>> pairs at which a shell answers
    Script,    \* the lines of each file
    Wordy,     \* the lines a shell may answer in two reads
    Dying,     \* sessions whose shell may break off
    Window     \* writes that a browser's connection holds unread

Slots == 1..NumSlots
Sessions == Browsers \X Slots

\* A request that comes in two reads has no target, as one that the parser
\* throws at ("throws") has none; "other" is also any target but the two.
Targets == {"panel", "console", "other", "throws"}

Fields == {"name", "port", "file"}

\* What a session may have for its file: a name in a query, or none.
Files == {""} \cup {Query[c[1]][c[2]].file : c \in Sessions}

\* "text" stands for what a shell prints, and is no line of a file.
ASSUME CgiServerAssumption ==
    /\ NumSlots \in Nat
    /\ \A b \in Browsers : Target[b] \subseteq Targets
    /\ \A f \in Files : \A i \in 1..Len(Script[f]) : Script[f][i] # "text"
    /\ Leaving \subseteq Browsers
    /\ Dying \subseteq Sessions
    /\ Window \in Nat \ {0}

VARIABLES
    mode,      \* "up", or "dead" by an exception
    hosts,     \* FancyConsole::hosts
    served,    \* the console pages so far, in order
    conn,      \* each browser: "away", what it asks for, "open", "over",
               \* and "closed" or "reset" when it has left
    unread,    \* what is written to it and not read yet
    client,    \* each session's Client
    host,      \* the host it was made for
    line,      \* lines it has read from its file
    page,      \* what the page shows for it
    shell,     \* the shell it talks to: "away", "owes", "midway", "idle", "gone"
    asked,     \* the line that shell is at
    out,       \* what it has printed and the Client not read
    busy,      \* the session whose handler is at a write, or Nobody
    todo       \* what that handler has still to write, and to whom

requestVars == <<hosts, served, host>>
shellVars == <<shell, asked, out>>
handlerVars == <<busy, todo>>
vars == <<mode, requestVars, conn, unread, client, line, page, shellVars, handlerVars>>

----------------------------------------------------------------------------
NoHost == [f \in Fields |-> ""]

Nobody == <<>>

Init ==
    /\ mode = "up"
    /\ hosts = [s \in Slots |-> NoHost]
    /\ served = <<>>
    /\ conn = [b \in Browsers |-> "away"]
    /\ unread = [b \in Browsers |-> 0]
    /\ client = [c \in Sessions |-> "none"]
    /\ host = [c \in Sessions |-> NoHost]
    /\ line = [c \in Sessions |-> 0]
    /\ page = [c \in Sessions |-> <<>>]
    /\ shell = [c \in Sessions |-> "away"]
    /\ asked = [c \in Sessions |-> "greeting"]
    /\ out = [c \in Sessions |-> "none"]
    /\ busy = Nobody
    /\ todo = <<>>

\* The event loop is free for the next handler.
Free == mode = "up" /\ busy = Nobody

----------------------------------------------------------------------------
(* Requests: accept, the one read of a Session and what it starts.         *)

Ask(b) ==
    /\ conn[b] = "away"
    /\ \E target \in Target[b] : conn' = [conn EXCEPT ![b] = target]
    /\ UNCHANGED <<mode, requestVars, unread, client, line, page, shellVars, handlerVars>>

\* The panel, or nothing; a session that nothing refers to closes its connection.
ServeAtOnce(b) ==
    /\ Free
    /\ conn[b] \in {"panel", "other"}
    /\ conn' = [conn EXCEPT ![b] = "over"]
    /\ UNCHANGED <<mode, requestVars, unread, client, line, page, shellVars, handlerVars>>

ServeThrows(b) ==
    /\ Free
    /\ conn[b] = "throws"
    /\ mode' = "dead"
    /\ UNCHANGED <<requestVars, conn, unread, client, line, page, shellVars, handlerVars>>

\* Mutant: the value is stored whether or not it is empty.
NamedAll(b) == Query[b]

\* What the table holds after the query: an empty value leaves a field alone.
Named(b) ==
    [s \in Slots |-> [f \in Fields |->
        IF Query[b][s][f] = "" THEN hosts[s][f] ELSE Query[b][s][f]]]

\* The page lists every host there is in the table, and each gets a Client.
ServeConsole(b) ==
    /\ Free
    /\ conn[b] = "console"
    /\ hosts' = Named(b)
    /\ served' = Append(served, b)
    /\ host' = [c \in Sessions |-> IF c[1] = b THEN hosts'[c[2]] ELSE host[c]]
    /\ client' = [c \in Sessions |->
                    IF c[1] = b /\ hosts'[c[2]] # NoHost THEN "resolving" ELSE client[c]]
    /\ conn' = [conn EXCEPT ![b] = IF hosts' = [s \in Slots |-> NoHost] THEN "over" ELSE "open"]
    /\ unread' = [unread EXCEPT ![b] = @ + 1]
    /\ UNCHANGED <<mode, line, page, shellVars, handlerVars>>

----------------------------------------------------------------------------
(* A Client: every handler that starts no other operation ends it, and the *)
(* last one of a page ends the page.                                       *)

\* Mutant: the Session and its Clients refer to each other, and stay.
EndKeeping(c) ==
    /\ client' = [client EXCEPT ![c] = "closed"]
    /\ conn' = conn

End(c) ==
    /\ client' = [client EXCEPT ![c] = "closed"]
    /\ conn' = [conn EXCEPT ![c[1]] =
                  IF @ = "open" /\ \A s \in Slots : client'[<<c[1], s>>] \in {"none", "closed"}
                  THEN "over" ELSE @]

Reachable(c) == <<host[c].name, host[c].port>> \in Reached

Resolved(c) ==
    /\ Free
    /\ client[c] = "resolving"
    /\ \/ client' = [client EXCEPT ![c] = "connecting"] /\ UNCHANGED conn
       \/ ~Reachable(c) /\ End(c)
    /\ UNCHANGED <<mode, requestVars, unread, line, page, shellVars, handlerVars>>

\* Mutant: an error throws.
ConnectedOrThrows(c) ==
    /\ Free
    /\ client[c] = "connecting"
    /\ IF Reachable(c)
       THEN /\ client' = [client EXCEPT ![c] = "reading"]
            /\ shell' = [shell EXCEPT ![c] = "owes"]
            /\ UNCHANGED <<mode, conn>>
       ELSE mode' = "dead" /\ End(c) /\ UNCHANGED shell
    /\ UNCHANGED <<requestVars, unread, line, page, asked, out, handlerVars>>

Connected(c) ==
    /\ Free
    /\ client[c] = "connecting"
    /\ IF Reachable(c)
       THEN /\ client' = [client EXCEPT ![c] = "reading"]
            /\ shell' = [shell EXCEPT ![c] = "owes"]
            /\ UNCHANGED conn
       ELSE End(c) /\ UNCHANGED shell
    /\ UNCHANGED <<mode, requestVars, unread, line, page, asked, out, handlerVars>>

\* Mutant: the file is looked up when a line is wanted.
LineOfTable(c) ==
    LET lines == Script[hosts[c[2]].file]
    IN  IF line[c] < Len(lines) THEN lines[line[c] + 1] ELSE ""

\* getline, the n-th time; past the end of the file the line is empty.
LineAt(c, n) ==
    LET lines == Script[host[c].file]
    IN  IF n <= Len(lines) THEN lines[n] ELSE ""

\* The next line of the file opened when the Client was made.
LineOf(c) == LineAt(c, line[c] + 1)

ToBrowser(text) == [to |-> "browser", text |-> text]
ToShell(text) == [to |-> "shell", text |-> text]

\* The read handler: all that was read goes to the browser; if there was a
\* prompt a line is taken and goes to the browser and to the shell.
Read(c) ==
    /\ Free
    /\ client[c] = "reading"
    /\ out[c] # "none"
    /\ out' = [out EXCEPT ![c] = "none"]
    /\ busy' = c
    /\ IF out[c] = "prompt"
       THEN /\ todo' = <<ToBrowser("prompt"), ToBrowser(LineOf(c)), ToShell(LineOf(c))>>
            /\ line' = [line EXCEPT ![c] = @ + 1]
       ELSE todo' = <<ToBrowser("text")>> /\ UNCHANGED line
    /\ UNCHANGED <<mode, requestVars, conn, unread, client, page, shell, asked>>

\* The next step of the handler that has begun; the last one starts a new read.
Writing(c, to) ==
    /\ mode = "up"
    /\ busy = c
    /\ Head(todo).to = to
    /\ todo' = Tail(todo)
    /\ busy' = IF Tail(todo) = <<>> THEN Nobody ELSE c

\* boost::asio::write to the browser waits for room.  The first write to a
\* browser that has left is answered with a reset, the next one throws.
Write(c) ==
    /\ Writing(c, "browser")
    /\ LET b == c[1]
       IN  \/ /\ conn[b] = "open"
              /\ unread[b] < Window
              /\ unread' = [unread EXCEPT ![b] = @ + 1]
              /\ page' = [page EXCEPT ![c] = Append(@, Head(todo).text)]
              /\ UNCHANGED <<mode, conn>>
           \/ /\ conn[b] = "closed"
              /\ conn' = [conn EXCEPT ![b] = "reset"]
              /\ UNCHANGED <<mode, unread, page>>
           \/ /\ conn[b] = "reset"
              /\ mode' = "dead"
              /\ UNCHANGED <<conn, unread, page>>
    /\ UNCHANGED <<requestVars, client, line, shellVars>>

\* Writing to a shell that has gone may throw.
Command(c) ==
    /\ Writing(c, "shell")
    /\ \/ /\ shell' = [shell EXCEPT ![c] = IF @ = "idle" THEN "owes" ELSE @]
          /\ asked' = [asked EXCEPT ![c] = Head(todo).text]
          /\ UNCHANGED mode
       \/ /\ shell[c] = "gone"
          /\ mode' = "dead"
          /\ UNCHANGED <<shell, asked>>
    /\ UNCHANGED <<requestVars, conn, unread, client, line, page, out>>

ReadError(c) ==
    /\ Free
    /\ client[c] = "reading"
    /\ shell[c] = "gone"
    /\ out[c] = "none"
    /\ End(c)
    /\ UNCHANGED <<mode, requestVars, unread, line, page, shellVars, handlerVars>>

----------------------------------------------------------------------------
(* The shells and the browsers                                             *)

\* A line: exit, or a command with its output in one read or in two.  The
\* shell answers no empty line (Console has those).
Answer(c) ==
    /\ shell[c] \in {"owes", "midway"}
    /\ out[c] = "none"
    /\ \/ /\ asked[c] = "exit"
          /\ shell' = [shell EXCEPT ![c] = "gone"]
          /\ UNCHANGED out
       \/ /\ asked[c] \in Wordy
          /\ shell[c] = "owes"
          /\ shell' = [shell EXCEPT ![c] = "midway"]
          /\ out' = [out EXCEPT ![c] = "text"]
       \/ /\ asked[c] \notin {"exit", ""}
          /\ shell' = [shell EXCEPT ![c] = "idle"]
          /\ out' = [out EXCEPT ![c] = "prompt"]
    /\ UNCHANGED <<mode, requestVars, conn, unread, client, line, page, asked, handlerVars>>

Die(c) ==
    /\ c \in Dying
    /\ shell[c] \in {"owes", "midway", "idle"}
    /\ shell' = [shell EXCEPT ![c] = "gone"]
    /\ UNCHANGED <<mode, requestVars, conn, unread, client, line, page, asked, out, handlerVars>>

Receive(b) ==
    /\ conn[b] = "open"
    /\ unread[b] > 0
    /\ unread' = [unread EXCEPT ![b] = @ - 1]
    /\ UNCHANGED <<mode, requestVars, conn, client, line, page, shellVars, handlerVars>>

Leave(b) ==
    /\ b \in Leaving
    /\ conn[b] = "open"
    /\ conn' = [conn EXCEPT ![b] = IF unread[b] = 0 THEN "closed" ELSE "reset"]
    /\ UNCHANGED <<mode, requestVars, unread, client, line, page, shellVars, handlerVars>>

----------------------------------------------------------------------------
Serve(b) == ServeAtOnce(b) \/ ServeThrows(b) \/ ServeConsole(b)

Handler(c) ==
    Resolved(c) \/ Connected(c) \/ Read(c) \/ Write(c) \/ Command(c) \/ ReadError(c)

Next ==
    \/ \E b \in Browsers : Ask(b) \/ Serve(b) \/ Receive(b) \/ Leave(b)
    \/ \E c \in Sessions : Handler(c) \/ Answer(c) \/ Die(c)

\* io_service serves whatever is ready; shells answer; browsers that are there
\* read their page.
Spec ==
    /\ Init
    /\ [][Next]_vars
    /\ \A b \in Browsers : WF_vars(Serve(b)) /\ WF_vars(Receive(b))
    /\ \A c \in Sessions : WF_vars(Handler(c)) /\ WF_vars(Answer(c))

----------------------------------------------------------------------------
(* Properties                                                              *)

\* How many prompts and lines are among the first n texts of a sequence.
Said(texts, n) == Cardinality({i \in 1..n : texts[i] # "text"})

\* Every session shows the dialogue with its own file, in order, each line once
\* and after the prompt it answers, although the handlers of all pages share a
\* thread that stops in their middle, and a later request may change the table
\* while the file is being played.  Client::read, FancyConsole::hosts.
Transcript ==
    \A c \in Sessions : \A n \in DOMAIN page[c] :
        page[c][n] # "text" =>
            LET said == Said(page[c], n)
            IN  page[c][n] = IF said % 2 = 1 THEN "prompt" ELSE LineAt(c, said \div 2)

\* The place of a browser's request among those for console pages.
Turn(b) == CHOOSE n \in DOMAIN served : served[n] = b

\* Who named field f of slot s last, up to the n-th request for a console.
Namers(n, s, f) == {k \in 1..n : Query[served[k]][s][f] # ""}

\* The value they left, of an empty table.
LastSaid(n, s, f) ==
    LET namers == Namers(n, s, f)
    IN  IF namers = {} THEN ""
        ELSE Query[served[CHOOSE k \in namers : \A m \in namers : m <= k]][s][f]

\* A session is never made for a host that nobody named: each of its fields is
\* what its own request says or, where that says nothing, what the last request
\* before it said, whoever made that.  get_console_cgi_write_string.
LastNamed ==
    \A c \in Sessions : client[c] # "none" =>
        \A f \in Fields : host[c][f] = LastSaid(Turn(c[1]), c[2], f)

\* The server does not die of a host that cannot be reached or of a shell that
\* was told to exit, only of a request its parser throws at, of a browser that
\* left its page, or of a shell that broke off by itself.  io_service.run.
Contained ==
    mode = "dead" =>
        \/ \E b \in Browsers : conn[b] = "throws"
        \/ \E b \in Leaving : conn[b] = "reset"
        \/ \E c \in Dying : shell[c] = "gone" /\ asked[c] # "exit"

\* A page comes to its end: once a shell has gone, or its host cannot be reached,
\* no pending operation keeps the browser's connection open.
PageEnds ==
    \A b \in Browsers :
        (conn[b] = "open" /\ \A s \in Slots : LET c == <<b, s>> IN
                                client[c] \in {"none", "closed"} \/ shell[c] = "gone" \/ ~Reachable(c))
            ~> (conn[b] # "open" \/ mode = "dead")
============================================================================
