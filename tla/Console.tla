------------------------------ MODULE Console ------------------------------
(***************************************************************************)
(* console.cgi (pj4, and pj3 without the proxy): one process plays the     *)
(* lines of one file per host to the shell on that host, each line when it *)
(* sees a prompt, and writes the dialogue into the page.  The sessions are *)
(* started one after the other by main, through a SOCKS server when the    *)
(* query names one, and then served by one io_service.                     *)
(*                                                                         *)
(* What a shell prints is a sequence of the tokens "percent" (a %),        *)
(* "space" and "text"; a prompt is a "percent" with a "space" after it.    *)
(* Lines are strings of their own.                                         *)
(***************************************************************************)
EXTENDS Naturals, Sequences, SequencesExt

CONSTANTS
    NumHosts,   \* the hosts of the query are 1..NumHosts
    Script,     \* the lines of the file of each host
    Output,     \* what a shell prints for each line
    Down,       \* hosts that cannot be reached
    Dying,      \* hosts whose shell may close the connection at any time
    Splitting,  \* hosts whose prompt may arrive in two reads
    MaxEmpty    \* bound: empty lines a shell answers

Hosts == 1..NumHosts

Tokens == {"percent", "space", "text"}

ASSUME ConsoleAssumption ==
    /\ NumHosts \in Nat
    /\ Down \cup Dying \cup Splitting \subseteq Hosts
    /\ MaxEmpty \in Nat
    /\ \A cmd \in DOMAIN Output : Output[cmd] \in Seq(Tokens)
    /\ \A h \in Hosts : Script[h] \in Seq(DOMAIN Output)

VARIABLES
    proxied,    \* does the query name a SOCKS server?
    mode,       \* "starting", "serving", "ended" or, by an exception, "dead"
    next,       \* the host main starts next
    session,    \* what the session of each host is at
    line,       \* lines read from each file
    page,       \* what the page shows for each host
    shell,      \* the shell on each host
    answered,   \* the empty lines it has answered
    toConsole,  \* tokens in the kernel's queue from the shell
    toShell     \* lines in the kernel's queue to it

vars == <<proxied, mode, next, session, line, page, shell, answered,
          toConsole, toShell>>

----------------------------------------------------------------------------
Prompt == <<"percent", "space">>

Init ==
    /\ proxied \in BOOLEAN
    /\ mode = "starting"
    /\ next = 1
    /\ session = [h \in Hosts |-> "none"]
    /\ line = [h \in Hosts |-> 0]
    /\ page = [h \in Hosts |-> <<>>]
    /\ shell = [h \in Hosts |-> "away"]
    /\ answered = [h \in Hosts |-> 0]
    /\ toConsole = [h \in Hosts |-> <<>>]
    /\ toShell = [h \in Hosts |-> <<>>]

----------------------------------------------------------------------------
(***************************************************************************)
(* main and the start of a session.                                        *)
(***************************************************************************)
\* A connection to the shell, which greets.
Meet(h) ==
    /\ session' = [session EXCEPT ![h] = "reading"]
    /\ shell' = [shell EXCEPT ![h] = "up"]
    /\ toConsole' = [toConsole EXCEPT ![h] = <<"text">> \o Prompt]
    /\ UNCHANGED <<proxied, line, page, answered, toShell>>

Stay(h, state) ==
    /\ session' = [session EXCEPT ![h] = state]
    /\ UNCHANGED <<proxied, line, page, shell, answered, toConsole, toShell>>

Starting(h) == mode = "starting" /\ next = h

\* client::resolve only starts the resolution.
StartDirect(h) ==
    /\ Starting(h) /\ ~proxied
    /\ next' = next + 1
    /\ Stay(h, "resolving")
    /\ UNCHANGED mode

\* client_with_socks::resolve waits for the reply of the SOCKS server, which is
\* an accept, a reject, or no reply when the host cannot be reached: reading
\* it throws then, and nobody catches.  A name that does not resolve and a SOCKS
\* server that is not there throw before; they count as such a host.
StartProxied(h) ==
    /\ Starting(h) /\ proxied
    /\ \/ h \notin Down /\ next' = next + 1 /\ UNCHANGED mode /\ Meet(h)
       \/ next' = next + 1 /\ UNCHANGED mode /\ Stay(h, "rejected")
       \/ h \in Down /\ mode' = "dead" /\ UNCHANGED next /\ Stay(h, "none")

Run ==
    /\ mode = "starting"
    /\ next > NumHosts
    /\ mode' = "serving"
    /\ UNCHANGED <<proxied, next, session, line, page, shell, answered,
                   toConsole, toShell>>

Resolved(h) ==
    /\ mode = "serving"
    /\ session[h] = "resolving"
    /\ \/ Stay(h, "connecting")
       \/ h \in Down /\ Stay(h, "closed")
    /\ UNCHANGED <<mode, next>>

\* Mutant of Connected: as client_with_socks, an error throws.
ConnectedOrThrows(h) ==
    /\ mode = "serving"
    /\ session[h] = "connecting"
    /\ IF h \in Down THEN mode' = "dead" /\ Stay(h, "closed")
                      ELSE Meet(h) /\ UNCHANGED mode
    /\ UNCHANGED next

Connected(h) ==
    /\ mode = "serving"
    /\ session[h] = "connecting"
    /\ IF h \in Down THEN Stay(h, "closed") ELSE Meet(h)
    /\ UNCHANGED <<mode, next>>

----------------------------------------------------------------------------
(***************************************************************************)
(* read_handler.                                                           *)
(***************************************************************************)
\* What one read may return.
Reads(h) ==
    {data \in {SubSeq(toConsole[h], 1, n) : n \in 1..Len(toConsole[h])} :
        h \in Splitting \/ Last(data) # "percent" \/ data = toConsole[h]}

\* Mutants of HasPrompt: the space is not looked for, or nothing may stand
\* before the prompt.
HasPercent(data) == \E i \in 1..Len(data) : data[i] = "percent"
IsPrompt(data) == data = Prompt

\* data.find("% ")
HasPrompt(data) == \E i \in 1..Len(data) - 1 : SubSeq(data, i, i + 1) = Prompt

\* getline: past the end of the file the line is empty.
NextLine(h) == IF line[h] < Len(Script[h]) THEN Script[h][line[h] + 1] ELSE ""

\* Writing to a connection that the shell has closed may throw, and nobody
\* catches.
Read(h) ==
    /\ mode = "serving"
    /\ session[h] = "reading"
    /\ \E data \in Reads(h) :
          /\ toConsole' = [toConsole EXCEPT ![h] = SubSeq(@, Len(data) + 1, Len(@))]
          /\ IF HasPrompt(data)
             THEN /\ line' = [line EXCEPT ![h] = Min({@ + 1, Len(Script[h])})]
                  /\ page' = [page EXCEPT ![h] = @ \o data \o <<NextLine(h)>>]
                  /\ \/ /\ toShell' = [toShell EXCEPT ![h] =
                                          IF shell[h] = "up" THEN Append(@, NextLine(h)) ELSE @]
                        /\ UNCHANGED mode
                     \/ /\ shell[h] = "gone"
                        /\ mode' = "dead"
                        /\ UNCHANGED toShell
             ELSE /\ page' = [page EXCEPT ![h] = @ \o data]
                  /\ UNCHANGED <<line, toShell, mode>>
    /\ UNCHANGED <<proxied, next, session, shell, answered>>

\* Mutant of ReadError: the read is started again.
ReadErrorRetried(h) == mode = "serving" /\ session[h] = "reading" /\ UNCHANGED vars

\* An error ends the session: no read is started again.
ReadError(h) ==
    /\ mode = "serving"
    /\ session[h] = "reading"
    /\ toConsole[h] = <<>>
    /\ shell[h] = "gone"
    /\ Stay(h, "closed")
    /\ UNCHANGED <<mode, next>>

\* service.run returns when no session has anything pending.
Return ==
    /\ mode = "serving"
    /\ \A h \in Hosts : session[h] \in {"closed", "rejected"}
    /\ mode' = "ended"
    /\ UNCHANGED <<proxied, next, session, line, page, shell, answered,
                   toConsole, toShell>>

----------------------------------------------------------------------------
(***************************************************************************)
(* The shells (NumberedPipes and SelectServer are about what they do).     *)
(***************************************************************************)
Answer(h) ==
    /\ shell[h] = "up"
    /\ toShell[h] # <<>>
    /\ toShell' = [toShell EXCEPT ![h] = Tail(@)]
    /\ LET cmd == Head(toShell[h])
       IN  \/ /\ cmd = "exit"
              /\ shell' = [shell EXCEPT ![h] = "gone"]
              /\ UNCHANGED <<toConsole, answered>>
           \/ /\ cmd = "" /\ answered[h] < MaxEmpty
              /\ answered' = [answered EXCEPT ![h] = @ + 1]
              /\ toConsole' = [toConsole EXCEPT ![h] = @ \o Prompt]
              /\ UNCHANGED shell
           \/ /\ cmd \notin {"exit", ""}
              /\ toConsole' = [toConsole EXCEPT ![h] = @ \o Output[cmd] \o Prompt]
              /\ UNCHANGED <<shell, answered>>
    /\ UNCHANGED <<proxied, mode, next, session, line, page>>

Die(h) ==
    /\ h \in Dying
    /\ shell[h] = "up"
    /\ shell' = [shell EXCEPT ![h] = "gone"]
    /\ toShell' = [toShell EXCEPT ![h] = <<>>]
    /\ UNCHANGED <<proxied, mode, next, session, line, page, answered, toConsole>>

----------------------------------------------------------------------------
Start(h) == StartDirect(h) \/ StartProxied(h)
Handler(h) == Resolved(h) \/ Connected(h) \/ Read(h) \/ ReadError(h)

Next ==
    \/ Run
    \/ Return
    \/ \E h \in Hosts : Start(h) \/ Handler(h) \/ Answer(h) \/ Die(h)

Spec == Init /\ [][Next]_vars

\* main runs, io_service serves every session that has something pending, and
\* shells answer.
FairSpec ==
    /\ Spec
    /\ WF_vars(Run) /\ WF_vars(Return)
    /\ \A h \in Hosts : WF_vars(Start(h)) /\ WF_vars(Handler(h)) /\ WF_vars(Answer(h))

----------------------------------------------------------------------------
\* The lines of a host's file, after which come empty ones.
Line(h, n) == IF n <= Len(Script[h]) THEN Script[h][n] ELSE ""

\* What a shell prints for a line, up to and with the next prompt.
Response(cmd) ==
    IF cmd = "exit" THEN <<>> ELSE IF cmd = "" THEN Prompt ELSE Output[cmd] \o Prompt

\* The dialogues of the files with their shells, n lines long.
Dialogue[n \in Nat] ==
    IF n = 0 THEN [h \in Hosts |-> <<"text">> \o Prompt]
    ELSE [h \in Hosts |-> Dialogue[n - 1][h] \o <<Line(h, n)>> \o Response(Line(h, n))]

\* The page shows the dialogue and nothing else: however what a shell prints is
\* cut into reads, no line is sent before the prompt it answers, skipped or
\* sent twice, and every line stands between its prompt and its output.
\* read_handler.
Transcript ==
    \A h \in Hosts : IsPrefix(page[h], Dialogue[Len(Script[h]) + MaxEmpty + 1][h])

\* One host does not take the others down: the console dies only of a host that
\* a proxy cannot reach, or of a prompt of a shell that broke off by itself; never
\* of exit, of a reject, or of a host it cannot reach itself.
\* client_with_socks::resolve, read_handler.
Contained ==
    mode = "dead" =>
        \/ proxied /\ next \in Down
        \/ \E h \in Dying : shell[h] = "gone" /\ session[h] = "reading"

\* Every file whose session starts is played to its end, unless the console
\* dies, the shell breaks off or the prompt comes in two reads.
FilesPlayed ==
    \A h \in Hosts \ Splitting :
        session[h] = "reading" ~> line[h] = Len(Script[h]) \/ mode = "dead" \/ shell[h] = "gone"

\* The request of the browser ends: when every shell has been left, by exit or
\* otherwise, no session keeps the console.
ConsoleEnds ==
    (next > NumHosts /\ \A h \in Hosts : shell[h] = "gone" \/ session[h] \in {"closed", "rejected"})
        ~> mode \in {"ended", "dead"}
=============================================================================
