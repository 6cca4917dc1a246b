# A verification project for NCTU Network Programming

The repository holds four course projects, each on top of the one before:
a shell with *numbered pipes* (pj1), three servers that offer that shell to
remote users (pj2), an HTTP server and a CGI program that drives such shells
from a web page (pj3), and a SOCKS4 server through which that program may
connect (pj4).  The modules here model the parts in which concurrency,
ordering and shared state decide whether they work; TLC checks them on small
instances, and TLAPS proves their safety properties for every value of their
constants: those of Console under a hypothesis about what commands print, the
others from the assumptions their modules state (section 5).  Liveness is
checked and not proved.

Paths below are relative to `src/Network Programming/`, and
`pjK/0756633/x.cpp` is shortened to `pjK/x.cpp`.

## 1. Inventory

| Component | State | Operations | What is hard | What makes it correct |
|---|---|---|---|---|
| npshell, `pj1/Command.cpp`; np_simple, `pj2/simple_*` | `redirection_info` (a deque of Nodes), the shell's descriptors, forked children | a command line, a builtin, exit or end of file | a `\|N` counts lines while builtins and slices shift the deque; inherited descriptors; overlapping lines | output reaches the line it counts down to; readers see end of file; lines end |
| np_single_proc, `pj2/single_proc_main.cpp` | table of clients, `open_sockets`, fd sets, `std::cin`, user pipes | accept, yell/tell/name/who, exit, lines with user pipes | one thread and one `std::cin` for all clients, SIGPIPE, ids reused, early returns, blocking waits | the records agree; a line runs for its sender; pipes and names are unique; answers come |
| np_multi_proc, `pj2/multi_proc_SharedMemory.h`, `_Shell.h`, `_main.cpp` | table and mailboxes in shared memory, `serving_uid` of each process | insert, remove, broadcast, tell, name, the SIGUSR1 handler | processes and signal handlers interleave on the table without a lock | a position has one owner; mail is read |
| its user pipes, `pj2/multi_proc_Command.cpp`, `_PostOffice.h` | files in `user_pipe/`, each shell's removal queue | `>n`, `<n`, the end of a line, exit | many processes, one directory; ids reused while files remain | a pipe is read whole; nobody removes it early |
| accept loops: np_simple, `pj2/simple_main.cpp`; np_multi_proc, `pj2/multi_proc_main.cpp`; http_server, `pj3/http_server.cpp` | listening socket, client sockets, children | accept, fork, close, reap; http_server: read once, exec | coalesced SIGCHLD, inherited sockets, requests in several reads, failing accepts and forks | a socket is in one client's process only; no zombies; a request read whole is answered whole; connections end |
| console.cgi, `pj3/console.cpp`, `pj4/console.cpp` | one session and file for each host | resolve, connect, read and answer a prompt | output is cut into reads anywhere; one failure in a common event loop | the dialogue is in order; hosts are independent; the request ends |
| all-in-one CGI server, `pj3/main.cpp` | sessions and a console shared by requests | requests, sessions of several pages in one event loop | a table of hosts shared by all requests, writes that block the thread or throw | a page plays its own files; failures stay where they are; pages end |
| socks_server, `pj4/socks_server.cpp`, `socks4_namespace.hpp` | one child for each client, two buffers | request, firewall, CONNECT, BIND, relay | two directions that end each other; replies in order; children never reaped | bytes in order, none lost; replies are true; children end |

How they interact: np_simple, np_single_proc and np_multi_proc are reached over
TCP by console.cgi, which http_server starts and which may go through
socks_server.  Inside pj2 the parts meet in shared state: the kernel's pipe and
descriptor tables, the shared memory and its signals, the user pipe directory.
Every module has an environment in place of the component on the other side.

`PROJECT.json` lists every component, and under "hazards" every place of this
code that is hard to test, with the property that covers it or the reason why
none does.

## 2. Modules

Identifiers are those of the code where TLA+ allows.  Mutants, the definitions
commented as such, are what a plausible bug would make of an operator; no
specification uses them.

### NumberedPipes, LinePipes: the wiring (`pj2/simple_Command.cpp`, `.h`)

A line is `[n, dest, bang]`: number of commands (0: a builtin), the N of its
`|N` or `!N`, and which of the two.  Pipes are numbered as they are created;
`open` is what the shell itself has open; `procs` has every forked process with
its three streams.

| Action | Code |
|---|---|
| `BeginLine` | `execute` up to the loop, `open_numbered_pipe_to_destination` |
| `RunSlice` | a pass of the loop that is not the last: insert a Node, open the pipe to it, fork 50 commands, close the front's pipe, `pop_front` |
| `LastSlice` | the last pass, up to the waits |
| `PipesFail` | `open_pipes` throws when `pipe()` fails: the shell ends |
| `EndLine` | after the waits; `~Command` shifts the deque |
| `Builtin` | setenv, unsetenv, printenv: `~Command` shifts the deque too |
| `Quit`, `Ended` | exit or end of file |

What `pipe()` returns for a numbered pipe is not looked at
(`simple_Command.cpp:88`), and a fork that fails is tried again for ever; both
are left out.

`LinePipes` is the abstract specification: what the user has typed, and a queue
of outputs due at later lines.  A line is launched with the N it was typed with
(`Reaches`); one of more commands than are `Sure` may lose its output, and may
send it nowhere else.  NumberedPipes maps the deque, shifted or not, to that
queue (`Launched`, `Waiting`, `Delivered`) and states `Contract == Lines!Spec`,
which is checked and proved.  The map also says what the code does not keep: a
line longer than a slice directs its output nowhere, since the pipe between its
slices overwrites the stream that `|N` set (`Sure` is the length of a slice).

### PipelineJobs: the processes (`pj1/Command.cpp`, `pj2/simple_Command.cpp`)

Extends NumberedPipes with what runs: `jobs` gives every process its open ends,
whether it is a source or a filter, and its progress; `fill` the units in each
pipe.  `Spawn` gives a child the ends it has at `execvp`, inherited ones
included; `WaitOver` is what the shell waits for.  `Write`, `BrokenPipe`,
`Read` and `Finish` are the operating system's.  The fork and wait code of pj1
is the same and is what several definitions are mapped to.

### SelectServer: np_single_proc

One action for each thing the loop does with a descriptor (`Accept`, `PrintOnly`,
`Yell`, `Tell`, `Name`, `Exit`, `StartLine`), `TellOutside` for the exception of
`clients.at` and `stoi`, which ends the server, and `StartCommand`, `GiveUp`,
`FinishLine`, `WaitForEver` for the passes and exits of `fork_and_exec`.
`cin` is the buffer of the one `std::cin` under which `execute` puts each
client's socket in turn, `cinFailed` its sticky fail bit.  Writing to a client
that has reset its connection kills the server (`Write`), as do a client too
many (`AcceptPastEnd`) and exit on the last position (`Exit`).  The sends of
one command are one step.  A user pipe remembers who `held` its write end: nobody
(`"no"`), the line that made it, until that line has ended (`"line"`), or the
server for good, when `GiveUp` leaves that line by an early return (`"ever"`).
The pipe a command reads is out of the table before the one it writes is looked
for, so that `cat <me >me` is accepted, and waits for itself.  What each client
may send is a constant (`Texts`), so that one run has clients of several kinds.

### SharedMemory: np_multi_proc's table

One action for each access to shared memory, or run of accesses nobody can
tell apart: `Scan`, `Fill`, `Number`, `Serve` of `insert_client` (the position is
found, its fields are written, then its id, then `serving_uid`), `Visit`, `Put`,
`WriteTail`, `Kill` of `broadcast` and `tell`, `NameScan` and `NameCopy`, `WipeId`
and `WipeRest` of `remove_client` (the id goes first), and `Deliver`, `Show`,
`Clear` of the signal handler, during which the shell's own program is suspended.
SIGUSR1 is one pending bit for each process, as in the kernel.  A message in a
buffer is its first byte and the rest (`head`, `tail`), written in two steps,
since the first byte is what the handler looks at; the look for a free buffer
and the first byte are one step.  `Disconnect` is SIGPIPE at any output to a
client that has gone: at the welcome, at the prompt, or in the handler, which may
interrupt the shell anywhere, so also between the copy of a message and its
kill.  A shell that dies (`dead`) leaves its position as it is.

Nothing here is locked, and some positions do get lost.  `contested` is a history
variable: the positions that a newcomer found free while another shell held them
or still had to write to them.  What the properties say they say of the
others (`Certain`).

### UserPipeFiles: np_multi_proc's user pipes

`files` is the directory, `inodes` everything ever created, so that a name may
lead to a new file while a reader still has the old one.  `Input`, `Output`,
`Look`, `Create` are the steps of a command up to its fork: the look for the file
and its creation, which truncates one that has come meanwhile, are two.
`CreateFails` gives the line up when `creat` fails; `Wait`, `Unlink`, `EndLine`
are the end of a line, `Exit`, `Leave`, `Arrive` a departure and the next user
with the same id.  The history variable `doubtful` has the names that a line given
up, or a line that queued them twice, has left to be removed.

### ForkServers: the accept loops of np_simple, np_multi_proc and http_server

The three loops differ in what the parent does with a child: np_simple waits for
it (`Wait`), np_multi_proc reaps it in a signal handler that may interrupt the
loop at any point, http_server in a handler of its event loop (`Deliver`,
`Reap`, `ReapEnd`).  `program` says which of the three a behaviour is about.
`holds` gives every process its client sockets: `Fork` copies the parent's,
`CloseSocket` is the parent's close.  `TakeRequest` with `Read`, `ReadThrows` or
`ReadError` is http_server's one read and its parser, `Outcome` and `Execv` the
status line with what follows it.  A request is a sequence of parts, of which
the one read may get any prefix.  Where the parser or the look at the peer's
address throws before the status line (a part that is malformed, a client that
has gone), the child ends and sends nothing (`ReadThrows`); a read without a
request line gets the status line and then the text of an exception
(`Outcome`).  A connection that is closed by its last holder with something
unread is reset, and what was on its way may be lost (`Close`).

### Console: console.cgi

`StartDirect` and `StartProxied` are the two ways `main` starts a session: the
first only starts an asynchronous resolution, the second waits for the proxy
and throws when it breaks off.  `Read` is `read_handler`: whatever one read
returned is looked at for `"% "`, and one line of the file is sent.  A proxy that
cannot be resolved or reached throws like one that breaks off and is not told
apart from it.

### CgiServer: the all-in-one CGI server

One event loop for all browsers: `ServeConsole` merges a query into the table of
hosts that is never cleared (`Named`) and makes a Client for every host there is
in it.  A handler that has begun to write is `busy` until the last write of
`todo` is done; meanwhile the loop serves nobody (`Free`).  `Write` waits for a
browser that does not read, and throws at one that has left; `Command` may throw
at a shell that is gone; an exception is the end of the server (`mode`).  `End`
is a handler that starts no other operation: the last Client of a page takes
the page's Session, and so its connection, along.

### SocksServer, Tunnel: socks_server

The parent's `Accept`, the child's `ReadRequest` with the firewall and both
commands, `Connected`, `Accepted`, and the relay `Read`, `Write`, `EndOfFile`,
`WriteError` for each direction; then the peers, who send, receive, shut down or
leave at any time, and the administrator who edits `socks.conf`.  Closing a
socket with unread bytes resets the connection, which may cost the peer what was
on its way (`Cut`).  A child in `accept` returns from it only when somebody
connects (`Accepted`, `AcceptedLate`), whatever has become of its client.

`Tunnel` is the abstract specification: no process, no socket, no buffer.  A
request is judged once, by the rules there are then (`Permit`, `Reject`); for
one that is permitted a destination may be linked, and each end then receives
what the other end has sent, behind the replies, unit by unit (`Deliver`).
SocksServer maps where the child is and what its client has been told to the
verdict (`Verdict`), and states `Contract == Promised!Spec`, which is checked
and proved.

## 3. Runs

| Run | Bounds | Shows |
|---|---|---|
| NumberedPipes | 3 lines, up to 5 commands, slices of 2, deque of 4, N up to 2 | delivery, chaining, end of file, descriptors; implements LinePipes |
| PipelineJobs | 3 lines, up to 3 commands, slices of 1, pipes that hold all output | `LineEnds`, `JobsEnd`, `EofIsFinal` |
| PipelineJobsBlocked | 3 lines of 1 command, pipes of 1 unit, outputs of 1 or 2 | **violated**: finding 1 |
| SharedMemory | 2 shells, none, one or both logged in at the start, 2 usable positions, 1 buffer, 1 command besides exit | `SeatsOwned`, `NoLostWakeup`, `MailRead` |
| SharedMemoryIds | 2 newcomers | **violated**: finding 2 |
| SelectServer | 4 clients, 3 positions, 2 lines in all, lockstep; lines given up after a pipe, lines that wait for themselves; one client may vanish, overfills a pipe and tells a user outside the table | registry, names, user pipes, write ends, containment, answers |
| SelectServerShared | 3 clients, 2 lines at once | **violated**: finding 3 |
| UserPipeFiles | 2 users, 3 lines, 2 visits of each id, lines that fail half-way or read a pipe twice | `ReadWhole`, `KeptUntilOpened`, `LineEnds` |
| Console | 3 hosts: one dying, one splitting prompts, one down | transcript, containment, progress |
| SocksServer | 2 clients, room for 1 process, 2 units each way, kernel queues of 1 | relay, replies, ends; implements Tunnel |
| ForkServers | each of the 3 servers, 3 clients: two with requests of 2 parts, one of them with a malformed part, one that only connects and may vanish; failing accept and fork | `SocketsPrivate`, `NoChildForgotten`, `ReplyWhole`, `Served`, `HungUp` |
| CgiServer | 3 browsers, tables of 2 hosts (one is down), files of up to 2 lines, a browser that leaves, a shell that breaks off, 1 unread write | `Transcript`, `LastNamed`, `Contained`, `PageEnds` |

Only NumberedPipes checks its types in a run; the type invariants of the other
modules are part of the invariants that section 5 proves.

Why the bounds are enough.  Slices of two and lines of five commands give lines
of one, two and three slices, and N up to 2 over three lines gives merging,
builtins in between and a pipe that passes a line of several slices; the proofs
lift all four bounds.  With slices of one every `|` becomes a pipe between
slices, which is the case in which the shell does not wait.  Two shells are the
fewest of which one can claim a position, broadcast, signal, die or leave while
the other does, and one buffer for each pair makes every second message meet a
full mailbox; the proofs lift all of this.  `MailRead` is about the mail one of
the two shells gets from the other, and nothing tells the two apart; that its
own messages do not go without a wake-up is `NoLostWakeup`.  Four clients for
three positions meet the end of the table, and two lines are a pipe and its
reader, a rename and its rival, or either with a departure between them.  Three
clients give two children that end while the handler reaps or the parent forks.
Two consoles are what it takes to find hosts of an earlier page.  Two visits are
what it takes to find a predecessor's pipe.  Room for one process makes the
second client meet a fork that fails.

What a run leaves out is left out by its constants, not by the module:

- In PipelineJobs pipes hold what is written; with smaller ones finding 1
  appears and `JobsEnd` fails with it.
- In SharedMemory nothing is left out but more commands.  What goes wrong there is
  an exception of the properties: two newcomers, or a newcomer and one who
  leaves, that meet on a position (`contested`; that two share an id is finding
  2), and a message whose sender dies before its kill.
- In SelectServer clients wait for their prompt; if not, finding 3.  A line that
  is given up after it has made a pipe leaves the write end open, and the reader
  of that pipe hangs, with the server: the exceptions of `WriteEndsClosed` and, as
  `Waiting`, of `Answered`.  So does a client that has sent the output too large
  for a user pipe, or a line that reads what it writes.
- In ForkServers `ReplyWhole` promises all of the answer to requests that one read
  took as a whole, and a beginning of it to the others: with a part still to
  come the answer is that to the parts that were read, and the part that comes
  later resets the connection under the page.  A read the parser throws at
  deserves nothing (`Deserved`).
- In CgiServer a request that the parser throws at, a browser that leaves and a
  shell that breaks off may each end the server; `Contained` says that nothing
  else does.
- In UserPipeFiles a line like `cat <2 >1` whose second half fails, or `cat <2 |
  cat >1` when the second command does, leaves the name in the queue, and the end
  of the next line removes the next pipe of that sender unread; so does a name that
  one line has queued twice.  These are the exception of `KeptUntilOpened`
  (`doubtful`).  `ReadWhole` is about pipes that were complete when opened.
- In Console `FilesPlayed` leaves out hosts whose prompts come in two reads:
  neither half is recognised and the session hangs.  No command prints a prompt
  of its own; one that does (`cat` of a file with a `% ` in it) has the next line
  sent too soon, and the prompt that is then left over from a shell that has
  exited can end the console.  The proof of `Contained` has this as its
  hypothesis `Unmistakable`.

`CHECK_DEADLOCK FALSE` stands where the system may rest for good: servers
nobody talks to, a console that has ended.

Fairness.  The shell, the select loop and a shell of np_multi_proc run on
except where they wait for a client (`WF` of their own steps, for a shell of
np_multi_proc in its handler or outside it); the kernel runs processes and
delivers pending signals; io_service serves what is ready, each
session on its own; `main` of a CGI program runs on; connection attempts end
one way or the other; the loops of the servers and their signal handlers run
on, and so do their children, a shell once it has been told to exit.  Nothing is
assumed of clients, except that shells answer
in Console and CgiServer and that peers and browsers that are still there read
what there is in SocksServer, ForkServers and CgiServer; in particular
nobody has to connect to a child that waits in BIND.

## 4. Findings

1. `pj2/simple_Command.cpp:114`: children keep the inherited ends of numbered
   pipes that wait for their line, against the comment at
   `pj1/Command.cpp:82`.  Line 1 (`|2`) writes to its pipe and ends; line 2
   (`|2`) overfills a pipe of its own and blocks, with the write end of line 1's
   pipe that it inherited; line 3 reads line 1's pipe and never sees its end, and
   the shell waits for line 3, so that line 4, which would read line 2's pipe, is
   never read (PipelineJobsBlocked).
2. `pj2/multi_proc_SharedMemory.h:82`: two clients that come in together get
   the same id, against section 4.2 of the specification of pj2
   (SharedMemoryIds).
3. `pj2/single_proc_main.cpp:658`: `std::cin` is shared, so that one client's
   lines run for another, against section 4.5 (SelectServerShared).

Seen while modelling and not made runs of their own: merging with `!N` loses
stderr (`simple_Command.cpp:98`); name clashes, torn messages, dropped messages
and positions never freed in np_multi_proc; there also a newcomer whose pid,
name and mail are wiped by the one who leaves its position
(`multi_proc_SharedMemory.h:98`); write ends that a line given up leaves open
(`single_proc_main.cpp:455`); requests that get no status line
(`http_server.cpp:55`); a shell of np_simple at the server's own terminal after
a failed accept (`simple_main.cpp:41`); hosts of earlier requests that come back
on later pages (`pj3/main.cpp:501`); children of socks_server are never reaped,
since the signal set has no signal (`socks_server.cpp:237`); the user id of a
SOCKS request is relayed to the destination, since the read of a request ends
before it (`socks4_namespace.hpp:23`); a failed CONNECT gets no reply but a
closed connection.

## 5. Proofs

`NumberedPipesProofs` proves, from `ConstantsAssumption` alone (a deque and
slices of at least one element, every N smaller than the deque):

- `TypeCorrect`: `Spec => []TypeOK`
- `Delivery`: `Spec => []NumberedDelivery`
- `Chaining`: `Spec => []PipelineChain`
- `EndOfFile`: `Spec => []ReaderCanSeeEof`

None of them is inductive.  That the first command of a line reads what was
directed at it follows from what the deque says *before* it is forked, and that
from every earlier line.  The strengthening `IInv` therefore adds, for the node
in each slot `k` and the line `LineOf(k)` it stands for:

- `NodesOK`, `PipesDistinct`, `OpenOK`: pipes of the deque have been created, no
  two slots share one, and a node's write end belongs to its own pipe;
- `Unread`: a pipe that still waits for its line has no reader;
- `Fed`, the heart: the processes that write to it are exactly the last
  commands of the lines directed at `LineOf(k)`, or, in the middle of a line of
  several slices, the last command forked;
- `ProcsOK`: processes belong to lines that have been read and use pipes that
  exist, so that a new pipe is nobody's;
- `FrontOK`: where the front's output goes while a line is being run.

`Popped` moves slot `k + 1` to `k` as `LineOf` moves, which is why `EndLine` and
`Builtin` preserve `Fed` (lemma `ShiftInv`); `RunSlice` replaces the front by the
inserted node, whose only writer is the last command of the slice.  There is
one lemma for each action (`BeginLineInv`, `RunSliceInv`, ...), and `NextInv`
and `Invariance` put them together.

`Held`: `Spec => []DescriptorsHeld` bounds what the shell has open: no more pipes
than there are nodes that still wait for their line and builtin lines that an
earlier line was directed at (their nodes are popped and their pipes never
closed; a shell that closed them would satisfy it as well).  The bound is not
inductive; `CountedOK` says which pipes they are, and that a node has a pipe if
and only if some line was directed there.

`Refinement`: `Spec => Contract`, NumberedPipes implements `LinePipes`: what a line
is launched with is what its user asked for, as far as it `Reaches`.  With
`Fed` and `NumberedDelivery` the pipes can be left out of the abstract state:
what waits in a slot is what is `Owed` to the line it stands for
(`WaitingIsOwed`), and what has been delivered is what was owed to the lines that
were forked (`DeliveredIsOwed`).  A step then launches a line (`LineLaunched`: the
first slice), launches a builtin (`BuiltinLaunched`), or leaves the abstract state
alone (`NothingLaunched`: a line that is read, a later slice, the end of a line).

`ShellUndisturbed`: `JSpec => Spec` says that PipelineJobs, in which the processes
run, is still NumberedPipes, so that all of the above holds of it too.  On that
rests `EofFinal`: `JSpec => []EofIsFinal`.  Once a filter has read end of file,
no process has the write end of its pipe, and a process that is forked later
gets none: it cannot inherit one, for the shell that holds the write end holds
a pipe without a reader (`Unread`), and its own streams are those of `Fed` and
`FrontOK`; its stderr is its stdout or not redirected (`ErrOK`).

`ForkServersProofs` proves `SocketsKeptApart` and `EveryChildReaped` from
`ForkServersAssumption`.  The invariant adds to the types that the parent holds
the socket of `current` only, and only between accept and close, so that a fork
copies nothing else; and that every end of a child leaves a signal, the running
handler or the parent's wait behind it.  `WholeReplies` (`ReplyWhole`) has besides
that the parts of a request are its own (`RequestAssumption`, which the module
states and TLC evaluates) and a second invariant, `AInv`: what has been read and
what has not make up the request (`Counted`), a client is forked for once and its
child has its socket as long as there is something to answer (`OneChild`), who has
seen the end of a connection finds nothing more on it (`EndsOK`), and what has
come with what is on its way is a beginning of what the read deserves
(`AnswerOK`), malformed requests included.

`SelectServerProofs` proves, for any number of clients, positions and lines:
`TypeCorrect`, `RecordsAgree`, `NamesDiffer`, `PipesOfTheirUsers`, `OnePipe`,
`EndsClosed` and `ServerContained`, none of them under a hypothesis about what
clients send.  `Registry`, `NamesUnique`, `PipesBetween` and `OnePipeEach` are
inductive together with `TypeOK` and `LoopOK`: the listener is always watched, and
the client whose line is run is connected.  For `EndsClosed` (`WriteEndsClosed`)
a pipe whose end the line holds is one that the line will close, which the end of
the line does and an early return turns into a leak.  `ServerContained`
(`Contained`) rests on what a socket the loop serves has for it: a line, or the
end of its connection (`ReadyOK`).  That a line runs for its sender
(`Attribution`) does not hold, and is finding 3.

`SharedMemoryProofs` proves `TypeCorrect`, `PositionsOwned` (`SeatsOwned`) and
`MailWakes` (`NoLostWakeup`) for any number of shells, positions, buffers and
commands, claims and departures and deaths at any time.  `SeatsOwned` follows from
`Lodged`: a position that is not contested has one shell that keeps it (`Keeps`:
it is about to claim it, has it, wipes it or died with it), and its pid and id are
that shell's at every step of the claim and of the wiping but those at which they
are written (`HasPid`, `HasId`).  It is inductive together with `Placed`
(element 0 is nobody's).  A newcomer that finds the position of another shell
free makes it contested at once, which is why `contested` is looked at when a
position is found and not when it is claimed.

`NoLostWakeup` is not inductive: a message that finds all buffers full sends no
signal, and for the shell itself that would be the signal it counts on
(`WillSignalItself`).  `OwnMailRead` says that this cannot be: what a shell has put
into its own mailbox it is about to signal, or its handler is about to read, or it
has died.  The handler goes on from one buffer to the first taken one behind it;
that no two buffers come at the same place of its order (`OrderInjective`) is what
makes the cleared buffer the only one left behind.  The one fact about numbers
this needs is lemma `LeastElement` (inclusion of finite intervals is
well-founded).

`SocksServerProofs` proves `InOrder`, `DownloadsAreComplete` and `TellsTruly` from
`SocksServerAssumption`: any number of clients, units and processes, any size of
the kernel's queues, any `socks.conf`.  `RelayInOrder` speaks of a child that
relays, but what it relays has arrived before.  The invariant therefore says for
every client what is where at each stage of its child (`Stages`: while the request
is unread it is followed by all that is to go up; in `accept` one reply is out)
and keeps, while the relay runs, what has come out, the buffer and what has
arrived equal to the whole (`Flow`).  `Silent` and `Complete` carry
`DownloadComplete`: a side that has said nothing leaves nothing unread, so that
closing its socket resets nothing.  `Untold` carries `ToldTruly`.  A step of one
client leaves the others `Untouched`, so that each lemma (`ReadInv`, `WriteInv`,
...) is about one.

On this invariant rests `Refinement`: `Spec => Contract`, SocksServer implements
`Tunnel`.  There is one lemma for each kind of step: `StartRefines`, `AskRefines`,
`ReadRequestRefines` (the one step that judges, by the rules there are: `Judged`),
`OpenRefines` (a destination is there), `SendRefines`, `ReceiveRefines`,
`EndsRefines`, and `QuietRefines` for what the two ends cannot see, like a child
that moves bytes into its buffer.  A unit that is received is the next one of
the abstract stream, because what is out, in the buffer and in the kernel's
queues make up a beginning of that stream (`Flow`, `NextUnit`); replies come
first (`GotFirst`), and a client that reads a reject has been rejected and told
nothing else (`Rejection`, `OneVerdict`).

`UserPipeFilesProofs` proves `Keeping`: `Spec => KeptUntilOpened` for any users,
lines and visits, lines that fail included.  The invariant is that whatever a
shell has queued for removal is doubtful, or has been opened and is queued once;
and that between lines all that is still queued is doubtful (`QueueInv`).

`Whole` is `ReadWhole`: a reader whose pipe was complete when it opened it reads all
of it.  A file has one writer at most, which marks it as long as it runs, so that
one which is complete stays as it is, for nobody but its sender makes a name and
it looks before it does (`ShapeInv`); and `got` counts what has been read of the
file that was opened, whatever file bears its name by now (`ReadInv`).

`CgiServerProofs` proves `Transcripts`, `NamedLast` and `DiesOfThese`
(`Transcript`, `LastNamed`, `Contained`) from `CgiServerAssumption`.  Between
two writes of a handler the loop serves nobody, but shells go on.  What makes
the page's dialogue right is that the shell has nothing to say then: a handler
that has a line to send has seen the prompt for it, and has not sent `exit`
(`Handling`, `Silent`). `SessionInv` says that what is on the page and what the
handler has still to put there (`Unsaid`) are the dialogue with the file as far
as `line`.  For `LastNamed` the table of hosts is, for every number of requests,
what the last of them that named a field said (`ServedInv`; `SomeLast`: there is
one).  For `Contained` each exception finds its excuse, which then stays
(`Excuse`, `ExcuseStays`).

`ConsoleProofs` proves `DiesOnlyOfThese`: `Contained`, under the hypothesis
`Unmistakable` (no command prints a prompt; section 3).  A write throws when the
shell has gone, and the console writes only at a prompt.  By `Alternates` what is
left to read has no prompt except at its end, and nothing is left to read while
a line is on its way: a shell that takes `exit` leaves no prompt behind.

`PlaysItsFile` is `Transcript` under the same hypothesis.  What is shown is a
beginning of `Dialogue`, a recursive function; the invariant (`TalkInv`) says
where in it each session is (`Stage`): `n` lines of the file have been answered
and what is shown, with what is left to read, is the dialogue as far as that;
or the next line has been sent, is shown behind it, and nothing is left to
read.  A prompt leads from the first to the second (`ReadTalk`), the shell's
answer from the second to the first with one line more (`AnswerTalk`).  That
`Dialogue` is the function its definition says (`DialogueLines`), and that a
longer one begins with a shorter one (`DialogueGrows`), takes induction over the
number of lines.  The library's induction rules take an operator and cannot be
used here, so `EveryNumber` does it over sets: a set of numbers that has 0 and is
closed under successor has all of them, for otherwise there were a least one
missing (`LeastElement`).

Only model-checked: liveness and everything under fairness (`LineEnds`,
`JobsEnd`, `MailRead`, `Answered`, `FilesPlayed`, `ConsoleEnds`, `ChildEnds`,
`Served`, `HungUp`, `PageEnds`), which is beyond this prover, as is `ENABLED`.

## 6. Not modelled

- The panels and test pages, which keep no state.
- Parsing, formatting, HTML escaping and the text of pages; in the all-in-one
  server also the buffer of `do_write`, which is destroyed before an
  `async_write` that does not finish at once (`pj3/main.cpp:474`).
- Environment tables, and output to files, which no other part reads.
- `who`, which changes nothing.
- SIGINT, SIGQUIT and SIGTERM of np_multi_proc, which remove the shared memory
  and end the server.
- Where npshell differs from np_simple: the stderr of a `!N` line of several
  slices, lines that are split at `|` only.
- Numbered pipes inside np_single_proc and np_multi_proc, whose code is
  np_simple's over again.

## 7. Plan

The order is that of importance: wiring, processes, the two servers, user
pipes, then the clients, then the loops that accept them.  Done: NumberedPipes
with LinePipes, its proofs and the proved refinement, PipelineJobs,
SelectServer, SharedMemory, ForkServers, SocksServer and UserPipeFiles with
theirs, Console and CgiServer with theirs.
SocksServer has Tunnel as its abstract specification, and implements it.  Left:
an abstract mailbox for SharedMemory; since messages may be torn (section 4) it
could promise little more than `NoLostWakeup` and `MailRead` do.
