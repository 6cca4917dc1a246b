--------------------------- MODULE UserPipeFiles ---------------------------
(***************************************************************************)
(* The user pipes of np_multi_proc: a pipe from one user to another is a   *)
(* file with a name made of their ids.  Every user's shell is a process of *)
(* its own, and all of them create, open and remove the files in one       *)
(* directory.  Modelled are the lines of the shells that use user pipes,   *)
(* step by step, the processes they fork, and users who leave and others   *)
(* who come and get their ids (SharedMemory is about the table itself).    *)
(*                                                                         *)
(* A line is a sequence of commands, each with the user it reads from and  *)
(* the user it pipes to, 0 for none.  A command writes Size units, or what *)
(* it reads.                                                               *)
(***************************************************************************)
EXTENDS Naturals, Sequences

CONSTANTS
    Users,      \* the ids
    Lines,      \* the lines a user may type
    Size,       \* units a command writes that does not read a user pipe
    MaxLines,   \* bound: lines of all users together
    MaxVisits   \* bound: how many users get an id, one after the other

ASSUME UserPipeFilesAssumption ==
    /\ Users \subseteq Nat \ {0}
    /\ Lines \subseteq Seq([from : Users \cup {0}, to : Users \cup {0}])
    /\ Size \in Nat
    /\ MaxLines \in Nat
    /\ MaxVisits \in Nat

VARIABLES
    present,  \* is the position of the table taken?
    visit,    \* how many users have had it
    files,    \* the directory: the inode of each name, 0 for none
    inodes,   \* everything created so far
    at,       \* what each user's shell is at
    cmds,     \* the commands of its line it has still to start
    input,    \* the inode its next command is to read
    queue,    \* user_pipe_to_remove: whose pipes it will remove
    doubtful, \* history: those queued by a line given up, or twice
    procs,    \* the processes it has forked, in the order of forking
    typed     \* lines typed so far

vars == <<present, visit, files, inodes, at, cmds, input, queue, doubtful, procs, typed>>

shellVars == <<at, cmds, input, queue, doubtful>>

----------------------------------------------------------------------------
\* A file created by a user for another: for which visit, how much is in it,
\* has its receiver opened it, and does its writer still run?
Inode(from, to) ==
    [from |-> from, to |-> to, for |-> visit[to], units |-> 0,
     opened |-> FALSE, writing |-> TRUE]

\* A process: the inodes it reads and writes (0: none), what it has still to
\* write and has read, was its input complete when it was opened, is it waited
\* for at the end of its line, and does it still run?
Proc(in, out) ==
    [in |-> in, out |-> out, todo |-> IF in = 0 THEN Size ELSE 0, got |-> 0,
     whole |-> in # 0 /\ ~inodes[in].writing, awaited |-> TRUE, runs |-> TRUE]

Init ==
    /\ present = [u \in Users |-> TRUE]
    /\ visit = [u \in Users |-> 1]
    /\ files = [from \in Users |-> [to \in Users |-> 0]]
    /\ inodes = <<>>
    /\ at = [u \in Users |-> "prompt"]
    /\ cmds = [u \in Users |-> <<>>]
    /\ input = [u \in Users |-> 0]
    /\ queue = [u \in Users |-> <<>>]
    /\ doubtful = [u \in Users |-> {}]
    /\ procs = [u \in Users |-> <<>>]
    /\ typed = 0

Goes(u, where) == at' = [at EXCEPT ![u] = where]

----------------------------------------------------------------------------
(***************************************************************************)
(* ForkAndExec::execute, up to the fork of a command.                      *)
(***************************************************************************)
StartLine(u, line) ==
    /\ at[u] = "prompt"
    /\ typed < MaxLines
    /\ typed' = typed + 1
    /\ cmds' = [cmds EXCEPT ![u] = line]
    /\ Goes(u, "input")
    /\ UNCHANGED <<present, visit, files, inodes, input, queue, doubtful, procs>>

\* Back to the prompt.
Return(u) ==
    /\ Goes(u, "prompt")
    /\ cmds' = [cmds EXCEPT ![u] = <<>>]
    /\ input' = [input EXCEPT ![u] = 0]

Queued(u) == {queue[u][i] : i \in DOMAIN queue[u]}

\* The line is given up in the middle: what is queued for removal stays queued,
\* and what was forked is not waited for.
GiveUp(u) ==
    /\ Return(u)
    /\ doubtful' = [doubtful EXCEPT ![u] = @ \cup Queued(u)]
    /\ procs' = [procs EXCEPT ![u] =
                    [i \in DOMAIN @ |-> [@[i] EXCEPT !.awaited = FALSE]]]

\* parse_input_from_user_pipe and PostOffice::erase: the file is opened and its
\* name queued for removal.
Input(u) ==
    /\ at[u] = "input"
    /\ cmds[u] # <<>>
    /\ LET from == Head(cmds[u]).from
       IN  \/ /\ from = 0
              /\ Goes(u, "output")
              /\ UNCHANGED <<inodes, cmds, input, queue, doubtful, procs>>
           \/ /\ from # 0
              /\ present[from] /\ files[from][u] # 0
              /\ Goes(u, "output")
              /\ input' = [input EXCEPT ![u] = files[from][u]]
              /\ inodes' = [inodes EXCEPT ![files[from][u]].opened = TRUE]
              /\ queue' = [queue EXCEPT ![u] = Append(@, from)]
              /\ doubtful' = [doubtful EXCEPT ![u] = @ \cup (Queued(u) \cap {from})]
              /\ UNCHANGED <<cmds, procs>>
           \/ /\ from # 0
              /\ ~present[from] \/ files[from][u] = 0
              /\ GiveUp(u)
              /\ UNCHANGED <<inodes, queue>>
    /\ UNCHANGED <<present, visit, files, typed>>

Fork(u, out) ==
    /\ procs' = [procs EXCEPT ![u] = Append(@, Proc(input[u], out))]
    /\ cmds' = [cmds EXCEPT ![u] = Tail(@)]
    /\ input' = [input EXCEPT ![u] = 0]
    /\ Goes(u, "input")
    /\ UNCHANGED doubtful

\* parse_output_to_user_pipe up to the copy of the receiver's entry.
Output(u) ==
    /\ at[u] = "output"
    /\ LET to == Head(cmds[u]).to
       IN  \/ to = 0 /\ Fork(u, 0)
           \/ to # 0 /\ present[to] /\ Goes(u, "look") /\ UNCHANGED <<cmds, input, doubtful, procs>>
           \/ to # 0 /\ ~present[to] /\ GiveUp(u)
    /\ UNCHANGED <<present, visit, files, inodes, queue, typed>>

\* Mutant of Look: an existing file is not looked for.
LookPast(u) ==
    /\ at[u] = "look"
    /\ Goes(u, "create")
    /\ UNCHANGED <<present, visit, files, inodes, cmds, input, queue, doubtful, procs, typed>>

\* PostOffice::insert: first a look for the file ...
Look(u) ==
    /\ at[u] = "look"
    /\ \/ /\ files[u][Head(cmds[u]).to] = 0
          /\ Goes(u, "create")
          /\ UNCHANGED <<cmds, input, doubtful, procs>>
       \/ /\ files[u][Head(cmds[u]).to] # 0
          /\ GiveUp(u)
    /\ UNCHANGED <<present, visit, files, inodes, queue, typed>>

\* ... then creat, which truncates a file that is there, and the fork.
Create(u) ==
    /\ at[u] = "create"
    /\ LET to == Head(cmds[u]).to
           file == files[u][to]
       IN  /\ inodes' = IF file = 0 THEN Append(inodes, Inode(u, to))
                        ELSE [inodes EXCEPT ![file].units = 0, ![file].writing = TRUE]
           /\ files' = [files EXCEPT ![u][to] = IF file = 0 THEN Len(inodes') ELSE file]
           /\ Fork(u, files'[u][to])
    /\ UNCHANGED <<present, visit, queue, typed>>

\* creat may fail.
CreateFails(u) ==
    /\ at[u] = "create"
    /\ GiveUp(u)
    /\ UNCHANGED <<present, visit, files, inodes, queue, typed>>

----------------------------------------------------------------------------
(***************************************************************************)
(* The end of a line: its processes are waited for, then the files it read *)
(* are removed, one after the other.                                       *)
(***************************************************************************)
Wait(u) ==
    /\ at[u] = "input"
    /\ cmds[u] = <<>>
    /\ \A i \in DOMAIN procs[u] : procs[u][i].awaited => ~procs[u][i].runs
    /\ Goes(u, "removing")
    /\ UNCHANGED <<present, visit, files, inodes, cmds, input, queue, doubtful, procs, typed>>

\* Mutant of Unlink: the name stays in the queue, for the next line too.
UnlinkKeeping(u) ==
    /\ at[u] = "removing"
    /\ queue[u] # <<>>
    /\ files' = [files EXCEPT ![Head(queue[u])][u] = 0]
    /\ Return(u)
    /\ UNCHANGED <<present, visit, inodes, queue, doubtful, procs, typed>>

\* Mutant of Unlink: the queue is never emptied.
UnlinkForgetting(u) ==
    /\ at[u] = "removing"
    /\ queue[u] # <<>>
    /\ files' = [files EXCEPT ![Head(queue[u])][u] = 0]
    /\ UNCHANGED <<present, visit, inodes, at, cmds, input, queue, doubtful, procs, typed>>

\* PostOffice::delete_user_pipes_in_queue
Unlink(u) ==
    /\ at[u] = "removing"
    /\ queue[u] # <<>>
    /\ queue' = [queue EXCEPT ![u] = Tail(@)]
    /\ files' = [files EXCEPT ![Head(queue[u])][u] = 0]
    /\ UNCHANGED <<present, visit, inodes, at, cmds, input, doubtful, procs, typed>>

EndLine(u) ==
    /\ at[u] = "removing"
    /\ queue[u] = <<>>
    /\ Return(u)
    /\ doubtful' = [doubtful EXCEPT ![u] = {}]
    /\ UNCHANGED <<present, visit, files, inodes, queue, procs, typed>>

----------------------------------------------------------------------------
(***************************************************************************)
(* Shell::~Shell, and somebody who gets the id of a user who has left.     *)
(***************************************************************************)
\* PostOffice::delete_all_files_associate_to: the pipes to the user.
Exit(u) ==
    /\ at[u] = "prompt"
    /\ visit[u] < MaxVisits
    /\ files' = [from \in Users |-> [files[from] EXCEPT ![u] = 0]]
    /\ Goes(u, "leaving")
    /\ UNCHANGED <<present, visit, inodes, cmds, input, queue, doubtful, procs, typed>>

\* SharedMemory::remove_client; the queue and what was forked are the old
\* shell's.
Leave(u) ==
    /\ at[u] = "leaving"
    /\ present' = [present EXCEPT ![u] = FALSE]
    /\ queue' = [queue EXCEPT ![u] = <<>>]
    /\ doubtful' = [doubtful EXCEPT ![u] = {}]
    /\ Goes(u, "left")
    /\ UNCHANGED <<visit, files, inodes, cmds, input, procs, typed>>

Arrive(u) ==
    /\ at[u] = "left"
    /\ present' = [present EXCEPT ![u] = TRUE]
    /\ visit' = [visit EXCEPT ![u] = @ + 1]
    /\ Goes(u, "prompt")
    /\ UNCHANGED <<files, inodes, cmds, input, queue, doubtful, procs, typed>>

----------------------------------------------------------------------------
(***************************************************************************)
(* The processes.  The end of a file is where it ends when it is read.     *)
(***************************************************************************)
Read(u, i) ==
    /\ procs[u][i].in # 0
    /\ procs[u][i].got < inodes[procs[u][i].in].units
    /\ procs' = [procs EXCEPT ![u][i].got = @ + 1, ![u][i].todo = @ + 1]
    /\ UNCHANGED <<shellVars, present, visit, files, inodes, typed>>

Write(u, i) ==
    /\ procs[u][i].todo > 0
    /\ procs' = [procs EXCEPT ![u][i].todo = @ - 1]
    /\ IF procs[u][i].out = 0 THEN UNCHANGED inodes
       ELSE inodes' = [inodes EXCEPT ![procs[u][i].out].units = @ + 1]
    /\ UNCHANGED <<shellVars, present, visit, files, typed>>

End(u, i) ==
    /\ procs[u][i].todo = 0
    /\ procs[u][i].in # 0 => procs[u][i].got >= inodes[procs[u][i].in].units
    /\ procs' = [procs EXCEPT ![u][i].runs = FALSE]
    /\ IF procs[u][i].out = 0 THEN UNCHANGED inodes
       ELSE inodes' = [inodes EXCEPT ![procs[u][i].out].writing = FALSE]
    /\ UNCHANGED <<shellVars, present, visit, files, typed>>

Runs(u) ==
    \E i \in DOMAIN procs[u] : procs[u][i].runs /\ (Read(u, i) \/ Write(u, i) \/ End(u, i))

----------------------------------------------------------------------------
Shell(u) ==
    \/ Input(u) \/ Output(u) \/ Look(u) \/ Create(u) \/ CreateFails(u)
    \/ Wait(u) \/ Unlink(u) \/ EndLine(u)
    \/ Leave(u)

Next ==
    \E u \in Users :
        \/ \E line \in Lines : StartLine(u, line)
        \/ Shell(u)
        \/ Runs(u)
        \/ Exit(u)
        \/ Arrive(u)

Spec == Init /\ [][Next]_vars

\* The system runs all processes.
FairSpec == Spec /\ \A u \in Users : WF_vars(Shell(u)) /\ WF_vars(Runs(u))

----------------------------------------------------------------------------
\* A user pipe that was complete when its reader opened it is read completely:
\* nobody truncates it or writes into it again while it is read, and the reader
\* keeps it when its name goes.  PostOffice::insert, erase.
ReadWhole ==
    \A u \in Users : \A i \in DOMAIN procs[u] :
        LET p == procs[u][i]
        IN  p.whole /\ ~p.runs => p.got = inodes[p.in].units /\ ~inodes[p.in].writing

\* A user pipe goes unread only when its receiver leaves, or by a line of the
\* receiver that comes upon a name in its queue which a line that was given up
\* has left there, or which a line has queued twice.  Nobody else removes a pipe.
\* PostOffice::delete_user_pipes_in_queue.
KeptUntilOpened ==
    [][\A from, to \in Users :
          files[from][to] # 0 /\ files'[from][to] = 0 =>
              \/ inodes[files[from][to]].opened
              \/ at'[to] = "leaving"
              \/ at[to] = "removing" /\ from \in doubtful[to]]_vars

\* A line that uses user pipes comes to its end, whoever reads them and whether
\* or not anybody does.  ForkAndExec::execute.
LineEnds == \A u \in Users : at[u] = "input" ~> at[u] = "prompt"
=============================================================================
