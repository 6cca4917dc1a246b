---------------------------- MODULE PipelineJobs ----------------------------
(***************************************************************************)
(* The processes np_simple forks, running while the shell goes on: they    *)
(* write to and read from pipes of bounded capacity, inherit descriptors   *)
(* at fork and are, or are not, waited for before the next prompt.         *)
(*                                                                         *)
(* A process is a source or a filter.  A source writes a chosen number of  *)
(* units and ends, whatever is on its stdin.  A filter reads a pipe,       *)
(* forwards what it reads and ends at end of file.  Processes keep running *)
(* after the shell has ended.  pipe() does not fail here.                  *)
(***************************************************************************)
EXTENDS NumberedPipes

CONSTANTS
    Cap,      \* capacity of a pipe, in units
    Amounts   \* the units a source may write

ASSUME JobsAssumption ==
    /\ Cap \in Nat \ {0}
    /\ Amounts \subseteq Nat

VARIABLES
    jobs,  \* for each process of procs, its program, progress and open ends
    fill   \* units in each pipe

jvars == <<redirection_info, npipes, open, procs, pc, done, asked, jobs, fill>>

shellVars == <<redirection_info, npipes, open, procs, pc, done, asked>>

----------------------------------------------------------------------------
Running == {q \in procs : jobs[q].state = "running"}

OwnEnds(q) ==
    (IF q.in # STD THEN {<<q.in, "r">>} ELSE {})
    \cup ({<<q.out, "w">>, <<q.err, "w">>} \ {<<STD, "w">>})

\* Mutant: the child keeps the write end of the pipe it reads.
InheritedAll(q, before, node) == before

\* What a child has open when it reaches execvp: its streams, and every
\* numbered pipe end the shell had open at the fork.  It closes the ordinary
\* pipes, and the write end of the front's pipe if it is the one reading it;
\* the later commands of the slice are forked after the shell closed that.
Inherited(q, before, node) ==
    IF q.pos = done + 1
    THEN before \ {<<node.wend, "w">>}
    ELSE CloseFront(before, node)

ChildEnds(q, before, node) == OwnEnds(q) \cup Inherited(q, before, node)

\* The processes a slice adds; `before' is what the shell has open when it
\* forks the first of them.
Spawn(before, node) ==
    LET new == procs' \ procs
    IN  \E filters \in SUBSET {q \in new : q.in # STD} :
        \E amount \in [new \ filters -> Amounts] :
            jobs' = [q \in procs' |->
                        IF q \in procs THEN jobs[q]
                        ELSE [ends   |-> ChildEnds(q, before, node),
                              todo   |-> IF q \in filters THEN 0 ELSE amount[q],
                              filter |-> q \in filters,
                              state  |-> "running"]]

GrowFill == fill' = [p \in 1..npipes' |-> IF p \in DOMAIN fill THEN fill[p] ELSE 0]

JInit == Init /\ jobs = << >> /\ fill = << >>

JBeginLine(l) == BeginLine(l) /\ GrowFill /\ UNCHANGED jobs

JRunSlice ==
    /\ RunSlice
    /\ Spawn(open \cup BothEnds({npipes + 1}), front)
    /\ GrowFill

JLastSlice == LastSlice /\ Spawn(open, front) /\ GrowFill

\* Whether the shell waits depends on where the output goes: to the client,
\* and it waits for every process of the line; into a numbered pipe, and it
\* waits for none ("distance(first, end) < size - 1" is false at the start).
WaitOver == front.out = STD => \A q \in Running : q.line # Line

JEndLine == EndLine /\ WaitOver /\ UNCHANGED <<jobs, fill>>

JBuiltin(l) == Builtin(l) /\ UNCHANGED <<jobs, fill>>

JQuit == Quit /\ UNCHANGED <<jobs, fill>>

----------------------------------------------------------------------------
(* The operating system's side                                             *)

EndHeld(end) == end \in open \/ \E q \in Running : end \in jobs[q].ends

Exits(q, state) ==
    jobs' = [jobs EXCEPT ![q].state = state, ![q].ends = {}, ![q].todo = 0,
                         ![q].filter = FALSE]

Write(q) ==
    /\ jobs[q].todo > 0
    /\ IF q.out = STD
       THEN UNCHANGED fill
       ELSE /\ EndHeld(<<q.out, "r">>)
            /\ fill[q.out] < Cap
            /\ fill' = [fill EXCEPT ![q.out] = @ + 1]
    /\ jobs' = [jobs EXCEPT ![q].todo = @ - 1]
    /\ UNCHANGED shellVars

\* Writing to a pipe nobody can read any more ends the process.
BrokenPipe(q) ==
    /\ jobs[q].todo > 0
    /\ q.out # STD
    /\ ~EndHeld(<<q.out, "r">>)
    /\ Exits(q, "killed")
    /\ UNCHANGED <<shellVars, fill>>

Read(q) ==
    /\ jobs[q].filter
    /\ jobs[q].todo = 0
    /\ fill[q.in] > 0
    /\ fill' = [fill EXCEPT ![q.in] = @ - 1]
    /\ jobs' = [jobs EXCEPT ![q].todo = 1]
    /\ UNCHANGED shellVars

\* A source ends when it has written everything, a filter when its pipe is
\* empty and no process can write to it any more.
Finish(q) ==
    /\ jobs[q].todo = 0
    /\ jobs[q].filter => fill[q.in] = 0 /\ ~EndHeld(<<q.in, "w">>)
    /\ Exits(q, IF jobs[q].filter THEN "eof" ELSE "ended")
    /\ UNCHANGED <<shellVars, fill>>

Runs(q) == Write(q) \/ BrokenPipe(q) \/ Read(q) \/ Finish(q)

JEnded == pc = "exited" /\ Running = {} /\ UNCHANGED jvars

JNext ==
    \/ \E l \in CommandLines : JBeginLine(l) \/ JBuiltin(l)
    \/ JRunSlice
    \/ JLastSlice
    \/ JEndLine
    \/ JQuit
    \/ \E q \in Running : Runs(q)
    \/ JEnded

\* The shell runs on by itself except at the prompt, where it waits for the
\* client; the operating system runs every process that can run.
JSpec ==
    /\ JInit
    /\ [][JNext]_jvars
    /\ WF_jvars(JRunSlice \/ JLastSlice \/ JEndLine)
    /\ WF_jvars(\E q \in Running : Runs(q))

----------------------------------------------------------------------------
(* Properties                                                              *)

\* End of file is final: once a filter has ended, nobody is left who could
\* write to the pipe it read, so no output directed at it can come too late.
EofIsFinal ==
    \A c \in procs :
        jobs[c].state = "eof" => ~EndHeld(<<c.in, "w">>) /\ fill[c.in] = 0

\* Every line the shell waits for comes to its end and the prompt returns.
LineEnds == pc = "wait" ~> pc = "prompt"

\* No process is left behind for ever: again and again none is running.
JobsEnd == []<>(Running = {})
=============================================================================
