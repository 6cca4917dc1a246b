--------------------------- MODULE NumberedPipes ---------------------------
(***************************************************************************)
(* How one np_simple shell wires the standard streams of the processes it  *)
(* forks: the numbered pipes "|N" and "!N" (simple_Command.cpp) kept in    *)
(* the deque redirection_info, which the destructor of every Command       *)
(* shifts by one line.                                                     *)
(*                                                                         *)
(* A command line is a record [n, dest, bang]: its number of commands      *)
(* (0 for the builtins, which fork nothing), the N of its trailing         *)
(* numbered pipe (0 for none) and whether that was "!N".  A pipe is its    *)
(* number in the order of creation; descriptors are ends <<pipe, "r">> and *)
(* <<pipe, "w">>.                                                          *)
(***************************************************************************)
EXTENDS Naturals, Sequences, FiniteSets

CONSTANTS
    SliceSize,  \* commands forked at a time (50 in the code)
    Depth,      \* length of redirection_info (1500 in the code)
    MaxCmds,    \* bound: commands of a line
    Dests,      \* the N of the numbered pipes typed, 0 for none
    Bangs,      \* {FALSE} without "!N", BOOLEAN with it
    MaxLines    \* bound: lines typed in a session

ASSUME ConstantsAssumption ==
    /\ SliceSize \in Nat \ {0}
    /\ Depth \in Nat \ {0}
    /\ MaxCmds \in Nat \ {0}
    /\ Dests \subseteq 0..(Depth - 1)
    /\ Bangs \subseteq BOOLEAN
    /\ MaxLines \in Nat

VARIABLES
    redirection_info, \* [0..Depth-1 -> Node], element 0 is the front
    npipes,           \* pipes created so far
    open,             \* the pipe ends the shell itself has open
    procs,            \* every process forked so far, with its streams
    pc,               \* where the shell is in main_loop
    done,             \* commands of the current line already forked
    asked             \* the lines read so far

vars == <<redirection_info, npipes, open, procs, pc, done, asked>>

----------------------------------------------------------------------------
STD == 0   \* a stream that is not redirected; pipe numbers start at 1

Slots == 0..(Depth - 1)

Node == [in : Nat, out : Nat, err : Nat, wend : Nat]

NewNode == [in |-> STD, out |-> STD, err |-> STD, wend |-> STD]

front == redirection_info[0]

Line == Len(asked)

cmd == asked[Line]

\* The loop of execute takes the whole rest of the line unless more than
\* SliceSize commands are left.
left == cmd.n - done

CommandLines == [n : 0..MaxCmds, dest : Dests, bang : Bangs]

Processes == [line : Nat, pos : Nat, in : Nat, out : Nat, err : Nat]

Ends == (Nat \ {0}) \X {"r", "w"}

----------------------------------------------------------------------------
Init ==
    /\ redirection_info = [k \in Slots |-> NewNode]
    /\ npipes = 0
    /\ open = {}
    /\ procs = {}
    /\ pc = "prompt"
    /\ done = 0
    /\ asked = << >>

\* Mutants: the push_back forgotten, or made of the front.
PoppedOnly(deque) == [k \in {i \in Slots : i + 1 \in Slots} |-> deque[k + 1]]

PoppedRotating(deque) ==
    [k \in Slots |-> IF k + 1 \in Slots THEN deque[k + 1] ELSE deque[0]]

\* ~Command: pop_front, then push_back(Node()).
Popped(deque) ==
    [k \in Slots |-> IF k + 1 \in Slots THEN deque[k + 1] ELSE NewNode]

\* Mutant: a second line with the same destination gets a pipe of its own.
OpenOverwriting(deque, destination, bang, pipe) ==
    [deque EXCEPT
        ![destination].in = pipe,
        ![destination].wend = pipe,
        ![0].out = pipe]

\* The deque after open_numbered_pipe_to_destination(destination, bang),
\* when `pipe' is the number the new pipe gets if one is needed.  Joining a
\* pipe that is already there redirects the stdout only.
OpenNumberedPipe(deque, destination, bang, pipe) ==
    IF deque[destination].in = STD
    THEN [deque EXCEPT
            ![destination].in = pipe,
            ![destination].wend = pipe,
            ![0].out = pipe,
            ![0].err = IF bang THEN pipe ELSE @]
    ELSE [deque EXCEPT ![0].out = deque[destination].wend]

NeedsPipe(deque, destination) == deque[destination].in = STD

BothEnds(pipes) == pipes \X {"r", "w"}

\* main_loop reads a line that is not a builtin; execute starts by opening
\* the pipe of the trailing "|N".
BeginLine(l) ==
    /\ pc = "prompt"
    /\ Line < MaxLines
    /\ l.n > 0
    /\ l.bang => l.dest # 0
    /\ asked' = Append(asked, l)
    /\ done' = 0
    /\ pc' = "slice"
    /\ IF l.dest # 0
       THEN /\ redirection_info' = OpenNumberedPipe(redirection_info, l.dest, l.bang, npipes + 1)
            /\ IF NeedsPipe(redirection_info, l.dest)
               THEN /\ npipes' = npipes + 1
                    /\ open' = open \cup BothEnds({npipes + 1})
               ELSE UNCHANGED <<npipes, open>>
       ELSE UNCHANGED <<redirection_info, npipes, open>>
    /\ UNCHANGED procs

----------------------------------------------------------------------------
(* The processes fork_process creates for a slice of k commands, whose     *)
(* ordinary pipes are base+1 .. base+k-1, wired to the streams of `node'.  *)
ErrorStream(j, k, node, base) ==
    CASE ~cmd.bang -> STD
      [] cmd.bang /\ j = k -> node.err
      [] OTHER -> base + j

Slice(k, node, base) ==
    { [line |-> Line,
       pos  |-> done + j,
       in   |-> IF j = 1 THEN node.in ELSE base + j - 1,
       out  |-> IF j = k THEN node.out ELSE base + j,
       err  |-> ErrorStream(j, k, node, base)] : j \in 1..k }

\* Mutants: the write end, or the read end, is kept.
CloseReadEndOnly(ends, node) ==
    IF node.in # STD THEN ends \ {<<node.in, "r">>} ELSE ends

CloseWriteEndOnly(ends, node) ==
    IF node.in # STD THEN ends \ {<<node.wend, "w">>} ELSE ends

\* The shell closes the front's numbered pipe as soon as its reader has been
\* forked: close(pipe_write_end), close(input_stream).
CloseFront(ends, node) ==
    IF node.in # STD THEN ends \ {<<node.wend, "w">>, <<node.in, "r">>} ELSE ends

\* Mutant: the node inserted for the next slice is not used.
RunSliceKeepingFront ==
    /\ pc = "slice"
    /\ left > SliceSize
    /\ LET slice == npipes + 1
           node  == [front EXCEPT !.out = slice, !.err = slice]
       IN  /\ procs' = procs \cup Slice(SliceSize, node, slice)
           /\ open' = CloseFront(open \cup BothEnds({slice}), node)
           /\ UNCHANGED redirection_info
    /\ npipes' = npipes + SliceSize
    /\ done' = done + SliceSize
    /\ UNCHANGED <<pc, asked>>

\* A slice that is not the last: insert a Node after the front, open a pipe
\* to it, fork SliceSize commands, do not wait (output_stream is a pipe),
\* pop_front.  The inserted node becomes the front.
RunSlice ==
    /\ pc = "slice"
    /\ left > SliceSize
    /\ LET slice == npipes + 1
           node  == [front EXCEPT !.out = slice, !.err = slice]
       IN  /\ procs' = procs \cup Slice(SliceSize, node, slice)
           /\ open' = CloseFront(open \cup BothEnds({slice}), node)
           /\ redirection_info' = [redirection_info EXCEPT
                                     ![0] = [NewNode EXCEPT !.in = slice, !.wend = slice]]
    /\ npipes' = npipes + SliceSize
    /\ done' = done + SliceSize
    /\ UNCHANGED <<pc, asked>>

\* The last slice of a line, wired to whatever the front says by then.
LastSlice ==
    /\ pc = "slice"
    /\ left <= SliceSize
    /\ procs' = procs \cup Slice(left, front, npipes)
    /\ open' = CloseFront(open, front)
    /\ npipes' = npipes + left - 1
    /\ done' = cmd.n
    /\ pc' = "wait"
    /\ UNCHANGED <<redirection_info, asked>>

\* The waits are over; ~Command shifts the deque and main_loop prompts.
EndLine ==
    /\ pc = "wait"
    /\ redirection_info' = Popped(redirection_info)
    /\ pc' = "prompt"
    /\ UNCHANGED <<npipes, open, procs, done, asked>>

\* Mutant: a builtin does not shift the deque.
BuiltinNoPop(l) ==
    /\ pc = "prompt"
    /\ Line < MaxLines
    /\ l.n = 0
    /\ l.dest = 0
    /\ ~l.bang
    /\ asked' = Append(asked, l)
    /\ UNCHANGED <<redirection_info, npipes, open, procs, pc, done>>

\* setenv, printenv, unsetenv: a line that forks nothing, but whose Command
\* object pops the front like any other, closing no descriptor.
Builtin(l) ==
    /\ pc = "prompt"
    /\ Line < MaxLines
    /\ l.n = 0
    /\ l.dest = 0
    /\ ~l.bang
    /\ asked' = Append(asked, l)
    /\ redirection_info' = Popped(redirection_info)
    /\ UNCHANGED <<npipes, open, procs, pc, done>>

\* exit or end of file: execute throws, main_loop breaks, the process ends
\* and the kernel closes what it had open.
Quit ==
    /\ pc = "prompt"
    /\ pc' = "exited"
    /\ open' = {}
    /\ UNCHANGED <<redirection_info, npipes, procs, done, asked>>

\* open_pipes, which has a pipe to open for each "|" of the slice, throws when
\* pipe() fails; main_loop breaks and the process ends.
PipesFail ==
    /\ pc = "slice"
    /\ left > 1 /\ SliceSize > 1
    /\ pc' = "failed"
    /\ open' = {}
    /\ UNCHANGED <<redirection_info, npipes, procs, done, asked>>

Gone == pc \in {"exited", "failed"}

\* After the shell has ended nothing happens any more.
Ended == Gone /\ UNCHANGED vars

Next ==
    \/ \E l \in CommandLines : BeginLine(l) \/ Builtin(l)
    \/ RunSlice
    \/ LastSlice
    \/ EndLine
    \/ Quit
    \/ PipesFail
    \/ Ended

Spec == Init /\ [][Next]_vars

----------------------------------------------------------------------------
(* Properties                                                              *)

\* Every variable has its type; a session reads at most MaxLines lines.
TypeOK ==
    /\ redirection_info \in [Slots -> Node]
    /\ npipes \in Nat
    /\ open \subseteq Ends
    /\ procs \subseteq Processes
    /\ pc \in {"prompt", "slice", "wait", "exited", "failed"}
    /\ done \in Nat
    /\ asked \in Seq(CommandLines)
    /\ pc = "slice" => Line > 0

\* Line l ends in a numbered pipe that counts down to line m.
Directed(l, m) ==
    /\ asked[l].n > 0
    /\ asked[l].dest # 0
    /\ l + asked[l].dest = m

IsLast(q) == q.pos = asked[q.line].n

InOneSlice(l) == asked[l].n <= SliceSize

Feeds(q, c) == c.in # STD /\ q.out = c.in

\* The first command of a line reads the stdout of the last command of every
\* earlier line (run as one slice) that was directed at it, and of nothing
\* else, whatever lines came between, builtins included: redirection_info,
\* shifted by ~Command, counts lines correctly and pipes are never crossed.
NumberedDelivery ==
    \A c, q \in procs :
        c.pos = 1 =>
            (Feeds(q, c) <=> IsLast(q) /\ InOneSlice(q.line) /\ Directed(q.line, c.line))

\* Every other command reads the stdout of the command before it on its line
\* and of nothing else, also when the two are forked in different slices:
\* the numbered pipe that joins two slices never meets the user's own pipes.
PipelineChain ==
    \A c, q \in procs :
        c.pos > 1 => (Feeds(q, c) <=> q.line = c.line /\ q.pos + 1 = c.pos)

\* Once the reader of a pipe has been forked the shell holds no write end of
\* that pipe, so that the reader can see end of file ("we close the
\* write_end of that pipe to ensure we can read properly").
ReaderCanSeeEof ==
    \A c \in procs : c.in # STD => <<c.in, "w">> \notin open

\* The shell holds no more descriptors than the two ends of the pipes that
\* await their line, and two for every builtin line some earlier line was
\* directed at (~Command drops that pipe with its node and does not close it):
\* however long a session, CloseFront lets nothing else pile up.
DescriptorsHeld ==
    LET current == pc \in {"slice", "wait"}
        pending == {k \in Slots : /\ redirection_info[k].in # STD
                                  /\ k = 0 /\ current => pc = "slice"}
        dropped == {m \in 1..Line : /\ asked[m].n = 0
                                    /\ \E l \in 1..(m - 1) : Directed(l, m)}
    IN  Cardinality(open) <= 2 * (Cardinality(pending) + Cardinality(dropped))

----------------------------------------------------------------------------
(***************************************************************************)
(* NumberedPipes implements LinePipes.  Once its first slice is forked a   *)
(* line has been launched, but until the deque is shifted what is due next *)
(* sits in the node after the front.  A line longer than a slice does lose *)
(* its output, when the pipe between its slices is opened.                 *)
(***************************************************************************)
InLoop == pc \in {"slice", "failed"}

Launched == IF InLoop /\ done = 0 THEN Line - 1 ELSE Line

Unshifted == pc = "wait" \/ (InLoop /\ done > 0)

Waiting(k) ==
    LET slot == IF Unshifted THEN k + 1 ELSE k
    IN  {q.line : q \in {p \in procs : /\ slot \in Slots
                                       /\ redirection_info[slot].in # STD
                                       /\ p.out = redirection_info[slot].in}}

Delivered ==
    {<<p[1].line, p[2].line>> :
        p \in {r \in procs \X procs : r[2].pos = 1 /\ Feeds(r[1], r[2])}}

Lines == INSTANCE LinePipes WITH
    Horizon <- Depth,
    Sure <- SliceSize,
    typed <- asked,
    launched <- Launched,
    due <- [k \in Slots |-> Waiting(k)],
    delivered <- Delivered

\* The wiring of the shell keeps the promise of LinePipes: the output of a line
\* is on the stdin of the line the user directed it at, counted in the lines
\* typed, with all else that was directed there, and on no other line's.
Contract == Lines!Spec

============================================================================
