------------------------ MODULE NumberedPipesProofs ------------------------
(***************************************************************************)
(* The np_simple shell, for every slice size, deque length and set of      *)
(* lines, in four parts.                                                   *)
(*                                                                         *)
(* 1. NumberedPipes: the variables keep their types, numbered pipes        *)
(*    deliver to the right line, pipelines are chained in order across     *)
(*    slices, and a reader can always see end of file.  The invariant IInv *)
(*    relates the node in slot k of redirection_info to the line LineOf(k) *)
(*    it stands for: the processes that write to its pipe are the last     *)
(*    commands of the lines directed at that line, and nobody reads it     *)
(*    yet.                                                                 *)
(* 2. The descriptors the shell holds, counted (HeldInv).                  *)
(* 3. NumberedPipes implements LinePipes.                                  *)
(* 4. PipelineJobs, the processes running, implements NumberedPipes, and   *)
(*    end of file is final in it (JInv).                                   *)
(***************************************************************************)
EXTENDS PipelineJobs, SequenceTheorems, FiniteSetTheorems, TLAPS

\* The line the node in slot k stands for.
LineOf(k) == IF pc \in {"slice", "wait", "failed"} THEN Line + k ELSE Line + 1 + k

\* The node in slot k has not handed its pipe to a reader yet.
Pending(k) == k # 0 \/ pc # "wait"

In(k) == redirection_info[k].in

NodesOK ==
    \A k \in Slots :
        /\ In(k) \in 0..npipes
        /\ redirection_info[k].wend = In(k)
        /\ redirection_info[k].out \in 0..npipes
        /\ k # 0 \/ pc \notin {"slice", "wait", "failed"} => redirection_info[k].out = STD

PipesDistinct ==
    \A i, k \in Slots : In(i) = In(k) /\ In(k) # STD => i = k

ProcsOK ==
    \A q \in procs :
        /\ q.line \in 1..Line
        /\ q.pos \in 1..asked[q.line].n
        /\ q.in \in 0..npipes
        /\ q.out \in 0..npipes
        /\ pc \in {"slice", "failed"} /\ q.line = Line => q.pos <= done

Unread ==
    \A k \in Slots, c \in procs : Pending(k) /\ In(k) # STD => c.in # In(k)

\* Who writes to the pipe in slot k: in the middle of a line of several
\* slices, for the front, the last command forked; otherwise the last
\* commands of the lines directed there.
WriterOf(q, k) ==
    IF k = 0 /\ pc \in {"slice", "failed"} /\ done > 0
    THEN q.line = Line /\ q.pos = done
    ELSE IsLast(q) /\ InOneSlice(q.line) /\ Directed(q.line, LineOf(k))

Fed ==
    \A k \in Slots, q \in procs :
        Pending(k) => ((In(k) # STD /\ q.out = In(k)) <=> WriterOf(q, k))

FrontOK ==
    pc = "slice" =>
        /\ done < cmd.n
        /\ done = 0 =>
            /\ cmd.dest = 0 => front.out = STD
            /\ cmd.dest # 0 => In(cmd.dest) # STD /\ front.out = In(cmd.dest)
        /\ done > 0 => front.out = STD /\ In(0) # STD /\ cmd.n > SliceSize

OpenOK == \A e \in open : e[1] \in 1..npipes

IInv ==
    /\ TypeOK
    /\ NodesOK
    /\ PipesDistinct
    /\ ProcsOK
    /\ Unread
    /\ Fed
    /\ FrontOK
    /\ OpenOK
    /\ NumberedDelivery
    /\ PipelineChain
    /\ ReaderCanSeeEof

----------------------------------------------------------------------------
(* Facts about the operators                                               *)

\* A process of a slice, field by field.
LEMMA SliceMember ==
    ASSUME NEW k, NEW node, NEW base, NEW q \in Slice(k, node, base)
    PROVE  \E j \in 1..k :
             /\ q.line = Line
             /\ q.pos = done + j
             /\ q.in = IF j = 1 THEN node.in ELSE base + j - 1
             /\ q.out = IF j = k THEN node.out ELSE base + j
             /\ q.err = ErrorStream(j, k, node, base)
BY DEF Slice

\* The line being served is one the bounds allow.
LEMMA CmdType ==
    ASSUME TypeOK, Line > 0
    PROVE  cmd \in CommandLines /\ cmd.n \in 0..MaxCmds /\ cmd.dest \in Dests
<1>1. asked \in Seq(CommandLines) /\ Line \in 1..Len(asked)
  BY LenProperties DEF TypeOK, Line
<1>2. cmd \in CommandLines
  BY <1>1, ElementOfSeq DEF cmd
<1> QED
  BY <1>2 DEF CommandLines

\* A line is appended: the lines before it stay as they were.
LEMMA AppendLine ==
    ASSUME TypeOK, NEW l \in CommandLines, asked' = Append(asked, l)
    PROVE  /\ asked' \in Seq(CommandLines)
           /\ Line' = Line + 1
           /\ asked'[Line + 1] = l
           /\ \A i \in 1..Line : asked'[i] = asked[i]
BY DEF TypeOK, Line

\* Slots are closed under taking the predecessor, and only the last slot has
\* no successor.
LEMMA SlotsFacts ==
    /\ 0 \in Slots
    /\ \A k \in Slots : k \in Nat /\ (k + 1 \notin Slots => k = Depth - 1)
    /\ \A l \in CommandLines : l.dest \in Slots
<1>1. Depth \in Nat \ {0} /\ Dests \subseteq 0..(Depth - 1)
  BY ConstantsAssumption
<1>2. 0 \in Slots /\ \A k \in Slots : k \in Nat /\ (k + 1 \notin Slots => k = Depth - 1)
  BY <1>1 DEF Slots
<1>3. \A l \in CommandLines : l.dest \in Slots
  BY <1>1 DEF Slots, CommandLines
<1> QED
  BY <1>2, <1>3

\* What a line may ask for is a position of the deque.
LEMMA DestsFacts == \A d \in Dests : d \in Nat /\ d \in Slots
<1>1. Depth \in Nat \ {0} /\ Dests \subseteq 0..(Depth - 1)
  BY ConstantsAssumption
<1> QED
  BY <1>1 DEF Slots

\* The deque after its front has been popped, slot by slot.
LEMMA PoppedAt ==
    ASSUME NEW deque, NEW k \in Slots
    PROVE  Popped(deque)[k] = IF k + 1 \in Slots THEN deque[k + 1] ELSE NewNode
BY DEF Popped

\* Popping the front keeps the type of the deque.
LEMMA PoppedType ==
    ASSUME NEW deque \in [Slots -> Node]
    PROVE  Popped(deque) \in [Slots -> Node]
<1>1. NewNode \in Node
  BY DEF NewNode, Node, STD
<1> QED
  BY <1>1 DEF Popped

\* The deque after a pipe to `d' has been asked for, slot by slot.
LEMMA OpenedAt ==
    ASSUME NEW deque \in [Slots -> Node], NEW d \in Slots, d # 0,
           NEW b \in BOOLEAN, NEW p \in Nat
    PROVE  LET new == OpenNumberedPipe(deque, d, b, p) IN
           /\ new \in [Slots -> Node]
           /\ \A k \in Slots : k # d => new[k].in = deque[k].in /\ new[k].wend = deque[k].wend
           /\ \A k \in Slots : k # 0 => new[k].out = deque[k].out
           /\ deque[d].in = STD => new[d].in = p /\ new[d].wend = p /\ new[0].out = p
           /\ deque[d].in # STD => /\ new[d].in = deque[d].in
                                   /\ new[d].wend = deque[d].wend
                                   /\ new[0].out = deque[d].wend
<1>1. 0 \in Slots
  BY SlotsFacts
<1>2. CASE deque[d].in = STD
  <2> DEFINE new == OpenNumberedPipe(deque, d, b, p)
             atD == [deque[d] EXCEPT !.in = p, !.wend = p]
             at0 == [deque[0] EXCEPT !.out = p, !.err = IF b THEN p ELSE @]
  <2>1. atD \in Node /\ at0 \in Node
    BY <1>1 DEF Node
  <2>2. new = [[deque EXCEPT ![d] = atD] EXCEPT ![0] = at0]
    BY <1>1, <1>2 DEF OpenNumberedPipe
  <2>3. \A k \in Slots : new[k] = IF k = 0 THEN at0 ELSE IF k = d THEN atD ELSE deque[k]
    BY <2>2, <1>1
  <2>4. new \in [Slots -> Node]
    BY <2>1, <2>2
  <2>5. /\ atD.in = p /\ atD.wend = p
        /\ atD.out = deque[d].out
        /\ at0.in = deque[0].in /\ at0.wend = deque[0].wend /\ at0.out = p
    BY <1>1 DEF Node
  <2> QED
    BY <1>1, <1>2, <2>3, <2>4, <2>5 DEF new
<1>3. CASE deque[d].in # STD
  BY <1>1, <1>3 DEF OpenNumberedPipe, Node
<1> QED
  BY <1>2, <1>3

----------------------------------------------------------------------------
(* The invariant holds initially and is kept by every action               *)

\* The invariant holds in the initial state.
LEMMA InitInv == Init => IInv
<1> SUFFICES ASSUME Init PROVE IInv
  OBVIOUS
<1>1. TypeOK
  BY DEF Init, TypeOK, NewNode, Node, STD
<1>2. \A k \in Slots : redirection_info[k] = NewNode
  BY DEF Init
<1> QED
  BY <1>1, <1>2
  DEF Init, IInv, NodesOK, PipesDistinct, ProcsOK, Unread, Fed, FrontOK, OpenOK, In,
      NewNode, STD, NumberedDelivery, PipelineChain, ReaderCanSeeEof

\* BeginLine, the first line of execute and its numbered pipe, preserves it.
LEMMA BeginLineInv ==
    ASSUME IInv, NEW l \in CommandLines, BeginLine(l)
    PROVE  IInv'
<1> USE DEF STD
<1>1. /\ pc = "prompt" /\ pc' = "slice" /\ done' = 0
      /\ l.n > 0 /\ procs' = procs
      /\ asked' = Append(asked, l)
  BY DEF BeginLine
<1>2. /\ asked' \in Seq(CommandLines)
      /\ Line \in Nat
      /\ Line' = Line + 1
      /\ asked'[Line + 1] = l
      /\ \A i \in 1..Line : asked'[i] = asked[i]
  BY <1>1, AppendLine, LenProperties DEF IInv, TypeOK, Line
<1>3. TypeOK /\ redirection_info \in [Slots -> Node] /\ npipes \in Nat /\ open \subseteq Ends
  BY DEF IInv, TypeOK
<1>4. l.n \in Nat \ {0} /\ l.dest \in Slots /\ l.dest \in Nat /\ 0 \in Slots /\ l.bang \in BOOLEAN
  BY <1>1, SlotsFacts, ConstantsAssumption DEF CommandLines
<1>5. \A k \in Slots : /\ In(k) \in 0..npipes
                       /\ redirection_info[k].wend = In(k)
                       /\ redirection_info[k].out = STD
  BY <1>1 DEF IInv, NodesOK
<1>6. /\ redirection_info' \in [Slots -> Node]
      /\ npipes' \in Nat /\ npipes' >= npipes
      /\ \A k \in Slots : \/ In(k)' = In(k)
                          \/ k = l.dest /\ In(k) = STD /\ In(k)' = npipes + 1 /\ npipes' = npipes + 1
      /\ \A k \in Slots : redirection_info'[k].wend = In(k)'
      /\ \A k \in Slots : k # 0 => redirection_info'[k].out = STD
      /\ l.dest = 0 => front'.out = STD
      /\ l.dest # 0 => In(l.dest)' # STD /\ front'.out = In(l.dest)'
      /\ open' \subseteq open \cup BothEnds({npipes + 1})
      /\ open' # open => npipes' = npipes + 1
  <2>1. CASE l.dest = 0
    <3>1. redirection_info' = redirection_info /\ npipes' = npipes /\ open' = open
      BY <2>1 DEF BeginLine
    <3> QED
      BY <3>1, <2>1, <1>3, <1>4, <1>5 DEF In, front
  <2>2. CASE l.dest # 0
    <3> DEFINE new == OpenNumberedPipe(redirection_info, l.dest, l.bang, npipes + 1)
    <3>1. redirection_info' = new
      BY <2>2 DEF BeginLine
    <3>2. /\ new \in [Slots -> Node]
          /\ \A k \in Slots : k # l.dest => /\ new[k].in = redirection_info[k].in
                                            /\ new[k].wend = redirection_info[k].wend
          /\ \A k \in Slots : k # 0 => new[k].out = redirection_info[k].out
          /\ redirection_info[l.dest].in = STD =>
                /\ new[l.dest].in = npipes + 1
                /\ new[l.dest].wend = npipes + 1
                /\ new[0].out = npipes + 1
          /\ redirection_info[l.dest].in # STD =>
                /\ new[l.dest].in = redirection_info[l.dest].in
                /\ new[l.dest].wend = redirection_info[l.dest].wend
                /\ new[0].out = redirection_info[l.dest].wend
      BY <2>2, <1>3, <1>4, OpenedAt
    <3>3. CASE NeedsPipe(redirection_info, l.dest)
      <4>1. npipes' = npipes + 1 /\ open' = open \cup BothEnds({npipes + 1})
        BY <2>2, <3>3 DEF BeginLine
      <4>2. redirection_info[l.dest].in = STD
        BY <3>3 DEF NeedsPipe
      <4> HIDE DEF new
      <4> QED
        BY <4>1, <4>2, <3>1, <3>2, <2>2, <1>3, <1>4, <1>5 DEF In, front
    <3>4. CASE ~NeedsPipe(redirection_info, l.dest)
      <4>1. npipes' = npipes /\ open' = open
        BY <2>2, <3>4 DEF BeginLine
      <4>2. redirection_info[l.dest].in # STD
        BY <3>4 DEF NeedsPipe
      <4> HIDE DEF new
      <4> QED
        BY <4>1, <4>2, <3>1, <3>2, <2>2, <1>3, <1>4, <1>5 DEF In, front
    <3> QED
      BY <3>3, <3>4
  <2> QED
    BY <2>1, <2>2
<1>7. \A q \in procs : /\ q.line \in 1..Line
                       /\ asked'[q.line] = asked[q.line]
                       /\ q.in \in 0..npipes /\ q.out \in 0..npipes
                       /\ q.pos \in 1..asked[q.line].n
  BY <1>2 DEF IInv, ProcsOK
<1>8. \A q \in procs : /\ IsLast(q)' <=> IsLast(q)
                       /\ InOneSlice(q.line)' <=> InOneSlice(q.line)
                       /\ \A m : Directed(q.line, m)' <=> Directed(q.line, m)
  <2> TAKE q \in procs
  <2>1. asked'[q.line] = asked[q.line]
    BY <1>7
  <2> QED
    BY <2>1 DEF IsLast, InOneSlice, Directed
<1>9. TypeOK'
  <2>1. open' \subseteq Ends
    BY <1>3, <1>6 DEF BothEnds, Ends
  <2>2. Line' > 0
    BY <1>2
  <2> QED
    BY <2>1, <2>2, <1>1, <1>2, <1>3, <1>6 DEF TypeOK
<1>10. NodesOK'
  BY SMTT(30), <1>1, <1>3, <1>4, <1>5, <1>6 DEF NodesOK, In, front
<1>11. PipesDistinct'
  BY <1>3, <1>5, <1>6 DEF IInv, PipesDistinct
<1>12. ProcsOK'
  <2> SUFFICES ASSUME NEW q \in procs
               PROVE  /\ q.line \in 1..(Line') /\ q.line # Line'
                      /\ q.pos \in 1..(asked'[q.line].n)
                      /\ q.in \in 0..(npipes')
                      /\ q.out \in 0..(npipes')
    BY <1>1 DEF ProcsOK
  <2>1. asked'[q.line] = asked[q.line]
    BY <1>7
  <2> QED
    BY <2>1, <1>2, <1>3, <1>6, <1>7
<1>13. Unread'
  BY <1>1, <1>3, <1>5, <1>6, <1>7 DEF IInv, Unread, Pending
<1>14. Fed'
  <2> SUFFICES ASSUME NEW k \in Slots, NEW q \in procs
               PROVE  (In(k)' # STD /\ q.out = In(k)') <=> WriterOf(q, k)'
    BY <1>1 DEF Fed
  <2>1. (In(k) # STD /\ q.out = In(k)) <=> WriterOf(q, k)
    BY <1>1 DEF IInv, Fed, Pending
  <2>2. WriterOf(q, k)' <=> WriterOf(q, k)
    <3>1. LineOf(k)' = LineOf(k)
      BY <1>1, <1>2, SlotsFacts DEF LineOf
    <3> QED
      BY <3>1, <1>1, <1>8 DEF WriterOf
  <2>3. (In(k)' # STD /\ q.out = In(k)') <=> (In(k) # STD /\ q.out = In(k))
    BY <1>3, <1>6, <1>7
  <2> QED
    BY <2>1, <2>2, <2>3
<1>15. FrontOK'
  <2>1. cmd' = l
    BY <1>2 DEF cmd
  <2> QED
    BY <2>1, <1>1, <1>4, <1>6 DEF FrontOK
<1>16. OpenOK'
  BY <1>3, <1>6 DEF IInv, OpenOK, BothEnds
<1>17. NumberedDelivery'
  BY <1>1, <1>8 DEF IInv, NumberedDelivery, Feeds
<1>18. PipelineChain'
  BY <1>1 DEF IInv, PipelineChain, Feeds
<1>19. ReaderCanSeeEof'
  BY <1>1, <1>3, <1>6, <1>7 DEF IInv, ReaderCanSeeEof, BothEnds
<1> QED
  BY <1>9, <1>10, <1>11, <1>12, <1>13, <1>14, <1>15, <1>16, <1>17, <1>18, <1>19 DEF IInv

\* ~Command shifts every node one slot, so that it still stands for the line
\* it stood for; the node pushed at the back stands for a line no numbered
\* pipe can reach yet.
LEMMA ShiftedNodes ==
    ASSUME IInv, redirection_info' = Popped(redirection_info),
           pc \in {"prompt", "wait"}, pc' = "prompt"
    PROVE  /\ redirection_info' \in [Slots -> Node]
           /\ \A k \in Slots :
                /\ k + 1 \in Slots => redirection_info'[k] = redirection_info[k + 1]
                /\ k + 1 \notin Slots => redirection_info'[k] = NewNode
                /\ redirection_info'[k].out = STD
                /\ redirection_info'[k].wend = In(k)'
                /\ In(k)' \in 0..npipes
<1>1. /\ redirection_info \in [Slots -> Node]
      /\ npipes \in Nat
      /\ redirection_info' \in [Slots -> Node]
  BY PoppedType DEF IInv, TypeOK
<1>2. \A k \in Slots : /\ k + 1 \in Slots => redirection_info'[k] = redirection_info[k + 1]
                       /\ k + 1 \notin Slots => redirection_info'[k] = NewNode
  BY PoppedAt
<1>3. \A k \in Slots : k + 1 # 0
  BY SlotsFacts
<1>4. \A k \in Slots : k # 0 => redirection_info[k].out = STD
  BY DEF IInv, NodesOK
<1>5. \A k \in Slots : In(k) \in 0..npipes /\ redirection_info[k].wend = In(k)
  BY DEF IInv, NodesOK
<1>6. NewNode.in = 0 /\ NewNode.out = 0 /\ NewNode.wend = 0 /\ STD = 0
  BY DEF NewNode, STD
<1> QED
  BY <1>1, <1>2, <1>3, <1>4, <1>5, <1>6 DEF In

\* The shift of the deque at the end of a line preserves it.
LEMMA ShiftInv ==
    ASSUME IInv, redirection_info' = Popped(redirection_info),
           pc \in {"prompt", "wait"}, pc' = "prompt",
           UNCHANGED <<npipes, procs>>,
           \A k \in Slots : k + 1 \in Slots => LineOf(k)' = LineOf(k + 1),
           \A q \in procs, k \in Slots :
                k + 1 \notin Slots => ~Directed(q.line, LineOf(k)'),
           \A q \in procs : /\ IsLast(q)' <=> IsLast(q)
                            /\ InOneSlice(q.line)' <=> InOneSlice(q.line)
                            /\ \A m : Directed(q.line, m)' <=> Directed(q.line, m)
    PROVE  NodesOK' /\ PipesDistinct' /\ Unread' /\ Fed'
<1>1. /\ redirection_info' \in [Slots -> Node]
      /\ \A k \in Slots :
            /\ k + 1 \in Slots => redirection_info'[k] = redirection_info[k + 1]
            /\ k + 1 \notin Slots => redirection_info'[k] = NewNode
            /\ redirection_info'[k].out = STD
            /\ redirection_info'[k].wend = In(k)'
            /\ In(k)' \in 0..npipes
  BY ShiftedNodes
<1>2. \A k \in Slots : /\ k + 1 \in Slots => In(k)' = In(k + 1)
                       /\ k + 1 \notin Slots => In(k)' = STD
                       /\ k \in Nat
                       /\ k + 1 # 0
  BY <1>1, SlotsFacts DEF In, NewNode
<1>3. NodesOK'
  <2>1. npipes \in Nat /\ npipes' = npipes
    BY DEF IInv, TypeOK
  <2>2. \A k \in Slots : redirection_info'[k].out \in 0..npipes
    BY <1>1, <2>1 DEF STD
  <2> QED
    BY <1>1, <2>1, <2>2 DEF NodesOK
<1>4. PipesDistinct'
  BY <1>2 DEF IInv, PipesDistinct
<1>5. Unread'
  BY <1>2 DEF IInv, Unread, Pending
<1>6. Fed'
  <2> SUFFICES ASSUME NEW k \in Slots, NEW q \in procs
               PROVE  (In(k)' # STD /\ q.out = In(k)') <=> WriterOf(q, k)'
    BY DEF Fed
  <2>1. WriterOf(q, k)' <=> IsLast(q) /\ InOneSlice(q.line) /\ Directed(q.line, LineOf(k)')
    BY DEF WriterOf
  <2>2. CASE k + 1 \in Slots
    <3>1. (In(k + 1) # STD /\ q.out = In(k + 1)) <=> WriterOf(q, k + 1)
      BY <2>2, <1>2 DEF IInv, Fed, Pending
    <3>2. WriterOf(q, k + 1) <=>
            IsLast(q) /\ InOneSlice(q.line) /\ Directed(q.line, LineOf(k + 1))
      BY <1>2 DEF WriterOf
    <3> QED
      BY <2>1, <2>2, <3>1, <3>2, <1>2
  <2>3. CASE k + 1 \notin Slots
    BY <2>1, <2>3, <1>2
  <2> QED
    BY <2>2, <2>3
<1> QED
  BY <1>3, <1>4, <1>5, <1>6

\* No line directs its output further than the deque reaches.
LEMMA BeyondReach ==
    ASSUME TypeOK, ProcsOK, NEW q \in procs, NEW m \in Nat, m >= Line + Depth
    PROVE  ~Directed(q.line, m)
<1>1. q.line \in 1..Line /\ Line \in Nat /\ asked \in Seq(CommandLines)
  BY LenProperties DEF TypeOK, ProcsOK, Line
<1>2. asked[q.line] \in CommandLines
  BY <1>1, ElementOfSeq DEF Line
<1>3. asked[q.line].dest \in 0..(Depth - 1)
  BY <1>2, SlotsFacts DEF Slots
<1>4. Depth \in Nat
  BY ConstantsAssumption
<1> QED
  BY SMTT(30), <1>1, <1>3, <1>4 DEF Directed

\* EndLine, the end of execute and the pop of the destructor, preserves it.
LEMMA EndLineInv ==
    ASSUME IInv, EndLine
    PROVE  IInv'
<1>1. /\ pc = "wait" /\ pc' = "prompt"
      /\ redirection_info' = Popped(redirection_info)
      /\ UNCHANGED <<npipes, open, procs, done, asked>>
  BY DEF EndLine
<1>2. TypeOK /\ ProcsOK /\ Line \in Nat /\ Line' = Line
  BY <1>1, LenProperties DEF IInv, TypeOK, Line
<1>3. \A k \in Slots : /\ k \in Nat
                       /\ LineOf(k) = Line + k
                       /\ LineOf(k)' = Line + 1 + k
                       /\ k + 1 \in Slots => LineOf(k + 1) = Line + (k + 1)
                       /\ k + 1 \notin Slots => k = Depth - 1
  BY <1>1, <1>2, SlotsFacts DEF LineOf
<1>4. \A q \in procs : /\ IsLast(q)' <=> IsLast(q)
                       /\ InOneSlice(q.line)' <=> InOneSlice(q.line)
                       /\ \A m : Directed(q.line, m)' <=> Directed(q.line, m)
  BY <1>1 DEF IsLast, InOneSlice, Directed
<1>5. NodesOK' /\ PipesDistinct' /\ Unread' /\ Fed'
  <2>1. \A k \in Slots : k + 1 \in Slots => LineOf(k)' = LineOf(k + 1)
    BY <1>2, <1>3
  <2>2. \A q \in procs, k \in Slots : k + 1 \notin Slots => ~Directed(q.line, LineOf(k)')
    <3> SUFFICES ASSUME NEW q \in procs, NEW k \in Slots, k + 1 \notin Slots
                 PROVE  ~Directed(q.line, LineOf(k)')
      BY <1>4
    <3>1. LineOf(k)' \in Nat /\ LineOf(k)' >= Line + Depth
      BY <1>2, <1>3, ConstantsAssumption
    <3> QED
      BY <3>1, <1>2, BeyondReach
  <2> QED
    BY <1>1, <1>4, <2>1, <2>2, ShiftInv
<1>6. TypeOK'
  BY <1>1, ShiftedNodes DEF IInv, TypeOK
<1>7. ProcsOK' /\ FrontOK' /\ OpenOK' /\ NumberedDelivery' /\ PipelineChain' /\ ReaderCanSeeEof'
  BY <1>1, <1>2 DEF IInv, ProcsOK, FrontOK, OpenOK, NumberedDelivery, PipelineChain,
                    ReaderCanSeeEof, IsLast, InOneSlice, Directed, Feeds
<1> QED
  BY <1>5, <1>6, <1>7 DEF IInv

\* Builtin, a line that forks nothing, preserves it.
LEMMA BuiltinInv ==
    ASSUME IInv, NEW l \in CommandLines, Builtin(l)
    PROVE  IInv'
<1>1. /\ pc = "prompt" /\ pc' = "prompt"
      /\ asked' = Append(asked, l)
      /\ redirection_info' = Popped(redirection_info)
      /\ UNCHANGED <<npipes, open, procs, done>>
  BY DEF Builtin
<1>2. /\ TypeOK /\ ProcsOK
      /\ asked' \in Seq(CommandLines)
      /\ Line \in Nat
      /\ Line' = Line + 1
      /\ \A i \in 1..Line : asked'[i] = asked[i]
  BY <1>1, AppendLine, LenProperties DEF IInv, TypeOK, Line
<1>3. \A k \in Slots : /\ k \in Nat
                       /\ LineOf(k)' = Line + 2 + k
                       /\ k + 1 \in Slots => LineOf(k + 1) = Line + 1 + (k + 1)
                       /\ k + 1 \notin Slots => k = Depth - 1
  BY <1>1, <1>2, SlotsFacts DEF LineOf
<1>4. \A q \in procs : /\ q.line \in 1..Line
                       /\ asked'[q.line] = asked[q.line]
                       /\ q.pos \in 1..asked[q.line].n
                       /\ q.in \in 0..npipes /\ q.out \in 0..npipes
  BY <1>2 DEF ProcsOK
<1>5. \A q \in procs : /\ IsLast(q)' <=> IsLast(q)
                       /\ InOneSlice(q.line)' <=> InOneSlice(q.line)
                       /\ \A m : Directed(q.line, m)' <=> Directed(q.line, m)
  <2> TAKE q \in procs
  <2>1. asked'[q.line] = asked[q.line]
    BY <1>4
  <2> QED
    BY <2>1 DEF IsLast, InOneSlice, Directed
<1>6. NodesOK' /\ PipesDistinct' /\ Unread' /\ Fed'
  <2>1. \A k \in Slots : k + 1 \in Slots => LineOf(k)' = LineOf(k + 1)
    BY <1>2, <1>3
  <2>2. \A q \in procs, k \in Slots : k + 1 \notin Slots => ~Directed(q.line, LineOf(k)')
    <3> SUFFICES ASSUME NEW q \in procs, NEW k \in Slots, k + 1 \notin Slots
                 PROVE  ~Directed(q.line, LineOf(k)')
      OBVIOUS
    <3>1. LineOf(k)' \in Nat /\ LineOf(k)' >= Line + Depth
      BY <1>2, <1>3, ConstantsAssumption
    <3> QED
      BY <3>1, <1>2, BeyondReach
  <2> QED
    BY <1>1, <1>5, <2>1, <2>2, ShiftInv
<1>7. TypeOK'
  BY <1>1, <1>2, ShiftedNodes DEF IInv, TypeOK
<1>8. ProcsOK'
  <2> SUFFICES ASSUME NEW q \in procs
               PROVE  /\ q.line \in 1..(Line')
                      /\ q.pos \in 1..(asked'[q.line].n)
                      /\ q.in \in 0..npipes
                      /\ q.out \in 0..npipes
    BY <1>1 DEF ProcsOK
  <2> QED
    BY <1>2, <1>4
<1>9. NumberedDelivery'
  BY <1>1, <1>5 DEF IInv, NumberedDelivery, Feeds
<1>10. FrontOK' /\ OpenOK' /\ PipelineChain' /\ ReaderCanSeeEof'
  BY <1>1 DEF IInv, FrontOK, OpenOK, PipelineChain, ReaderCanSeeEof, Feeds
<1> QED
  BY <1>6, <1>7, <1>8, <1>9, <1>10 DEF IInv

\* Quit preserves it.
LEMMA QuitInv ==
    ASSUME IInv, Quit
    PROVE  IInv'
<1>1. /\ pc = "prompt" /\ pc' = "exited" /\ open' = {}
      /\ UNCHANGED <<redirection_info, npipes, procs, done, asked>>
  BY DEF Quit
<1>2. \A k : LineOf(k)' = LineOf(k) /\ Pending(k)' = Pending(k) /\ In(k)' = In(k)
  BY <1>1 DEF LineOf, Pending, In, Line
<1>3. TypeOK' /\ NodesOK' /\ PipesDistinct' /\ ProcsOK' /\ Unread'
  BY <1>1, <1>2 DEF IInv, TypeOK, NodesOK, PipesDistinct, ProcsOK, Unread, Line, Pending, In
<1>4. Fed'
  <2> SUFFICES ASSUME NEW k \in Slots, NEW q \in procs
               PROVE  (In(k) # STD /\ q.out = In(k)) <=> WriterOf(q, k)'
    BY <1>1, <1>2 DEF Fed
  <2>1. (In(k) # STD /\ q.out = In(k)) <=> WriterOf(q, k)
    BY <1>1 DEF IInv, Fed, Pending
  <2> QED
    BY <1>1, <1>2, <2>1 DEF WriterOf, IsLast, InOneSlice, Directed
<1>5. FrontOK' /\ OpenOK' /\ NumberedDelivery' /\ PipelineChain' /\ ReaderCanSeeEof'
  BY <1>1 DEF IInv, FrontOK, OpenOK, NumberedDelivery, PipelineChain, ReaderCanSeeEof,
              Feeds, IsLast, InOneSlice, Directed
<1> QED
  BY <1>3, <1>4, <1>5 DEF IInv

\* Neither does the failure of open_pipes, which also ends the shell.
LEMMA PipesFailInv ==
    ASSUME IInv, PipesFail
    PROVE  IInv'
<1>1. /\ pc = "slice" /\ pc' = "failed" /\ open' = {}
      /\ UNCHANGED <<redirection_info, npipes, procs, done, asked>>
  BY DEF PipesFail
<1>2. \A k : LineOf(k)' = LineOf(k) /\ Pending(k)' = Pending(k) /\ In(k)' = In(k)
  BY <1>1 DEF LineOf, Pending, In, Line
<1>3. TypeOK' /\ NodesOK' /\ PipesDistinct' /\ ProcsOK' /\ Unread'
  BY <1>1, <1>2 DEF IInv, TypeOK, NodesOK, PipesDistinct, ProcsOK, Unread, Line, Pending, In
<1>4. Fed'
  <2> SUFFICES ASSUME NEW k \in Slots, NEW q \in procs
               PROVE  (In(k) # STD /\ q.out = In(k)) <=> WriterOf(q, k)'
    BY <1>1, <1>2 DEF Fed
  <2>1. (In(k) # STD /\ q.out = In(k)) <=> WriterOf(q, k)
    BY <1>1 DEF IInv, Fed, Pending
  <2> QED
    BY <1>1, <1>2, <2>1 DEF WriterOf, IsLast, InOneSlice, Directed, Line
<1>5. FrontOK' /\ OpenOK' /\ NumberedDelivery' /\ PipelineChain' /\ ReaderCanSeeEof'
  BY <1>1 DEF IInv, FrontOK, OpenOK, NumberedDelivery, PipelineChain, ReaderCanSeeEof,
              Feeds, IsLast, InOneSlice, Directed
<1> QED
  BY <1>3, <1>4, <1>5 DEF IInv

\* A step that changes nothing preserves it.
LEMMA StutterInv ==
    ASSUME IInv, UNCHANGED vars
    PROVE  IInv'
BY DEF vars, IInv, TypeOK, NodesOK, PipesDistinct, ProcsOK, Unread, Fed, FrontOK, OpenOK,
       NumberedDelivery, PipelineChain, ReaderCanSeeEof, Feeds, IsLast, InOneSlice, Directed,
       WriterOf, LineOf, Pending, In, Line, cmd, front

\* What both kinds of slice have in common: k commands are forked from `node',
\* whose stdin is the front's, with ordinary pipes numbered above base.
LEMMA SliceFacts ==
    ASSUME IInv, pc = "slice",
           NEW k \in Nat \ {0}, NEW node, NEW base \in Nat,
           node.in = In(0), base >= npipes, done + k <= cmd.n,
           node.out \in 0..base,
           node.out # STD => \A c \in procs : c.in # node.out,
           node.out # STD => node.out # In(0)
    PROVE  /\ \A q \in Slice(k, node, base) :
                /\ q.line = Line
                /\ q.pos \in (done + 1)..(done + k)
                /\ q.pos \in 1..cmd.n
                /\ q.in \in 0..(base + k - 1) /\ q.out \in 0..(base + k - 1)
                /\ q.pos = done + 1 => q.in = In(0)
                /\ q.pos # done + 1 => q.in = base + (q.pos - done) - 1
                /\ q.pos = done + k => q.out = node.out
                /\ q.pos # done + k => q.out = base + (q.pos - done)
           /\ \A c \in procs, q \in Slice(k, node, base) : ~Feeds(q, c)
<1>1. /\ npipes \in Nat /\ done \in Nat /\ Line \in Nat /\ Line > 0
      /\ In(0) \in 0..npipes
  BY SlotsFacts, LenProperties DEF IInv, TypeOK, NodesOK, Line
<1>2. cmd.n \in Nat
  BY <1>1, CmdType, ConstantsAssumption DEF IInv
<1>3. ASSUME NEW q \in Slice(k, node, base)
      PROVE  /\ q.line = Line
             /\ q.pos \in (done + 1)..(done + k)
             /\ q.pos \in 1..cmd.n
             /\ q.in \in 0..(base + k - 1) /\ q.out \in 0..(base + k - 1)
             /\ q.pos = done + 1 => q.in = In(0)
             /\ q.pos # done + 1 => q.in = base + (q.pos - done) - 1
             /\ q.pos = done + k => q.out = node.out
             /\ q.pos # done + k => q.out = base + (q.pos - done)
  <2>1. PICK j \in 1..k : /\ q.line = Line
                          /\ q.pos = done + j
                          /\ q.in = IF j = 1 THEN node.in ELSE base + j - 1
                          /\ q.out = IF j = k THEN node.out ELSE base + j
    BY SliceMember
  <2> QED
    BY <2>1, <1>1, <1>2
<1>4. \A c \in procs : c.in \in 0..npipes
  BY DEF IInv, ProcsOK
<1>5. ASSUME NEW c \in procs, NEW q \in Slice(k, node, base)
      PROVE  ~Feeds(q, c)
  <2>1. CASE q.pos = done + k
    BY <2>1, <1>3, <1>4 DEF Feeds
  <2>2. CASE q.pos # done + k
    <3>1. q.out > npipes
      BY <2>2, <1>1, <1>3
    <3> QED
      BY <3>1, <1>1, <1>4 DEF Feeds
  <2> QED
    BY <2>1, <2>2
<1> QED
  BY <1>3, <1>5

\* Where a command of a slice other than the first stands, and its pipe.
LEMMA LaterInSlice ==
    ASSUME NEW d \in Nat, NEW k \in Nat, NEW b \in Nat,
           NEW p \in (d + 1)..(d + k), p # d + 1
    PROVE  p \in Nat /\ p - d \in Nat /\ p - d >= 2 /\ b + (p - d) - 1 > b
OBVIOUS

\* The pipe of a command is the one its successor reads.
LEMMA NextInSlice ==
    ASSUME NEW d \in Nat, NEW k \in Nat, NEW b \in Nat,
           NEW p \in (d + 1)..(d + k), NEW q \in (d + 1)..(d + k)
    PROVE  b + (q - d) = b + (p - d) - 1 <=> q + 1 = p
OBVIOUS

\* A slice chains its commands: what is forked reads the command before it,
\* the first one the front's pipe, and nothing already running reads or
\* feeds what the slice adds.
LEMMA SliceWiring ==
    ASSUME IInv, pc = "slice",
           NEW k \in Nat \ {0}, NEW node, NEW base \in Nat,
           node.in = In(0), base >= npipes, done + k <= cmd.n,
           node.out \in 0..base,
           node.out # STD => \A c \in procs : c.in # node.out,
           node.out # STD => node.out # In(0),
           procs' = procs \cup Slice(k, node, base),
           asked' = asked
    PROVE  NumberedDelivery' /\ PipelineChain'
<1> DEFINE new == Slice(k, node, base)
<1>1. /\ \A q \in new :
            /\ q.line = Line
            /\ q.pos \in (done + 1)..(done + k)
            /\ q.pos \in 1..cmd.n
            /\ q.in \in 0..(base + k - 1) /\ q.out \in 0..(base + k - 1)
            /\ q.pos = done + 1 => q.in = In(0)
            /\ q.pos # done + 1 => q.in = base + (q.pos - done) - 1
            /\ q.pos = done + k => q.out = node.out
            /\ q.pos # done + k => q.out = base + (q.pos - done)
      /\ \A c \in procs, q \in new : ~Feeds(q, c)
  BY SliceFacts
<1>2. /\ npipes \in Nat /\ done \in Nat /\ Line \in Nat /\ Line > 0 /\ 0 \in Slots
      /\ In(0) \in 0..npipes
      /\ asked \in Seq(CommandLines)
  BY SlotsFacts, LenProperties DEF IInv, TypeOK, NodesOK, Line
<1>num. npipes \in Nat /\ done \in Nat /\ Line \in Nat
  BY <1>2
<1>3. cmd = asked[Line] /\ cmd.n \in Nat
  BY <1>2, CmdType, ConstantsAssumption DEF IInv, cmd
<1>4. \A q \in procs : /\ q.line \in 1..Line
                       /\ q.pos \in 1..asked[q.line].n
                       /\ q.in \in 0..npipes /\ q.out \in 0..npipes
                       /\ q.line = Line => q.pos <= done
  BY DEF IInv, ProcsOK
<1>5. \A q \in procs : (In(0) # STD /\ q.out = In(0)) <=> WriterOf(q, 0)
  BY <1>2 DEF IInv, Fed, Pending
<1>6. LineOf(0) = Line
  BY <1>2 DEF LineOf
\* Lines are directed at later lines only.
<1>7. \A i \in 1..Line : ~Directed(Line, i)
  <2> SUFFICES ASSUME NEW i \in 1..Line, Directed(Line, i) PROVE FALSE
    OBVIOUS
  <2>1. cmd.dest \in Dests
    BY <1>2, CmdType DEF IInv
  <2>2. cmd.dest \in Nat
    BY <2>1, DestsFacts
  <2> QED
    BY SMTT(30), <2>2, <1>2, <1>3 DEF Directed
<1> HIDE DEF new
<1>8. ASSUME NEW c \in procs', NEW q \in procs', c.pos = 1
      PROVE  Feeds(q, c) <=> IsLast(q) /\ InOneSlice(q.line) /\ Directed(q.line, c.line)
  <2>1. CASE c \in procs /\ q \in procs
    BY <2>1, <1>8 DEF IInv, NumberedDelivery
  <2>2. CASE c \in procs /\ q \in new
    BY <2>2, <1>1, <1>4, <1>7
  <2>3. CASE c \in new /\ q \in procs
    <3>1. done = 0 /\ c.in = In(0) /\ c.line = Line
      BY <2>3, <1>1, <1>2, <1>8
    <3>2. WriterOf(q, 0) <=> IsLast(q) /\ InOneSlice(q.line) /\ Directed(q.line, Line)
      BY <3>1, <1>6 DEF WriterOf
    <3> QED
      BY <3>1, <3>2, <1>5, <2>3 DEF Feeds
  <2>4. CASE c \in new /\ q \in new
    <3>1. done = 0 /\ c.in = In(0) /\ c.line = Line /\ q.line = Line
      BY <2>4, <1>1, <1>2, <1>8
    <3>2. ~Feeds(q, c)
      <4>1. CASE q.pos = done + k
        BY <4>1, <3>1, <1>1, <2>4 DEF Feeds
      <4>2. CASE q.pos # done + k
        BY <4>2, <3>1, <1>1, <1>2, <2>4 DEF Feeds
      <4> QED
        BY <4>1, <4>2
    <3>3. ~Directed(q.line, c.line)
      BY <3>1, <1>2, <1>7
    <3> QED
      BY <3>2, <3>3
  <2> QED
    BY <2>1, <2>2, <2>3, <2>4 DEF new
<1>9. ASSUME NEW c \in procs', NEW q \in procs', c.pos > 1
      PROVE  Feeds(q, c) <=> q.line = c.line /\ q.pos + 1 = c.pos
  <2>1. CASE c \in procs /\ q \in procs
    BY <2>1, <1>9 DEF IInv, PipelineChain
  <2>2. CASE c \in procs /\ q \in new
    <3>1. c.line = Line => c.pos <= done
      BY <2>2, <1>4
    <3>2. c.pos \in Nat
      BY <2>2, <1>4
    <3>3. q.line = Line /\ q.pos \in (done + 1)..(done + k) /\ ~Feeds(q, c)
      BY <2>2, <1>1
    <3>4. c.line = Line => q.pos + 1 # c.pos
      BY <3>1, <3>2, <3>3, <1>num
    <3> QED
      BY <3>3, <3>4
  <2>3. CASE c \in new /\ q \in procs
    <3>1. CASE c.pos = done + 1
      <4>1. done > 0 /\ c.in = In(0) /\ c.line = Line
        BY <3>1, <2>3, <1>1, <1>2, <1>9
      <4>2. WriterOf(q, 0) <=> q.line = Line /\ q.pos = done
        BY <4>1 DEF WriterOf
      <4>3. q.pos = done <=> q.pos + 1 = c.pos
        BY SMTT(30), <3>1, <2>3, <1>2, <1>4
      <4> QED
        BY <4>1, <4>2, <4>3, <1>5, <2>3 DEF Feeds
    <3>2. CASE c.pos # done + 1
      <4>1. c.in > npipes /\ c.line = Line
        <5>1. /\ c.line = Line
              /\ c.pos \in (done + 1)..(done + k)
              /\ c.in = base + (c.pos - done) - 1
          BY <3>2, <2>3, <1>1
        <5>2. base + (c.pos - done) - 1 > base
          BY <5>1, <3>2, <1>num, LaterInSlice
        <5> QED
          BY <5>1, <5>2, <1>num
      <4>2. ~Feeds(q, c)
        BY <4>1, <2>3, <1>2, <1>4 DEF Feeds
      <4>3. q.line = Line => q.pos + 1 < c.pos
        <5>1. c.pos \in (done + 1)..(done + k)
          BY <2>3, <1>1
        <5>2. q.line = Line => q.pos <= done /\ q.pos \in 1..cmd.n
          BY <2>3, <1>3, <1>4
        <5> QED
          BY <5>1, <5>2, <3>2, <1>3, <1>num
      <4> QED
        BY <4>1, <4>2, <4>3, <2>3, <1>4
    <3> QED
      BY <3>1, <3>2
  <2>4. CASE c \in new /\ q \in new
    <3>1. c.line = Line /\ q.line = Line
      BY <2>4, <1>1
    <3>2. CASE c.pos = done + 1
      <4>1. c.in = In(0)
        BY <3>2, <2>4, <1>1
      <4>2. ~Feeds(q, c)
        <5>1. CASE q.pos = done + k
          BY <5>1, <4>1, <1>1, <2>4 DEF Feeds
        <5>2. CASE q.pos # done + k
          BY SMTT(30), <5>2, <4>1, <1>1, <1>2, <2>4 DEF Feeds
        <5> QED
          BY <5>1, <5>2
      <4>3. q.pos + 1 # c.pos
        BY <3>2, <2>4, <1>1, <1>2
      <4> QED
        BY <4>2, <4>3
    <3>3. CASE c.pos # done + 1
      <4>1. c.in = base + (c.pos - done) - 1 /\ c.in > base
        <5>1. /\ c.pos \in (done + 1)..(done + k)
              /\ c.in = base + (c.pos - done) - 1
          BY <3>3, <2>4, <1>1
        <5>2. base + (c.pos - done) - 1 > base
          BY <5>1, <3>3, <1>num, LaterInSlice
        <5> QED
          BY <5>1, <5>2
      <4>2. CASE q.pos = done + k
        <5>1. ~Feeds(q, c)
          BY SMTT(30), <4>1, <4>2, <1>1, <1>2, <2>4 DEF Feeds
        <5>2. q.pos + 1 # c.pos
          <6>1. c.pos \in (done + 1)..(done + k)
            BY <2>4, <1>1
          <6> QED
            BY <6>1, <4>2, <1>num
        <5> QED
          BY <5>1, <5>2
      <4>3. CASE q.pos # done + k
        <5>1. q.out = base + (q.pos - done)
          BY <4>3, <2>4, <1>1
        <5>2. q.out = c.in <=> q.pos + 1 = c.pos
          <6>1. /\ q.pos \in (done + 1)..(done + k)
                /\ c.pos \in (done + 1)..(done + k)
            BY <2>4, <1>1
          <6>2. base + (q.pos - done) = base + (c.pos - done) - 1 <=> q.pos + 1 = c.pos
            BY <6>1, <1>num, NextInSlice
          <6> QED
            BY <6>2, <5>1, <4>1
        <5>3. c.in # STD
          BY <4>1 DEF STD
        <5> QED
          BY <5>2, <5>3, <3>1 DEF Feeds
      <4> QED
        BY <4>2, <4>3
    <3> QED
      BY <3>2, <3>3
  <2> QED
    BY <2>1, <2>2, <2>3, <2>4 DEF new
<1>10. \A q \in procs' : IsLast(q)' <=> IsLast(q)
  BY DEF IsLast
<1>11. \A i, m : Directed(i, m)' <=> Directed(i, m)
  BY DEF Directed
<1>12. \A i : InOneSlice(i)' <=> InOneSlice(i)
  BY DEF InOneSlice
<1> QED
  BY <1>8, <1>9, <1>10, <1>11, <1>12 DEF NumberedDelivery, PipelineChain, Feeds

\* RunSlice, a slice with another one after it, preserves it.
LEMMA RunSliceInv ==
    ASSUME IInv, RunSlice
    PROVE  IInv'
<1> USE DEF STD
<1> DEFINE pipe == npipes + 1
           node == [front EXCEPT !.out = pipe, !.err = pipe]
           new == Slice(SliceSize, node, pipe)
<1>1. /\ pc = "slice" /\ pc' = "slice"
      /\ left > SliceSize
      /\ procs' = procs \cup new
      /\ open' = CloseFront(open \cup BothEnds({pipe}), node)
      /\ redirection_info' = [redirection_info EXCEPT
                                ![0] = [NewNode EXCEPT !.in = pipe, !.wend = pipe]]
      /\ npipes' = npipes + SliceSize
      /\ done' = done + SliceSize
      /\ asked' = asked
  BY DEF RunSlice
<1>2. /\ redirection_info \in [Slots -> Node]
      /\ npipes \in Nat /\ done \in Nat /\ Line \in Nat /\ Line > 0
      /\ SliceSize \in Nat \ {0} /\ 0 \in Slots
      /\ Line' = Line
  BY <1>1, SlotsFacts, LenProperties, ConstantsAssumption DEF IInv, TypeOK, Line
<1>3. cmd' = cmd /\ cmd.n \in Nat /\ done + SliceSize < cmd.n
  <2>1. cmd' = cmd
    BY <1>1 DEF cmd, Line
  <2>2. cmd.n \in Nat
    BY <1>2, CmdType, ConstantsAssumption DEF IInv
  <2> QED
    BY <2>1, <2>2, <1>1, <1>2 DEF left
<1>4. front \in Node /\ front = redirection_info[0]
  BY <1>2 DEF front
<1>5. node \in Node /\ node.in = In(0) /\ node.wend = In(0) /\ node.out = pipe
  <2>1. pipe \in Nat
    BY <1>2
  <2>2. front.wend = front.in /\ front.in = In(0)
    BY <1>2, <1>4 DEF IInv, NodesOK, In
  <2> QED
    BY <2>1, <2>2, <1>4 DEF Node
<1>6. \A k \in Slots : /\ In(k) \in 0..npipes
                       /\ redirection_info[k].wend = In(k)
                       /\ redirection_info[k].out \in 0..npipes
                       /\ k # 0 => redirection_info[k].out = STD
  BY DEF IInv, NodesOK
<1>7. /\ redirection_info' \in [Slots -> Node]
      /\ \A k \in Slots : k # 0 => redirection_info'[k] = redirection_info[k]
      /\ redirection_info'[0].in = pipe
      /\ redirection_info'[0].wend = pipe
      /\ redirection_info'[0].out = STD
  <2>1. [NewNode EXCEPT !.in = pipe, !.wend = pipe] \in Node
    <3>1. pipe \in Nat
      BY <1>2
    <3> HIDE DEF pipe
    <3> QED
      BY <3>1 DEF NewNode, Node
  <2>2. /\ [NewNode EXCEPT !.in = pipe, !.wend = pipe].in = pipe
        /\ [NewNode EXCEPT !.in = pipe, !.wend = pipe].wend = pipe
        /\ [NewNode EXCEPT !.in = pipe, !.wend = pipe].out = STD
    BY DEF NewNode
  <2> QED
    BY <2>1, <2>2, <1>1, <1>2
<1>8. \A q \in procs : /\ q.line \in 1..Line
                       /\ q.pos \in 1..asked[q.line].n
                       /\ q.in \in 0..npipes /\ q.out \in 0..npipes
                       /\ q.line = Line => q.pos <= done
  BY <1>1 DEF IInv, ProcsOK
<1>9. /\ pipe \in Nat \ {0} /\ pipe > npipes
      /\ done + SliceSize <= cmd.n
      /\ \A c \in procs : c.in # pipe
      /\ pipe # In(0)
  BY <1>2, <1>3, <1>6, <1>8
<1> HIDE DEF node, new
<1>10. /\ \A q \in new :
             /\ q.line = Line
             /\ q.pos \in (done + 1)..(done + SliceSize)
             /\ q.pos \in 1..cmd.n
             /\ q.in \in 0..(pipe + SliceSize - 1) /\ q.out \in 0..(pipe + SliceSize - 1)
             /\ q.pos = done + 1 => q.in = In(0)
             /\ q.pos # done + 1 => q.in = pipe + (q.pos - done) - 1
             /\ q.pos = done + SliceSize => q.out = node.out
             /\ q.pos # done + SliceSize => q.out = pipe + (q.pos - done)
       /\ NumberedDelivery' /\ PipelineChain'
  <2>1. node.out \in 0..pipe /\ pipe >= npipes
    BY <1>2, <1>5, <1>9
  <2> HIDE DEF pipe
  <2> QED
    BY <2>1, <1>1, <1>2, <1>5, <1>9, SliceFacts, SliceWiring DEF new
<1>11. \A q \in new : q.in # pipe /\ (q.out = pipe <=> q.pos = done + SliceSize)
  <2> SUFFICES ASSUME NEW q \in new
               PROVE  q.in # pipe /\ (q.out = pipe <=> q.pos = done + SliceSize)
    OBVIOUS
  <2>1. q.pos \in Nat /\ q.pos - done \in Nat \ {0}
    BY <1>2, <1>10
  <2>2. q.in # pipe
    BY <2>1, <1>2, <1>6, <1>9, <1>10
  <2> QED
    BY <2>1, <2>2, <1>2, <1>5, <1>10
<1>12. TypeOK'
  <2>1. new \subseteq Processes
    <3> SUFFICES ASSUME NEW q \in new PROVE q \in Processes
      OBVIOUS
    <3>1. PICK j \in 1..SliceSize :
             q = [line |-> Line,
                  pos  |-> done + j,
                  in   |-> IF j = 1 THEN node.in ELSE pipe + j - 1,
                  out  |-> IF j = SliceSize THEN node.out ELSE pipe + j,
                  err  |-> ErrorStream(j, SliceSize, node, pipe)]
      BY DEF new, Slice
    <3>2. ErrorStream(j, SliceSize, node, pipe) \in Nat
      <4>1. node.err \in Nat /\ pipe + j \in Nat
        BY <1>2, <1>5 DEF Node
      <4>2. cmd.bang \in BOOLEAN
        BY <1>2, CmdType, ConstantsAssumption DEF IInv, CommandLines
      <4> QED
        BY <4>1, <4>2 DEF ErrorStream
    <3> QED
      BY <3>1, <3>2, <1>2, <1>5 DEF Processes, Node
  <2>2. open' \subseteq Ends
    BY <1>1, <1>9 DEF IInv, TypeOK, CloseFront, BothEnds, Ends
  <2>3. npipes' \in Nat /\ done' \in Nat /\ Line' > 0
    BY <1>1, <1>2
  <2>4. procs \subseteq Processes /\ asked \in Seq(CommandLines)
    BY DEF IInv, TypeOK
  <2> QED
    BY <2>1, <2>2, <2>3, <2>4, <1>1, <1>7 DEF TypeOK
<1>13. NodesOK'
  <2>1. \A k \in Slots : k # 0 => In(k)' = In(k)
    BY <1>7 DEF In
  <2>2. In(0)' = pipe /\ npipes' \in Nat /\ npipes' >= npipes /\ pipe \in 0..npipes'
    BY <1>1, <1>2, <1>7 DEF In
  <2> QED
    BY <2>1, <2>2, <1>1, <1>2, <1>6, <1>7 DEF NodesOK
<1>14. \A k \in Slots : k # 0 => In(k)' = In(k) /\ In(k) # pipe
  BY <1>2, <1>6, <1>7, <1>9 DEF In
<1>15. In(0)' = pipe
  BY <1>7 DEF In
<1>16. PipesDistinct'
  BY <1>14, <1>15 DEF IInv, PipesDistinct
<1>17. ProcsOK'
  <2>1. \A q \in procs' : q \in procs \/ q \in new
    BY <1>1
  <2>2. \A q \in procs : asked'[q.line] = asked[q.line]
    BY <1>1
  <2>3. \A q \in new : asked'[q.line] = cmd
    BY <1>1, <1>10 DEF cmd
  <2>4. npipes' = pipe + SliceSize - 1 /\ npipes' \in Nat /\ npipes' >= npipes
    BY <1>1, <1>2
  <2>5. \A q \in new : /\ q.line \in 1..(Line') /\ q.pos \in 1..(asked'[q.line].n)
                       /\ q.in \in 0..(npipes') /\ q.out \in 0..(npipes')
                       /\ q.pos <= done'
    BY <2>3, <2>4, <1>1, <1>2, <1>3, <1>10
  <2>6. \A q \in procs : /\ q.line \in 1..(Line') /\ q.pos \in 1..(asked'[q.line].n)
                         /\ q.in \in 0..(npipes') /\ q.out \in 0..(npipes')
                         /\ q.line = Line' => q.pos <= done'
    <3> SUFFICES ASSUME NEW q \in procs
                 PROVE  /\ q.line \in 1..(Line') /\ q.pos \in 1..(asked'[q.line].n)
                        /\ q.in \in 0..(npipes') /\ q.out \in 0..(npipes')
                        /\ q.line = Line' => q.pos <= done'
      OBVIOUS
    <3>1. q.line = Line => q.pos \in 1..cmd.n
      BY <1>8 DEF cmd
    <3>2. q.line = Line => q.pos <= done'
      BY <3>1, <1>1, <1>2, <1>3, <1>8
    <3> QED
      BY <3>2, <2>2, <2>4, <1>2, <1>8
  <2> QED
    BY <2>1, <2>5, <2>6 DEF ProcsOK
<1>18. Unread'
  <2> SUFFICES ASSUME NEW k \in Slots, NEW c \in procs', In(k)' # STD
               PROVE  c.in # In(k)'
    BY DEF Unread
  <2>1. CASE c \in procs /\ k = 0
    BY <2>1, <1>9, <1>15
  <2>2. CASE c \in procs /\ k # 0
    BY <2>2, <1>14 DEF IInv, Unread, Pending
  <2>3. CASE c \in new /\ k = 0
    BY <2>3, <1>11, <1>15
  <2>4. CASE c \in new /\ k # 0
    <3>1. In(k) \in 0..npipes /\ In(k) # In(0)
      BY <2>4, <1>2, <1>6, <1>14 DEF IInv, PipesDistinct
    <3>2. CASE c.pos = done + 1
      BY <3>1, <3>2, <2>4, <1>10, <1>14
    <3>3. CASE c.pos # done + 1
      <4>1. c.in > npipes
        BY <3>3, <2>4, <1>2, <1>10
      <4> QED
        BY <4>1, <3>1, <1>2, <1>14
    <3> QED
      BY <3>2, <3>3
  <2> QED
    BY <2>1, <2>2, <2>3, <2>4, <1>1
<1>19. Fed'
  <2>1. \A q \in procs' : IsLast(q)' <=> IsLast(q)
    BY <1>1 DEF IsLast
  <2>2. \A i, m : Directed(i, m)' <=> Directed(i, m)
    BY <1>1 DEF Directed
  <2>3. \A i : InOneSlice(i)' <=> InOneSlice(i)
    BY <1>1 DEF InOneSlice
  <2>4. done' > 0
    BY <1>1, <1>2
  <2> SUFFICES ASSUME NEW k \in Slots, NEW q \in procs'
               PROVE  (In(k)' # STD /\ q.out = In(k)') <=> WriterOf(q, k)'
    BY DEF Fed
  <2>5. CASE k = 0
    <3>1. WriterOf(q, k)' <=> q.line = Line /\ q.pos = done + SliceSize
      BY <2>4, <2>5, <1>1, <1>2 DEF WriterOf
    <3>2. CASE q \in procs
      <4>1. q.out # pipe
        BY <3>2, <1>2, <1>8, <1>9
      <4>2. q.line = Line => q.pos # done + SliceSize
        <5>1. q.line = Line => q.pos <= done /\ q.pos \in 1..cmd.n
          BY <3>2, <1>8 DEF cmd
        <5> QED
          BY <5>1, <1>2, <1>3
      <4> QED
        BY <4>1, <4>2, <3>1, <2>5, <1>15
    <3>3. CASE q \in new
      BY <3>1, <3>3, <2>5, <1>9, <1>10, <1>11, <1>15
    <3> QED
      BY <3>2, <3>3, <1>1
  <2>6. CASE k # 0
    <3>1. LineOf(k)' = LineOf(k)
      BY <1>1, <1>2 DEF LineOf
    <3>2. WriterOf(q, k)' <=> IsLast(q) /\ InOneSlice(q.line) /\ Directed(q.line, LineOf(k))
      BY <3>1, <2>1, <2>2, <2>3, <2>6 DEF WriterOf
    <3>3. CASE q \in procs
      <4>1. (In(k) # STD /\ q.out = In(k)) <=> WriterOf(q, k)
        BY <3>3, <2>6 DEF IInv, Fed, Pending
      <4>2. WriterOf(q, k) <=> IsLast(q) /\ InOneSlice(q.line) /\ Directed(q.line, LineOf(k))
        BY <2>6 DEF WriterOf
      <4> QED
        BY <4>1, <4>2, <3>2, <2>6, <1>14
    <3>4. CASE q \in new
      <4>1. ~IsLast(q)
        <5>1. q.pos \in (done + 1)..(done + SliceSize) /\ asked[q.line].n = cmd.n
          BY <3>4, <1>10 DEF cmd
        <5> QED
          BY <5>1, <1>2, <1>3 DEF IsLast
      <4>2. q.out >= pipe
        <5>1. CASE q.pos = done + SliceSize
          BY <5>1, <3>4, <1>5, <1>9, <1>10
        <5>2. CASE q.pos # done + SliceSize
          BY <5>2, <3>4, <1>2, <1>10
        <5> QED
          BY <5>1, <5>2
      <4>3. q.out # In(k)
        BY <4>2, <1>2, <1>6, <1>9
      <4> QED
        BY <4>1, <4>3, <3>2, <2>6, <1>14
    <3> QED
      BY <3>3, <3>4, <1>1
  <2> QED
    BY <2>5, <2>6
<1>20. FrontOK'
  <2>1. front'.out = STD /\ In(0)' # STD
    BY <1>7, <1>9, <1>15 DEF front
  <2>2. done' > 0 /\ done' < cmd'.n /\ cmd'.n > SliceSize
    BY <1>1, <1>2, <1>3
  <2>3. done' # 0
    BY <1>1, <1>2
  <2> QED
    BY <2>1, <2>2, <2>3 DEF FrontOK
<1>21. OpenOK'
  <2>1. npipes' \in Nat /\ npipes' >= npipes /\ pipe \in 1..(npipes')
    BY <1>1, <1>2
  <2>2. \A e \in open : e[1] \in 1..npipes
    BY DEF IInv, OpenOK
  <2>3. \A e \in open' : e \in open \/ e \in BothEnds({pipe})
    BY <1>1 DEF CloseFront
  <2>4. \A e \in BothEnds({pipe}) : e[1] = pipe
    BY DEF BothEnds
  <2> SUFFICES ASSUME NEW e \in open' PROVE e[1] \in 1..(npipes')
    BY DEF OpenOK
  <2> HIDE DEF pipe
  <2>5. CASE e \in open
    BY <2>5, <2>1, <2>2, <1>2
  <2>6. CASE e \in BothEnds({pipe})
    BY <2>6, <2>1, <2>4
  <2> QED
    BY <2>3, <2>5, <2>6
<1>22. ReaderCanSeeEof'
  <2> SUFFICES ASSUME NEW c \in procs', c.in # STD
               PROVE  <<c.in, "w">> \notin open'
    BY DEF ReaderCanSeeEof
  <2>1. \A e \in open' : e \in open \/ e[1] = pipe
    BY <1>1 DEF CloseFront, BothEnds
  <2>2. In(0) # STD => <<In(0), "w">> \notin open'
    BY <1>1, <1>5 DEF CloseFront
  <2>3. CASE c \in procs
    BY <2>1, <2>3, <1>9 DEF IInv, ReaderCanSeeEof
  <2>4. CASE c \in new /\ c.pos = done + 1
    BY <2>2, <2>4, <1>10
  <2>5. CASE c \in new /\ c.pos # done + 1
    <3>1. c.in > pipe
      BY <2>5, <1>2, <1>10
    <3>2. <<c.in, "w">> \notin open
      BY <3>1, <1>2 DEF IInv, OpenOK
    <3> QED
      BY <2>1, <3>1, <3>2, <1>9
  <2> QED
    BY <2>3, <2>4, <2>5, <1>1
<1> QED
  BY <1>10, <1>12, <1>13, <1>16, <1>17, <1>18, <1>19, <1>20, <1>21, <1>22 DEF IInv

\* LastSlice preserves it.
LEMMA LastSliceInv ==
    ASSUME IInv, LastSlice
    PROVE  IInv'
<1> USE DEF STD
<1> DEFINE new == Slice(left, front, npipes)
<1>1. /\ pc = "slice" /\ pc' = "wait"
      /\ left <= SliceSize
      /\ procs' = procs \cup new
      /\ open' = CloseFront(open, front)
      /\ npipes' = npipes + left - 1
      /\ done' = cmd.n
      /\ redirection_info' = redirection_info
      /\ asked' = asked
  BY DEF LastSlice
<1>2. /\ redirection_info \in [Slots -> Node]
      /\ npipes \in Nat /\ done \in Nat /\ Line \in Nat /\ Line > 0
      /\ SliceSize \in Nat \ {0} /\ 0 \in Slots
      /\ Line' = Line
  BY <1>1, SlotsFacts, LenProperties, ConstantsAssumption DEF IInv, TypeOK, Line
<1>3. /\ cmd.n \in Nat /\ cmd.dest \in Dests
      /\ cmd = asked[Line]
      /\ done < cmd.n
  BY <1>1, <1>2, CmdType DEF IInv, FrontOK, cmd
<1>4. left \in Nat \ {0} /\ done + left = cmd.n /\ done + left <= cmd.n
  BY <1>2, <1>3 DEF left
<1>5. front \in Node /\ front.in = In(0) /\ front.wend = In(0)
  BY <1>2 DEF front, In, IInv, NodesOK
<1>6. \A k \in Slots : /\ In(k) \in 0..npipes
                       /\ redirection_info[k].wend = In(k)
                       /\ redirection_info[k].out \in 0..npipes
                       /\ k # 0 => redirection_info[k].out = STD
                       /\ In(k)' = In(k)
  BY <1>1 DEF IInv, NodesOK, In
<1>7. \A q \in procs : /\ q.line \in 1..Line
                       /\ q.pos \in 1..asked[q.line].n
                       /\ q.in \in 0..npipes /\ q.out \in 0..npipes
                       /\ q.line = Line => q.pos <= done
  BY <1>1 DEF IInv, ProcsOK
\* The front writes to the slot the line is directed at, or nowhere.
<1>8. /\ done = 0 /\ cmd.dest # 0 => /\ front.out = In(cmd.dest)
                                     /\ In(cmd.dest) # STD
                                     /\ cmd.dest \in Slots
      /\ done # 0 \/ cmd.dest = 0 => front.out = STD
  BY <1>1, <1>2, <1>3, DestsFacts DEF IInv, FrontOK
<1>9. /\ front.out \in 0..npipes
      /\ front.out # STD => \A c \in procs : c.in # front.out
      /\ front.out # STD => front.out # In(0)
  <2>1. CASE done = 0 /\ cmd.dest # 0
    <3>1. cmd.dest \in Slots /\ front.out = In(cmd.dest) /\ In(cmd.dest) # STD
      BY <2>1, <1>8
    <3>2. \A c \in procs : c.in # In(cmd.dest)
      BY <2>1, <3>1 DEF IInv, Unread, Pending
    <3>3. In(cmd.dest) # In(0)
      BY <2>1, <3>1, <1>2 DEF IInv, PipesDistinct
    <3> QED
      BY <3>1, <3>2, <3>3, <1>6
  <2>2. CASE ~(done = 0 /\ cmd.dest # 0)
    BY <2>2, <1>2, <1>8
  <2> QED
    BY <2>1, <2>2
<1> HIDE DEF new
<1>10. /\ \A q \in new :
             /\ q.line = Line
             /\ q.pos \in (done + 1)..(done + left)
             /\ q.pos \in 1..cmd.n
             /\ q.in \in 0..(npipes + left - 1) /\ q.out \in 0..(npipes + left - 1)
             /\ q.pos = done + 1 => q.in = In(0)
             /\ q.pos # done + 1 => q.in = npipes + (q.pos - done) - 1
             /\ q.pos = done + left => q.out = front.out
             /\ q.pos # done + left => q.out = npipes + (q.pos - done)
       /\ NumberedDelivery' /\ PipelineChain'
  <2>1. npipes >= npipes
    BY <1>2
  <2> QED
    BY <2>1, <1>1, <1>2, <1>4, <1>5, <1>9, SliceFacts, SliceWiring DEF new
<1>11. npipes' \in Nat /\ npipes' >= npipes /\ npipes' = npipes + left - 1
  BY <1>1, <1>2, <1>4
<1>12. TypeOK'
  <2>1. new \subseteq Processes
    <3> SUFFICES ASSUME NEW q \in new PROVE q \in Processes
      OBVIOUS
    <3>1. PICK j \in 1..left :
             q = [line |-> Line,
                  pos  |-> done + j,
                  in   |-> IF j = 1 THEN front.in ELSE npipes + j - 1,
                  out  |-> IF j = left THEN front.out ELSE npipes + j,
                  err  |-> ErrorStream(j, left, front, npipes)]
      BY DEF new, Slice
    <3>2. ErrorStream(j, left, front, npipes) \in Nat
      <4>1. front.err \in Nat /\ npipes + j \in Nat
        BY <1>2, <1>4, <1>5 DEF Node
      <4>2. cmd.bang \in BOOLEAN
        BY <1>2, CmdType, ConstantsAssumption DEF IInv, CommandLines
      <4> QED
        BY <4>1, <4>2 DEF ErrorStream
    <3> QED
      BY <3>1, <3>2, <1>2, <1>4, <1>5 DEF Processes, Node
  <2>2. open' \subseteq Ends
    BY <1>1 DEF IInv, TypeOK, CloseFront
  <2>3. procs \subseteq Processes /\ asked \in Seq(CommandLines)
    BY DEF IInv, TypeOK
  <2> QED
    BY <2>1, <2>2, <2>3, <1>1, <1>2, <1>3, <1>11 DEF TypeOK
<1>13. NodesOK'
  BY <1>1, <1>2, <1>6, <1>11 DEF NodesOK
<1>14. PipesDistinct'
  BY <1>6 DEF IInv, PipesDistinct
<1>15. ProcsOK'
  <2>1. \A q \in procs : asked'[q.line] = asked[q.line]
    BY <1>1
  <2>2. \A q \in new : asked'[q.line] = cmd
    BY <1>1, <1>3, <1>10
  <2>3. \A q \in new : /\ q.line \in 1..(Line') /\ q.pos \in 1..(asked'[q.line].n)
                       /\ q.in \in 0..(npipes') /\ q.out \in 0..(npipes')
    BY <2>2, <1>2, <1>10, <1>11
  <2>4. \A q \in procs : /\ q.line \in 1..(Line') /\ q.pos \in 1..(asked'[q.line].n)
                         /\ q.in \in 0..(npipes') /\ q.out \in 0..(npipes')
    BY <2>1, <1>2, <1>7, <1>11
  <2> QED
    BY <2>3, <2>4, <1>1 DEF ProcsOK
<1>16. Unread'
  <2> SUFFICES ASSUME NEW k \in Slots, NEW c \in procs', k # 0, In(k) # STD
               PROVE  c.in # In(k)
    BY <1>1, <1>6 DEF Unread, Pending
  <2>1. CASE c \in procs
    BY <2>1 DEF IInv, Unread, Pending
  <2>2. CASE c \in new /\ c.pos = done + 1
    BY <2>2, <1>2, <1>10 DEF IInv, PipesDistinct
  <2>3. CASE c \in new /\ c.pos # done + 1
    <3>1. c.in > npipes
      <4>1. c.pos \in Nat /\ c.pos - done > 1
        BY <2>3, <1>2, <1>4, <1>10
      <4> QED
        BY <4>1, <2>3, <1>2, <1>10
    <3>2. In(k) \in 0..npipes
      BY <1>6
    <3> QED
      BY <3>1, <3>2, <1>2
  <2> QED
    BY <2>1, <2>2, <2>3, <1>1
<1>17. Fed'
  <2>1. \A q \in procs' : IsLast(q)' <=> IsLast(q)
    BY <1>1 DEF IsLast
  <2>2. \A i, m : Directed(i, m)' <=> Directed(i, m)
    BY <1>1 DEF Directed
  <2>3. \A i : InOneSlice(i)' <=> InOneSlice(i)
    BY <1>1 DEF InOneSlice
  <2> SUFFICES ASSUME NEW k \in Slots, NEW q \in procs', k # 0
               PROVE  (In(k) # STD /\ q.out = In(k)) <=> WriterOf(q, k)'
    BY <1>1, <1>6 DEF Fed, Pending
  <2>4. LineOf(k)' = Line + k /\ LineOf(k) = Line + k /\ k \in Nat
    BY <1>1, <1>2, SlotsFacts DEF LineOf
  <2>5. WriterOf(q, k)' <=> IsLast(q) /\ InOneSlice(q.line) /\ Directed(q.line, Line + k)
    BY <2>1, <2>2, <2>3, <2>4 DEF WriterOf
  <2>6. CASE q \in procs
    <3>1. (In(k) # STD /\ q.out = In(k)) <=> WriterOf(q, k)
      BY <2>6 DEF IInv, Fed, Pending
    <3>2. WriterOf(q, k) <=> IsLast(q) /\ InOneSlice(q.line) /\ Directed(q.line, Line + k)
      BY <2>4 DEF WriterOf
    <3> QED
      BY <2>5, <3>1, <3>2
  <2>7. CASE q \in new /\ q.pos # done + left
    <3>1. ~IsLast(q)
      BY <2>7, <1>3, <1>4, <1>10 DEF IsLast
    <3>2. q.out > npipes
      <4>1. q.pos \in Nat /\ q.pos - done > 0
        BY <2>7, <1>2, <1>4, <1>10
      <4> QED
        BY <4>1, <2>7, <1>2, <1>10
    <3>3. q.out # In(k)
      BY <3>2, <1>2, <1>6
    <3> QED
      BY <2>5, <3>1, <3>3
  <2>8. CASE q \in new /\ q.pos = done + left
    <3>1. IsLast(q) /\ q.line = Line /\ q.out = front.out
      BY <2>8, <1>3, <1>4, <1>10 DEF IsLast
    <3>2. InOneSlice(Line) <=> done = 0
      <4>1. CASE done = 0
        BY <4>1, <1>1, <1>3, <1>4 DEF InOneSlice
      <4>2. CASE done # 0
        <5>1. cmd.n > SliceSize
          BY <4>2, <1>1, <1>2 DEF IInv, FrontOK
        <5> QED
          BY <5>1, <4>2, <1>2, <1>3 DEF InOneSlice
      <4> QED
        BY <4>1, <4>2
    <3>3. Directed(Line, Line + k) <=> cmd.dest = k
      <4>1. cmd.dest \in Nat /\ cmd.n > 0
        BY <1>2, <1>3, DestsFacts
      <4> QED
        BY <4>1, <2>4, <1>2, <1>3 DEF Directed
    <3>4. CASE done = 0 /\ cmd.dest = k
      BY <3>1, <3>2, <3>3, <3>4, <2>5, <1>8
    <3>5. CASE done = 0 /\ cmd.dest # 0 /\ cmd.dest # k
      <4>1. front.out = In(cmd.dest) /\ In(cmd.dest) # STD /\ cmd.dest \in Slots
        BY <3>5, <1>8
      <4>2. In(cmd.dest) # In(k)
        BY <4>1, <3>5 DEF IInv, PipesDistinct
      <4> QED
        BY <4>1, <4>2, <3>1, <3>3, <3>5, <2>5
    <3>6. CASE done # 0 \/ cmd.dest = 0
      BY <3>1, <3>2, <3>3, <3>6, <2>5, <1>8
    <3> QED
      BY <3>4, <3>5, <3>6
  <2> QED
    BY <2>6, <2>7, <2>8, <1>1
<1>18. FrontOK'
  BY <1>1 DEF FrontOK
<1>19. OpenOK'
  <2>1. \A e \in open' : e \in open
    BY <1>1 DEF CloseFront
  <2> QED
    BY <2>1, <1>2, <1>11 DEF IInv, OpenOK
<1>20. ReaderCanSeeEof'
  <2> SUFFICES ASSUME NEW c \in procs', c.in # STD
               PROVE  <<c.in, "w">> \notin open'
    BY DEF ReaderCanSeeEof
  <2>1. \A e \in open' : e \in open
    BY <1>1 DEF CloseFront
  <2>2. In(0) # STD => <<In(0), "w">> \notin open'
    BY <1>1, <1>5 DEF CloseFront
  <2>3. CASE c \in procs
    BY <2>1, <2>3 DEF IInv, ReaderCanSeeEof
  <2>4. CASE c \in new /\ c.pos = done + 1
    BY <2>2, <2>4, <1>10
  <2>5. CASE c \in new /\ c.pos # done + 1
    <3>1. c.in > npipes
      <4>1. c.pos \in Nat /\ c.pos - done > 1
        BY <2>5, <1>2, <1>4, <1>10
      <4> QED
        BY <4>1, <2>5, <1>2, <1>10
    <3>2. <<c.in, "w">> \notin open
      BY <3>1, <1>2 DEF IInv, OpenOK
    <3> QED
      BY <2>1, <3>2
  <2> QED
    BY <2>3, <2>4, <2>5, <1>1
<1> QED
  BY <1>10, <1>12, <1>13, <1>14, <1>15, <1>16, <1>17, <1>18, <1>19, <1>20 DEF IInv

\* Every step preserves the invariant.
LEMMA NextInv == IInv /\ [Next]_vars => IInv'
<1> SUFFICES ASSUME IInv, [Next]_vars PROVE IInv'
  OBVIOUS
<1>1. ASSUME NEW l \in CommandLines, BeginLine(l) PROVE IInv'
  BY <1>1, BeginLineInv
<1>2. ASSUME NEW l \in CommandLines, Builtin(l) PROVE IInv'
  BY <1>2, BuiltinInv
<1>3. CASE RunSlice
  BY <1>3, RunSliceInv
<1>4. CASE LastSlice
  BY <1>4, LastSliceInv
<1>5. CASE EndLine
  BY <1>5, EndLineInv
<1>6. CASE Quit
  BY <1>6, QuitInv
<1>7. CASE PipesFail
  BY <1>7, PipesFailInv
<1>8. CASE Ended \/ UNCHANGED vars
  BY <1>8, StutterInv DEF Ended
<1> QED
  BY <1>1, <1>2, <1>3, <1>4, <1>5, <1>6, <1>7, <1>8 DEF Next

\* The inductive invariant holds in every reachable state.
THEOREM Invariance == Spec => []IInv
<1>1. Init => IInv
  BY InitInv
<1>2. IInv /\ [Next]_vars => IInv'
  BY NextInv
<1> QED
  BY <1>1, <1>2, PTL DEF Spec

----------------------------------------------------------------------------
(* What follows, for every SliceSize, Depth, MaxCmds, Dests and MaxLines   *)

\* Type correctness of a shell session.
THEOREM TypeCorrect == Spec => []TypeOK
<1>1. IInv => TypeOK
  BY DEF IInv
<1> QED
  BY <1>1, Invariance, PTL

\* The first command of a line reads the last command of every line run as
\* one slice and directed there, and nothing else.
THEOREM Delivery == Spec => []NumberedDelivery
<1>1. IInv => NumberedDelivery
  BY DEF IInv
<1> QED
  BY <1>1, Invariance, PTL

\* Every other command reads the command before it on its line, also across
\* slices, and nothing else.
THEOREM Chaining == Spec => []PipelineChain
<1>1. IInv => PipelineChain
  BY DEF IInv
<1> QED
  BY <1>1, Invariance, PTL

\* The shell never holds the write end of a pipe whose reader it has forked.
THEOREM EndOfFile == Spec => []ReaderCanSeeEof
<1>1. IInv => ReaderCanSeeEof
  BY DEF IInv
<1> QED
  BY <1>1, Invariance, PTL

----------------------------------------------------------------------------
(***************************************************************************)
(* Part 2.  The pipes the shell has open are the set `pipes' of HeldInv:   *)
(* one for every pending node of the deque and one for every builtin line  *)
(* that an earlier line was directed at, both ends of each.  CountedOK     *)
(* says which nodes have a pipe, long lines included, and so when a        *)
(* builtin drops one.                                                      *)
(***************************************************************************)
\* The nodes whose pipe the shell still has open.
PendingSlots ==
    {k \in Slots : /\ In(k) # STD
                   /\ k = 0 /\ pc \in {"slice", "wait"} => pc = "slice"}

DirectedAt(m) == \E l \in 1..(m - 1) : Directed(l, m)

\* The builtin lines some earlier line was directed at.
Dropped == {m \in 1..Line : asked[m].n = 0 /\ DirectedAt(m)}

\* Nodes that have their pipe from the lines directed there, long ones included.
Counted(k) == k # 0 \/ pc = "prompt" \/ (pc = "slice" /\ done = 0)

CountedOK ==
    \A k \in Slots : Counted(k) => (In(k) # STD <=> \E l \in 1..Line : Directed(l, LineOf(k)))

Holds(pipes) ==
    /\ open = BothEnds(pipes)
    /\ \A k \in PendingSlots : In(k) \in pipes
    /\ Cardinality(pipes) = Cardinality(PendingSlots) + Cardinality(Dropped)

HeldInv ==
    /\ Gone => open = {}
    /\ ~Gone => CountedOK /\ \E pipes \in SUBSET (1..npipes) : Holds(pipes)

----------------------------------------------------------------------------
(* The pipes the shell holds, counted                                      *)

LEMMA FiniteOnes ==
    ASSUME IInv
    PROVE  /\ IsFiniteSet(PendingSlots) /\ IsFiniteSet(Dropped)
           /\ Cardinality(PendingSlots) \in Nat /\ Cardinality(Dropped) \in Nat
           /\ \A S \in SUBSET (1..npipes) : IsFiniteSet(S) /\ Cardinality(S) \in Nat
           /\ npipes \in Nat /\ Line \in Nat
<1>1. npipes \in Nat /\ Line \in Nat /\ 0 \in Int /\ Depth - 1 \in Int
  BY LenProperties, ConstantsAssumption DEF IInv, TypeOK, Line
<1>2. IsFiniteSet(1..npipes) /\ IsFiniteSet(1..Line) /\ IsFiniteSet(Slots)
  BY <1>1, FS_Interval DEF Slots
<1>3. PendingSlots \in SUBSET Slots /\ Dropped \in SUBSET (1..Line)
  BY DEF PendingSlots, Dropped
<1>4. IsFiniteSet(PendingSlots) /\ IsFiniteSet(Dropped)
      /\ \A S \in SUBSET (1..npipes) : IsFiniteSet(S)
  BY <1>2, <1>3, FS_Subset
<1>5. QED
  BY <1>1, <1>4, FS_CardinalityType

\* Two ends for each pipe.
LEMMA HeldCount ==
    ASSUME IInv, HeldInv
    PROVE  DescriptorsHeld
<1> DEFINE counted == Cardinality(PendingSlots) + Cardinality(Dropped)
<1>0. CASE Gone
  <2>1. Cardinality(open) = 0
    BY <1>0, FS_EmptySet DEF HeldInv, Gone
  <2>2. counted \in Nat
    BY FiniteOnes
  <2>3. Cardinality(open) <= 2 * counted
    BY <2>1, <2>2
  <2>4. QED
    BY <2>3 DEF DescriptorsHeld, PendingSlots, Dropped, DirectedAt, In
<1>1. SUFFICES ASSUME ~Gone
               PROVE  Cardinality(open) = 2 * counted
  <2>1. counted \in Nat
    BY FiniteOnes
  <2>2. Cardinality(open) = 2 * counted => Cardinality(open) <= 2 * counted
    BY <2>1
  <2>3. QED
    BY <1>0, <2>2 DEF DescriptorsHeld, PendingSlots, Dropped, DirectedAt, In
<1>2. PICK pipes \in SUBSET (1..npipes) : Holds(pipes)
  BY <1>1 DEF HeldInv, Gone
<1>3. IsFiniteSet(pipes) /\ Cardinality(pipes) \in Nat
  BY FiniteOnes
<1>4. IsFiniteSet({"r", "w"}) /\ Cardinality({"r", "w"}) = 2
  <2>1. IsFiniteSet({"r"}) /\ Cardinality({"r"}) = 1
    BY FS_Singleton
  <2>2. {"r", "w"} = {"r"} \cup {"w"} /\ "w" \notin {"r"}
    OBVIOUS
  <2>3. QED
    BY <2>1, <2>2, FS_AddElement
<1>5. Cardinality(open) = Cardinality(pipes) * 2
  BY <1>2, <1>3, <1>4, FS_Product DEF Holds, BothEnds
<1>6. Cardinality(pipes) = Cardinality(PendingSlots) + Cardinality(Dropped)
  BY <1>2 DEF Holds
<1>7. QED
  BY <1>3, <1>5, <1>6

\* Popping the front moves every other node down by one.
LEMMA ShiftCount ==
    ASSUME NEW S \in SUBSET Slots, NEW T, T = {k \in Slots : k + 1 \in S}
    PROVE  IsFiniteSet(T) /\ Cardinality(T) = Cardinality(S \ {0})
<1>1. Slots \subseteq Nat /\ IsFiniteSet(Slots) /\ \A k \in Slots : k # 0 => k - 1 \in Slots
  <2>1. Depth - 1 \in Int /\ Depth \in Nat
    BY ConstantsAssumption
  <2>2. QED
    BY <2>1, FS_Interval DEF Slots
<1>2. IsFiniteSet(S \ {0})
  <2>1. S \ {0} \in SUBSET Slots
    OBVIOUS
  <2>2. QED
    BY <1>1, <2>1, FS_Subset
<1> DEFINE f == [k \in S \ {0} |-> k - 1]
<1>3. f \in [S \ {0} -> T]
  BY <1>1
<1>4. \A a, b \in S \ {0} : f[a] = f[b] => a = b
  BY <1>1
<1>5. \A t \in T : \E a \in S \ {0} : f[a] = t
  <2>1. SUFFICES ASSUME NEW t \in T PROVE t + 1 \in S \ {0} /\ f[t + 1] = t
    OBVIOUS
  <2>2. QED
    BY <1>1
<1> HIDE DEF f
<1>6. f \in Bijection(S \ {0}, T)
  BY <1>3, <1>4, <1>5 DEF Bijection, Injection, Surjection, IsInjective
<1>7. QED
  BY <1>2, <1>6, FS_Bijection DEF ExistsBijection

----------------------------------------------------------------------------
(* The steps                                                               *)

\* Directed and Dropped, of any sequence of lines.
Aims(lines, l) == {m \in {l + lines[l].dest} : lines[l].n > 0 /\ lines[l].dest # 0}

PointedAt(lines, m) == \E l \in 1..(m - 1) : m \in Aims(lines, l)

DroppedOf(lines, L) == {m \in 1..L : lines[m].n = 0 /\ PointedAt(lines, m)}

LEMMA AsAims ==
    /\ \A l, m : Directed(l, m) <=> m \in Aims(asked, l)
    /\ \A l, m : Directed(l, m)' <=> m \in Aims(asked', l)
    /\ Dropped = DroppedOf(asked, Line)
    /\ Dropped' = DroppedOf(asked', Line')
BY DEF Directed, Aims, Dropped, DroppedOf, DirectedAt, PointedAt

\* One line more.
LEMMA OneLineMore ==
    ASSUME IInv, NEW l \in CommandLines, asked' = Append(asked, l), NEW L, L = Line, NEW K, K = L + 1
    PROVE  /\ Line' = K
           /\ \A i \in 1..L : \A m : m \in Aims(asked', i) <=> m \in Aims(asked, i)
           /\ \A m : m \in Aims(asked', K) <=> l.n > 0 /\ l.dest # 0 /\ K + l.dest = m
           /\ Dropped' = Dropped \cup (IF l.n = 0 /\ \E i \in 1..L : K \in Aims(asked, i)
                                       THEN {K} ELSE {})
<1>1. /\ L \in Nat /\ K \in Nat /\ Line' = K /\ asked'[K] = l
      /\ \A i \in 1..L : asked'[i] = asked[i]
  <2>1. TypeOK /\ Line \in Nat
    BY FiniteOnes DEF IInv
  <2>2. Line' = Line + 1 /\ asked'[Line + 1] = l /\ \A i \in 1..Line : asked'[i] = asked[i]
    BY <2>1, AppendLine
  <2>3. K = Line + 1 /\ L + 1 = K
    OBVIOUS
  <2>4. L \in Nat
    BY <2>1
  <2>5. K \in Nat
    BY <2>4
  <2>6. Line' = K /\ asked'[K] = l
    BY <2>2, <2>3, Zenon
  <2>7. \A i \in 1..L : asked'[i] = asked[i]
    BY <2>2, Zenon
  <2>8. QED
    BY <2>4, <2>5, <2>6, <2>7, Zenon
<1>2. \A i \in 1..L : \A m : m \in Aims(asked', i) <=> m \in Aims(asked, i)
  BY <1>1 DEF Aims
<1>3. \A m : m \in Aims(asked', K) <=> l.n > 0 /\ l.dest # 0 /\ K + l.dest = m
  BY <1>1 DEF Aims
<1>4. \A m \in 1..L : PointedAt(asked', m) <=> PointedAt(asked, m)
  <2>1. \A m \in 1..L : \A i \in 1..(m - 1) : i \in 1..L
    BY <1>1
  <2>2. QED
    BY <1>2, <2>1 DEF PointedAt
<1>5. PointedAt(asked', K) <=> \E i \in 1..L : K \in Aims(asked, i)
  <2>1. \A i : i \in 1..(K - 1) <=> i \in 1..L
    BY <1>1
  <2>2. QED
    BY <1>2, <2>1 DEF PointedAt
<1>6. \A m : m \in 1..K <=> m \in 1..L \/ m = K
  BY <1>1
<1>7. DroppedOf(asked', K)
        = DroppedOf(asked, L) \cup (IF l.n = 0 /\ \E i \in 1..L : K \in Aims(asked, i)
                                    THEN {K} ELSE {})
  <2>1. \A m : m \in DroppedOf(asked', K) <=>
                 \/ m \in DroppedOf(asked, L)
                 \/ m = K /\ l.n = 0 /\ \E i \in 1..L : K \in Aims(asked, i)
    BY <1>1, <1>4, <1>5, <1>6 DEF DroppedOf
  <2>2. QED
    BY <2>1
<1>8. QED
  BY <1>1, <1>2, <1>3, <1>7, AsAims

LEMMA LinesUpTo ==
    ASSUME NEW L \in Nat
    PROVE  \A i : i \in 1..(L + 1) <=> i \in 1..L \/ i = (L + 1)
OBVIOUS

LEMMA BeginLineHeld ==
    ASSUME IInv, HeldInv, NEW l \in CommandLines, BeginLine(l)
    PROVE  HeldInv'
<1>1. /\ pc = "prompt" /\ pc' = "slice" /\ done' = 0 /\ l.n > 0
      /\ asked' = Append(asked, l)
  BY DEF BeginLine
<1>2. /\ npipes \in Nat /\ Line \in Nat /\ redirection_info \in [Slots -> Node]
      /\ l.dest \in Slots /\ l.dest \in Nat /\ 0 \in Slots /\ l.bang \in BOOLEAN
      /\ \A k \in Slots : k \in Nat /\ In(k) \in 0..npipes
  BY SlotsFacts, FiniteOnes, ConstantsAssumption DEF IInv, TypeOK, CommandLines, NodesOK
<1>3. PICK L \in Nat, K \in Nat : L = Line /\ K = L + 1
  BY <1>2
<1>4. /\ Line' = K /\ Dropped' = Dropped
      /\ \A i \in 1..L : \A m : m \in Aims(asked', i) <=> m \in Aims(asked, i)
      /\ \A m : m \in Aims(asked', K) <=> l.dest # 0 /\ K + l.dest = m
  <2>1. l.n # 0
    BY <1>1
  <2>2. QED
    BY <1>1, <1>3, <2>1, OneLineMore
<1>5. \/ /\ l.dest = 0 \/ In(l.dest) # STD
         /\ \A k \in Slots : In(k)' = In(k)
         /\ npipes' = npipes /\ open' = open
      \/ /\ l.dest # 0 /\ In(l.dest) = STD
         /\ \A k \in Slots : In(k)' = IF k = l.dest THEN npipes + 1 ELSE In(k)
         /\ npipes' = npipes + 1 /\ open' = open \cup BothEnds({npipes + 1})
  <2>1. CASE l.dest = 0
    BY <2>1 DEF BeginLine, In
  <2>2. CASE l.dest # 0
    <3> DEFINE new == OpenNumberedPipe(redirection_info, l.dest, l.bang, npipes + 1)
    <3>1. redirection_info' = new
      BY <2>2 DEF BeginLine
    <3>2. /\ \A k \in Slots : k # l.dest => new[k].in = redirection_info[k].in
          /\ redirection_info[l.dest].in = STD => new[l.dest].in = npipes + 1
          /\ redirection_info[l.dest].in # STD => new[l.dest].in = redirection_info[l.dest].in
      BY <2>2, <1>2, OpenedAt
    <3> HIDE DEF new
    <3>3. CASE NeedsPipe(redirection_info, l.dest)
      <4>1. npipes' = npipes + 1 /\ open' = open \cup BothEnds({npipes + 1})
        BY <2>2, <3>3 DEF BeginLine
      <4>2. QED
        BY <1>2, <2>2, <3>1, <3>2, <3>3, <4>1 DEF NeedsPipe, In
    <3>4. CASE ~NeedsPipe(redirection_info, l.dest)
      <4>1. npipes' = npipes /\ open' = open
        BY <2>2, <3>4 DEF BeginLine
      <4>2. QED
        BY <1>2, <2>2, <3>1, <3>2, <3>4, <4>1 DEF NeedsPipe, In
    <3>5. QED
      BY <3>3, <3>4
  <2>3. QED
    BY <2>1, <2>2
<1>6. PICK pipes \in SUBSET (1..npipes) : Holds(pipes)
  BY <1>1 DEF HeldInv, Gone
<1>7. CountedOK'
  <2>1. SUFFICES ASSUME NEW k \in Slots
                 PROVE  In(k)' # STD <=> \E i \in 1..K : K + k \in Aims(asked', i)
    <3>1. \A k \in Slots : LineOf(k)' = K + k
      BY <1>1, <1>4 DEF LineOf
    <3>2. QED
      BY <1>4, <2>1, <3>1, AsAims DEF CountedOK
  <2>2. In(k) # STD <=> \E i \in 1..L : K + k \in Aims(asked, i)
    <3>1. LineOf(k) = K + k
      BY <1>1, <1>3 DEF LineOf
    <3>2. QED
      BY <1>1, <1>3, <3>1, AsAims DEF HeldInv, Gone, CountedOK, Counted
  <2>3. K + k \in Aims(asked', K) <=> l.dest # 0 /\ l.dest = k
    <3>1. \A m : m = K + k => (K + l.dest = m <=> l.dest = k)
      BY <1>2
    <3>2. QED
      BY <1>4, <3>1, Zenon
  <2>4. In(k)' # STD <=> In(k) # STD \/ (l.dest # 0 /\ l.dest = k)
    BY <1>2, <1>5 DEF STD
  <2>5. QED
    <3>1. PICK m : m = K + k
      OBVIOUS
    <3>2. \A i : i \in 1..K <=> i \in 1..L \/ i = K
      BY <1>3, LinesUpTo
    <3>3. (\E i \in 1..K : m \in Aims(asked', i))
            <=> (\E i \in 1..L : m \in Aims(asked, i)) \/ m \in Aims(asked', K)
      BY <1>4, <3>2
    <3>4. QED
      BY <2>2, <2>3, <2>4, <3>1, <3>3
<1>8. /\ PendingSlots = {k \in Slots : In(k) # STD}
      /\ PendingSlots' = {k \in Slots : In(k)' # STD}
  BY <1>1 DEF PendingSlots
<1>9. CASE l.dest = 0 \/ In(l.dest) # STD
  <2>1. (\A k \in Slots : In(k)' = In(k)) /\ npipes' = npipes /\ open' = open
    BY <1>5, <1>9
  <2>2. PendingSlots' = PendingSlots
    BY <1>8, <2>1
  <2>3. \A k \in PendingSlots' : In(k)' \in pipes
    BY <1>6, <1>8, <2>1, <2>2 DEF Holds
  <2>4. Holds(pipes)'
    BY <1>4, <1>6, <2>1, <2>2, <2>3 DEF Holds
  <2>5. QED
    BY <1>1, <1>7, <2>1, <2>4 DEF HeldInv, Gone
<1>10. CASE l.dest # 0 /\ In(l.dest) = STD
  <2>1. PICK more : more = pipes \cup {npipes + 1}
    OBVIOUS
  <2>2. /\ \A k \in Slots : In(k)' = IF k = l.dest THEN npipes + 1 ELSE In(k)
        /\ npipes' = npipes + 1 /\ open' = open \cup BothEnds({npipes + 1})
    BY <1>5, <1>10
  <2>3. PendingSlots' = PendingSlots \cup {l.dest} /\ l.dest \notin PendingSlots
    <3>1. npipes + 1 # STD
      BY <1>2 DEF STD
    <3>2. QED
      BY <1>2, <1>8, <1>10, <2>2, <3>1
  <2>4. \A k \in PendingSlots' : In(k)' \in more
    BY <1>6, <1>8, <2>1, <2>2, <2>3 DEF Holds
  <2>5. open' = BothEnds(more)
    BY <1>6, <2>1, <2>2 DEF Holds, BothEnds
  <2>6. npipes + 1 \notin pipes /\ more \in SUBSET (1..npipes')
    <3>1. npipes + 1 \notin 1..npipes /\ 1..npipes \subseteq 1..(npipes + 1) /\ npipes + 1 \in 1..(npipes + 1)
      BY <1>2
    <3>2. QED
      BY <2>1, <2>2, <3>1
  <2>7. Cardinality(more) = Cardinality(pipes) + 1
        /\ Cardinality(PendingSlots') = Cardinality(PendingSlots) + 1
    BY <2>1, <2>3, <2>6, FiniteOnes, FS_AddElement
  <2>8. Cardinality(more) = Cardinality(PendingSlots') + Cardinality(Dropped')
    BY <1>4, <1>6, <2>7, FiniteOnes DEF Holds
  <2>9. Holds(more)'
    BY <2>4, <2>5, <2>8 DEF Holds
  <2>10. QED
    BY <1>1, <1>7, <2>6, <2>9 DEF HeldInv, Gone
<1>11. QED
  BY <1>9, <1>10

\* What is left open when the shell closes the front's pipe.
LEMMA ClosedEnds ==
    ASSUME NEW node, node.wend = node.in, NEW pipes, STD \notin pipes
    PROVE  CloseFront(BothEnds(pipes), node) = BothEnds(pipes \ {node.in})
<1>1. CASE node.in = STD
  <2>1. pipes \ {node.in} = pipes
    BY <1>1
  <2>2. QED
    BY <1>1, <2>1 DEF CloseFront
<1>2. CASE node.in # STD
  BY <1>2 DEF CloseFront, BothEnds
<1>3. QED
  BY <1>1, <1>2

\* Neither slice step reads a line or moves a node.
LEMMA SliceSteps ==
    ASSUME IInv, RunSlice \/ LastSlice
    PROVE  /\ Dropped' = Dropped
           /\ \A k \in Slots : LineOf(k)' = LineOf(k)
           /\ \A k \in Slots : k # 0 => In(k)' = In(k)
           /\ front.in = In(0) /\ front.wend = In(0)
<1>1. asked' = asked /\ pc = "slice" /\ pc' \in {"slice", "wait"}
  BY DEF RunSlice, LastSlice
<1>2. Line' = Line
  BY <1>1 DEF Line
<1>3. Dropped' = Dropped
  BY <1>1, <1>2, AsAims
<1>4. \A k \in Slots : LineOf(k)' = LineOf(k)
  BY <1>1, <1>2 DEF LineOf
<1>5. \A k \in Slots : k # 0 => In(k)' = In(k)
  BY SlotsFacts DEF RunSlice, LastSlice, In, IInv, TypeOK
<1>6. front.in = In(0) /\ front.wend = In(0)
  BY SlotsFacts DEF IInv, NodesOK, front, In
<1>7. QED
  BY <1>3, <1>4, <1>5, <1>6

\* A line that goes on hands the front's pipe over and opens one to itself.
LEMMA RunSliceHeld ==
    ASSUME IInv, HeldInv, RunSlice
    PROVE  HeldInv'
<1>1. /\ pc = "slice" /\ pc' = "slice" /\ SliceSize \in Nat \ {0} /\ done \in Nat /\ npipes \in Nat
      /\ 0 \in Slots /\ \A k \in Slots : In(k) \in 0..npipes
  BY SlotsFacts, ConstantsAssumption DEF RunSlice, IInv, TypeOK, NodesOK
<1>2. PICK slice \in Nat : slice = npipes + 1
  BY <1>1
<1>3. /\ npipes' = npipes + SliceSize /\ done' = done + SliceSize /\ In(0)' = slice
      /\ open' = CloseFront(open \cup BothEnds({slice}), [front EXCEPT !.out = slice, !.err = slice])
  BY <1>1, <1>2 DEF RunSlice, In, IInv, TypeOK, NewNode
<1>4. PICK pipes \in SUBSET (1..npipes) : Holds(pipes)
  BY <1>1 DEF HeldInv, Gone
<1>5. slice # STD /\ slice \notin pipes /\ STD \notin pipes /\ slice \in 1..npipes'
      /\ pipes \subseteq 1..npipes' /\ slice # In(0)
  BY <1>1, <1>2, <1>3 DEF STD
<1>6. PICK both : both = pipes \cup {slice}
  OBVIOUS
<1>7. PICK more : more = both \ {In(0)}
  OBVIOUS
<1>8. open' = BothEnds(more)
  <2>1. PICK node : node = [front EXCEPT !.out = slice, !.err = slice]
    OBVIOUS
  <2>2. front \in Node
    BY <1>1 DEF front, IInv, TypeOK
  <2>3. node.in = In(0) /\ node.wend = In(0)
    BY <2>1, <2>2, SliceSteps DEF Node
  <2>4. open \cup BothEnds({slice}) = BothEnds(both)
    BY <1>4, <1>6 DEF Holds, BothEnds
  <2>5. CloseFront(BothEnds(both), node) = BothEnds(both \ {In(0)})
    <3>1. STD \notin both
      BY <1>5, <1>6
    <3>2. QED
      BY <2>3, <3>1, ClosedEnds
  <2>6. QED
    BY <1>3, <1>7, <2>1, <2>4, <2>5
<1>9. CountedOK'
  <2>1. \A k \in Slots : Counted(k)' => k # 0
    BY <1>1, <1>3 DEF Counted
  <2>2. \A k \in Slots : \A i : Directed(i, LineOf(k))' <=> Directed(i, LineOf(k))
    <3>1. asked' = asked
      BY DEF RunSlice
    <3>2. QED
      BY <3>1, SliceSteps DEF Directed
  <2>3. CountedOK /\ Line' = Line
    BY <1>1 DEF HeldInv, Gone, RunSlice, Line
  <2>4. QED
    BY <2>1, <2>2, <2>3, SliceSteps DEF CountedOK, Counted
<1>10. /\ PendingSlots = {k \in Slots : In(k) # STD}
       /\ PendingSlots' = PendingSlots \cup {0}
  BY <1>1, <1>3, <1>5, SliceSteps DEF PendingSlots
<1>11. \A k \in PendingSlots' : In(k)' \in more
  <2>1. SUFFICES ASSUME NEW k \in Slots, In(k) # STD, k # 0
                 PROVE  In(k) \in more
    BY <1>3, <1>5, <1>6, <1>7, <1>10, SliceSteps DEF PendingSlots
  <2>2. In(k) \in pipes
    BY <1>4, <1>10, <2>1 DEF Holds
  <2>3. In(k) # In(0)
    BY <1>1, <2>1 DEF IInv, PipesDistinct
  <2>4. QED
    BY <1>6, <1>7, <2>2, <2>3
<1>12. Cardinality(more) = Cardinality(PendingSlots') + Cardinality(Dropped')
  <2>1. IsFiniteSet(both) /\ Cardinality(both) = Cardinality(pipes) + 1 /\ Cardinality(pipes) \in Nat
    BY <1>5, <1>6, FiniteOnes, FS_AddElement
  <2>2. Cardinality(more) = IF In(0) \in both THEN Cardinality(both) - 1 ELSE Cardinality(both)
    BY <1>7, <2>1, FS_RemoveElement
  <2>3. In(0) \in both <=> 0 \in PendingSlots
    BY <1>1, <1>4, <1>5, <1>6, <1>10 DEF Holds
  <2>4. Cardinality(PendingSlots')
          = IF 0 \in PendingSlots THEN Cardinality(PendingSlots) ELSE Cardinality(PendingSlots) + 1
    <3>1. CASE 0 \in PendingSlots
      <4>1. PendingSlots' = PendingSlots
        BY <1>10, <3>1
      <4>2. QED
        BY <3>1, <4>1
    <3>2. CASE 0 \notin PendingSlots
      <4>1. Cardinality(PendingSlots \cup {0}) = Cardinality(PendingSlots) + 1
        BY <3>2, FiniteOnes, FS_AddElement
      <4>2. QED
        BY <1>10, <3>2, <4>1
    <3>3. QED
      BY <3>1, <3>2
  <2>5. Dropped' = Dropped
    BY SliceSteps
  <2>6. Cardinality(pipes) = Cardinality(PendingSlots) + Cardinality(Dropped)
    BY <1>4 DEF Holds
  <2>7. QED
    BY <2>1, <2>2, <2>3, <2>4, <2>5, <2>6, FiniteOnes
<1>13. Holds(more)'
  BY <1>8, <1>11, <1>12 DEF Holds
<1>14. more \in SUBSET (1..npipes')
  BY <1>5, <1>6, <1>7
<1>15. QED
  BY <1>1, <1>9, <1>13, <1>14 DEF HeldInv, Gone

\* The last slice hands the front's pipe over, if it has one.
LEMMA LastSliceHeld ==
    ASSUME IInv, HeldInv, LastSlice
    PROVE  HeldInv'
<1>1. /\ pc = "slice" /\ pc' = "wait" /\ npipes \in Nat
      /\ 0 \in Slots /\ \A k \in Slots : In(k) \in 0..npipes
      /\ redirection_info' = redirection_info /\ asked' = asked /\ open' = CloseFront(open, front)
  BY SlotsFacts DEF LastSlice, IInv, TypeOK, NodesOK
<1>2. \A pipe \in 1..npipes : pipe \in 1..npipes'
  <2>1. Line > 0 /\ TypeOK
    BY <1>1 DEF IInv, TypeOK
  <2>2. cmd.n \in Nat /\ done \in Nat /\ done < cmd.n
    BY <1>1, <2>1, CmdType, ConstantsAssumption DEF IInv, TypeOK, FrontOK
  <2>3. npipes' = npipes + (cmd.n - done) - 1
    BY DEF LastSlice, left
  <2>4. PICK n \in Nat, d \in Nat : n = cmd.n /\ d = done
    BY <2>2
  <2>5. d < n /\ npipes' = npipes + (n - d) - 1
    BY <2>2, <2>3, <2>4
  <2>6. npipes' >= npipes /\ npipes' \in Nat
    BY <1>1, <2>5
  <2>7. QED
    BY <1>1, <2>6
<1>3. PICK pipes \in SUBSET (1..npipes) : Holds(pipes)
  BY <1>1 DEF HeldInv, Gone
<1>4. PICK fewer : fewer = pipes \ {In(0)}
  OBVIOUS
<1>5. STD \notin pipes
  BY <1>1 DEF STD
<1>6. open' = BothEnds(fewer)
  BY <1>1, <1>3, <1>4, <1>5, SliceSteps, ClosedEnds DEF Holds
<1>7. CountedOK'
  <2>1. \A k \in Slots : Counted(k)' => k # 0
    BY <1>1 DEF Counted
  <2>2. \A k \in Slots : \A i : Directed(i, LineOf(k))' <=> Directed(i, LineOf(k))
    BY <1>1, SliceSteps DEF Directed
  <2>3. CountedOK /\ Line' = Line
    BY <1>1 DEF HeldInv, Gone, Line
  <2>4. QED
    BY <2>1, <2>2, <2>3, SliceSteps DEF CountedOK, Counted
<1>8. /\ PendingSlots = {k \in Slots : In(k) # STD}
      /\ PendingSlots' = PendingSlots \ {0}
  BY <1>1, SliceSteps DEF PendingSlots
<1>9. \A k \in PendingSlots' : In(k)' \in fewer
  <2>1. SUFFICES ASSUME NEW k \in Slots, In(k) # STD, k # 0
                 PROVE  In(k) \in fewer
    BY <1>8, SliceSteps
  <2>2. In(k) \in pipes
    BY <1>3, <1>8, <2>1 DEF Holds
  <2>3. In(k) # In(0)
    BY <1>1, <2>1 DEF IInv, PipesDistinct
  <2>4. QED
    BY <1>4, <2>2, <2>3
<1>10. Cardinality(fewer) = Cardinality(PendingSlots') + Cardinality(Dropped')
  <2>1. Cardinality(fewer) = IF In(0) \in pipes THEN Cardinality(pipes) - 1 ELSE Cardinality(pipes)
    BY <1>4, FiniteOnes, FS_RemoveElement
  <2>2. In(0) \in pipes <=> 0 \in PendingSlots
    BY <1>1, <1>3, <1>5, <1>8 DEF Holds
  <2>3. Cardinality(PendingSlots')
          = IF 0 \in PendingSlots THEN Cardinality(PendingSlots) - 1 ELSE Cardinality(PendingSlots)
    BY <1>8, FiniteOnes, FS_RemoveElement
  <2>4. Dropped' = Dropped
    BY SliceSteps
  <2>5. Cardinality(pipes) = Cardinality(PendingSlots) + Cardinality(Dropped)
    BY <1>3 DEF Holds
  <2>6. Cardinality(pipes) \in Nat
    BY FiniteOnes
  <2>7. QED
    BY <2>1, <2>2, <2>3, <2>4, <2>5, <2>6, FiniteOnes
<1>11. Holds(fewer)'
  BY <1>6, <1>9, <1>10 DEF Holds
<1>12. fewer \in SUBSET (1..npipes')
  BY <1>2, <1>4
<1>13. QED
  BY <1>1, <1>7, <1>11, <1>12 DEF HeldInv, Gone

\* Popping the front moves every pipe down by one line.
LEMMA ShiftHeld ==
    ASSUME IInv, pc \in {"prompt", "wait"}, pc' = "prompt",
           redirection_info' = Popped(redirection_info)
    PROVE  /\ \A k \in Slots : In(k)' = IF k + 1 \in Slots THEN In(k + 1) ELSE STD
           /\ PendingSlots' = {k \in Slots : k + 1 \in PendingSlots}
           /\ Cardinality(PendingSlots') = Cardinality(PendingSlots \ {0})
<1>1. \A k \in Slots : In(k)' = IF k + 1 \in Slots THEN In(k + 1) ELSE STD
  BY PoppedAt DEF In, NewNode
<1>2. \A k \in Slots : k \in Nat /\ k + 1 # 0
  BY SlotsFacts
<1>3. PendingSlots' = {k \in Slots : k + 1 \in PendingSlots}
  <2>1. \A k \in Slots : k + 1 \in PendingSlots <=> k + 1 \in Slots /\ In(k + 1) # STD
    BY <1>2 DEF PendingSlots
  <2>2. PendingSlots' = {k \in Slots : In(k)' # STD}
    BY DEF PendingSlots
  <2>3. QED
    BY <1>1, <2>1, <2>2
<1>4. PendingSlots \in SUBSET Slots
  BY DEF PendingSlots
<1>5. Cardinality(PendingSlots') = Cardinality(PendingSlots \ {0})
  BY <1>3, <1>4, ShiftCount
<1>6. QED
  BY <1>1, <1>3, <1>5

\* No line counts further down than the deque is long.
LEMMA OutOfReach ==
    ASSUME IInv, NEW i \in 1..Line, NEW m, m \in Aims(asked, i)
    PROVE  m \in Nat /\ m <= Line + Depth - 1
<1>1. /\ Line \in Nat /\ asked[i] \in CommandLines /\ Depth \in Nat
      /\ \A d \in Dests : d \in 0..(Depth - 1)
  BY ElementOfSeq, ConstantsAssumption, FiniteOnes DEF IInv, TypeOK, Line
<1>2. PICK d \in Dests : d = asked[i].dest
  BY <1>1 DEF CommandLines
<1>3. m = i + d /\ d \in 0..(Depth - 1)
  BY <1>1, <1>2 DEF Aims
<1>4. QED
  BY <1>1, <1>3

\* The end of a line moves the deque, which changes no count.
LEMMA EndLineHeld ==
    ASSUME IInv, HeldInv, EndLine
    PROVE  HeldInv'
<1>1. /\ pc = "wait" /\ pc' = "prompt" /\ asked' = asked /\ open' = open /\ npipes' = npipes
      /\ redirection_info' = Popped(redirection_info)
  BY DEF EndLine
<1>2. PICK L \in Nat : L = Line
  BY FiniteOnes
<1>3. Line' = L /\ Dropped' = Dropped
  <2>1. Line' = Line
    BY <1>1 DEF Line
  <2>2. QED
    BY <1>1, <1>2, <2>1, AsAims
<1>4. PICK pipes \in SUBSET (1..npipes) : Holds(pipes)
  BY <1>1 DEF HeldInv, Gone
<1>5. CountedOK'
  <2>1. SUFFICES ASSUME NEW k \in Slots
                 PROVE  In(k)' # STD <=> \E i \in 1..L : L + 1 + k \in Aims(asked, i)
    <3>1. \A k \in Slots : LineOf(k)' = L + 1 + k
      BY <1>1, <1>3 DEF LineOf
    <3>2. QED
      BY <1>1, <1>3, <2>1, <3>1, AsAims DEF CountedOK
  <2>2. k \in Nat /\ k + 1 # 0
    BY SlotsFacts
  <2>3. In(k)' = IF k + 1 \in Slots THEN In(k + 1) ELSE STD
    BY <1>1, ShiftHeld
  <2>4. CASE k + 1 \in Slots
    <3>1. LineOf(k + 1) = L + 1 + k
      BY <1>1, <1>2, <2>2 DEF LineOf
    <3>2. In(k + 1) # STD <=> \E i \in 1..L : Directed(i, LineOf(k + 1))
      BY <1>1, <1>2, <2>2, <2>4 DEF HeldInv, Gone, CountedOK, Counted
    <3>3. QED
      BY <2>3, <2>4, <3>1, <3>2, AsAims
  <2>5. CASE k + 1 \notin Slots
    <3>1. k = Depth - 1 /\ Depth \in Nat
      BY <2>5, SlotsFacts, ConstantsAssumption
    <3>2. \A i \in 1..L : L + 1 + k \notin Aims(asked, i)
      <4>1. \A m : m = L + 1 + k => ~(m <= L + Depth - 1)
        BY <1>2, <2>2, <3>1
      <4>2. QED
        BY <1>2, <4>1, OutOfReach
    <3>3. QED
      BY <2>3, <2>5, <3>2
  <2>6. QED
    BY <2>4, <2>5
<1>6. \A k \in PendingSlots' : In(k)' \in pipes
  BY <1>1, <1>4, ShiftHeld DEF Holds, PendingSlots
<1>7. Cardinality(PendingSlots') = Cardinality(PendingSlots)
  <2>1. PendingSlots \ {0} = PendingSlots
    BY <1>1 DEF PendingSlots
  <2>2. QED
    BY <1>1, <2>1, ShiftHeld
<1>8. Holds(pipes)'
  BY <1>1, <1>3, <1>4, <1>6, <1>7 DEF Holds
<1>9. QED
  BY <1>1, <1>5, <1>8 DEF HeldInv, Gone

\* A builtin drops the pipe of its own line with the node.
LEMMA BuiltinHeld ==
    ASSUME IInv, HeldInv, NEW l \in CommandLines, Builtin(l)
    PROVE  HeldInv'
<1>1. /\ pc = "prompt" /\ pc' = "prompt" /\ asked' = Append(asked, l) /\ open' = open
      /\ npipes' = npipes /\ l.n = 0 /\ redirection_info' = Popped(redirection_info)
      /\ 0 \in Slots
  BY SlotsFacts DEF Builtin
<1>2. PICK L \in Nat, K \in Nat : L = Line /\ K = L + 1
  <2>1. Line + 1 \in Nat
    BY FiniteOnes
  <2>2. QED
    BY <2>1, FiniteOnes
<1>3. /\ Line' = K
      /\ \A i \in 1..L : \A m : m \in Aims(asked', i) <=> m \in Aims(asked, i)
      /\ \A m : m \notin Aims(asked', K)
      /\ Dropped' = Dropped \cup (IF \E i \in 1..L : K \in Aims(asked, i) THEN {K} ELSE {})
  <2>1. ~(l.n > 0)
    BY <1>1
  <2>2. QED
    BY <1>1, <1>2, <2>1, OneLineMore
<1>4. PICK pipes \in SUBSET (1..npipes) : Holds(pipes)
  BY <1>1 DEF HeldInv, Gone
<1>5. \A k \in Slots : In(k) # STD <=> \E i \in 1..L : K + k \in Aims(asked, i)
  <2>1. \A k \in Slots : LineOf(k) = K + k
    BY <1>1, <1>2 DEF LineOf
  <2>2. QED
    BY <1>1, <1>2, <2>1, AsAims DEF HeldInv, Gone, CountedOK, Counted
<1>6. CountedOK'
  <2>1. SUFFICES ASSUME NEW k \in Slots
                 PROVE  In(k)' # STD <=> \E i \in 1..L : K + (k + 1) \in Aims(asked, i)
    <3>1. \A k \in Slots : LineOf(k)' = K + (k + 1)
      <4>1. \A k \in Slots : LineOf(k)' = K + 1 + k
        BY <1>1, <1>3 DEF LineOf
      <4>2. QED
        BY <1>2, <4>1, SlotsFacts
    <3>2. \A i : i \in 1..K <=> i \in 1..L \/ i = K
      BY <1>2, LinesUpTo
    <3>3. QED
      BY <1>3, <2>1, <3>1, <3>2, AsAims DEF CountedOK
  <2>2. In(k)' = IF k + 1 \in Slots THEN In(k + 1) ELSE STD
    BY <1>1, ShiftHeld
  <2>3. CASE k + 1 \in Slots
    BY <1>5, <2>2, <2>3
  <2>4. CASE k + 1 \notin Slots
    <3>1. k = Depth - 1 /\ Depth \in Nat /\ k \in Nat
      BY <2>4, SlotsFacts, ConstantsAssumption
    <3>2. \A i \in 1..L : K + (k + 1) \notin Aims(asked, i)
      <4>1. \A m : m = K + (k + 1) => ~(m <= L + Depth - 1)
        BY <1>2, <3>1
      <4>2. QED
        BY <1>2, <4>1, OutOfReach
    <3>3. QED
      BY <2>2, <2>4, <3>2
  <2>5. QED
    BY <2>3, <2>4
<1>7. \A k \in PendingSlots' : In(k)' \in pipes
  BY <1>1, <1>4, ShiftHeld DEF Holds, PendingSlots
<1>8. 0 \in PendingSlots <=> \E i \in 1..L : K \in Aims(asked, i)
  <2>1. K + 0 = K
    BY <1>2
  <2>2. 0 \in PendingSlots <=> In(0) # STD
    BY <1>1 DEF PendingSlots
  <2>3. QED
    BY <1>1, <1>5, <2>1, <2>2
<1>9. Cardinality(PendingSlots') + Cardinality(Dropped')
        = Cardinality(PendingSlots) + Cardinality(Dropped)
  <2>1. Cardinality(PendingSlots')
          = IF 0 \in PendingSlots THEN Cardinality(PendingSlots) - 1 ELSE Cardinality(PendingSlots)
    BY <1>1, ShiftHeld, FiniteOnes, FS_RemoveElement
  <2>2. Cardinality(Dropped')
          = IF 0 \in PendingSlots THEN Cardinality(Dropped) + 1 ELSE Cardinality(Dropped)
    <3>1. K \notin Dropped
      BY <1>2 DEF Dropped
    <3>2. Cardinality(Dropped \cup {K}) = Cardinality(Dropped) + 1
      BY <3>1, FiniteOnes, FS_AddElement
    <3>3. Dropped \cup {} = Dropped
      OBVIOUS
    <3>4. QED
      BY <1>3, <1>8, <3>2, <3>3
  <2>3. QED
    BY <2>1, <2>2, FiniteOnes
<1>10. Holds(pipes)'
  BY <1>1, <1>4, <1>7, <1>9 DEF Holds
<1>11. QED
  BY <1>1, <1>6, <1>10 DEF HeldInv, Gone

\* At the first prompt the shell has no pipe and nothing is counted.
LEMMA InitHeld ==
    ASSUME Init
    PROVE  HeldInv
<1>1. /\ \A k \in Slots : In(k) = STD
      /\ open = {} /\ asked = << >> /\ Line = 0 /\ 1..Line = {}
      /\ pc = "prompt"
  BY DEF Init, In, NewNode, Line
<1>2. CountedOK
  BY <1>1 DEF CountedOK
<1>3. PendingSlots = {} /\ Dropped = {}
  BY <1>1 DEF PendingSlots, Dropped
<1>4. Holds({})
  <2>1. Cardinality({}) = 0
    BY FS_EmptySet
  <2>2. BothEnds({}) = {}
    BY DEF BothEnds
  <2>3. QED
    BY <1>1, <1>3, <2>1, <2>2 DEF Holds
<1>5. QED
  BY <1>1, <1>2, <1>4 DEF HeldInv, Gone

LEMMA StepHeld ==
    ASSUME IInv, HeldInv, [Next]_vars
    PROVE  HeldInv'
<1>1. CASE \E l \in CommandLines : BeginLine(l) \/ Builtin(l)
  BY <1>1, BeginLineHeld, BuiltinHeld
<1>2. CASE RunSlice
  BY <1>2, RunSliceHeld
<1>3. CASE LastSlice
  BY <1>3, LastSliceHeld
<1>4. CASE EndLine
  BY <1>4, EndLineHeld
<1>5. CASE Quit \/ PipesFail
  BY <1>5 DEF Quit, PipesFail, HeldInv, Gone
<1>6. CASE Ended \/ UNCHANGED vars
  <2>1. /\ redirection_info' = redirection_info /\ npipes' = npipes /\ open' = open
        /\ pc' = pc /\ done' = done /\ asked' = asked
    BY <1>6 DEF Ended, vars
  <2>2. /\ Line' = Line /\ \A k : In(k)' = In(k) /\ LineOf(k)' = LineOf(k)
        /\ \A l, m : Directed(l, m)' <=> Directed(l, m)
    BY <2>1 DEF Line, In, LineOf, Directed
  <2>3. PendingSlots' = PendingSlots /\ Dropped' = Dropped
    BY <2>1, <2>2, AsAims DEF PendingSlots
  <2>4. CountedOK' <=> CountedOK
    BY <2>1, <2>2 DEF CountedOK, Counted
  <2>5. \A pipes : Holds(pipes)' <=> Holds(pipes)
    BY <2>1, <2>2, <2>3 DEF Holds
  <2>6. QED
    BY <2>1, <2>4, <2>5 DEF HeldInv, Gone
<1>7. QED
  BY <1>1, <1>2, <1>3, <1>4, <1>5, <1>6 DEF Next

\* The shell has no other pipes open than those that still await their line,
\* and one for every builtin an earlier line was directed at: whatever else a
\* line opens is closed again, however long the session.
THEOREM Held == Spec => []DescriptorsHeld
<1>1. Init => HeldInv
  BY InitHeld
<1>2. IInv /\ HeldInv /\ [Next]_vars => HeldInv'
  BY StepHeld
<1>3. IInv /\ HeldInv => DescriptorsHeld
  BY HeldCount
<1>4. Spec => []IInv
  BY Invariance
<1>5. QED
  BY <1>1, <1>2, <1>3, <1>4, PTL DEF Spec

----------------------------------------------------------------------------
(***************************************************************************)
(* Part 3.  The invariant lets the pipes be forgotten: what waits in a     *)
(* slot of the deque are the lines directed at the line the slot stands    *)
(* for (Owed), and what has been delivered are the lines directed at lines *)
(* that have been forked.  In these terms a line is launched when its      *)
(* first slice is forked, and every other step stutters.                   *)
(***************************************************************************)
\* The last command of a line that ran as one slice and was directed at m.
Sends(q, m) == IsLast(q) /\ InOneSlice(q.line) /\ Directed(q.line, m)

\* The lines already forked whose output line m is to read.
Owed(m) == {q.line : q \in {p \in procs : Sends(p, m)}}

\* The lines whose first command has been forked.
Forked == {c.line : c \in {p \in procs : p.pos = 1}}

----------------------------------------------------------------------------
(* The abstract state, without pipes                                       *)

\* Line numbers are numbers, and no line is directed Depth lines ahead.
LEMMA LineFacts ==
    ASSUME IInv
    PROVE  /\ Line \in Nat
           /\ Depth \in Nat \ {0}
           /\ pc = "slice" => Line > 0 /\ cmd.n \in Nat /\ cmd.dest \in Slots /\ cmd.dest \in Nat
           /\ \A q \in procs : /\ q.line \in 1..Line
                               /\ asked[q.line].dest \in 0..(Depth - 1)
<1>1. Line \in Nat /\ asked \in Seq(CommandLines)
  BY LenProperties DEF IInv, TypeOK, Line
<1>2. Depth \in Nat \ {0} /\ Dests \subseteq 0..(Depth - 1)
  BY ConstantsAssumption
<1>3. ASSUME pc = "slice"
      PROVE  Line > 0 /\ cmd.n \in Nat /\ cmd.dest \in Slots /\ cmd.dest \in Nat
  <2>1. Line > 0
    BY <1>3 DEF IInv, TypeOK
  <2>2. cmd.n \in 0..MaxCmds /\ cmd.dest \in Dests
    BY <2>1, CmdType DEF IInv
  <2>3. MaxCmds \in Nat
    BY ConstantsAssumption
  <2> QED
    BY <2>1, <2>2, <2>3, DestsFacts
<1>4. ASSUME NEW q \in procs
      PROVE  q.line \in 1..Line /\ asked[q.line].dest \in 0..(Depth - 1)
  <2>1. q.line \in 1..Len(asked)
    BY DEF IInv, ProcsOK, Line
  <2>2. asked[q.line] \in CommandLines
    BY <2>1, <1>1, ElementOfSeq
  <2> QED
    BY <2>1, <2>2, <1>2 DEF CommandLines, Line
<1> QED
  BY <1>1, <1>2, <1>3, <1>4

\* The line the node of slot `slot' stands for, counted from what has been
\* launched.
LEMMA SlotOfLaunched ==
    ASSUME IInv, NEW k \in Slots
    PROVE  LineOf(IF Unshifted THEN k + 1 ELSE k) = Launched + 1 + k
<1>1. Line \in Nat /\ k \in Nat
  BY LineFacts, SlotsFacts
<1>2. pc \in {"prompt", "slice", "wait", "exited", "failed"} /\ done \in Nat
  BY DEF IInv, TypeOK
<1> QED
  BY <1>1, <1>2 DEF LineOf, Unshifted, Launched, InLoop

\* What waits k lines ahead is what is owed to the line k lines ahead.
LEMMA WaitingIsOwed ==
    ASSUME IInv, NEW k \in Slots
    PROVE  Waiting(k) = Owed(Launched + 1 + k)
<1> DEFINE slot == IF Unshifted THEN k + 1 ELSE k
           m == Launched + 1 + k
<1>1. Line \in Nat /\ k \in Nat /\ Depth \in Nat \ {0}
  BY LineFacts, SlotsFacts
<1>2. LineOf(slot) = m
  BY SlotOfLaunched
<1>3. CASE slot \in Slots
  <2>1. Pending(slot) /\ ~(slot = 0 /\ pc \in {"slice", "failed"} /\ done > 0)
    BY <1>1 DEF Pending, Unshifted, InLoop
  <2>2. ASSUME NEW q \in procs
        PROVE  (In(slot) # STD /\ q.out = In(slot)) <=> Sends(q, m)
    <3>1. (In(slot) # STD /\ q.out = In(slot)) <=> WriterOf(q, slot)
      BY <1>3, <2>1 DEF IInv, Fed
    <3>2. WriterOf(q, slot) <=> Sends(q, LineOf(slot))
      BY <2>1 DEF WriterOf, Sends
    <3> QED
      BY <3>1, <3>2, <1>2
  <2>3. Waiting(k) = {q.line : q \in {p \in procs : In(slot) # STD /\ p.out = In(slot)}}
    BY <1>3 DEF Waiting, In
  <2> HIDE DEF slot, m
  <2>4. {p \in procs : In(slot) # STD /\ p.out = In(slot)} = {p \in procs : Sends(p, m)}
    BY <2>2
  <2> QED
    BY <2>3, <2>4 DEF Owed, m
<1>4. CASE slot \notin Slots
  <2>1. k = Depth - 1 /\ Unshifted
    BY <1>4, <1>1, SlotsFacts
  <2>2. m = Line + Depth
    BY <2>1, <1>1 DEF Launched, Unshifted, InLoop
  <2>3. ASSUME NEW q \in procs, Sends(q, m) PROVE FALSE
    <3>1. q.line \in 1..Line /\ asked[q.line].dest \in 0..(Depth - 1)
      BY LineFacts
    <3>2. q.line + asked[q.line].dest = Line + Depth
      BY <2>2, <2>3 DEF Sends, Directed
    <3> QED
      BY <3>1, <3>2, <1>1
  <2>4. Waiting(k) = {}
    BY <1>4 DEF Waiting
  <2>5. Owed(m) = {}
    BY <2>3 DEF Owed
  <2> QED
    BY <2>4, <2>5
<1> QED
  BY <1>3, <1>4

\* What has been delivered: to every line forked, what was owed to it.
LEMMA DeliveredIsOwed ==
    IInv => \A x : x \in Delivered <=> \E m \in Forked : \E l \in Owed(m) : x = <<l, m>>
<1> SUFFICES ASSUME IInv, NEW x
             PROVE  x \in Delivered <=> \E m \in Forked : \E l \in Owed(m) : x = <<l, m>>
  OBVIOUS
<1> DEFINE pairs == {r \in procs \X procs : r[2].pos = 1 /\ Feeds(r[1], r[2])}
<1>1. x \in Delivered <=> \E p \in pairs : x = <<p[1].line, p[2].line>>
  BY DEF Delivered
<1>2. ASSUME NEW c \in procs, NEW q \in procs, c.pos = 1
      PROVE  Feeds(q, c) <=> Sends(q, c.line)
  BY <1>2 DEF IInv, NumberedDelivery, Sends
<1>3. ASSUME NEW m
      PROVE  m \in Forked <=> \E c \in procs : c.pos = 1 /\ m = c.line
  BY DEF Forked
<1>4. ASSUME NEW l, NEW m
      PROVE  l \in Owed(m) <=> \E q \in procs : Sends(q, m) /\ l = q.line
  BY DEF Owed
<1>5. ASSUME NEW p \in pairs, x = <<p[1].line, p[2].line>>
      PROVE  \E m \in Forked : \E l \in Owed(m) : x = <<l, m>>
  <2>1. p[1] \in procs /\ p[2] \in procs /\ p[2].pos = 1 /\ Feeds(p[1], p[2])
    OBVIOUS
  <2>2. p[2].line \in Forked /\ p[1].line \in Owed(p[2].line)
    BY <2>1, <1>2, <1>3, <1>4
  <2> QED
    BY <2>2, <1>5
<1>6. ASSUME NEW m \in Forked, NEW l \in Owed(m), x = <<l, m>>
      PROVE  \E p \in pairs : x = <<p[1].line, p[2].line>>
  <2>1. PICK c \in procs : c.pos = 1 /\ m = c.line
    BY <1>3
  <2>2. PICK q \in procs : Sends(q, m) /\ l = q.line
    BY <1>4
  <2>3. Feeds(q, c)
    BY <2>1, <2>2, <1>2
  <2>4. <<q, c>> \in pairs
    BY <2>1, <2>3
  <2> QED
    BY <2>1, <2>2, <2>4, <1>6
<1> HIDE DEF pairs
<1> QED
  BY <1>1, <1>5, <1>6

\* The abstract state is a function of these.
LEMMA AbstractState ==
    IInv => /\ \A k \in Slots, m \in Int : m = Launched + 1 + k => Waiting(k) = Owed(m)
            /\ \A x : x \in Delivered <=> \E m \in Forked : \E l \in Owed(m) : x = <<l, m>>
<1>1. ASSUME IInv, NEW k \in Slots PROVE Waiting(k) = Owed(Launched + 1 + k)
  BY <1>1, WaitingIsOwed
<1> QED
  BY <1>1, DeliveredIsOwed

\* So is the abstract state after a step.
LEMMA AbstractStateNext ==
    IInv' => (/\ \A k \in Slots, m \in Int : m = Launched + 1 + k => Waiting(k) = Owed(m)
              /\ \A x : x \in Delivered <=> \E m \in Forked : \E l \in Owed(m) : x = <<l, m>>)'
BY AbstractState, PTL

\* A line that has processes has been launched.
LEMMA LaunchedBeforeForked ==
    ASSUME IInv, NEW q \in procs
    PROVE  q.line \in 1..Launched
<1>1. Line \in Nat /\ q.line \in 1..Line
  BY LineFacts
<1>2. InLoop /\ done = 0 => q.line # Line
  <2>1. q.pos \in 1..asked[q.line].n /\ (InLoop /\ q.line = Line => q.pos <= done)
    BY DEF IInv, ProcsOK, InLoop
  <2> QED
    BY <2>1
<1> QED
  BY <1>1, <1>2 DEF Launched

\* Once another line is launched, what was k + 1 lines ahead is k lines ahead,
\* and nothing was as far ahead as the deque is long.
LEMMA LaterIsOwed ==
    ASSUME IInv, NEW k \in Slots
    PROVE  Lines!Later(k) = Owed(Launched + 2 + k)
<1>1. Line \in Nat /\ k \in Nat /\ Depth \in Nat \ {0} /\ Launched \in Int
  BY LineFacts, SlotsFacts DEF Launched
<1>2. CASE k + 1 < Depth
  <2>1. k + 1 \in Slots
    BY <1>1, <1>2 DEF Slots
  <2>2. Lines!Later(k) = Waiting(k + 1)
    BY <1>2, <2>1 DEF Lines!Later
  <2>3. Waiting(k + 1) = Owed(Launched + 1 + (k + 1))
    BY <2>1, WaitingIsOwed
  <2>4. Launched + 1 + (k + 1) = Launched + 2 + k
    BY <1>1
  <2> QED
    BY <2>2, <2>3, <2>4
<1>3. CASE ~(k + 1 < Depth)
  <2>1. ASSUME NEW q \in procs, Sends(q, Launched + 2 + k) PROVE FALSE
    <3>1. k = Depth - 1
      BY <1>1, <1>3 DEF Slots
    <3>2. asked[q.line].dest \in 0..(Depth - 1)
      BY LineFacts
    <3>3. q.line + asked[q.line].dest = Launched + 1 + Depth
      BY <3>1, <2>1, <1>1 DEF Sends, Directed
    <3>4. q.line \in 1..Launched
      BY LaunchedBeforeForked
    <3> QED
      BY <3>2, <3>3, <3>4, <1>1
  <2>2. Lines!Later(k) = {}
    BY <1>3 DEF Lines!Later
  <2>3. Owed(Launched + 2 + k) = {}
    BY <2>1 DEF Owed
  <2> QED
    BY <2>2, <2>3
<1> QED
  BY <1>2, <1>3

----------------------------------------------------------------------------
(* The three kinds of steps                                                *)

\* Nothing is launched and nothing is owed anew: the abstract state stays.
LEMMA NothingLaunched ==
    ASSUME IInv, IInv',
           Launched' = Launched, Forked' = Forked,
           \A m \in Int : Owed(m)' = Owed(m)
    PROVE  /\ UNCHANGED <<Launched, [k \in Slots |-> Waiting(k)], Delivered>>
           /\ asked' = asked => UNCHANGED Lines!vars
<1>1. Launched \in Int /\ (\A k \in Slots : k \in Nat) /\ \A m \in Forked : m \in Int
  BY LineFacts, SlotsFacts DEF Launched, Forked
<1>2. ASSUME NEW k \in Slots PROVE Waiting(k)' = Waiting(k)
  <2>1. PICK m \in Int : m = Launched + 1 + k
    BY <1>1
  <2> QED
    BY <2>1, AbstractState, AbstractStateNext
<1>3. Delivered' = Delivered
  <2>1. ASSUME NEW x PROVE x \in Delivered' <=> x \in Delivered
    BY <1>1, AbstractState, AbstractStateNext
  <2> QED
    BY <2>1
<1> QED
  BY <1>2, <1>3 DEF Lines!vars

\* A builtin is launched: it reads nothing.
LEMMA BuiltinLaunched ==
    ASSUME IInv, IInv', NEW l, l.n = 0, asked' = Append(asked, l), Launched = Len(asked),
           Launched' = Launched + 1, Forked' = Forked,
           \A m \in Int : Owed(m)' = Owed(m)
    PROVE  Lines!Builtin(l)
<1>1. Launched \in Int /\ (\A k \in Slots : k \in Nat) /\ \A m \in Forked : m \in Int
  BY LineFacts, SlotsFacts DEF Launched, Forked
<1>2. ASSUME NEW k \in Slots PROVE Waiting(k)' = Lines!Later(k)
  <2>1. PICK m \in Int : m = Launched + 2 + k /\ m = Launched' + 1 + k
    BY <1>1
  <2>2. Waiting(k)' = Owed(m)'
    BY <2>1, AbstractStateNext
  <2> QED
    BY <2>1, <2>2, LaterIsOwed
<1>3. Delivered' = Delivered
  <2>1. ASSUME NEW x PROVE x \in Delivered' <=> x \in Delivered
    BY <1>1, AbstractState, AbstractStateNext
  <2> QED
    BY <2>1
<1> QED
  BY <1>2, <1>3 DEF Lines!Builtin, Slots

\* A line is launched: it reads what was owed to it and, when it sends its
\* own output anywhere, that becomes owed N lines later.
LEMMA LineLaunched ==
    ASSUME IInv, IInv', NEW N \in Dests \cup {0},
           asked' = asked, Line = Launched + 1, N \in Lines!Reaches(cmd),
           Launched' = Launched + 1, Forked' = Forked \cup {Launched + 1},
           \A m \in Int : Owed(m)' = IF N # 0 /\ m = Launched + 1 + N
                                     THEN Owed(m) \cup {Launched + 1}
                                     ELSE Owed(m)
    PROVE  Lines!Launch(N)
<1>1. /\ Launched \in Int
      /\ \A k \in Slots : k \in Nat
      /\ N \in Nat
  BY LineFacts, SlotsFacts, DestsFacts DEF Launched
<1>2. \A m \in Forked : m \in 1..Launched
  BY LaunchedBeforeForked DEF Forked
<1>3. ASSUME NEW k \in Slots
      PROVE  Waiting(k)' = IF N # 0 /\ k + 1 = N
                           THEN Lines!Later(k) \cup {Launched + 1}
                           ELSE Lines!Later(k)
  <2>1. PICK m \in Int : m = Launched + 2 + k /\ m = Launched' + 1 + k
    BY <1>1
  <2>2. Waiting(k)' = Owed(m)'
    BY <2>1, AbstractStateNext
  <2>3. k + 1 = N <=> m = Launched + 1 + N
    BY <2>1, <1>1
  <2> QED
    BY <2>1, <2>2, <2>3, LaterIsOwed
<1>4. Delivered' = Delivered \cup {<<l, Launched + 1>> : l \in Waiting(0)}
  <2>1. Waiting(0) = Owed(Launched + 1)
    <3>1. 0 \in Slots /\ Launched + 1 + 0 = Launched + 1
      BY <1>1, SlotsFacts
    <3> QED
      BY <3>1, WaitingIsOwed
  <2>2. \A m \in Forked \cup {Launched + 1} : Owed(m)' = Owed(m)
    BY <1>1, <1>2
  <2>3. ASSUME NEW x
        PROVE  x \in Delivered' <=> x \in Delivered \/ \E l \in Owed(Launched + 1) : x = <<l, Launched + 1>>
    <3>1. x \in Delivered' <=> \E m \in Forked' : \E l \in Owed(m)' : x = <<l, m>>
      BY AbstractStateNext
    <3>2. x \in Delivered <=> \E m \in Forked : \E l \in Owed(m) : x = <<l, m>>
      BY AbstractState
    <3> QED
      BY <3>1, <3>2, <2>2
  <2> QED
    BY <2>1, <2>3
<1>5. 0 \in 0..(Depth - 1) /\ 0 \in Slots /\ Slots = 0..(Depth - 1)
  BY SlotsFacts DEF Slots
<1>6. Launched < Len(asked) /\ N \in Lines!Reaches(asked[Launched + 1])
  BY <1>1 DEF Line, cmd
<1> QED
  BY <1>3, <1>4, <1>5, <1>6 DEF Lines!Launch

----------------------------------------------------------------------------
(* Every action is one of the three                                        *)

\* Where nothing is forked the lines already forked owe what they owed.
LEMMA SameSenders ==
    ASSUME IInv, procs' = procs, \A i \in 1..Line : asked'[i] = asked[i]
    PROVE  \A m \in Int : Owed(m)' = Owed(m)
<1> SUFFICES ASSUME NEW m \in Int, NEW q \in procs PROVE Sends(q, m)' <=> Sends(q, m)
  BY DEF Owed
<1>1. asked'[q.line] = asked[q.line]
  BY LineFacts
<1> QED
  BY <1>1 DEF Sends, IsLast, InOneSlice, Directed

\* A line that is read owes nothing yet.
LEMMA BeginLineTypes ==
    ASSUME IInv, IInv', NEW l \in CommandLines, BeginLine(l)
    PROVE  Lines!Type(l)
<1>1. /\ pc = "prompt" /\ pc' = "slice" /\ done' = 0
      /\ procs' = procs /\ asked' = Append(asked, l)
  BY DEF BeginLine
<1>2. Line \in Nat /\ Line' = Line + 1 /\ \A i \in 1..Line : asked'[i] = asked[i]
  BY <1>1, AppendLine, LineFacts DEF IInv
<1>3. Launched' = Launched /\ Launched = Len(asked)
  BY <1>1, <1>2 DEF Launched, InLoop, Line
<1>4. Forked' = Forked
  BY <1>1 DEF Forked
<1>5. \A m \in Int : Owed(m)' = Owed(m)
  BY <1>1, <1>2, SameSenders
<1>6. UNCHANGED <<Launched, [k \in Slots |-> Waiting(k)], Delivered>>
  BY <1>3, <1>4, <1>5, NothingLaunched
<1>7. l.n > 0
  BY DEF BeginLine
<1> QED
  BY <1>1, <1>3, <1>6, <1>7 DEF Lines!Type

\* A builtin is launched, and forks nothing.
LEMMA BuiltinLaunches ==
    ASSUME IInv, IInv', NEW l \in CommandLines, Builtin(l)
    PROVE  Lines!Builtin(l)
<1>1. /\ pc = "prompt" /\ pc' = pc /\ l.n = 0
      /\ procs' = procs /\ asked' = Append(asked, l)
  BY DEF Builtin
<1>2. Line \in Nat /\ Line' = Line + 1 /\ \A i \in 1..Line : asked'[i] = asked[i]
  BY <1>1, AppendLine, LineFacts DEF IInv
<1>3. Launched' = Launched + 1 /\ Launched = Len(asked)
  BY <1>1, <1>2 DEF Launched, InLoop, Line
<1>4. Forked' = Forked
  BY <1>1 DEF Forked
<1>5. \A m \in Int : Owed(m)' = Owed(m)
  BY <1>1, <1>2, SameSenders
<1> QED
  BY <1>1, <1>3, <1>4, <1>5, BuiltinLaunched

\* The other steps of the shell between two slices.
LEMMA QuietStep ==
    ASSUME IInv, IInv', EndLine \/ Quit \/ PipesFail \/ UNCHANGED vars
    PROVE  UNCHANGED Lines!vars
<1>1. procs' = procs /\ asked' = asked /\ done' = done /\ (InLoop' <=> InLoop)
  BY DEF EndLine, Quit, PipesFail, vars, InLoop
<1>2. Launched' = Launched /\ Forked' = Forked
  BY <1>1 DEF Launched, Forked, Line
<1>3. \A m \in Int : Owed(m)' = Owed(m)
  BY <1>1, SameSenders
<1> QED
  BY <1>1, <1>2, <1>3, NothingLaunched

\* What a slice forks, by line and position.
LEMMA SliceProcs ==
    ASSUME NEW k \in Nat \ {0}, NEW node, NEW base, done \in Nat
    PROVE  /\ \A q \in Slice(k, node, base) : q.line = Line /\ q.pos \in (done + 1)..(done + k)
           /\ \E q \in Slice(k, node, base) : q.line = Line /\ q.pos = done + 1
           /\ \E q \in Slice(k, node, base) : q.line = Line /\ q.pos = done + k
<1>1. \A q \in Slice(k, node, base) : q.line = Line /\ q.pos \in (done + 1)..(done + k)
  BY SliceMember
<1>2. ASSUME NEW j \in 1..k
      PROVE  \E q \in Slice(k, node, base) : q.line = Line /\ q.pos = done + j
  <2> DEFINE q == [line |-> Line,
                   pos  |-> done + j,
                   in   |-> IF j = 1 THEN node.in ELSE base + j - 1,
                   out  |-> IF j = k THEN node.out ELSE base + j,
                   err  |-> ErrorStream(j, k, node, base)]
  <2>1. q \in Slice(k, node, base)
    BY DEF Slice
  <2>2. q.line = Line /\ q.pos = done + j
    OBVIOUS
  <2> QED
    BY <2>1, <2>2
<1> QED
  BY <1>1, <1>2

\* The first slice of a line launches it; a later one forks no first command.
LEMMA SliceForks ==
    ASSUME IInv, pc = "slice",
           NEW k \in Nat \ {0}, NEW node, NEW base,
           procs' = procs \cup Slice(k, node, base), asked' = asked,
           done' \in Nat \ {0} \/ pc' = "wait"
    PROVE  /\ Launched' = Line
           /\ done = 0 => Launched + 1 = Line /\ Forked' = Forked \cup {Line}
           /\ done # 0 => Launched = Line /\ Forked' = Forked
<1>1. Line \in Nat /\ done \in Nat
  BY LineFacts DEF IInv, TypeOK
<1>2. /\ \A q \in Slice(k, node, base) : q.line = Line /\ q.pos \in (done + 1)..(done + k)
      /\ \E q \in Slice(k, node, base) : q.line = Line /\ q.pos = done + 1
  BY <1>1, SliceProcs
<1>3. Launched' = Line
  BY DEF Launched, Line, InLoop
<1>4. CASE done = 0
  <2>1. \E q \in Slice(k, node, base) : q.line = Line /\ q.pos = 1
    BY <1>2, <1>4
  <2>2. Forked' = Forked \cup {Line}
    BY <1>2, <2>1 DEF Forked
  <2> QED
    BY <1>1, <1>3, <1>4, <2>2 DEF Launched, InLoop
<1>5. CASE done # 0
  <2>1. \A q \in Slice(k, node, base) : q.pos # 1
    BY <1>1, <1>2, <1>5
  <2>2. Forked' = Forked
    BY <2>1 DEF Forked
  <2> QED
    BY <1>1, <1>3, <1>5, <2>2 DEF Launched, InLoop
<1> QED
  BY <1>4, <1>5

\* A slice that is not the last has no last command: whatever |N its line
\* ends in, the line is launched as one that sends its output nowhere.
LEMMA RunSliceLaunches ==
    ASSUME IInv, IInv', RunSlice
    PROVE  Lines!Launch(0) \/ UNCHANGED Lines!vars
<1> DEFINE node == [front EXCEPT !.out = npipes + 1, !.err = npipes + 1]
           new == Slice(SliceSize, node, npipes + 1)
<1>1. /\ pc = "slice" /\ left > SliceSize
      /\ procs' = procs \cup new
      /\ done' = done + SliceSize
      /\ pc' = pc /\ asked' = asked
  BY DEF RunSlice
<1>2. /\ Line \in Nat /\ done \in Nat /\ SliceSize \in Nat \ {0}
      /\ cmd.n \in Nat /\ cmd = asked[Line]
  BY <1>1, LineFacts, ConstantsAssumption DEF IInv, TypeOK, cmd
<1>3. done' \in Nat \ {0} /\ done + SliceSize < cmd.n
  BY <1>1, <1>2 DEF left
<1>4. /\ Launched' = Line
      /\ done = 0 => Launched + 1 = Line /\ Forked' = Forked \cup {Line}
      /\ done # 0 => Launched = Line /\ Forked' = Forked
  BY <1>1, <1>2, <1>3, SliceForks
<1>5. \A q \in new : q.line = Line /\ q.pos \in (done + 1)..(done + SliceSize)
  BY <1>2, SliceProcs
<1> HIDE DEF new
<1>6. \A m \in Int : Owed(m)' = Owed(m)
  <2>1. \A q \in new, m \in Int : ~Sends(q, m)
    BY <1>2, <1>3, <1>5 DEF Sends, IsLast
  <2>2. \A q, m : Sends(q, m)' <=> Sends(q, m)
    BY <1>1 DEF Sends, IsLast, InOneSlice, Directed
  <2> QED
    BY <1>1, <2>1, <2>2 DEF Owed
<1>7. CASE done = 0
  <2>1. 0 \in Lines!Reaches(cmd)
    BY <1>2, <1>3 DEF Lines!Reaches
  <2>2. Lines!Launch(0)
    BY <1>1, <1>4, <1>6, <1>7, <2>1, LineLaunched
  <2> QED
    BY <2>2
<1>8. CASE done # 0
  <2>1. UNCHANGED Lines!vars
    BY <1>1, <1>4, <1>6, <1>8, NothingLaunched
  <2> QED
    BY <2>1
<1> QED
  BY <1>7, <1>8

\* The last slice of a line sends the output of its last command where the
\* line says, if it is the only one.
LEMMA LastSliceLaunches ==
    ASSUME IInv, IInv', LastSlice
    PROVE  (\E N \in Dests \cup {0} : Lines!Launch(N)) \/ UNCHANGED Lines!vars
<1> DEFINE new == Slice(left, front, npipes)
<1>1. /\ pc = "slice" /\ left <= SliceSize
      /\ procs' = procs \cup new
      /\ pc' = "wait" /\ asked' = asked
  BY DEF LastSlice
<1>2. /\ Line \in Nat /\ Line > 0 /\ done \in Nat /\ SliceSize \in Nat \ {0}
      /\ cmd.n \in Nat /\ cmd.dest \in Nat /\ cmd.dest \in Dests
      /\ cmd = asked[Line] /\ done < cmd.n
  <2>1. Line > 0
    BY <1>1 DEF IInv, TypeOK
  <2>2. cmd.dest \in Dests
    BY <2>1, CmdType DEF IInv
  <2> QED
    BY <2>1, <2>2, <1>1, LineFacts, ConstantsAssumption DEF IInv, TypeOK, FrontOK, cmd
<1>3. left \in Nat \ {0} /\ done + left = cmd.n
  BY <1>2 DEF left
<1>4. /\ Launched' = Line
      /\ done = 0 => Launched + 1 = Line /\ Forked' = Forked \cup {Line}
      /\ done # 0 => Launched = Line /\ Forked' = Forked
  BY <1>1, <1>3, SliceForks
<1>5. /\ \A q \in new : q.line = Line
      /\ \E q \in new : q.line = Line /\ q.pos = cmd.n
  BY <1>2, <1>3, SliceProcs
<1> HIDE DEF new
<1>6. \A q, m : Sends(q, m)' <=> Sends(q, m)
  BY <1>1 DEF Sends, IsLast, InOneSlice, Directed
<1>7. CASE done = 0
  <2>1. InOneSlice(Line)
    BY <1>1, <1>2, <1>3, <1>7 DEF InOneSlice
  <2>2. \A q \in new, m \in Int :
           Sends(q, m) <=> q.pos = cmd.n /\ cmd.dest # 0 /\ m = Line + cmd.dest
    BY <2>1, <1>2, <1>5 DEF Sends, IsLast, Directed
  <2>3. ASSUME NEW m \in Int
        PROVE  Owed(m)' = IF cmd.dest # 0 /\ m = Line + cmd.dest
                          THEN Owed(m) \cup {Line}
                          ELSE Owed(m)
    <3>1. \A l : l \in Owed(m)' <=> l \in Owed(m) \/ \E q \in new : Sends(q, m) /\ l = q.line
      BY <1>1, <1>6 DEF Owed
    <3>2. \A l : (\E q \in new : Sends(q, m) /\ l = q.line)
                   <=> cmd.dest # 0 /\ m = Line + cmd.dest /\ l = Line
      BY <2>2, <1>5
    <3> QED
      BY <3>1, <3>2
  <2>4. cmd.dest \in Lines!Reaches(cmd)
    BY DEF Lines!Reaches
  <2>5. Lines!Launch(cmd.dest)
    BY <2>3, <2>4, <1>1, <1>2, <1>4, <1>7, LineLaunched
  <2> QED
    BY <2>5, <1>2
<1>8. CASE done # 0
  <2>1. ~InOneSlice(Line)
    <3>1. cmd.n > SliceSize
      BY <1>1, <1>2, <1>8 DEF IInv, FrontOK
    <3> QED
      BY <3>1, <1>2 DEF InOneSlice
  <2>2. \A q \in new, m \in Int : ~Sends(q, m)
    BY <2>1, <1>5 DEF Sends
  <2>3. \A m \in Int : Owed(m)' = Owed(m)
    BY <2>2, <1>1, <1>6 DEF Owed
  <2>4. UNCHANGED Lines!vars
    BY <2>3, <1>1, <1>4, <1>8, NothingLaunched
  <2> QED
    BY <2>4
<1> QED
  BY <1>7, <1>8

----------------------------------------------------------------------------
(* The refinement                                                          *)

\* Initially nothing is due.
LEMMA InitRefines == Init => Lines!Init
<1> SUFFICES ASSUME Init PROVE Lines!Init
  OBVIOUS
<1>1. procs = {} /\ pc = "prompt" /\ asked = << >>
  BY DEF Init
<1>2. Launched = 0
  BY <1>1 DEF Launched, Line, InLoop
<1>3. \A k \in Slots : Waiting(k) = {}
  BY <1>1 DEF Waiting
<1>4. Delivered = {}
  BY <1>1 DEF Delivered
<1> QED
  BY <1>1, <1>2, <1>3, <1>4 DEF Lines!Init, Slots

\* Every step of the shell launches a line, in the terms of LinePipes, or
\* changes nothing there.
LEMMA StepRefines == IInv /\ IInv' /\ [Next]_vars => [Lines!Next]_Lines!vars
<1> SUFFICES ASSUME IInv, IInv', [Next]_vars PROVE Lines!Next \/ UNCHANGED Lines!vars
  OBVIOUS
<1>0. \A N \in Dests \cup {0} : N \in 0..Depth
  BY ConstantsAssumption
<1>1. ASSUME NEW l \in CommandLines, BeginLine(l) PROVE Lines!Type(l)
  BY <1>1, BeginLineTypes
<1>2. ASSUME NEW l \in CommandLines, Builtin(l) PROVE Lines!Builtin(l)
  BY <1>2, BuiltinLaunches
<1>3. CASE RunSlice
  <2>1. Lines!Launch(0) \/ UNCHANGED Lines!vars
    BY <1>3, RunSliceLaunches
  <2> QED
    BY <1>0, <2>1 DEF Lines!Next
<1>4. CASE LastSlice
  <2>1. (\E N \in Dests \cup {0} : Lines!Launch(N)) \/ UNCHANGED Lines!vars
    BY <1>4, LastSliceLaunches
  <2> QED
    BY <1>0, <2>1 DEF Lines!Next
<1>5. CASE EndLine \/ Quit \/ PipesFail \/ Ended \/ UNCHANGED vars
  BY <1>5, QuietStep DEF Ended
<1> QED
  BY <1>1, <1>2, <1>3, <1>4, <1>5 DEF Next, Lines!Next

\* The shell implements LinePipes: the output of every line of one slice
\* reaches the line its user directed it at, together with all that was directed
\* there, and no other line, for every slice size, deque length and set of lines.
THEOREM Refinement == Spec => Contract
<1>1. Init => Lines!Init
  BY InitRefines
<1>2. IInv /\ IInv' /\ [Next]_vars => [Lines!Next]_Lines!vars
  BY StepRefines
<1>3. Spec => []IInv
  BY Invariance
<1> QED
  BY <1>1, <1>2, <1>3, PTL DEF Spec, Contract, Lines!Spec

----------------------------------------------------------------------------
(***************************************************************************)
(* Part 4.  Running the processes leaves the shell as it is, and once a    *)
(* filter has seen end of file nobody can ever write to the pipe it read:  *)
(* a process forked later has that pipe's write end neither by inheritance *)
(* (the shell holds none) nor as its stdout (the wiring of NumberedPipes)  *)
(* or stderr, which is its stdout or a pipe that was not there before.     *)
(***************************************************************************)
\* The front's stderr is redirected only with its stdout, until it is popped.
ErrOK ==
    \A k \in Slots :
        \/ redirection_info[k].err = STD
        \/ k = 0 /\ pc \in {"slice", "wait"} /\ front.err = front.out

States == {"running", "ended", "killed", "eof"}

Records == [ends : SUBSET Ends, todo : Nat, filter : BOOLEAN, state : States]

\* What is known of the processes and the pipes between them.
JobsOK ==
    /\ jobs = [q \in procs |-> jobs[q]]
    /\ fill = [p \in 1..npipes |-> fill[p]]
    /\ \A q \in procs :
          /\ jobs[q] \in Records
          /\ jobs[q].filter \/ jobs[q].state = "eof" => q.in # STD
          /\ jobs[q].state = "running" /\ q.out # STD => <<q.out, "w">> \in jobs[q].ends

JInv ==
    /\ ErrOK
    /\ JobsOK
    /\ EofIsFinal

----------------------------------------------------------------------------
(* The processes of a slice                                                *)

\* Where a new process writes: not into a pipe that was there for a reader.
LEMMA NewStreams ==
    ASSUME IInv, IInv', pc = "slice", asked' = asked,
           NEW k \in Nat, NEW node \in Node, NEW base \in Nat, base >= npipes,
           procs' = procs \cup Slice(k, node, base), node.err \in {STD, node.out},
           NEW c \in procs, c.in # STD, NEW q \in procs' \ procs
    PROVE  q.out # c.in /\ q.err # c.in
<1>1. PICK j \in 1..k :
          /\ q.line = Line
          /\ q.pos = done + j
          /\ q.out = IF j = k THEN node.out ELSE base + j
          /\ q.err = ErrorStream(j, k, node, base)
  BY SliceMember
<1>2. /\ done \in Nat /\ npipes \in Nat /\ Line \in Nat /\ Line > 0 /\ j \in Nat /\ j > 0
      /\ c.line \in 1..Line /\ c.pos \in 1..asked[c.line].n /\ c.in \in 0..npipes
      /\ c.line = Line => c.pos <= done
      /\ asked[c.line].n \in Nat
  <2>1. done \in Nat /\ npipes \in Nat /\ asked \in Seq(CommandLines) /\ Line > 0
    BY DEF IInv, TypeOK
  <2>2. c.line \in 1..Line /\ c.pos \in 1..asked[c.line].n /\ c.in \in 0..npipes
        /\ (c.line = Line => c.pos <= done)
    BY DEF IInv, ProcsOK
  <2>3. Line \in Nat
    BY <2>1, LenProperties DEF Line
  <2>4. asked[c.line] \in CommandLines
    BY <2>1, <2>2, ElementOfSeq DEF Line
  <2>5. QED
    BY <2>1, <2>2, <2>3, <2>4, ConstantsAssumption DEF CommandLines
<1>3. cmd.dest \in Nat
  BY <1>2, CmdType, DestsFacts DEF IInv
<1>4. q.out # c.in
  <2>1. SUFFICES ASSUME Feeds(q, c) PROVE FALSE
    BY DEF Feeds
  <2>2. c \in procs' /\ q \in procs'
    OBVIOUS
  <2>3. CASE c.pos = 1
    <3>1. Directed(q.line, c.line)
      BY <2>1, <2>2, <2>3 DEF IInv, NumberedDelivery, Directed
    <3>2. QED
      BY <1>1, <1>2, <1>3, <3>1 DEF Directed, cmd
  <2>4. CASE c.pos > 1
    <3>1. q.line = c.line /\ q.pos + 1 = c.pos
      BY <2>1, <2>2, <2>4 DEF IInv, PipelineChain
    <3>2. QED
      BY <1>1, <1>2, <3>1
  <2>5. QED
    BY <1>2, <2>3, <2>4
<1>5. q.err \in {STD, q.out} \/ q.err > npipes
  <2>1. CASE ~cmd.bang
    BY <1>1, <2>1 DEF ErrorStream
  <2>2. CASE cmd.bang /\ j = k
    BY <1>1, <2>2 DEF ErrorStream
  <2>3. CASE cmd.bang /\ j # k
    <3>1. q.err = base + j
      BY <1>1, <2>3 DEF ErrorStream
    <3>2. QED
      BY <1>2, <3>1
  <2>4. QED
    BY <2>1, <2>2, <2>3
<1>6. QED
  BY <1>2, <1>4, <1>5

\* What a process may have open, and what it must.
LEMMA NewEnds ==
    ASSUME NEW q \in Processes, NEW before \in SUBSET Ends, NEW node
    PROVE  /\ ChildEnds(q, before, node) \subseteq Ends
           /\ q.out # STD => <<q.out, "w">> \in ChildEnds(q, before, node)
           /\ \A p : <<p, "w">> \in ChildEnds(q, before, node) =>
                 <<p, "w">> \in before \/ p = q.out \/ p = q.err
<1>1. q.in \in Nat /\ q.out \in Nat /\ q.err \in Nat
  BY DEF Processes
<1>2. Inherited(q, before, node) \subseteq before
  BY DEF Inherited, CloseFront
<1>3. OwnEnds(q) \subseteq Ends
  BY <1>1 DEF OwnEnds, Ends, STD
<1>4. q.out # STD => <<q.out, "w">> \in OwnEnds(q)
  BY <1>1 DEF OwnEnds, STD
<1>5. \A p : <<p, "w">> \in OwnEnds(q) => p = q.out \/ p = q.err
  BY DEF OwnEnds
<1>6. QED
  BY <1>2, <1>3, <1>4, <1>5 DEF ChildEnds

\* A fork leaves the pipes that have come to their end alone.
LEMMA SpawnInv ==
    ASSUME IInv, IInv', JInv, pc = "slice", asked' = asked,
           NEW k \in Nat, NEW node \in Node, NEW base \in Nat, base >= npipes,
           procs' = procs \cup Slice(k, node, base), node.err \in {STD, node.out},
           NEW before, before \subseteq open \cup BothEnds({npipes + 1}), NEW closed,
           Spawn(before, closed), GrowFill, npipes' >= npipes
    PROVE  JobsOK' /\ EofIsFinal'
<1> DEFINE new == procs' \ procs
<1>1. /\ npipes \in Nat /\ npipes' \in Nat /\ open \subseteq Ends
      /\ procs' \subseteq Processes /\ procs \subseteq procs'
  BY DEF IInv, TypeOK
<1>2. before \subseteq Ends
  <2>1. BothEnds({npipes + 1}) \subseteq Ends
    BY <1>1 DEF BothEnds, Ends
  <2>2. QED
    BY <1>1, <2>1
<1>3. PICK filters \in SUBSET {q \in new : q.in # STD} :
         \E amount \in [new \ filters -> Amounts] :
            jobs' = [q \in procs' |->
                        IF q \in procs THEN jobs[q]
                        ELSE [ends   |-> ChildEnds(q, before, closed),
                              todo   |-> IF q \in filters THEN 0 ELSE amount[q],
                              filter |-> q \in filters,
                              state  |-> "running"]]
  BY DEF Spawn
<1>4. PICK amount \in [new \ filters -> Amounts] :
            jobs' = [q \in procs' |->
                        IF q \in procs THEN jobs[q]
                        ELSE [ends   |-> ChildEnds(q, before, closed),
                              todo   |-> IF q \in filters THEN 0 ELSE amount[q],
                              filter |-> q \in filters,
                              state  |-> "running"]]
  BY <1>3
<1>5. \A q \in procs : jobs'[q] = jobs[q]
  BY <1>1, <1>4
<1>6. \A q \in new :
         /\ jobs'[q] \in Records
         /\ jobs'[q].ends = ChildEnds(q, before, closed)
         /\ jobs'[q].filter = (q \in filters)
         /\ jobs'[q].state = "running"
         /\ q \in filters => q.in # STD
         /\ q.out # STD => <<q.out, "w">> \in ChildEnds(q, before, closed)
  <2>1. SUFFICES ASSUME NEW q \in new
                 PROVE  /\ jobs'[q] \in Records
                        /\ jobs'[q].ends = ChildEnds(q, before, closed)
                        /\ jobs'[q].filter = (q \in filters)
                        /\ jobs'[q].state = "running"
                        /\ q \in filters => q.in # STD
                        /\ q.out # STD => <<q.out, "w">> \in ChildEnds(q, before, closed)
    OBVIOUS
  <2>2. ChildEnds(q, before, closed) \in SUBSET Ends
        /\ (q.out # STD => <<q.out, "w">> \in ChildEnds(q, before, closed))
    BY <1>1, <1>2, NewEnds
  <2>3. (IF q \in filters THEN 0 ELSE amount[q]) \in Nat
    BY <1>4, JobsAssumption
  <2>4. (q \in filters) \in BOOLEAN
    OBVIOUS
  <2>5. jobs'[q] = [ends   |-> ChildEnds(q, before, closed),
                    todo   |-> IF q \in filters THEN 0 ELSE amount[q],
                    filter |-> q \in filters,
                    state  |-> "running"]
    BY <1>4
  <2>6. "running" \in States
    BY DEF States
  <2>7. /\ jobs'[q] \in Records
        /\ jobs'[q].ends = ChildEnds(q, before, closed)
        /\ jobs'[q].filter = (q \in filters)
        /\ jobs'[q].state = "running"
    <3>1. ASSUME NEW todo \in Nat, NEW ends \in SUBSET Ends, NEW filter \in BOOLEAN,
                 jobs'[q] = [ends |-> ends, todo |-> todo, filter |-> filter, state |-> "running"]
          PROVE  /\ jobs'[q] \in Records
                 /\ jobs'[q].ends = ends
                 /\ jobs'[q].filter = filter
                 /\ jobs'[q].state = "running"
      BY <2>6, <3>1 DEF Records
    <3>2. QED
      BY <2>2, <2>3, <2>4, <2>5, <3>1, Zenon
  <2>8. q \in filters => q.in # STD
    BY <1>3
  <2>9. QED
    BY <2>2, <2>7, <2>8
<1>7. JobsOK'
  <2>1. fill' = [p \in 1..npipes' |-> fill'[p]]
    BY DEF GrowFill
  <2>2. \A q \in new :
          /\ jobs'[q] \in Records
          /\ jobs'[q].filter \/ jobs'[q].state = "eof" => q.in # STD
          /\ jobs'[q].state = "running" /\ q.out # STD => <<q.out, "w">> \in jobs'[q].ends
    BY <1>6
  <2>3. jobs' = [q \in procs' |-> jobs'[q]]
    BY <1>4
  <2>4. QED
    BY <1>5, <2>1, <2>2, <2>3 DEF JInv, JobsOK
<1>8. EofIsFinal'
  <2>1. SUFFICES ASSUME NEW c \in procs', jobs'[c].state = "eof"
                 PROVE  ~EndHeld(<<c.in, "w">>)' /\ fill'[c.in] = 0
    BY DEF EofIsFinal
  <2>2. c \in procs /\ jobs[c].state = "eof" /\ c.in # STD /\ c.in \in 0..npipes
    <3>1. c \in procs
      BY <1>6, <2>1
    <3>2. QED
      BY <1>5, <2>1, <3>1 DEF JInv, JobsOK, IInv, ProcsOK
  <2>3. ~EndHeld(<<c.in, "w">>) /\ fill[c.in] = 0
    BY <2>2 DEF JInv, EofIsFinal
  <2>4. <<c.in, "w">> \notin open' /\ <<c.in, "w">> \notin open
    BY <1>1, <2>2 DEF IInv, ReaderCanSeeEof
  <2>5. <<c.in, "w">> \notin before
    BY <1>1, <2>2, <2>4 DEF BothEnds
  <2>6. \A q \in procs' : jobs'[q].state = "running" => <<c.in, "w">> \notin jobs'[q].ends
    <3>1. SUFFICES ASSUME NEW q \in procs', jobs'[q].state = "running"
                   PROVE  <<c.in, "w">> \notin jobs'[q].ends
      OBVIOUS
    <3>2. CASE q \in procs
      BY <1>5, <2>3, <3>1, <3>2 DEF EndHeld, Running
    <3>3. CASE q \notin procs
      <4>1. q.out # c.in /\ q.err # c.in
        BY <2>2, <3>3, NewStreams
      <4>2. <<c.in, "w">> \notin ChildEnds(q, before, closed)
        BY <1>1, <1>2, <2>5, <4>1, NewEnds
      <4>3. QED
        BY <1>6, <3>3, <4>2
    <3>4. QED
      BY <3>2, <3>3
  <2>7. fill'[c.in] = 0
    <3>1. c.in \in 1..npipes /\ c.in \in 1..npipes'
      BY <1>1, <2>2 DEF STD
    <3>2. DOMAIN fill = 1..npipes
      BY DEF JInv, JobsOK
    <3>3. QED
      BY <2>3, <3>1, <3>2 DEF GrowFill
  <2>8. QED
    BY <2>4, <2>6, <2>7 DEF EndHeld, Running
<1>9. QED
  BY <1>7, <1>8

----------------------------------------------------------------------------
(* The other steps of the shell                                            *)

LEMMA ShellStep ==
    ASSUME IInv, IInv', JInv, procs' = procs, jobs' = jobs,
           fill' = [p \in 1..npipes' |-> fill'[p]],
           \A p \in 1..npipes : fill'[p] = fill[p]
    PROVE  JobsOK' /\ EofIsFinal'
<1>1. JobsOK'
  BY DEF JInv, JobsOK
<1>2. EofIsFinal'
  <2>1. SUFFICES ASSUME NEW c \in procs, jobs[c].state = "eof"
                 PROVE  ~EndHeld(<<c.in, "w">>)' /\ fill'[c.in] = 0
    BY DEF EofIsFinal
  <2>2. c.in # STD /\ c.in \in 0..npipes /\ npipes \in Nat
    BY <2>1 DEF JInv, JobsOK, IInv, ProcsOK, TypeOK
  <2>3. ~EndHeld(<<c.in, "w">>) /\ fill[c.in] = 0
    BY <2>1 DEF JInv, EofIsFinal
  <2>4. <<c.in, "w">> \notin open'
    BY <2>2 DEF IInv, ReaderCanSeeEof
  <2>5. c.in \in 1..npipes
    BY <2>2 DEF STD
  <2>6. QED
    BY <2>3, <2>4, <2>5 DEF EndHeld, Running
<1>3. QED
  BY <1>1, <1>2

LEMMA BeginLineJobs ==
    ASSUME IInv, IInv', JInv, NEW l \in CommandLines, JBeginLine(l)
    PROVE  JInv'
<1>1. /\ BeginLine(l) /\ jobs' = jobs
      /\ fill' = [p \in 1..npipes' |-> IF p \in DOMAIN fill THEN fill[p] ELSE 0]
  BY DEF JBeginLine, GrowFill
<1>2. /\ pc = "prompt" /\ pc' = "slice" /\ procs' = procs
      /\ \/ redirection_info' = redirection_info /\ npipes' = npipes
         \/ /\ redirection_info' = OpenNumberedPipe(redirection_info, l.dest, l.bang, npipes + 1)
            /\ npipes' \in {npipes, npipes + 1}
            /\ l.dest # 0
  BY <1>1 DEF BeginLine
<1>3. /\ npipes \in Nat /\ redirection_info \in [Slots -> Node]
      /\ l.dest \in Slots /\ 0 \in Slots
      /\ \A k \in Slots : redirection_info[k].err = STD
  BY <1>2, SlotsFacts DEF IInv, TypeOK, JInv, ErrOK
<1>4. ErrOK'
  <2>1. CASE redirection_info' = redirection_info
    BY <1>3, <2>1 DEF ErrOK
  <2>2. CASE l.dest # 0 /\ redirection_info' = OpenNumberedPipe(redirection_info, l.dest, l.bang, npipes + 1)
    <3> DEFINE d == l.dest
               pipe == npipes + 1
               atD == [redirection_info[d] EXCEPT !.in = pipe, !.wend = pipe]
               at0 == [redirection_info[0] EXCEPT !.out = pipe, !.err = IF l.bang THEN pipe ELSE @]
    <3>1. CASE redirection_info[d].in = STD
      <4>1. redirection_info' = [[redirection_info EXCEPT ![d] = atD] EXCEPT ![0] = at0]
        BY <1>3, <2>2, <3>1 DEF OpenNumberedPipe
      <4>2. atD.err = STD /\ at0.out = pipe /\ at0.err \in {pipe, STD}
        BY <1>3 DEF Node
      <4> HIDE DEF atD, at0, d
      <4>3. \A k \in Slots : redirection_info'[k] = IF k = 0 THEN at0 ELSE IF k = d THEN atD ELSE redirection_info[k]
        BY <1>3, <4>1
      <4>4. QED
        BY <1>2, <1>3, <4>2, <4>3 DEF ErrOK, front
    <3>2. CASE redirection_info[d].in # STD
      <4>1. redirection_info' = [redirection_info EXCEPT ![0].out = redirection_info[d].wend]
        BY <2>2, <3>2 DEF OpenNumberedPipe
      <4>2. \A k \in Slots : redirection_info'[k].err = redirection_info[k].err
        BY <1>3, <4>1 DEF Node
      <4>3. QED
        BY <1>3, <4>2 DEF ErrOK
    <3>3. QED
      BY <3>1, <3>2
  <2>3. QED
    BY <1>2, <2>1, <2>2
<1>5. \A p \in 1..npipes : fill'[p] = fill[p]
  <2>1. 1..npipes \subseteq 1..npipes' /\ DOMAIN fill = 1..npipes
    BY <1>2, <1>3 DEF JInv, JobsOK
  <2>2. QED
    BY <1>1, <2>1
<1>6. fill' = [p \in 1..npipes' |-> fill'[p]]
  BY <1>1
<1>7. QED
  BY <1>1, <1>2, <1>4, <1>5, <1>6, ShellStep DEF JInv

LEMMA RunSliceJobs ==
    ASSUME IInv, IInv', JInv, JRunSlice
    PROVE  JInv'
<1> DEFINE slice == npipes + 1
           node == [front EXCEPT !.out = slice, !.err = slice]
           before == open \cup BothEnds({npipes + 1})
<1>1. /\ pc = "slice" /\ pc' = pc /\ asked' = asked
      /\ procs' = procs \cup Slice(SliceSize, node, slice)
      /\ redirection_info' = [redirection_info EXCEPT ![0] = [NewNode EXCEPT !.in = slice, !.wend = slice]]
      /\ npipes' = npipes + SliceSize
      /\ Spawn(before, front) /\ GrowFill
  BY DEF JRunSlice, RunSlice
<1>2. /\ npipes \in Nat /\ redirection_info \in [Slots -> Node] /\ 0 \in Slots
      /\ SliceSize \in Nat /\ front \in Node
  BY SlotsFacts, ConstantsAssumption DEF IInv, TypeOK, front
<1>3. node \in Node /\ node.err = node.out
  <2>1. PICK n \in Node : n = front
    BY <1>2
  <2>2. slice \in Nat
    BY <1>2
  <2> HIDE DEF slice
  <2>3. [n EXCEPT !.out = slice, !.err = slice] \in Node
        /\ [n EXCEPT !.out = slice, !.err = slice].err = [n EXCEPT !.out = slice, !.err = slice].out
    BY <2>2 DEF Node
  <2>4. QED
    BY <2>1, <2>3
<1>4. ErrOK'
  <2>1. [NewNode EXCEPT !.in = slice, !.wend = slice].err = STD
    BY DEF NewNode
  <2>2. QED
    BY <1>1, <1>2, <2>1 DEF JInv, ErrOK
<1>5. slice \in Nat /\ slice >= npipes /\ npipes' >= npipes /\ node.err \in {STD, node.out}
      /\ before \subseteq open \cup BothEnds({npipes + 1})
  BY <1>1, <1>2, <1>3
<1> HIDE DEF slice, node, before
<1>6. JobsOK' /\ EofIsFinal'
  BY <1>1, <1>2, <1>3, <1>5, SpawnInv
<1>7. QED
  BY <1>4, <1>6 DEF JInv

LEMMA LastSliceJobs ==
    ASSUME IInv, IInv', JInv, JLastSlice
    PROVE  JInv'
<1>1. /\ pc = "slice" /\ pc' = "wait" /\ asked' = asked
      /\ procs' = procs \cup Slice(left, front, npipes)
      /\ redirection_info' = redirection_info
      /\ npipes' = npipes + left - 1
      /\ Spawn(open, front) /\ GrowFill
  BY DEF JLastSlice, LastSlice
<1>2. /\ npipes \in Nat /\ redirection_info \in [Slots -> Node] /\ 0 \in Slots /\ front \in Node
      /\ done \in Nat /\ Line > 0
  BY <1>1, SlotsFacts DEF IInv, TypeOK, front
<1>3. left \in Nat \ {0}
  <2>1. cmd.n \in Nat /\ done < cmd.n
    BY <1>1, <1>2, CmdType, ConstantsAssumption DEF IInv, FrontOK
  <2>2. QED
    BY <1>2, <2>1 DEF left
<1>4. ErrOK'
  BY <1>1, <1>2 DEF JInv, ErrOK, front
<1>5. /\ npipes >= npipes /\ npipes' >= npipes /\ front.err \in {STD, front.out}
      /\ open \subseteq open \cup BothEnds({npipes + 1})
  BY <1>1, <1>2, <1>3 DEF JInv, ErrOK, front
<1>6. JobsOK' /\ EofIsFinal'
  BY <1>1, <1>2, <1>3, <1>5, SpawnInv
<1>7. QED
  BY <1>4, <1>6 DEF JInv

LEMMA QuietJobs ==
    ASSUME IInv, IInv', JInv,
           JEndLine \/ (\E l \in CommandLines : JBuiltin(l)) \/ JQuit
    PROVE  JInv'
<1>1. /\ procs' = procs /\ jobs' = jobs /\ npipes' = npipes /\ fill' = fill
      /\ \/ redirection_info' = Popped(redirection_info)
         \/ redirection_info' = redirection_info /\ pc = "prompt"
  BY DEF JEndLine, EndLine, JBuiltin, Builtin, JQuit, Quit
<1>2. ErrOK'
  <2>1. CASE redirection_info' = Popped(redirection_info)
    <3>1. \A k \in Slots : redirection_info'[k] = IF k + 1 \in Slots THEN redirection_info[k + 1] ELSE NewNode
      BY <2>1, PoppedAt
    <3>2. NewNode.err = STD /\ \A k \in Slots : k + 1 # 0
      BY SlotsFacts DEF NewNode
    <3>3. QED
      BY <3>1, <3>2 DEF JInv, ErrOK
  <2>2. CASE redirection_info' = redirection_info /\ pc = "prompt"
    BY <2>2 DEF JInv, ErrOK
  <2>3. QED
    BY <1>1, <2>1, <2>2
<1>3. fill' = [p \in 1..npipes' |-> fill'[p]]
  BY <1>1 DEF JInv, JobsOK
<1>4. QED
  BY <1>1, <1>2, <1>3, ShellStep DEF JInv

----------------------------------------------------------------------------
(* The operating system's steps                                            *)

\* The shell stands still.
LEMMA ErrStays == ASSUME JInv, UNCHANGED shellVars PROVE ErrOK'
BY DEF JInv, ErrOK, shellVars, front

LEMMA JobType ==
    ASSUME JInv, NEW q \in Running
    PROVE  /\ q \in procs /\ jobs[q] \in Records /\ jobs[q].state = "running"
           /\ jobs[q].todo \in Nat /\ jobs[q].filter \in BOOLEAN
BY DEF JInv, JobsOK, Running, Records

LEMMA WriteJobs ==
    ASSUME IInv, IInv', JInv, NEW q \in Running, Write(q)
    PROVE  JInv'
<1>1. /\ q \in procs /\ jobs[q] \in Records /\ jobs[q].state = "running" /\ jobs[q].todo \in Nat
      /\ jobs[q].todo > 0
      /\ jobs' = [jobs EXCEPT ![q].todo = @ - 1]
      /\ UNCHANGED shellVars /\ procs' = procs /\ npipes' = npipes /\ open' = open
  BY JobType DEF Write, shellVars
<1>2. \/ fill' = fill
      \/ q.out # STD /\ fill' = [fill EXCEPT ![q.out] = @ + 1]
  BY DEF Write
<1>3. \A r \in procs : /\ jobs'[r] \in Records /\ jobs'[r].ends = jobs[r].ends
                       /\ jobs'[r].filter = jobs[r].filter /\ jobs'[r].state = jobs[r].state
  <2>1. PICK x \in Records : x = jobs[q]
    BY <1>1
  <2>2. x.todo - 1 \in Nat
    BY <1>1, <2>1
  <2>3. [x EXCEPT !.todo = @ - 1] \in Records
    BY <2>2 DEF Records
  <2>4. /\ [x EXCEPT !.todo = @ - 1].ends = x.ends
        /\ [x EXCEPT !.todo = @ - 1].filter = x.filter
        /\ [x EXCEPT !.todo = @ - 1].state = x.state
    BY DEF Records
  <2>5. \A r \in procs : jobs'[r] = IF r = q THEN [x EXCEPT !.todo = @ - 1] ELSE jobs[r]
    BY <1>1, <2>1 DEF JInv, JobsOK
  <2>6. QED
    BY <2>1, <2>3, <2>4, <2>5 DEF JInv, JobsOK
<1>4. JobsOK'
  <2>1. jobs' = [r \in procs |-> jobs'[r]]
    BY <1>1 DEF JInv, JobsOK
  <2>2. fill' = [p \in 1..npipes |-> fill'[p]]
    BY <1>2 DEF JInv, JobsOK
  <2>3. QED
    BY <1>1, <1>3, <2>1, <2>2 DEF JInv, JobsOK
<1>5. EofIsFinal'
  <2>1. SUFFICES ASSUME NEW c \in procs, jobs[c].state = "eof"
                 PROVE  ~EndHeld(<<c.in, "w">>)' /\ fill'[c.in] = 0
    BY <1>1, <1>3 DEF EofIsFinal
  <2>2. ~EndHeld(<<c.in, "w">>) /\ fill[c.in] = 0
    BY <2>1 DEF JInv, EofIsFinal
  <2>3. ~EndHeld(<<c.in, "w">>)'
    BY <1>1, <1>3, <2>2 DEF EndHeld, Running
  <2>4. q.out # STD => q.out # c.in
    BY <1>1, <2>2 DEF JInv, JobsOK, EndHeld, Running
  <2>5. CASE q.out # STD /\ fill' = [fill EXCEPT ![q.out] = @ + 1]
    <3>1. c.in # STD /\ c.in \in 0..npipes /\ npipes \in Nat
      BY <2>1 DEF JInv, JobsOK, IInv, ProcsOK, TypeOK
    <3>2. c.in \in DOMAIN fill
      BY <3>1 DEF JInv, JobsOK, STD
    <3>3. QED
      BY <2>2, <2>3, <2>4, <2>5, <3>2
  <2>6. QED
    BY <1>2, <2>2, <2>3, <2>5
<1>6. QED
  BY <1>1, <1>4, <1>5, ErrStays DEF JInv

LEMMA ReadJobs ==
    ASSUME IInv, IInv', JInv, NEW q \in Running, Read(q)
    PROVE  JInv'
<1>1. /\ q \in procs /\ jobs[q] \in Records /\ jobs[q].state = "running"
      /\ fill[q.in] > 0 /\ fill' = [fill EXCEPT ![q.in] = @ - 1]
      /\ jobs' = [jobs EXCEPT ![q].todo = 1]
      /\ UNCHANGED shellVars /\ procs' = procs /\ npipes' = npipes /\ open' = open
  BY JobType DEF Read, shellVars
<1>2. \A r \in procs : /\ jobs'[r] \in Records /\ jobs'[r].ends = jobs[r].ends
                       /\ jobs'[r].filter = jobs[r].filter /\ jobs'[r].state = jobs[r].state
  <2>1. PICK x \in Records : x = jobs[q]
    BY <1>1
  <2>2. [x EXCEPT !.todo = 1] \in Records
    BY DEF Records
  <2>3. /\ [x EXCEPT !.todo = 1].ends = x.ends
        /\ [x EXCEPT !.todo = 1].filter = x.filter
        /\ [x EXCEPT !.todo = 1].state = x.state
    BY DEF Records
  <2>4. \A r \in procs : jobs'[r] = IF r = q THEN [x EXCEPT !.todo = 1] ELSE jobs[r]
    BY <1>1, <2>1 DEF JInv, JobsOK
  <2>5. QED
    BY <2>1, <2>2, <2>3, <2>4 DEF JInv, JobsOK
<1>3. JobsOK'
  <2>1. jobs' = [r \in procs |-> jobs'[r]]
    BY <1>1 DEF JInv, JobsOK
  <2>2. fill' = [p \in 1..npipes |-> fill'[p]]
    BY <1>1 DEF JInv, JobsOK
  <2>3. QED
    BY <1>1, <1>2, <2>1, <2>2 DEF JInv, JobsOK
<1>4. EofIsFinal'
  <2>1. SUFFICES ASSUME NEW c \in procs, jobs[c].state = "eof"
                 PROVE  ~EndHeld(<<c.in, "w">>)' /\ fill'[c.in] = 0
    BY <1>1, <1>2 DEF EofIsFinal
  <2>2. ~EndHeld(<<c.in, "w">>) /\ fill[c.in] = 0
    BY <2>1 DEF JInv, EofIsFinal
  <2>3. ~EndHeld(<<c.in, "w">>)'
    BY <1>1, <1>2, <2>2 DEF EndHeld, Running
  <2>4. q.in # c.in
    BY <1>1, <2>2
  <2>5. QED
    BY <1>1, <2>2, <2>3, <2>4
<1>5. QED
  BY <1>1, <1>3, <1>4, ErrStays DEF JInv

\* However a process ends, what it held is closed.
LEMMA ExitJobs ==
    ASSUME IInv, IInv', JInv, NEW q \in Running, NEW state \in States \ {"running"},
           Exits(q, state), UNCHANGED <<shellVars, fill>>,
           state = "eof" => q.in # STD /\ fill[q.in] = 0 /\ ~EndHeld(<<q.in, "w">>)
    PROVE  JInv'
<1>1. /\ q \in procs /\ jobs[q] \in Records /\ jobs[q].state = "running"
      /\ jobs' = [jobs EXCEPT ![q].state = state, ![q].ends = {}, ![q].todo = 0, ![q].filter = FALSE]
      /\ procs' = procs /\ npipes' = npipes /\ open' = open /\ fill' = fill
  BY JobType DEF Exits, shellVars
<1>2. /\ jobs'[q] \in Records /\ jobs'[q].state = state /\ jobs'[q].filter = FALSE
      /\ \A r \in procs \ {q} : jobs'[r] = jobs[r]
  <2>1. PICK x \in Records : x = jobs[q]
    BY <1>1
  <2>2. jobs' = [jobs EXCEPT ![q] = [x EXCEPT !.state = state, !.ends = {}, !.todo = 0, !.filter = FALSE]]
    BY <1>1, <2>1 DEF JInv, JobsOK
  <2>3. /\ jobs'[q] = [x EXCEPT !.state = state, !.ends = {}, !.todo = 0, !.filter = FALSE]
        /\ \A r \in procs \ {q} : jobs'[r] = jobs[r]
    BY <1>1, <2>2 DEF JInv, JobsOK
  <2>4. [x EXCEPT !.state = state, !.ends = {}, !.todo = 0, !.filter = FALSE] \in Records
    BY DEF Records
  <2>5. [x EXCEPT !.state = state, !.ends = {}, !.todo = 0, !.filter = FALSE].state = state
    BY DEF Records
  <2>6. [x EXCEPT !.state = state, !.ends = {}, !.todo = 0, !.filter = FALSE].filter = FALSE
    BY DEF Records
  <2>7. QED
    BY <2>3, <2>4, <2>5, <2>6, Zenon
<1>3. JobsOK'
  <2>1. jobs' = [r \in procs |-> jobs'[r]]
    BY <1>1 DEF JInv, JobsOK
  <2>2. QED
    BY <1>1, <1>2, <2>1 DEF JInv, JobsOK
<1>4. EofIsFinal'
  <2>1. Running' \subseteq Running /\ \A r \in Running' : jobs'[r] = jobs[r]
    BY <1>1, <1>2 DEF Running
  <2>2. \A e : ~EndHeld(e) => ~EndHeld(e)'
    BY <1>1, <2>1 DEF EndHeld
  <2>3. QED
    BY <1>1, <1>2, <2>2 DEF JInv, EofIsFinal
<1>5. QED
  BY <1>3, <1>4, ErrStays DEF JInv

LEMMA RunsJobs ==
    ASSUME IInv, IInv', JInv, NEW q \in Running, Runs(q)
    PROVE  JInv'
<1>1. CASE Write(q)
  BY <1>1, WriteJobs
<1>2. CASE BrokenPipe(q)
  <2>1. Exits(q, "killed") /\ UNCHANGED <<shellVars, fill>>
    BY <1>2 DEF BrokenPipe
  <2>2. QED
    BY <2>1, ExitJobs DEF States
<1>3. CASE Read(q)
  BY <1>3, ReadJobs
<1>4. CASE Finish(q)
  <2>1. CASE jobs[q].filter
    <3>1. /\ Exits(q, "eof") /\ UNCHANGED <<shellVars, fill>>
          /\ fill[q.in] = 0 /\ ~EndHeld(<<q.in, "w">>)
      BY <1>4, <2>1 DEF Finish
    <3>2. q.in # STD
      BY <2>1, JobType DEF JInv, JobsOK
    <3>3. QED
      BY <3>1, <3>2, ExitJobs DEF States
  <2>2. CASE ~jobs[q].filter
    <3>1. Exits(q, "ended") /\ UNCHANGED <<shellVars, fill>>
      BY <1>4, <2>2 DEF Finish
    <3>2. QED
      BY <3>1, ExitJobs DEF States
  <2>3. QED
    BY <2>1, <2>2
<1>5. QED
  BY <1>1, <1>2, <1>3, <1>4 DEF Runs

----------------------------------------------------------------------------
LEMMA InitJobs == JInit => JInv
<1>1. SUFFICES ASSUME JInit PROVE JInv
  OBVIOUS
<1>2. procs = {} /\ npipes = 0 /\ jobs = << >> /\ fill = << >> /\ redirection_info = [k \in Slots |-> NewNode]
  BY <1>1 DEF JInit, Init
<1>3. ErrOK
  BY <1>2 DEF ErrOK, NewNode
<1>4. jobs = [q \in procs |-> jobs[q]] /\ fill = [p \in 1..npipes |-> fill[p]]
  BY <1>2
<1>5. QED
  BY <1>2, <1>3, <1>4 DEF JInv, JobsOK, EofIsFinal

\* Whatever the processes do, the shell takes its own steps only.
LEMMA ShellSteps == [JNext]_jvars => [Next]_vars
BY DEF JNext, JBeginLine, JBuiltin, JRunSlice, JLastSlice, JEndLine, JQuit, JEnded, Runs,
       Write, BrokenPipe, Read, Finish, Next, jvars, vars, shellVars

LEMMA NextJobs == IInv /\ IInv' /\ JInv /\ [JNext]_jvars => JInv'
<1>1. SUFFICES ASSUME IInv, IInv', JInv, [JNext]_jvars PROVE JInv'
  OBVIOUS
<1>2. CASE UNCHANGED jvars
  <2>1. UNCHANGED shellVars /\ UNCHANGED <<procs, open, npipes, jobs, fill>>
    BY <1>2 DEF jvars, shellVars
  <2>2. ErrOK'
    BY <1>1, <2>1, ErrStays
  <2>3. QED
    BY <1>1, <2>1, <2>2 DEF JInv, JobsOK, EofIsFinal, EndHeld, Running
<1>3. ASSUME NEW l \in CommandLines, JBeginLine(l) PROVE JInv'
  BY <1>1, <1>3, BeginLineJobs
<1>4. CASE JRunSlice
  BY <1>1, <1>4, RunSliceJobs
<1>5. CASE JLastSlice
  BY <1>1, <1>5, LastSliceJobs
<1>6. CASE JEndLine \/ (\E l \in CommandLines : JBuiltin(l)) \/ JQuit
  BY <1>1, <1>6, QuietJobs
<1>7. ASSUME NEW q \in Running, Runs(q) PROVE JInv'
  BY <1>1, <1>7, RunsJobs
<1>8. QED
  BY <1>1, <1>2, <1>3, <1>4, <1>5, <1>6, <1>7 DEF JNext, JEnded

\* The shell among its processes is the shell of NumberedPipes, so that all that
\* is proved of that one holds of it.  simple_Command.cpp.
THEOREM ShellUndisturbed == JSpec => Spec
<1>1. JInit => Init
  BY DEF JInit
<1>2. [JNext]_jvars => [Next]_vars
  BY ShellSteps
<1>3. QED
  BY <1>1, <1>2, PTL DEF JSpec, Spec

\* Once a filter has seen the end of the pipe it reads nobody can write to that
\* pipe, whoever is forked, ends or is killed meanwhile.  fork_process.
THEOREM EofFinal == JSpec => []EofIsFinal
<1>1. JInit => JInv
  BY InitJobs
<1>2. IInv /\ IInv' /\ JInv /\ [JNext]_jvars => JInv'
  BY NextJobs
<1>3. JSpec => []IInv
  BY ShellUndisturbed, Invariance, PTL
<1>4. JInv => EofIsFinal
  BY DEF JInv
<1>5. QED
  BY <1>1, <1>2, <1>3, <1>4, PTL DEF JSpec
============================================================================
