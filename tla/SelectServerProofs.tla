-------------------------- MODULE SelectServerProofs --------------------------
(***************************************************************************)
(* The records of np_single_proc agree, for any number of clients, any     *)
(* length of the table and any lines: registry, names and user pipes; the  *)
(* write ends it leaks are those of lines it has given up; and the ways in *)
(* which one client may end or deafen it for the others are few.           *)
(***************************************************************************)
EXTENDS SelectServer, SequenceTheorems, FiniteSetTheorems, WellFoundedInduction, TLAPS

\* What Registry relies on: the listener is always watched, the client whose
\* line is being run is connected, and the table of names has its length.
LoopOK ==
    /\ Listener \in master
    /\ running # Nobody => running \in open_sockets
    /\ DOMAIN name = Uids

RInv ==
    /\ TypeOK
    /\ Registry
    /\ LoopOK

UInv ==
    /\ NamesUnique
    /\ PipesBetween
    /\ OnePipeEach

IInv == RInv /\ UInv

----------------------------------------------------------------------------
(* Every set of naturals has a least element: the intervals that end in S  *)
(* are ordered as their ends are, and inclusion of finite sets is          *)
(* well-founded.                                                           *)
LEMMA LeastElement ==
  ASSUME NEW S, S \subseteq Nat, S # {}
  PROVE  \E u \in S : \A v \in S : u <= v
<1> DEFINE Below == {0..u : u \in S}
<1> DEFINE R == StrictSubsetOrdering(Nat)
<1>1. Below \subseteq FiniteSubsetsOf(Nat)
  <2> SUFFICES ASSUME NEW u \in S PROVE 0..u \in FiniteSubsetsOf(Nat)
    OBVIOUS
  <2>1. IsFiniteSet(0..u)
    BY FS_Interval
  <2>2. QED
    BY <2>1 DEF FiniteSubsetsOf
<1>2. IsWellFoundedOn(R, FiniteSubsetsOf(Nat))
  BY FS_StrictSubsetOrderingWellFounded
<1>3. Below # {}
  OBVIOUS
<1> HIDE DEF R
<1>4. PICK X \in Below : \A Y \in Below : ~(<<Y, X>> \in R)
  <2> HIDE DEF Below
  <2> QED
    BY <1>1, <1>2, <1>3, WFMin
<1>5. PICK u \in S : X = 0..u
  OBVIOUS
<1>6. ASSUME NEW v \in S, v < u PROVE FALSE
  <2>1. 0..v \in Below /\ 0..v # X /\ 0..v \subseteq X /\ X \subseteq Nat
    BY <1>5, <1>6
  <2>2. <<0..v, X>> \in R
    BY <2>1, <1>1 DEF R, StrictSubsetOrdering, FiniteSubsetsOf
  <2>3. QED
    BY <1>4, <2>1, <2>2
<1>7. QED
  BY <1>6

----------------------------------------------------------------------------
(* Lemmas about the operators                                              *)

\* get_client_by_fd finds a connected client.
LEMMA UidOfConnected ==
  ASSUME RInv, NEW p \in Peers, p \in open_sockets
  PROVE  UidOf(p) \in Uids /\ clients[UidOf(p)] = p
<1>1. \E u \in Uids : clients[u] = p
  BY DEF RInv, Registry
<1>2. QED
  BY <1>1 DEF UidOf

\* get_smallest_unused_id
LEMMA SmallestIsUnused ==
  ASSUME Unused # {} PROVE SmallestUnused \in Uids /\ clients[SmallestUnused] = Nobody
<1>1. Unused \subseteq Nat
  BY SelectServerAssumption DEF Unused, Uids
<1>2. \E u \in Unused : \A v \in Unused : u <= v
  BY <1>1, LeastElement
<1>3. QED
  BY <1>2 DEF SmallestUnused, Unused

\* A write changes connections only from closed to reset.
Kept == \A p \in Peers : conn'[p] = conn[p] \/ (conn[p] = "closed" /\ conn'[p] = "reset")

LEMMA AfterOne ==
  ASSUME TypeOK, NEW socks, NEW p \in Peers
  PROVE  /\ ConnAfter(socks)[p] \in Conns
         /\ ConnAfter(socks)[p] = conn[p] \/ (conn[p] = "closed" /\ ConnAfter(socks)[p] = "reset")
<1>1. ConnAfter(socks)[p] = IF p \in socks /\ conn[p] = "closed" THEN "reset" ELSE conn[p]
  BY DEF ConnAfter
<1>2. CASE p \in socks /\ conn[p] = "closed"
  BY <1>1, <1>2 DEF Conns
<1>3. CASE ~(p \in socks /\ conn[p] = "closed")
  <2>1. ConnAfter(socks)[p] = conn[p]
    BY <1>1, <1>3
  <2>2. QED
    BY <2>1 DEF TypeOK
<1>4. QED
  BY <1>2, <1>3

LEMMA WriteKeeps ==
  ASSUME TypeOK, NEW socks
  PROVE  /\ ConnAfter(socks) \in [Peers -> Conns]
         /\ \A p \in Peers : ConnAfter(socks)[p] = conn[p]
                             \/ (conn[p] = "closed" /\ ConnAfter(socks)[p] = "reset")
<1>1. \E f : ConnAfter(socks) = [p \in Peers |-> f[p]]
  BY DEF ConnAfter
<1>2. QED
  BY <1>1, AfterOne

LEMMA Written ==
  ASSUME TypeOK, NEW socks, Write(socks)
  PROVE  conn' \in [Peers -> Conns] /\ mode' \in {"up", "dead"} /\ Kept
  BY WriteKeeps DEF Write, Kept

----------------------------------------------------------------------------
(* Registry: steps that leave the table alone.                             *)

\* What most steps do to the registry: they only answer and serve on.
LEMMA SameTable ==
  ASSUME RInv, UNCHANGED tableVars, read_fds' \subseteq read_fds,
         conn' \in [Peers -> Conns],
         \A p \in Peers : conn[p] \in {"open", "closed", "reset"}
                          <=> conn'[p] \in {"open", "closed", "reset"}
  PROVE  Registry'
  BY DEF RInv, Registry, tableVars, TypeOK

LEMMA InitR == Init => RInv
  BY SelectServerAssumption
  DEF Init, RInv, TypeOK, Registry, LoopOK, Uids, Conns, Pipes

LEMMA ClientR == ASSUME RInv, NEW p \in Peers, Client(p) PROVE RInv'
<1>1. /\ UNCHANGED serverVars
      /\ conn' \in [Peers -> Conns]
      /\ \A q \in Peers : conn[q] \in {"open", "closed", "reset"}
                          <=> conn'[q] \in {"open", "closed", "reset"}
  BY DEF Client, Connect, Send, Vanish, RInv, TypeOK, Conns
<1>2. Registry'
  BY <1>1, SameTable DEF serverVars, tableVars
<1>3. QED
  BY <1>1, <1>2
  DEF RInv, TypeOK, LoopOK, serverVars, tableVars, inputVars, pipeVars, lineVars, Pipes

LEMMA SelectR == ASSUME RInv, Select PROVE RInv'
<1>1. read_fds' \subseteq master
  BY DEF Select, Readable, RInv, LoopOK
<1>2. QED
  BY <1>1
  DEF Select, RInv, TypeOK, Registry, LoopOK, peerVars, tableVars, inputVars, pipeVars, lineVars,
      Pipes

LEMMA AcceptR == ASSUME RInv, NEW p \in Peers, Accept(p) PROVE RInv'
<1> USE SelectServerAssumption
<1> DEFINE u == SmallestUnused
<1>1. u \in Uids /\ clients[u] = Nobody
  BY SmallestIsUnused DEF Accept
<1>2. p \notin open_sockets
  BY DEF Accept, RInv, Registry
<1>3. /\ conn' \in [Peers -> Conns]
      /\ conn'[p] = "open"
      /\ \A q \in Peers \ {p} : conn'[q] = conn[q] \/ (conn[q] = "closed" /\ conn'[q] = "reset")
  BY WriteKeeps DEF Accept, RInv, TypeOK, Conns
<1>4. /\ clients' = [clients EXCEPT ![u] = p]
      /\ open_sockets' = open_sockets \cup {p}
      /\ master' = master \cup {p}
      /\ read_fds' \subseteq read_fds
      /\ mode' \in {"up", "dead"}
      /\ name' = [name EXCEPT ![u] = NoName]
      /\ UNCHANGED <<cinFailed, user_pipes, to_remove, running, files_to_close, stuck>>
  BY DEF Accept, inputVars, pipeVars, lineVars
<1>5. TypeOK'
  BY <1>1, <1>3, <1>4 DEF RInv, TypeOK, Pipes
<1>6. Registry'
  <2>1. open_sockets' = {q \in Peers : \E v \in Uids : clients'[v] = q}
    BY <1>1, <1>4 DEF RInv, TypeOK, Registry
  <2>2. open_sockets' = {q \in Peers : conn'[q] \in {"open", "closed", "reset"}}
    BY <1>3, <1>4 DEF RInv, TypeOK, Registry
  <2>3. \A v, w \in Uids : clients'[v] = clients'[w] /\ clients'[v] # Nobody => v = w
    BY <1>1, <1>2, <1>4 DEF RInv, TypeOK, Registry
  <2>4. QED
    BY <1>4, <2>1, <2>2, <2>3 DEF RInv, Registry
<1>7. LoopOK'
  BY <1>4 DEF RInv, LoopOK
<1>8. QED
  BY <1>5, <1>6, <1>7 DEF RInv

\* A line that its client only gets an answer to, and name.
LEMMA TalkR ==
  ASSUME RInv, NEW p \in Peers, PrintOnly(p) \/ Yell(p) \/ Tell(p) \/ Name(p)
  PROVE  RInv'
<1>1. /\ \E socks : Write(socks)
      /\ read_fds' = read_fds \ {p}
      /\ cinFailed' \in BOOLEAN
      /\ UNCHANGED <<clients, open_sockets, master, user_pipes, to_remove, running,
                     files_to_close, stuck>>
  BY DEF PrintOnly, Yell, Tell, Name, Execute, TakeLine, tableVars, pipeVars, lineVars,
         RInv, TypeOK
<1>2. DOMAIN name' = Uids
  BY DEF PrintOnly, Yell, Tell, Name, tableVars, RInv, LoopOK
<1>3. conn' \in [Peers -> Conns] /\ mode' \in {"up", "dead"} /\ Kept
  BY <1>1, Written DEF RInv
<1>4. TypeOK'
  BY <1>1, <1>3 DEF RInv, TypeOK, Pipes
<1>5. Registry'
  BY <1>1, <1>3 DEF RInv, Registry, TypeOK, Kept
<1>6. LoopOK'
  BY <1>1, <1>2 DEF RInv, LoopOK
<1>7. QED
  BY <1>4, <1>5, <1>6 DEF RInv

LEMMA TellOutsideR == ASSUME RInv, NEW p \in Peers, TellOutside(p) PROVE RInv'
<1>1. /\ read_fds' \subseteq read_fds /\ cinFailed' \in BOOLEAN /\ mode' = "dead"
      /\ UNCHANGED <<conn, tableVars, pipeVars, lineVars>>
  BY DEF TellOutside, Execute, TakeLine, RInv, TypeOK
<1>2. Registry'
  BY <1>1 DEF RInv, Registry, tableVars
<1>3. QED
  BY <1>1, <1>2 DEF RInv, TypeOK, LoopOK, tableVars, pipeVars, lineVars, Pipes

\* exit: the client leaves every record, and only that client.
LEMMA ExitR == ASSUME RInv, NEW p \in Peers, Exit(p) PROVE RInv'
<1> USE SelectServerAssumption
<1> DEFINE me == UidOf(p)
<1>1. p \in open_sockets
  BY DEF Exit, Execute, RInv, Registry
<1>2. me \in Uids /\ clients[me] = p
  BY <1>1, UidOfConnected
<1> HIDE DEF me
<1>3. /\ clients' = [clients EXCEPT ![me] = Nobody]
      /\ name' = [name EXCEPT ![me] = NoName]
      /\ open_sockets' = open_sockets \ {p}
      /\ master' = master \ {p}
      /\ read_fds' = read_fds \ {p}
      /\ user_pipes' \subseteq user_pipes
      /\ cinFailed' \in BOOLEAN
      /\ mode' \in {"up", "dead"}
      /\ running = Nobody
      /\ UNCHANGED <<to_remove, running, files_to_close, stuck>>
  BY DEF Exit, Execute, TakeLine, Looping, Without, NotOf, lineVars, RInv, TypeOK, me
<1>4. /\ conn' \in [Peers -> Conns]
      /\ conn'[p] = "gone"
      /\ \A q \in Peers \ {p} : conn'[q] = conn[q] \/ (conn[q] = "closed" /\ conn'[q] = "reset")
  BY WriteKeeps DEF Exit, RInv, TypeOK, Conns
<1>5. TypeOK'
  BY <1>2, <1>3, <1>4 DEF RInv, TypeOK, Pipes
<1>6. Registry'
  <2>1. open_sockets' = {q \in Peers : \E v \in Uids : clients'[v] = q}
    BY <1>2, <1>3 DEF RInv, TypeOK, Registry
  <2>2. open_sockets' = {q \in Peers : conn'[q] \in {"open", "closed", "reset"}}
    BY <1>3, <1>4 DEF RInv, TypeOK, Registry
  <2>3. \A v, w \in Uids : clients'[v] = clients'[w] /\ clients'[v] # Nobody => v = w
    BY <1>2, <1>3 DEF RInv, TypeOK, Registry
  <2>4. QED
    BY <1>3, <2>1, <2>2, <2>3 DEF RInv, Registry
<1>7. LoopOK'
  BY <1>2, <1>3 DEF RInv, LoopOK
<1>8. QED
  BY <1>5, <1>6, <1>7 DEF RInv

\* A pipe that fork_and_exec makes has two users at its ends.
LEMMA MadeIsPipe ==
  ASSUME RInv, running # Nobody, NEW u, u # 0 => Exists(u)
  PROVE  Made(u) \subseteq Pipes /\ ToClose(u) \subseteq Uids
<1>1. UidOf(running) \in Uids /\ clients[UidOf(running)] \in Peers
  BY UidOfConnected DEF RInv, LoopOK, TypeOK
<1>2. CASE u = 0
  BY <1>2 DEF Made, ToClose
<1>3. CASE u # 0
  <2>1. u \in Uids /\ clients[u] \in Peers
    BY <1>3 DEF Exists, RInv, TypeOK
  <2>2. Pipe(UidOf(running), u) \in Pipes
    <3> DEFINE me == UidOf(running)
    <3> HIDE DEF me
    <3>1. me \in Uids /\ clients[me] \in Peers
      BY <1>1 DEF me
    <3>2. Pipe(me, u) \in Pipes
      BY <2>1, <3>1 DEF Pipe, Pipes
    <3>3. QED
      BY <3>2 DEF me
  <2>3. QED
    BY <1>3, <2>1, <2>2 DEF Made, ToClose
<1>4. QED
  BY <1>2, <1>3

\* The end of a line changes nothing of a pipe but who holds its write end,
\* and leaves none to the line.
LEMMA EndedPipes ==
  ASSUME NEW pipes \in SUBSET Pipes, NEW how \in {"no", "ever"}
  PROVE  /\ Ended(pipes, how) \subseteq Pipes
         /\ \A r \in Ended(pipes, how) : \E q \in pipes :
               /\ r.from = q.from /\ r.to = q.to /\ r.sender = q.sender /\ r.receiver = q.receiver
               /\ r.held = "line" => q.held = "line" /\ ~OfThisLine(q)
<1> DEFINE Hold(q) == IF q.held = "line" /\ OfThisLine(q) THEN how ELSE q.held
           End(q) == [q EXCEPT !.held = Hold(q)]
<1>1. Ended(pipes, how) = {End(q) : q \in pipes}
  BY DEF Ended
<1>2. ASSUME NEW q \in pipes
      PROVE  /\ Hold(q) \in {"no", "line", "ever"}
             /\ Hold(q) = "line" => q.held = "line" /\ ~OfThisLine(q)
  BY DEF Pipes
<1> HIDE DEF Hold
<1>3. ASSUME NEW q \in pipes
      PROVE  /\ End(q) \in Pipes /\ End(q).from = q.from /\ End(q).to = q.to
             /\ End(q).sender = q.sender /\ End(q).receiver = q.receiver
             /\ End(q).held = "line" => q.held = "line" /\ ~OfThisLine(q)
  BY <1>2 DEF Pipes
<1> HIDE DEF End
<1>4. QED
  BY <1>1, <1>3

\* What fork_and_exec leaves alone, and what it writes.
LEMMA RunningR ==
  ASSUME RInv, UNCHANGED tableVars, UNCHANGED <<read_fds, cinFailed>>,
         conn' \in [Peers -> Conns], mode' \in {"up", "blocked", "dead"}, Kept,
         running' \in {running, Nobody}, stuck' \in BOOLEAN,
         files_to_close' \subseteq Uids, user_pipes' \subseteq Pipes, to_remove' \subseteq Pipes
  PROVE  RInv'
<1>1. Registry'
  BY DEF RInv, Registry, tableVars, TypeOK, Kept
<1>2. TypeOK'
  BY DEF RInv, TypeOK, tableVars, Pipes
<1>3. LoopOK'
  BY DEF RInv, LoopOK, tableVars, TypeOK
<1>4. QED
  BY <1>1, <1>2, <1>3 DEF RInv

LEMMA LineR ==
  ASSUME RInv, StartCommand \/ GiveUp \/ FinishLine \/ WaitForEver
  PROVE  RInv'
<1>1. CASE StartCommand
  <2> DEFINE c == Head(cmds)
  <2>1. c.to # 0 => Exists(c.to)
    BY <1>1 DEF StartCommand, CanPipe
  <2>2. Made(c.to) \subseteq Pipes /\ ToClose(c.to) \subseteq Uids
    BY <1>1, <2>1, MadeIsPipe DEF StartCommand
  <2>3. user_pipes' \subseteq Pipes /\ to_remove' \subseteq Pipes /\ files_to_close' \subseteq Uids
    BY <1>1, <2>2 DEF StartCommand, From, RInv, TypeOK
  <2>4. stuck' \in BOOLEAN
    BY <1>1 DEF StartCommand, NeverEnds
  <2>5. conn' \in [Peers -> Conns] /\ mode' \in {"up", "dead"} /\ Kept
    <3>1. Write(Told(c))
      BY <1>1 DEF StartCommand
    <3>2. QED
      BY <3>1, Written DEF RInv
  <2>6. UNCHANGED tableVars /\ UNCHANGED <<read_fds, cinFailed, running>>
    BY <1>1 DEF StartCommand, inputVars
  <2> HIDE DEF c
  <2>7. QED
    BY <2>3, <2>4, <2>5, <2>6, RunningR
<1>2. CASE GiveUp
  <2>1. user_pipes' \subseteq Pipes /\ to_remove' \subseteq Pipes
    <3>1. PICK taken \in SUBSET user_pipes :
             /\ user_pipes' = Ended(user_pipes \ taken, "ever")
             /\ to_remove' = Ended(to_remove \cup taken, "ever")
      BY <1>2 DEF GiveUp, From
    <3>2. user_pipes \ taken \in SUBSET Pipes /\ to_remove \cup taken \in SUBSET Pipes
      BY DEF RInv, TypeOK
    <3>3. QED
      BY <3>1, <3>2, EndedPipes
  <2>2. conn' \in [Peers -> Conns] /\ mode' \in {"up", "dead"} /\ Kept
    <3>1. \E socks : Write(socks)
      BY <1>2 DEF GiveUp
    <3>2. QED
      BY <3>1, Written DEF RInv
  <2>3. /\ UNCHANGED tableVars /\ UNCHANGED <<read_fds, cinFailed>>
        /\ running' = Nobody /\ files_to_close' = {} /\ stuck' = FALSE
    BY <1>2 DEF GiveUp, EndLine, inputVars
  <2>4. QED
    BY <2>1, <2>2, <2>3, RunningR
<1>3. CASE FinishLine
  <2>1. user_pipes' \subseteq Pipes
    BY <1>3, EndedPipes DEF FinishLine, RInv, TypeOK
  <2>2. conn' \in [Peers -> Conns] /\ mode' \in {"up", "dead"} /\ Kept
    <3>1. Write({running})
      BY <1>3 DEF FinishLine
    <3>2. QED
      BY <3>1, Written DEF RInv
  <2>3. /\ UNCHANGED tableVars /\ UNCHANGED <<read_fds, cinFailed>>
        /\ running' = Nobody /\ files_to_close' = {} /\ stuck' = FALSE /\ to_remove' = {}
    BY <1>3 DEF FinishLine, EndLine, inputVars
  <2>4. QED
    BY <2>1, <2>2, <2>3, RunningR
<1>4. CASE WaitForEver
  <2>1. /\ UNCHANGED tableVars /\ mode' = "blocked"
        /\ UNCHANGED <<conn, read_fds, cinFailed, running, files_to_close, stuck, user_pipes, to_remove>>
    BY <1>4 DEF WaitForEver, peerVars, inputVars, pipeVars, lineVars
  <2>2. QED
    BY <2>1, RunningR DEF RInv, TypeOK, Kept
<1>5. QED
  BY <1>1, <1>2, <1>3, <1>4

LEMMA StartR == ASSUME RInv, NEW p \in Peers, StartLine(p) PROVE RInv'
<1>1. /\ running' = p /\ p \in open_sockets
      /\ read_fds' \subseteq read_fds
      /\ cinFailed' \in BOOLEAN
      /\ files_to_close' = {} /\ stuck' = FALSE
      /\ UNCHANGED <<conn, mode, tableVars, pipeVars>>
  BY DEF StartLine, Execute, TakeLine, RInv, Registry, TypeOK
<1>2. Registry'
  BY <1>1 DEF RInv, Registry, tableVars
<1>3. QED
  BY <1>1, <1>2 DEF RInv, TypeOK, LoopOK, tableVars, pipeVars, Pipes

LEMMA NextR == RInv /\ [Next]_vars => RInv'
<1> SUFFICES ASSUME RInv, [Next]_vars PROVE RInv'
  OBVIOUS
<1>1. CASE AcceptPastEnd
  BY <1>1 DEF AcceptPastEnd, RInv, TypeOK, Registry, LoopOK, peerVars, tableVars, inputVars,
      pipeVars, lineVars, Pipes
<1>2. CASE UNCHANGED vars
  BY <1>2 DEF RInv, TypeOK, Registry, LoopOK, vars, peerVars, tableVars, inputVars, pipeVars,
      lineVars, Pipes
<1>3. QED
  BY <1>1, <1>2, ClientR, SelectR, AcceptR, TalkR, TellOutsideR, ExitR, StartR, LineR DEF Next, Server, Serve


----------------------------------------------------------------------------
(* Names and user pipes                                                    *)

LEMMA InitU == Init => UInv
  BY DEF Init, UInv, NamesUnique, PipesBetween, OnePipeEach

LEMMA SameUsers == UInv /\ UNCHANGED <<clients, name, user_pipes>> => UInv'
  BY DEF UInv, NamesUnique, PipesBetween, OnePipeEach

\* Fewer pipes between the same users.
LEMMA FewerPipes == UInv /\ UNCHANGED <<clients, name>> /\ user_pipes' \subseteq user_pipes => UInv'
  BY DEF UInv, NamesUnique, PipesBetween, OnePipeEach

\* accept: nobody has a pipe to or from a free position.
LEMMA AcceptU == ASSUME IInv, NEW p \in Peers, Accept(p) PROVE UInv'
<1> USE SelectServerAssumption
<1> DEFINE u == SmallestUnused
<1>1. u \in Uids /\ clients[u] = Nobody
  BY SmallestIsUnused DEF Accept
<1> HIDE DEF u
<1>2. /\ clients' = [clients EXCEPT ![u] = p]
      /\ name' = [name EXCEPT ![u] = NoName]
      /\ UNCHANGED user_pipes
  BY DEF Accept, pipeVars, u
<1>3. NamesUnique'
  BY <1>1, <1>2 DEF IInv, UInv, NamesUnique, RInv, TypeOK, LoopOK
<1>4. PipesBetween'
  <2> SUFFICES ASSUME NEW q \in user_pipes
               PROVE  clients'[q.from] = q.sender /\ clients'[q.to] = q.receiver
    BY <1>2 DEF PipesBetween
  <2>1. /\ q.from \in Uids /\ q.to \in Uids
        /\ q.sender \in Peers /\ q.receiver \in Peers
    BY DEF IInv, RInv, TypeOK, Pipes
  <2>2. clients[q.from] = q.sender /\ clients[q.to] = q.receiver
    BY DEF IInv, UInv, PipesBetween
  <2>3. q.from # u /\ q.to # u
    BY <1>1, <2>1, <2>2
  <2>4. QED
    BY <1>2, <2>1, <2>2, <2>3 DEF IInv, RInv, TypeOK
<1>5. OnePipeEach'
  BY <1>2 DEF IInv, UInv, OnePipeEach
<1>6. QED
  BY <1>3, <1>4, <1>5 DEF UInv

\* name: a free name goes to one position.
LEMMA NameU == ASSUME IInv, NEW p \in Peers, Name(p) PROVE UInv'
<1> DEFINE me == UidOf(p)
           new == Got(p).line.new
<1>1. p \in open_sockets
  BY SelectServerAssumption DEF Name, Execute, IInv, RInv, Registry
<1>2. me \in Uids /\ clients[me] = p
  BY <1>1, UidOfConnected DEF IInv
<1>3. \/ UNCHANGED name
      \/ ~Taken(new) /\ name' = [name EXCEPT ![me] = new]
  BY DEF Name
<1>4. UNCHANGED <<clients, user_pipes>>
  BY DEF Name, pipeVars
<1> HIDE DEF me, new
<1>5. NamesUnique'
  <2>1. CASE UNCHANGED name
    BY <1>4, <2>1 DEF IInv, UInv, NamesUnique
  <2>2. CASE ~Taken(new) /\ name' = [name EXCEPT ![me] = new]
    BY <1>2, <1>4, <2>2 DEF IInv, UInv, NamesUnique, Taken, RInv, LoopOK
  <2>3. QED
    BY <1>3, <2>1, <2>2
<1>6. QED
  BY <1>4, <1>5 DEF IInv, UInv, PipesBetween, OnePipeEach

\* exit takes the pipes of the user along.
LEMMA ExitU == ASSUME IInv, NEW p \in Peers, Exit(p) PROVE UInv'
<1> DEFINE me == UidOf(p)
<1>1. p \in open_sockets
  BY SelectServerAssumption DEF Exit, Execute, IInv, RInv, Registry
<1>2. me \in Uids /\ clients[me] = p
  BY <1>1, UidOfConnected DEF IInv
<1>3. /\ clients' = [clients EXCEPT ![me] = Nobody]
      /\ name' = [name EXCEPT ![me] = NoName]
      /\ user_pipes' = NotOf(me)
  BY DEF Exit
<1> HIDE DEF me
<1>4. NamesUnique'
  BY <1>2, <1>3 DEF IInv, UInv, NamesUnique, RInv, TypeOK, LoopOK
<1>5. PipesBetween'
  BY <1>2, <1>3 DEF IInv, UInv, PipesBetween, NotOf, RInv, TypeOK, Pipes
<1>6. OnePipeEach'
  BY <1>3 DEF IInv, UInv, OnePipeEach, NotOf
<1>7. QED
  BY <1>4, <1>5, <1>6 DEF UInv

\* A command that pipes to a user makes the one pipe between the two.
LEMMA StartCommandU == ASSUME IInv, StartCommand PROVE UInv'
<1> DEFINE c == Head(cmds)
           me == UidOf(running)
<1>1. /\ user_pipes' = (user_pipes \ From(c.from)) \cup Made(c.to)
      /\ CanPipe(c)
      /\ UNCHANGED <<clients, name>>
      /\ running # Nobody
  BY DEF StartCommand, tableVars
<1> HIDE DEF c
<1>2. CASE c.to = 0
  <2>1. user_pipes' \subseteq user_pipes
    BY <1>1, <1>2 DEF Made
  <2>2. QED
    BY <1>1, <2>1, FewerPipes DEF IInv
<1>3. CASE c.to # 0
  <2>1. user_pipes' = (user_pipes \ From(c.from)) \cup {Pipe(me, c.to)}
    BY <1>1, <1>3 DEF Made
  <2>2. \A q \in user_pipes \ From(c.from) : q.from = me => q.to # c.to
    BY <1>1, <1>3 DEF CanPipe
  <2> HIDE DEF me
  <2> DEFINE r == Pipe(me, c.to)
  <2>3. /\ r.from = me /\ r.to = c.to
        /\ r.sender = clients[me] /\ r.receiver = clients[c.to]
    BY DEF Pipe
  <2> HIDE DEF r
  <2>4. PipesBetween'
    BY <1>1, <2>1, <2>3 DEF IInv, UInv, PipesBetween, r
  <2>5. OnePipeEach'
    BY <2>1, <2>2, <2>3 DEF IInv, UInv, OnePipeEach, r
  <2>6. NamesUnique'
    BY <1>1 DEF IInv, UInv, NamesUnique
  <2>7. QED
    BY <2>4, <2>5, <2>6 DEF UInv
<1>4. QED
  BY <1>2, <1>3

\* The end of a line leaves the pipes between their users.
LEMMA EndLineU == ASSUME IInv, GiveUp \/ FinishLine PROVE UInv'
<1>1. UNCHANGED <<clients, name>>
  BY DEF GiveUp, FinishLine, tableVars
<1>2. \A r \in user_pipes' : \E q \in user_pipes :
         r.from = q.from /\ r.to = q.to /\ r.sender = q.sender /\ r.receiver = q.receiver
  <2>1. PICK pipes \in SUBSET user_pipes, how \in {"no", "ever"} : user_pipes' = Ended(pipes, how)
    BY DEF GiveUp, FinishLine
  <2>2. pipes \in SUBSET Pipes
    BY DEF IInv, RInv, TypeOK
  <2>3. QED
    BY <2>1, <2>2, EndedPipes
<1>3. OnePipeEach'
  <2>1. PICK pipes \in SUBSET user_pipes, how \in {"no", "ever"} : user_pipes' = Ended(pipes, how)
    BY DEF GiveUp, FinishLine
  <2> DEFINE End(q) == [q EXCEPT !.held = IF q.held = "line" /\ OfThisLine(q) THEN how ELSE q.held]
  <2>2. user_pipes' = {End(q) : q \in pipes}
    BY <2>1 DEF Ended
  <2>3. \A q \in pipes : End(q).from = q.from /\ End(q).to = q.to
    BY DEF IInv, RInv, TypeOK, Pipes
  <2> HIDE DEF End
  <2>4. \A q, r \in pipes : q.from = r.from /\ q.to = r.to => q = r
    BY DEF IInv, UInv, OnePipeEach
  <2>5. QED
    BY <2>2, <2>3, <2>4 DEF OnePipeEach
<1>4. PipesBetween'
  BY <1>1, <1>2 DEF IInv, UInv, PipesBetween
<1>5. NamesUnique'
  BY <1>1 DEF IInv, UInv, NamesUnique
<1>6. QED
  BY <1>3, <1>4, <1>5 DEF UInv

LEMMA NextU == IInv /\ [Next]_vars => UInv'
<1> SUFFICES ASSUME IInv, [Next]_vars PROVE UInv'
  OBVIOUS
<1>1. CASE Select \/ AcceptPastEnd \/ WaitForEver \/ UNCHANGED vars
  BY <1>1, SameUsers DEF Select, AcceptPastEnd, WaitForEver, vars, tableVars, pipeVars, IInv
<1>2. ASSUME NEW p \in Peers, Client(p) PROVE UInv'
  BY <1>2, SameUsers DEF Client, Connect, Send, Vanish, serverVars, tableVars, pipeVars, IInv
<1>3. ASSUME NEW p \in Peers,
             PrintOnly(p) \/ Yell(p) \/ Tell(p) \/ TellOutside(p) \/ StartLine(p)
      PROVE  UInv'
  BY <1>3, SameUsers DEF PrintOnly, Yell, Tell, TellOutside, StartLine, tableVars, pipeVars, IInv
<1>4. QED
  BY <1>1, <1>2, <1>3, AcceptU, NameU, ExitU, StartCommandU, EndLineU
  DEF Next, Server, Serve

----------------------------------------------------------------------------
(* The theorems                                                            *)

\* The strengthened invariant holds in every reachable state.
THEOREM Invariance == Spec => []IInv
<1>1. Init => IInv
  BY InitR, InitU DEF IInv
<1>2. IInv /\ [Next]_vars => IInv'
  BY NextR, NextU DEF IInv
<1>3. QED
  BY <1>1, <1>2, PTL DEF Spec

\* The server's variables keep their types (TypeOK).
THEOREM TypeCorrect == Spec => []TypeOK
  BY Invariance, PTL DEF IInv, RInv

\* The records of who is connected agree (Registry).
THEOREM RecordsAgree == Spec => []Registry
  BY Invariance, PTL DEF IInv, RInv

\* No two users on line have one name (NamesUnique).
THEOREM NamesDiffer == Spec => []NamesUnique
  BY Invariance, PTL DEF IInv, UInv

\* No user pipe outlives the users it was made between (PipesBetween).
THEOREM PipesOfTheirUsers == Spec => []PipesBetween
  BY Invariance, PTL DEF IInv, UInv

\* There is one user pipe at most from one user to another (OnePipeEach).
THEOREM OnePipe == Spec => []OnePipeEach
  BY Invariance, PTL DEF IInv, UInv

----------------------------------------------------------------------------
(* The write ends: between the lines the server holds none but those of    *)
(* lines it has given up.                                                  *)

LEMMA EndsInit == Init => WriteEndsClosed
  BY DEF Init, WriteEndsClosed

\* Between the lines pipes only go.
LEMMA ServeEnds ==
  ASSUME WriteEndsClosed, NEW p \in Peers, Accept(p) \/ Serve(p) PROVE WriteEndsClosed'
<1>1. running = Nobody /\ user_pipes' \subseteq user_pipes
  BY DEF Accept, Serve, PrintOnly, Yell, Tell, TellOutside, Name, Exit, StartLine, Execute,
         Looping, pipeVars, NotOf
<1>2. QED
  BY <1>1 DEF WriteEndsClosed

LEMMA StartCommandEnds == ASSUME WriteEndsClosed, StartCommand PROVE WriteEndsClosed'
<1>1. PICK c : c = Head(cmds)
  OBVIOUS
<1>2. /\ running # Nobody /\ running' = running /\ clients' = clients
      /\ user_pipes' = (user_pipes \ From(c.from)) \cup Made(c.to)
      /\ files_to_close' = files_to_close \cup ToClose(c.to)
  BY <1>1 DEF StartCommand, tableVars
<1>3. UidOf(running)' = UidOf(running)
  BY <1>2 DEF UidOf
<1>4. ASSUME NEW q \in user_pipes', q.held = "line"
      PROVE  q.from = UidOf(running) /\ q.to \in files_to_close'
  <2>1. CASE q \in user_pipes
    BY <1>2, <1>4, <2>1 DEF WriteEndsClosed, OfThisLine
  <2>2. CASE q \in Made(c.to)
    <3>1. c.to # 0 /\ q = Pipe(UidOf(running), c.to)
      BY <2>2 DEF Made
    <3>2. q.from = UidOf(running) /\ q.to = c.to
      BY <3>1 DEF Pipe
    <3>3. QED
      BY <1>2, <3>1, <3>2 DEF ToClose
  <2>3. QED
    BY <1>2, <2>1, <2>2
<1>5. QED
  BY <1>2, <1>3, <1>4 DEF WriteEndsClosed, OfThisLine

\* The end of a line, also of one that is given up.
LEMMA EndLineEnds ==
  ASSUME IInv, WriteEndsClosed, GiveUp \/ FinishLine PROVE WriteEndsClosed'
<1>1. PICK pipes \in SUBSET user_pipes, how \in {"no", "ever"} : user_pipes' = Ended(pipes, how)
  BY DEF GiveUp, FinishLine
<1>2. pipes \in SUBSET Pipes
  BY DEF IInv, RInv, TypeOK
<1>3. \A r \in user_pipes' : r.held # "line"
  BY <1>1, <1>2, EndedPipes DEF WriteEndsClosed
<1>4. QED
  BY <1>3 DEF WriteEndsClosed

LEMMA NextEnds == IInv /\ WriteEndsClosed /\ [Next]_vars => WriteEndsClosed'
<1> SUFFICES ASSUME IInv, WriteEndsClosed, [Next]_vars PROVE WriteEndsClosed'
  OBVIOUS
<1>1. ASSUME UNCHANGED <<clients, running, files_to_close, user_pipes>> PROVE WriteEndsClosed'
  BY <1>1 DEF WriteEndsClosed, OfThisLine, UidOf
<1>2. CASE Select \/ AcceptPastEnd \/ WaitForEver \/ UNCHANGED vars
  BY <1>1, <1>2 DEF Select, AcceptPastEnd, WaitForEver, vars, tableVars, pipeVars, lineVars
<1>3. ASSUME NEW p \in Peers, Client(p) PROVE WriteEndsClosed'
  BY <1>1, <1>3 DEF Client, Connect, Send, Vanish, serverVars, tableVars, pipeVars, lineVars
<1>4. QED
  BY <1>2, <1>3, ServeEnds, StartCommandEnds, EndLineEnds DEF Next, Server

\* Whoever comes, goes and gives up: the server holds no write end but those of
\* the line it is at and of lines it has given up (WriteEndsClosed).
THEOREM EndsClosed == Spec => []WriteEndsClosed
  BY EndsInit, NextEnds, Invariance, PTL DEF Spec

----------------------------------------------------------------------------
(* What one client may do to the others.                                   *)

\* select reports only what there is to read, or the end of a connection.
ReadyOK ==
    /\ inbox \in [Peers -> Seq(Lines)]
    /\ \A p \in read_fds \cap Peers : inbox[p] # <<>> \/ conn[p] \in {"closed", "reset"}

LEMMA ReadyInit == Init => ReadyOK
  BY EmptySeq DEF Init, ReadyOK

\* Serving p takes nothing from the others.
LEMMA ServeReady ==
  ASSUME IInv, ReadyOK, NEW p \in Peers, Serve(p) PROVE ReadyOK'
<1>1. /\ read_fds' = read_fds \ {p}
      /\ inbox' \in {InboxAfter(p), [inbox EXCEPT ![p] = <<>>]}
  BY DEF Serve, PrintOnly, Yell, Tell, TellOutside, Name, Exit, StartLine, Execute
<1>2. \A q \in Peers \ {p} : conn'[q] = conn[q] \/ (conn[q] = "closed" /\ conn'[q] = "reset")
  <2>1. CASE Exit(p)
    BY <2>1, WriteKeeps DEF Exit, IInv, RInv, TypeOK
  <2>2. CASE TellOutside(p) \/ StartLine(p)
    BY <2>2 DEF TellOutside, StartLine
  <2>3. CASE \E socks : Write(socks)
    BY <2>3, Written DEF IInv, RInv, Kept
  <2>4. QED
    BY <2>1, <2>2, <2>3 DEF Serve, PrintOnly, Yell, Tell, Name
<1>3. inbox' \in [Peers -> Seq(Lines)] /\ \A q \in Peers \ {p} : inbox'[q] = inbox[q]
  <2>1. <<>> \in Seq(Lines)
    BY EmptySeq
  <2>2. QED
    BY <1>1, <2>1 DEF ReadyOK, InboxAfter
<1>4. QED
  BY <1>1, <1>2, <1>3 DEF ReadyOK

LEMMA NextReady == IInv /\ ReadyOK /\ [Next]_vars => ReadyOK'
<1> SUFFICES ASSUME IInv, ReadyOK, [Next]_vars PROVE ReadyOK'
  OBVIOUS
\* The steps that take nothing from a client.
<1>1. ASSUME read_fds' \subseteq read_fds, inbox' = inbox,
             \A q \in read_fds' \cap Peers :
                conn[q] \in {"closed", "reset"} => conn'[q] \in {"closed", "reset"}
      PROVE  ReadyOK'
  BY <1>1 DEF ReadyOK
<1>2. CASE Select
  BY <1>2, SelectServerAssumption DEF Select, Readable, ReadyOK, peerVars
<1>3. CASE AcceptPastEnd \/ WaitForEver \/ UNCHANGED vars
  BY <1>1, <1>3 DEF AcceptPastEnd, WaitForEver, vars, peerVars
<1>4. CASE StartCommand \/ GiveUp \/ FinishLine
  <2>1. Kept
    <3>1. \E socks : Write(socks)
      BY <1>4 DEF StartCommand, GiveUp, FinishLine
    <3>2. QED
      BY <3>1, Written DEF IInv, RInv
  <2>2. read_fds' = read_fds /\ inbox' = inbox
    BY <1>4 DEF StartCommand, GiveUp, FinishLine
  <2>3. QED
    BY <1>1, <2>1, <2>2 DEF Kept
<1>5. ASSUME NEW p \in Peers, Accept(p) PROVE ReadyOK'
  <2>1. /\ conn' = [ConnAfter(open_sockets) EXCEPT ![p] = "open"] /\ conn[p] = "knocking"
        /\ read_fds' \subseteq read_fds /\ inbox' = inbox
    BY <1>5 DEF Accept
  <2>2. p \notin read_fds
    BY <2>1, SelectServerAssumption DEF IInv, RInv, Registry
  <2>3. \A q \in Peers \ {p} : conn'[q] = ConnAfter(open_sockets)[q]
    BY <2>1, WriteKeeps DEF IInv, RInv
  <2>4. QED
    BY <1>1, <2>1, <2>2, <2>3, WriteKeeps DEF IInv, RInv
<1>6. ASSUME NEW p \in Peers, Client(p) PROVE ReadyOK'
  <2>1. read_fds' = read_fds
    BY <1>6 DEF Client, Connect, Send, Vanish, serverVars
  <2>2. CASE Send(p)
    <3>1. PICK text \in Texts[p] : inbox' = [inbox EXCEPT ![p] = inbox[p] \o text]
      BY <2>2 DEF Send
    <3>2. /\ inbox[p] \o text \in Seq(Lines)
          /\ inbox[p] # <<>> => inbox[p] \o text # <<>>
      <4> DEFINE queue == inbox[p]
      <4>1. queue \in Seq(Lines) /\ text \in Seq(Lines)
        BY TextsAssumption DEF ReadyOK
      <4> HIDE DEF queue
      <4>2. queue \o text \in Seq(Lines) /\ Len(queue \o text) = Len(queue) + Len(text)
            /\ Len(queue) \in Nat /\ Len(text) \in Nat
        BY <4>1, ConcatProperties, LenProperties
      <4>3. queue # <<>> => queue \o text # <<>>
        BY <4>1, <4>2, EmptySeq
      <4>4. QED
        BY <4>2, <4>3 DEF queue
    <3>3. conn' = conn
      BY <2>2 DEF Send
    <3>4. QED
      BY <2>1, <3>1, <3>2, <3>3 DEF ReadyOK
  <2>3. CASE Connect(p) \/ Vanish(p)
    <3>1. inbox' = inbox
      BY <2>3 DEF Connect, Vanish
    <3>2. \/ conn' = [conn EXCEPT ![p] = "knocking"] /\ conn[p] = "away"
          \/ conn' = [conn EXCEPT ![p] = "closed"]
      BY <2>3 DEF Connect, Vanish
    <3>3. \A q \in Peers : conn[q] \in {"closed", "reset"} => conn'[q] \in {"closed", "reset"}
      BY <3>2 DEF IInv, RInv, TypeOK
    <3>4. QED
      BY <1>1, <2>1, <3>1, <3>3
  <2>4. QED
    BY <1>6, <2>2, <2>3 DEF Client
<1>7. QED
  BY <1>2, <1>3, <1>4, <1>5, <1>6, ServeReady DEF Next, Server

\* Only a client that has closed its connection makes std::cin fail.
LEMMA DeafBy ==
  ASSUME IInv, ReadyOK, NEW p \in Peers, Execute(p, Got(p).line.kind), cinFailed' # cinFailed
  PROVE  \E q \in open_sockets : conn[q] \in {"closed", "reset"}
<1>1. p \in read_fds /\ p \in open_sockets
  BY SelectServerAssumption DEF Execute, IInv, RInv, Registry
<1>2. Buffered(p) = <<>>
  BY DEF Execute, TakeLine, IInv, RInv, TypeOK
<1>3. cin = <<>> /\ Buffered(p) = [n \in DOMAIN inbox[p] |-> [owner |-> p, line |-> inbox[p][n]]]
  BY <1>2 DEF Buffered
<1>4. DOMAIN inbox[p] = {}
  BY <1>2, <1>3
<1>5. inbox[p] = <<>>
  <2>1. PICK queue \in Seq(Lines) : queue = inbox[p]
    BY DEF ReadyOK
  <2>2. DOMAIN queue = 1..Len(queue) /\ Len(queue) \in Nat
    BY <2>1, LenProperties
  <2>3. Len(queue) = 0
    <3>1. Len(queue) # 0 => 1 \in DOMAIN queue
      BY <2>2
    <3>2. QED
      BY <1>4, <2>1, <3>1
  <2>4. QED
    BY <2>1, <2>3, EmptySeq
<1>6. QED
  BY <1>1, <1>5 DEF ReadyOK

\* A write ends the server only when somebody is connected whose end is reset.
LEMMA WriteEnds ==
  ASSUME IInv, NEW socks \in SUBSET Peers, ~Survives(socks)
  PROVE  \E q \in open_sockets : conn[q] = "reset"
  BY DEF Survives, IInv, RInv, Registry

LEMMA StepContained ==
  IInv /\ ReadyOK /\ [Next]_vars =>
      /\ cinFailed' # cinFailed => \E p \in open_sockets : conn[p] \in {"closed", "reset"}
      /\ mode = "up" /\ mode' = "dead" =>
            \/ \E p \in open_sockets : conn[p] = "reset"
            \/ clients[MaxUsers] # Nobody
            \/ \E p \in read_fds \cap Peers : TellsOutside(p)
<1> DEFINE Deaf == cinFailed' # cinFailed => \E p \in open_sockets : conn[p] \in {"closed", "reset"}
           Ends == mode = "up" /\ mode' = "dead" =>
                      \/ \E p \in open_sockets : conn[p] = "reset"
                      \/ clients[MaxUsers] # Nobody
                      \/ \E p \in read_fds \cap Peers : TellsOutside(p)
<1> SUFFICES ASSUME IInv, ReadyOK, [Next]_vars PROVE Deaf /\ Ends
  OBVIOUS
<1>0. MaxUsers \in Uids /\ Nobody \notin Peers
  BY SelectServerAssumption DEF Uids
<1>1. ASSUME NEW socks \in SUBSET Peers, Write(socks) PROVE Ends
  BY <1>1, WriteEnds DEF Write
<1>2. CASE Select \/ WaitForEver \/ UNCHANGED vars
  BY <1>2 DEF Select, WaitForEver, vars, inputVars
<1>3. CASE AcceptPastEnd
  BY <1>0, <1>3 DEF AcceptPastEnd, Unused, inputVars
<1>4. ASSUME NEW p \in Peers, Accept(p) PROVE Deaf /\ Ends
  <2>1. cinFailed' = cinFailed /\ (mode' = "dead" => ~Survives(open_sockets))
    BY <1>4 DEF Accept, inputVars
  <2>2. open_sockets \in SUBSET Peers
    BY DEF IInv, RInv, TypeOK
  <2>3. QED
    BY <2>1, <2>2, WriteEnds
<1>5. ASSUME NEW p \in Peers, Client(p) PROVE Deaf /\ Ends
  BY <1>5 DEF Client, Connect, Send, Vanish, serverVars, inputVars
<1>6. CASE StartCommand \/ GiveUp \/ FinishLine
  <2>1. cinFailed' = cinFailed
    BY <1>6 DEF StartCommand, GiveUp, FinishLine, inputVars
  <2>2. running \in Peers /\ open_sockets \subseteq Peers
    BY <1>6 DEF StartCommand, GiveUp, FinishLine, IInv, RInv, TypeOK
  <2>3. \E socks \in SUBSET Peers : Write(socks)
    BY <1>6, <2>2 DEF StartCommand, GiveUp, FinishLine, Told
  <2>4. QED
    BY <1>1, <2>1, <2>3
<1>7. ASSUME NEW p \in Peers, Serve(p) PROVE Deaf /\ Ends
  <2>1. Deaf
    <3>1. Execute(p, Got(p).line.kind)
      BY <1>7 DEF Serve, PrintOnly, Yell, Tell, TellOutside, Name, Exit, StartLine, Execute
    <3>2. QED
      BY <3>1, DeafBy
  <2>2. p \in open_sockets /\ p \in read_fds
    BY <1>7, SelectServerAssumption
    DEF Serve, PrintOnly, Yell, Tell, TellOutside, Name, Exit, StartLine, Execute, IInv, RInv, Registry
  <2>3. open_sockets \in SUBSET Peers /\ {p} \in SUBSET Peers
    BY DEF IInv, RInv, TypeOK
  <2>4. CASE PrintOnly(p) \/ Yell(p) \/ Name(p)
    <3>1. Write({p}) \/ Write(open_sockets)
      BY <2>4 DEF PrintOnly, Yell, Name
    <3>2. QED
      BY <1>1, <2>1, <2>3, <3>1
  <2>5. CASE Tell(p)
    <3>1. PICK socks \in SUBSET Peers : Write(socks)
      BY <2>5 DEF Tell, Exists, IInv, RInv, TypeOK
    <3>2. QED
      BY <1>1, <2>1, <3>1
  <2>6. CASE TellOutside(p)
    BY <2>1, <2>2, <2>6 DEF TellOutside
  <2>7. CASE StartLine(p)
    BY <2>1, <2>7 DEF StartLine
  <2>8. CASE Exit(p)
    <3>1. UidOf(p) \in Uids /\ clients[UidOf(p)] = p
      BY <2>2, UidOfConnected DEF IInv
    <3>2. mode' = "dead" => ~Survives(open_sockets) \/ ~HasPipes(UidOf(p))
      BY <2>8 DEF Exit
    <3>3. ~HasPipes(UidOf(p)) => UidOf(p) = MaxUsers
      BY <3>1, SelectServerAssumption DEF HasPipes, Uids
    <3>4. Ends
      BY <1>0, <2>3, <3>1, <3>2, <3>3, WriteEnds
    <3>5. QED
      BY <2>1, <3>4
  <2>9. QED
    BY <1>7, <2>4, <2>5, <2>6, <2>7, <2>8 DEF Serve
<1>8. QED
  BY <1>2, <1>3, <1>4, <1>5, <1>6, <1>7 DEF Next, Server

\* No client ends or deafens np_single_proc for the others but by closing
\* without exit, by taking the last position, or by telling nobody (Contained):
\* for any number of clients, positions and lines.
THEOREM ServerContained == Spec => Contained
  BY ReadyInit, NextReady, StepContained, Invariance, PTL DEF Spec, Contained
============================================================================
