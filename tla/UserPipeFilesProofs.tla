------------------------- MODULE UserPipeFilesProofs -------------------------
(***************************************************************************)
(* For any users, lines and visits:                                        *)
(*                                                                         *)
(* A complete user pipe is read completely (ReadWhole).  The invariant     *)
(* ReadInv is that a file has one writer at most, which marks it as long   *)
(* as it runs, and that nobody makes a file its sender has looked for.     *)
(*                                                                         *)
(* And a user pipe goes unread in the named ways only (KeptUntilOpened).   *)
(* The queue says what a shell will remove.  The invariant KeepInv is that *)
(* its names, but for the doubtful ones, are those of pipes the shell has  *)
(* opened, which have them still, each name once.                          *)
(***************************************************************************)
EXTENDS UserPipeFiles, SequenceTheorems, TLAPS

Command == [from : Users \cup {0}, to : Users \cup {0}]

File == [from : Users, to : Users, for : Nat, units : Nat, opened : BOOLEAN, writing : BOOLEAN]

----------------------------------------------------------------------------
(* What is in a pipe when its reader opens it is what the reader gets.     *)

Process ==
    [in : Nat, out : Nat, todo : Nat, got : Nat, whole : BOOLEAN, awaited : BOOLEAN, runs : BOOLEAN]

Stages == {"prompt", "input", "output", "look", "create", "removing", "leaving", "left"}

\* What shells are at; nobody but a sender makes the file it has looked for.
ShapeInv ==
    /\ visit \in [Users -> Nat]
    /\ files \in [Users -> [Users -> 0..Len(inodes)]]
    /\ inodes \in Seq(File)
    /\ at \in [Users -> Stages]
    /\ cmds \in [Users -> Seq(Command)]
    /\ input \in [Users -> 0..Len(inodes)]
    /\ \A u \in Users :
          /\ at[u] \in {"output", "look", "create"} => cmds[u] # << >>
          /\ at[u] \in {"look", "create"} => Head(cmds[u]).to # 0
          /\ at[u] = "create" => files[u][Head(cmds[u]).to] = 0

\* A file has one writer, which marks it as long as it runs; a reader has read
\* no more than there is, and the whole file once it has ended.
ProcsInv ==
    /\ procs \in [Users -> Seq(Process)]
    /\ \A u \in Users : \A i \in 1..Len(procs[u]) :
          LET p == procs[u][i]
          IN  /\ p.in \in 0..Len(inodes) /\ p.out \in 0..Len(inodes)
              /\ p.runs /\ p.out # 0 => inodes[p.out].writing
              /\ p.in # 0 => p.got <= inodes[p.in].units
              /\ p.whole => /\ p.in # 0 /\ ~inodes[p.in].writing
                            /\ ~p.runs => p.got = inodes[p.in].units
    /\ \A u, v \in Users : \A i \in 1..Len(procs[u]), j \in 1..Len(procs[v]) :
          procs[u][i].out # 0 /\ procs[u][i].out = procs[v][j].out => u = v /\ i = j

ReadInv == ShapeInv /\ ProcsInv

\* The files are what they were, but for who has opened them.
SameContents ==
    /\ inodes' \in Seq(File) /\ Len(inodes') = Len(inodes)
    /\ \A n \in 1..Len(inodes) :
          inodes'[n].units = inodes[n].units /\ inodes'[n].writing = inodes[n].writing

\* The processes are what they were, but for who waits for them.
SameProcs ==
    /\ procs' \in [Users -> Seq(Process)]
    /\ \A u \in Users : Len(procs'[u]) = Len(procs[u])
    /\ \A u \in Users : \A i \in 1..Len(procs[u]) :
          /\ procs'[u][i].in = procs[u][i].in /\ procs'[u][i].out = procs[u][i].out
          /\ procs'[u][i].got = procs[u][i].got /\ procs'[u][i].runs = procs[u][i].runs
          /\ procs'[u][i].whole = procs[u][i].whole

LEMMA ProcsStay ==
    ASSUME ShapeInv, ProcsInv, SameContents, SameProcs
    PROVE  ProcsInv'
<1>1. ASSUME NEW u \in Users, NEW i \in 1..Len(procs'[u])
      PROVE  LET p == procs'[u][i]
             IN  /\ p.in \in 0..Len(inodes') /\ p.out \in 0..Len(inodes')
                 /\ p.runs /\ p.out # 0 => inodes'[p.out].writing
                 /\ p.in # 0 => p.got <= inodes'[p.in].units
                 /\ p.whole => /\ p.in # 0 /\ ~inodes'[p.in].writing
                               /\ ~p.runs => p.got = inodes'[p.in].units
  <2>1. i \in 1..Len(procs[u])
    BY DEF SameProcs
  <2> DEFINE p == procs[u][i]
             q == procs'[u][i]
  <2>2. /\ p.in \in 0..Len(inodes) /\ p.out \in 0..Len(inodes)
        /\ p.runs /\ p.out # 0 => inodes[p.out].writing
        /\ p.in # 0 => p.got <= inodes[p.in].units
        /\ p.whole => /\ p.in # 0 /\ ~inodes[p.in].writing
                      /\ ~p.runs => p.got = inodes[p.in].units
    BY <2>1 DEF ProcsInv
  <2>3. q.in = p.in /\ q.out = p.out /\ q.got = p.got /\ q.runs = p.runs /\ q.whole = p.whole
    BY <2>1 DEF SameProcs
  <2> HIDE DEF p, q
  <2>4. Len(inodes) \in Nat /\ Len(inodes') = Len(inodes)
    BY LenProperties DEF ShapeInv, SameContents
  <2>5. p.in # 0 => inodes'[p.in].units = inodes[p.in].units /\ inodes'[p.in].writing = inodes[p.in].writing
    BY <2>2, <2>4 DEF SameContents
  <2>6. p.out # 0 => inodes'[p.out].writing = inodes[p.out].writing
    BY <2>2, <2>4 DEF SameContents
  <2>7. QED
    BY <2>2, <2>3, <2>4, <2>5, <2>6 DEF q
<1>2. \A u, v \in Users : \A i \in 1..Len(procs'[u]), j \in 1..Len(procs'[v]) :
          procs'[u][i].out # 0 /\ procs'[u][i].out = procs'[v][j].out => u = v /\ i = j
  <2> SUFFICES ASSUME NEW u \in Users, NEW v \in Users,
                      NEW i \in 1..Len(procs'[u]), NEW j \in 1..Len(procs'[v]),
                      procs'[u][i].out # 0, procs'[u][i].out = procs'[v][j].out
               PROVE  u = v /\ i = j
    OBVIOUS
  <2>1. i \in 1..Len(procs[u]) /\ j \in 1..Len(procs[v])
    BY DEF SameProcs
  <2>2. procs[u][i].out # 0 /\ procs[u][i].out = procs[v][j].out
    BY <2>1 DEF SameProcs
  <2>3. QED
    BY <2>1, <2>2 DEF ProcsInv
<1>3. QED
  BY <1>1, <1>2 DEF SameProcs, ProcsInv

\* A line that is given up leaves its processes to themselves.
LEMMA NotWaitedFor ==
    ASSUME ProcsInv, NEW u \in Users,
           procs' = [procs EXCEPT ![u] = [i \in DOMAIN procs[u] |-> [procs[u][i] EXCEPT !.awaited = FALSE]]]
    PROVE  SameProcs
<1> DEFINE s == procs[u]
           t == [i \in DOMAIN s |-> [s[i] EXCEPT !.awaited = FALSE]]
<1>1. s \in Seq(Process) /\ Len(s) \in Nat /\ DOMAIN s = 1..Len(s)
  BY LenProperties DEF ProcsInv
<1>2. \A i \in 1..Len(s) : s[i] \in Process
  BY <1>1, ElementOfSeq
<1>3. \A i \in 1..Len(s) : t[i] \in Process /\ t[i] = [s[i] EXCEPT !.awaited = FALSE]
  BY <1>1, <1>2 DEF Process
<1>4. t \in Seq(Process) /\ Len(t) = Len(s)
  <2>1. t \in [1..Len(s) -> Process]
    BY <1>1, <1>3
  <2> HIDE DEF t
  <2>2. QED
    BY <1>1, <2>1, IsASeq, LenProperties
<1>5. \A i \in 1..Len(s) : /\ t[i].in = s[i].in /\ t[i].out = s[i].out /\ t[i].got = s[i].got
                           /\ t[i].runs = s[i].runs /\ t[i].whole = s[i].whole
  BY <1>2, <1>3 DEF Process
<1>6. procs' = [procs EXCEPT ![u] = t]
  OBVIOUS
<1> HIDE DEF t
<1>7. procs' \in [Users -> Seq(Process)]
  BY <1>4, <1>6 DEF ProcsInv
<1>8. procs'[u] = t /\ \A v \in Users \ {u} : procs'[v] = procs[v]
  BY <1>6 DEF ProcsInv
<1>9. QED
  BY <1>4, <1>5, <1>7, <1>8 DEF SameProcs

\* One more process, the only writer of a new file if it writes one.
LEMMA NewProc ==
    ASSUME ShapeInv, ProcsInv, NEW u \in Users, NEW p \in Process,
           procs' = [procs EXCEPT ![u] = Append(procs[u], p)],
           inodes' \in Seq(File), Len(inodes') >= Len(inodes),
           \A n \in 1..Len(inodes) :
              inodes'[n].units = inodes[n].units /\ inodes'[n].writing = inodes[n].writing,
           p.in \in 0..Len(inodes), p.got = 0, p.runs,
           p.whole => p.in # 0 /\ ~inodes[p.in].writing,
           p.out # 0 => p.out = Len(inodes) + 1 /\ p.out = Len(inodes') /\ inodes'[p.out].writing
    PROVE  ProcsInv'
<1> DEFINE s == procs[u]
           t == Append(procs[u], p)
<1>1. /\ s \in Seq(Process) /\ Len(s) \in Nat
      /\ t \in Seq(Process) /\ Len(t) = Len(s) + 1 /\ t[Len(s) + 1] = p
      /\ \A i \in 1..Len(s) : t[i] = s[i]
  <2>1. s \in Seq(Process)
    BY DEF ProcsInv
  <2>2. QED
    BY <2>1, AppendProperties, LenProperties
<1>2. procs' = [procs EXCEPT ![u] = t]
  OBVIOUS
<1> HIDE DEF t
<1>3. procs' \in [Users -> Seq(Process)] /\ procs'[u] = t /\ \A v \in Users \ {u} : procs'[v] = procs[v]
  BY <1>1, <1>2 DEF ProcsInv
<1>4. Len(inodes) \in Nat /\ Len(inodes') \in Nat /\ inodes \in Seq(File)
  BY LenProperties DEF ShapeInv
\* A process is an old one, or the new one.
<1>5. ASSUME NEW v \in Users, NEW i \in 1..Len(procs'[v])
      PROVE  \/ i \in 1..Len(procs[v]) /\ procs'[v][i] = procs[v][i]
             \/ v = u /\ i = Len(s) + 1 /\ procs'[v][i] = p
  <2>1. CASE v = u
    BY <2>1, <1>1, <1>3
  <2>2. CASE v # u
    BY <2>2, <1>3
  <2>3. QED
    BY <2>1, <2>2
<1>6. ASSUME NEW v \in Users, NEW i \in 1..Len(procs[v])
      PROVE  procs[v][i].in \in 0..Len(inodes) /\ procs[v][i].out \in 0..Len(inodes)
  BY DEF ProcsInv
<1>7. p.in # 0 => inodes'[p.in].units = inodes[p.in].units /\ inodes'[p.in].writing = inodes[p.in].writing
                  /\ inodes[p.in].units \in Nat
  <2>1. p.in # 0 => p.in \in 1..Len(inodes)
    BY <1>4
  <2>2. p.in # 0 => inodes[p.in] \in File
    BY <2>1, <1>4, ElementOfSeq
  <2>3. QED
    BY <2>1, <2>2 DEF File
<1>8. ASSUME NEW v \in Users, NEW i \in 1..Len(procs'[v])
      PROVE  LET q == procs'[v][i]
             IN  /\ q.in \in 0..Len(inodes') /\ q.out \in 0..Len(inodes')
                 /\ q.runs /\ q.out # 0 => inodes'[q.out].writing
                 /\ q.in # 0 => q.got <= inodes'[q.in].units
                 /\ q.whole => /\ q.in # 0 /\ ~inodes'[q.in].writing
                               /\ ~q.runs => q.got = inodes'[q.in].units
  <2>1. CASE i \in 1..Len(procs[v]) /\ procs'[v][i] = procs[v][i]
    <3> DEFINE q == procs[v][i]
    <3>1. /\ q.in \in 0..Len(inodes) /\ q.out \in 0..Len(inodes)
          /\ q.runs /\ q.out # 0 => inodes[q.out].writing
          /\ q.in # 0 => q.got <= inodes[q.in].units
          /\ q.whole => /\ q.in # 0 /\ ~inodes[q.in].writing
                        /\ ~q.runs => q.got = inodes[q.in].units
      BY <2>1 DEF ProcsInv
    <3> HIDE DEF q
    <3>2. /\ q.in # 0 => inodes'[q.in].units = inodes[q.in].units /\ inodes'[q.in].writing = inodes[q.in].writing
          /\ q.out # 0 => inodes'[q.out].writing = inodes[q.out].writing
          /\ q.in \in 0..Len(inodes') /\ q.out \in 0..Len(inodes')
      BY <3>1, <1>4
    <3>3. procs'[v][i] = q
      BY <2>1 DEF q
    <3>4. QED
      BY <3>1, <3>2, <3>3
  <2>2. CASE procs'[v][i] = p
    <3>1. p.in \in 0..Len(inodes') /\ p.out \in 0..Len(inodes')
      BY <1>4
    <3>2. p.in # 0 => p.got <= inodes'[p.in].units
      BY <1>7
    <3>3. QED
      BY <2>2, <3>1, <3>2, <1>7
  <2>3. QED
    BY <2>1, <2>2, <1>5
<1>9. ASSUME NEW v \in Users, NEW w \in Users, NEW i \in 1..Len(procs'[v]), NEW j \in 1..Len(procs'[w]),
             procs'[v][i].out # 0, procs'[v][i].out = procs'[w][j].out
      PROVE  v = w /\ i = j
  <2>1. CASE i \in 1..Len(procs[v]) /\ procs'[v][i] = procs[v][i] /\ j \in 1..Len(procs[w]) /\ procs'[w][j] = procs[w][j]
    BY <1>9, <2>1 DEF ProcsInv
  <2>2. CASE i \in 1..Len(procs[v]) /\ procs'[v][i] = procs[v][i] /\ procs'[w][j] = p
    <3>1. p.out = Len(inodes) + 1
      BY <1>9, <2>2
    <3>2. procs[v][i].out \in 0..Len(inodes) /\ procs[v][i].out = p.out
      BY <1>6, <1>9, <2>2
    <3>3. QED
      BY <1>4, <3>1, <3>2
  <2>3. CASE procs'[v][i] = p /\ j \in 1..Len(procs[w]) /\ procs'[w][j] = procs[w][j]
    <3>1. p.out = Len(inodes) + 1
      BY <1>9, <2>3
    <3>2. procs[w][j].out \in 0..Len(inodes) /\ procs[w][j].out = p.out
      BY <1>6, <1>9, <2>3
    <3>3. QED
      BY <1>4, <3>1, <3>2
  <2>4. CASE v = u /\ i = Len(s) + 1 /\ w = u /\ j = Len(s) + 1
    BY <2>4
  <2>5. QED
    BY <2>1, <2>2, <2>3, <2>4, <1>5
<1>10. \A v, w \in Users : \A i \in 1..Len(procs'[v]), j \in 1..Len(procs'[w]) :
          procs'[v][i].out # 0 /\ procs'[v][i].out = procs'[w][j].out => v = w /\ i = j
  <2> TAKE v, w \in Users
  <2> TAKE i \in 1..Len(procs'[v]), j \in 1..Len(procs'[w])
  <2> HAVE procs'[v][i].out # 0 /\ procs'[v][i].out = procs'[w][j].out
  <2> QED
    BY <1>9
<1>11. QED
  BY <1>3, <1>8, <1>10 DEF ProcsInv

\* A process that reads, writes or ends changes what it writes to, which it
\* has marked, and nothing else.
LEMMA OneProcChanges ==
    ASSUME ShapeInv, ProcsInv, NEW u \in Users, NEW i \in 1..Len(procs[u]), procs[u][i].runs,
           NEW r \in Process, procs' = [procs EXCEPT ![u] = [procs[u] EXCEPT ![i] = r]],
           r.in = procs[u][i].in, r.out = procs[u][i].out, r.whole = procs[u][i].whole,
           inodes' \in Seq(File), Len(inodes') = Len(inodes),
           \A n \in 1..Len(inodes) : n # r.out =>
              inodes'[n].units = inodes[n].units /\ inodes'[n].writing = inodes[n].writing,
           r.out # 0 => /\ inodes'[r.out].units >= inodes[r.out].units
                        /\ r.runs => inodes'[r.out].writing,
           r.in # 0 => /\ r.got <= inodes[r.in].units
                       /\ ~r.runs => r.got = inodes[r.in].units
    PROVE  ProcsInv'
<1> DEFINE s == procs[u]
           t == [procs[u] EXCEPT ![i] = r]
<1>1. /\ s \in Seq(Process) /\ Len(s) \in Nat /\ i \in 1..Len(s)
      /\ inodes \in Seq(File) /\ Len(inodes) \in Nat
  BY LenProperties DEF ProcsInv, ShapeInv
<1>2. t \in Seq(Process) /\ Len(t) = Len(s) /\ \A j \in 1..Len(s) : t[j] = IF j = i THEN r ELSE s[j]
  BY <1>1, ExceptSeq
<1>3. procs' = [procs EXCEPT ![u] = t]
  OBVIOUS
<1> HIDE DEF t
<1>4. procs' \in [Users -> Seq(Process)] /\ procs'[u] = t /\ \A v \in Users \ {u} : procs'[v] = procs[v]
  BY <1>2, <1>3 DEF ProcsInv
<1>5. /\ \A v \in Users : Len(procs'[v]) = Len(procs[v])
      /\ procs'[u][i] = r
      /\ \A v \in Users : \A j \in 1..Len(procs[v]) : (v = u /\ j = i) \/ procs'[v][j] = procs[v][j]
  <2>1. procs'[u][i] = r
    BY <1>1, <1>2, <1>4
  <2>2. ASSUME NEW v \in Users
        PROVE  /\ Len(procs'[v]) = Len(procs[v])
               /\ \A j \in 1..Len(procs[v]) : (v = u /\ j = i) \/ procs'[v][j] = procs[v][j]
    <3>1. CASE v = u
      BY <3>1, <1>2, <1>4
    <3>2. CASE v # u
      BY <3>2, <1>4
    <3>3. QED
      BY <3>1, <3>2
  <2>3. QED
    BY <2>1, <2>2
<1>6. \A n \in 1..Len(inodes) : /\ inodes[n].units \in Nat /\ inodes'[n].units \in Nat
                                /\ inodes'[n].units >= inodes[n].units
  <2> SUFFICES ASSUME NEW n \in 1..Len(inodes)
               PROVE  inodes[n].units \in Nat /\ inodes'[n].units \in Nat /\ inodes'[n].units >= inodes[n].units
    OBVIOUS
  <2>1. inodes[n] \in File /\ inodes'[n] \in File
    BY <1>1, ElementOfSeq
  <2>2. inodes[n].units \in Nat /\ inodes'[n].units \in Nat
    BY <2>1 DEF File
  <2>3. n = r.out \/ inodes'[n].units = inodes[n].units
    OBVIOUS
  <2>4. n # 0
    BY <1>1
  <2>5. QED
    BY <2>2, <2>3, <2>4
\* A marked file may change, but only its writer's.
<1>7. ASSUME NEW v \in Users, NEW j \in 1..Len(procs'[v])
      PROVE  LET q == procs'[v][j]
             IN  /\ q.in \in 0..Len(inodes') /\ q.out \in 0..Len(inodes')
                 /\ q.runs /\ q.out # 0 => inodes'[q.out].writing
                 /\ q.in # 0 => q.got <= inodes'[q.in].units
                 /\ q.whole => /\ q.in # 0 /\ ~inodes'[q.in].writing
                               /\ ~q.runs => q.got = inodes'[q.in].units
  <2> DEFINE p == procs[v][j]
             q == procs'[v][j]
  <2>1. j \in 1..Len(procs[v])
    BY <1>5
  <2>2. p \in Process /\ q \in Process
    <3>1. procs[v] \in Seq(Process) /\ procs'[v] \in Seq(Process)
      BY <1>4 DEF ProcsInv
    <3>2. QED
      BY <3>1, <2>1, ElementOfSeq
  <2>3. /\ p.in \in 0..Len(inodes) /\ p.out \in 0..Len(inodes)
        /\ p.runs /\ p.out # 0 => inodes[p.out].writing
        /\ p.in # 0 => p.got <= inodes[p.in].units
        /\ p.whole => /\ p.in # 0 /\ ~inodes[p.in].writing
                      /\ ~p.runs => p.got = inodes[p.in].units
    BY <2>1 DEF ProcsInv
  <2>4. r.out # 0 => r.out \in 1..Len(inodes) /\ inodes[r.out].writing
    <3>1. procs[u][i].out \in 0..Len(inodes) /\ (procs[u][i].out # 0 => inodes[procs[u][i].out].writing)
      BY <1>1 DEF ProcsInv
    <3>2. QED
      BY <3>1, <1>1
  <2>5. q.in = p.in /\ q.out = p.out /\ q.whole = p.whole
    BY <2>1, <1>5
  <2>6. q.got \in Nat /\ p.got \in Nat
    BY <2>2 DEF Process
  <2>7. p.whole => p.in # r.out /\ inodes'[p.in].units = inodes[p.in].units
                   /\ ~inodes'[p.in].writing
    <3> HIDE DEF p, q
    <3>1. p.whole => p.in \in 1..Len(inodes) /\ ~inodes[p.in].writing
      BY <2>3, <1>1
    <3>2. p.whole => p.in # r.out
      BY <3>1, <2>4, <1>1
    <3>3. QED
      BY <3>1, <3>2
  <2>8. CASE v = u /\ j = i
    <3>1. q = r
      BY <2>8, <1>5
    <3>2. q.runs /\ q.out # 0 => inodes'[q.out].writing
      BY <3>1
    <3>3. q.in # 0 => q.got <= inodes[q.in].units /\ (~q.runs => q.got = inodes[q.in].units)
      BY <3>1
    <3> HIDE DEF q, p
    <3>4. q.in # 0 => inodes[q.in].units \in Nat /\ inodes'[q.in].units \in Nat
                      /\ inodes'[q.in].units >= inodes[q.in].units
      BY <2>3, <2>5, <1>1, <1>6
    <3>5. q.in # 0 => q.got <= inodes'[q.in].units
      BY <3>3, <3>4, <2>6
    <3>6. QED
      BY <3>2, <3>3, <3>5, <2>3, <2>5, <2>7 DEF q
  <2>9. CASE ~(v = u /\ j = i)
    <3>1. q = p
      BY <2>9, <2>1, <1>5
    <3>2. p.out # 0 => p.out # procs[u][i].out
      BY <2>9, <2>1, <1>1 DEF ProcsInv
    <3> HIDE DEF q, p
    <3>3. p.out # 0 => inodes'[p.out].writing = inodes[p.out].writing
      BY <2>3, <3>2, <1>1
    <3>4. p.in # 0 => inodes[p.in].units \in Nat /\ inodes'[p.in].units \in Nat
                      /\ inodes'[p.in].units >= inodes[p.in].units
      BY <2>3, <1>1, <1>6
    <3>5. p.in # 0 => p.got <= inodes'[p.in].units
      BY <2>3, <3>4, <2>6
    <3>6. QED
      BY <3>1, <3>3, <3>5, <2>3, <2>7 DEF q
  <2>10. QED
    BY <2>8, <2>9
<1>8. ASSUME NEW v \in Users, NEW w \in Users, NEW j \in 1..Len(procs'[v]), NEW k \in 1..Len(procs'[w]),
             procs'[v][j].out # 0, procs'[v][j].out = procs'[w][k].out
      PROVE  v = w /\ j = k
  <2>1. j \in 1..Len(procs[v]) /\ k \in 1..Len(procs[w])
    BY <1>5
  <2>2. procs'[v][j].out = procs[v][j].out /\ procs'[w][k].out = procs[w][k].out
    BY <1>5, <2>1
  <2>3. QED
    BY <1>8, <2>1, <2>2 DEF ProcsInv
<1>9. \A v, w \in Users : \A j \in 1..Len(procs'[v]), k \in 1..Len(procs'[w]) :
          procs'[v][j].out # 0 /\ procs'[v][j].out = procs'[w][k].out => v = w /\ j = k
  BY <1>8
<1>10. QED
  BY <1>4, <1>7, <1>9 DEF ProcsInv

\* What a process is after it has read, written or ended.
LEMMA ProcSteps ==
    ASSUME NEW p \in Process
    PROVE  /\ p.got \in Nat
           /\ LET r == [p EXCEPT !.got = p.got + 1, !.todo = p.todo + 1]
              IN  /\ r \in Process /\ r.in = p.in /\ r.out = p.out /\ r.whole = p.whole
                  /\ r.got = p.got + 1 /\ r.runs = p.runs
           /\ p.todo > 0 =>
                 LET r == [p EXCEPT !.todo = p.todo - 1]
                 IN  /\ r \in Process /\ r.in = p.in /\ r.out = p.out /\ r.whole = p.whole
                     /\ r.got = p.got /\ r.runs = p.runs
<1>1. p.got \in Nat /\ p.todo \in Nat
  BY DEF Process
<1>2. p.got + 1 \in Nat /\ p.todo + 1 \in Nat /\ (p.todo > 0 => p.todo - 1 \in Nat)
  BY <1>1
<1> DEFINE g == p.got + 1
           t == p.todo + 1
           l == p.todo - 1
<1> HIDE DEF g, t, l
<1>3. /\ g \in Nat /\ t \in Nat => [p EXCEPT !.got = g, !.todo = t] \in Process
      /\ l \in Nat => [p EXCEPT !.todo = l] \in Process
  BY DEF Process
<1>4. /\ LET r == [p EXCEPT !.got = g, !.todo = t]
         IN  /\ r.in = p.in /\ r.out = p.out /\ r.whole = p.whole
             /\ r.got = g /\ r.runs = p.runs
      /\ LET r == [p EXCEPT !.todo = l]
         IN  /\ r.in = p.in /\ r.out = p.out /\ r.whole = p.whole
             /\ r.got = p.got /\ r.runs = p.runs
  BY DEF Process
<1>5. QED
  BY <1>1, <1>2, <1>3, <1>4 DEF g, t, l

LEMMA WorksRead ==
    ASSUME ReadInv, NEW u \in Users, Runs(u)
    PROVE  ReadInv'
<1>1. PICK i \in DOMAIN procs[u] : procs[u][i].runs /\ (Read(u, i) \/ Write(u, i) \/ End(u, i))
  BY DEF Runs
<1> DEFINE p == procs[u][i]
           s == procs[u]
<1>2. /\ ShapeInv /\ ProcsInv
      /\ s \in Seq(Process) /\ i \in 1..Len(s) /\ p \in Process
      /\ inodes \in Seq(File) /\ Len(inodes) \in Nat
  <2>1. s \in Seq(Process) /\ inodes \in Seq(File)
    BY DEF ReadInv, ProcsInv, ShapeInv
  <2>2. i \in 1..Len(s)
    BY <2>1, <1>1, LenProperties
  <2>3. QED
    BY <2>1, <2>2, ElementOfSeq, LenProperties DEF ReadInv
<1>3. /\ p.in \in 0..Len(inodes) /\ p.out \in 0..Len(inodes)
      /\ p.out # 0 => inodes[p.out].writing
      /\ p.in # 0 => p.got <= inodes[p.in].units
  BY <1>1, <1>2 DEF ProcsInv
<1>4. \A n \in 1..Len(inodes) : inodes[n] \in File /\ inodes[n].units \in Nat
  <2>1. \A n \in 1..Len(inodes) : inodes[n] \in File
    BY <1>2, ElementOfSeq
  <2>2. QED
    BY <2>1 DEF File
\* The directory and the shells are what they were.
<1>5. ASSUME inodes' \in Seq(File), Len(inodes') = Len(inodes),
             UNCHANGED <<visit, files, at, cmds, input>>
      PROVE  ShapeInv'
  BY <1>2, <1>5 DEF ShapeInv
<1>6. CASE Read(u, i)
  <2> DEFINE r == [p EXCEPT !.got = p.got + 1, !.todo = p.todo + 1]
  <2>1. /\ r \in Process /\ r.in = p.in /\ r.out = p.out /\ r.whole = p.whole
        /\ r.got = p.got + 1 /\ r.runs /\ p.got \in Nat
    BY <1>1, <1>2, ProcSteps
  <2>2. procs' = [procs EXCEPT ![u] = [s EXCEPT ![i] = r]] /\ p.in # 0 /\ p.got < inodes[p.in].units
        /\ UNCHANGED <<visit, files, inodes, at, cmds, input>>
    BY <1>6 DEF Read, shellVars
  <2>3. r.got <= inodes[r.in].units
    <3>1. inodes[p.in].units \in Nat
      BY <1>2, <1>3, <1>4, <2>2
    <3>2. QED
      BY <2>1, <2>2, <3>1
  <2>4. r.out # 0 => inodes[r.out].units \in Nat /\ inodes[r.out].writing
    BY <1>2, <1>3, <1>4, <2>1
  <2> HIDE DEF r
  <2>5. r.out # 0 => inodes'[r.out].units >= inodes[r.out].units /\ (r.runs => inodes'[r.out].writing)
    BY <2>2, <2>4
  <2>6. ProcsInv'
    BY <1>1, <1>2, <2>1, <2>2, <2>3, <2>5, OneProcChanges
  <2>7. QED
    BY <1>2, <1>5, <2>2, <2>6 DEF ReadInv
<1>7. ASSUME NEW r \in Process, procs' = [procs EXCEPT ![u] = [s EXCEPT ![i] = r]],
             r.in = p.in, r.out = p.out, r.whole = p.whole, r.got = p.got,
             ~r.runs /\ p.in # 0 => p.got >= inodes[p.in].units,
             NEW e \in File, p.out # 0 => e.units >= inodes[p.out].units /\ (r.runs => e.writing),
             p.out = 0 => inodes' = inodes,
             p.out # 0 => inodes' = [inodes EXCEPT ![p.out] = e],
             UNCHANGED <<visit, files, at, cmds, input>>
      PROVE  ReadInv'
  <2>1. /\ inodes' \in Seq(File) /\ Len(inodes') = Len(inodes)
        /\ \A n \in 1..Len(inodes) : n # r.out =>
              inodes'[n].units = inodes[n].units /\ inodes'[n].writing = inodes[n].writing
        /\ r.out # 0 => inodes'[r.out] = e
    <3>1. CASE p.out = 0
      BY <3>1, <1>2, <1>7
    <3>2. CASE p.out # 0
      <4> DEFINE k == p.out
      <4>1. k \in 1..Len(inodes) /\ inodes' = [inodes EXCEPT ![k] = e]
        BY <1>2, <1>3, <1>7, <3>2
      <4> HIDE DEF k
      <4>2. /\ [inodes EXCEPT ![k] = e] \in Seq(File)
            /\ Len([inodes EXCEPT ![k] = e]) = Len(inodes)
            /\ \A n \in 1..Len(inodes) : [inodes EXCEPT ![k] = e][n] = IF n = k THEN e ELSE inodes[n]
        BY <1>2, <4>1, ExceptSeq
      <4>3. inodes'[k] = e
        BY <4>1, <4>2
      <4>4. \A n \in 1..Len(inodes) : n # k => inodes'[n] = inodes[n]
        BY <4>1, <4>2
      <4>5. r.out = k
        BY <1>7 DEF k
      <4>6. QED
        BY <4>1, <4>2, <4>3, <4>4, <4>5
    <3>3. QED
      BY <3>1, <3>2
  <2>2. r.out # 0 => inodes'[r.out].units >= inodes[r.out].units /\ (r.runs => inodes'[r.out].writing)
    BY <2>1, <1>7
  <2>3. r.in # 0 => r.got <= inodes[r.in].units /\ (~r.runs => r.got = inodes[r.in].units)
    <3>1. r.in # 0 => inodes[r.in].units \in Nat /\ r.got <= inodes[r.in].units
      BY <1>2, <1>3, <1>4, <1>7
    <3>2. r.got \in Nat
      BY DEF Process
    <3>3. r.in # 0 /\ ~r.runs => r.got >= inodes[r.in].units
      BY <1>7
    <3>4. QED
      BY <3>1, <3>2, <3>3
  <2>4. ProcsInv'
    BY <1>1, <1>2, <1>7, <2>1, <2>2, <2>3, OneProcChanges
  <2>5. QED
    BY <1>5, <1>7, <2>1, <2>4 DEF ReadInv
<1>8. CASE Write(u, i)
  <2> DEFINE r == [p EXCEPT !.todo = p.todo - 1]
             e == IF p.out = 0 THEN Inode(u, u) ELSE [inodes[p.out] EXCEPT !.units = inodes[p.out].units + 1]
  <2>1. procs' = [procs EXCEPT ![u] = [s EXCEPT ![i] = r]] /\ p.todo > 0
        /\ UNCHANGED <<visit, files, at, cmds, input>>
    BY <1>8 DEF Write, shellVars
  <2>2. /\ r \in Process /\ r.in = p.in /\ r.out = p.out /\ r.whole = p.whole
        /\ r.got = p.got /\ r.runs
    BY <1>1, <1>2, <2>1, ProcSteps
  <2>3. e \in File /\ (p.out # 0 => e.units >= inodes[p.out].units /\ e.writing)
    <3>1. CASE p.out = 0
      BY <3>1, <1>2 DEF Inode, File, ShapeInv
    <3>2. CASE p.out # 0
      <4>1. inodes[p.out] \in File /\ inodes[p.out].units \in Nat /\ inodes[p.out].writing
        BY <3>2, <1>2, <1>3, <1>4
      <4>2. QED
        BY <3>2, <4>1 DEF File
    <3>3. QED
      BY <3>1, <3>2
  <2>4. /\ p.out = 0 => inodes' = inodes
        /\ p.out # 0 => inodes' = [inodes EXCEPT ![p.out] = e]
    BY <1>8 DEF Write
  <2> HIDE DEF r, e
  <2>5. QED
    BY <1>7, <2>1, <2>2, <2>3, <2>4
<1>9. CASE End(u, i)
  <2> DEFINE r == [p EXCEPT !.runs = FALSE]
             e == IF p.out = 0 THEN Inode(u, u) ELSE [inodes[p.out] EXCEPT !.writing = FALSE]
  <2>1. procs' = [procs EXCEPT ![u] = [s EXCEPT ![i] = r]]
        /\ (p.in # 0 => p.got >= inodes[p.in].units)
        /\ UNCHANGED <<visit, files, at, cmds, input>>
    BY <1>9 DEF End, shellVars
  <2>2. /\ r \in Process /\ r.in = p.in /\ r.out = p.out /\ r.whole = p.whole
        /\ r.got = p.got /\ ~r.runs
    BY <1>2 DEF Process
  <2>3. e \in File /\ (p.out # 0 => e.units >= inodes[p.out].units)
    <3>1. CASE p.out = 0
      BY <3>1, <1>2 DEF Inode, File, ShapeInv
    <3>2. CASE p.out # 0
      <4>1. PICK f \in File : f = inodes[p.out]
        BY <3>2, <1>2, <1>3, <1>4
      <4>2. [f EXCEPT !.writing = FALSE] \in File /\ [f EXCEPT !.writing = FALSE].units = f.units
            /\ f.units \in Nat
        BY DEF File
      <4>3. QED
        BY <3>2, <4>1, <4>2
    <3>3. QED
      BY <3>1, <3>2
  <2>4. /\ p.out = 0 => inodes' = inodes
        /\ p.out # 0 => inodes' = [inodes EXCEPT ![p.out] = e]
    BY <1>9 DEF End
  <2> HIDE DEF r, e
  <2>5. QED
    BY <1>7, <2>1, <2>2, <2>3, <2>4
<1>10. QED
  BY <1>1, <1>6, <1>8, <1>9

\* A step that leaves the processes and what they read and write.
LEMMA Quiet ==
    ASSUME ReadInv, ShapeInv', procs' = procs, inodes' = inodes
    PROVE  ReadInv'
<1>1. SameContents /\ SameProcs
  BY DEF ReadInv, ShapeInv, ProcsInv, SameContents, SameProcs
<1>2. QED
  BY <1>1, ProcsStay DEF ReadInv

\* A line given up: its processes are not waited for.
LEMMA GiveUpRead ==
    ASSUME ReadInv, NEW u \in Users, GiveUp(u), inodes' = inodes, UNCHANGED <<visit, files>>
    PROVE  ReadInv'
<1>1. ShapeInv'
  <2>1. << >> \in Seq(Command)
    BY EmptySeq
  <2>2. /\ at' = [at EXCEPT ![u] = "prompt"] /\ cmds' = [cmds EXCEPT ![u] = << >>]
        /\ input' = [input EXCEPT ![u] = 0]
    BY DEF GiveUp, Return, Goes
  <2>3. Len(inodes) \in Nat
    BY LenProperties DEF ReadInv, ShapeInv
  <2>4. QED
    BY <2>1, <2>2, <2>3 DEF ReadInv, ShapeInv, Stages
<1>2. SameContents
  BY DEF ReadInv, ShapeInv, SameContents
<1>3. procs' = [procs EXCEPT ![u] = [i \in DOMAIN procs[u] |-> [procs[u][i] EXCEPT !.awaited = FALSE]]]
  BY DEF GiveUp, ReadInv, ProcsInv
<1>4. SameProcs
  BY <1>3, NotWaitedFor DEF ReadInv
<1>5. QED
  BY <1>1, <1>2, <1>4, ProcsStay DEF ReadInv

LEMMA StartLineRead ==
    ASSUME ReadInv, NEW u \in Users, NEW line \in Lines, StartLine(u, line)
    PROVE  ReadInv'
<1>1. line \in Seq(Command)
  BY UserPipeFilesAssumption DEF Command
<1>2. ShapeInv' /\ procs' = procs /\ inodes' = inodes
  BY <1>1 DEF StartLine, Goes, ReadInv, ShapeInv, Stages
<1>3. QED
  BY <1>2, Quiet

\* A file is opened: its mark, and nothing it contains.
LEMMA InputRead ==
    ASSUME ReadInv, NEW u \in Users, Input(u)
    PROVE  ReadInv'
<1> DEFINE from == Head(cmds[u]).from
<1>1. UNCHANGED <<visit, files>> /\ at[u] = "input" /\ cmds[u] # << >>
  BY DEF Input
<1>2. Head(cmds[u]) \in Command
  BY <1>1, HeadTailProperties DEF ReadInv, ShapeInv
<1>3. CASE Goes(u, "output") /\ UNCHANGED <<inodes, cmds, input, queue, procs>>
  <2>1. ShapeInv'
    BY <1>1, <1>3 DEF Goes, ReadInv, ShapeInv, Stages
  <2>2. QED
    BY <1>3, <2>1, Quiet
<1>4. CASE /\ from # 0 /\ files[from][u] # 0 /\ Goes(u, "output")
           /\ input' = [input EXCEPT ![u] = files[from][u]]
           /\ inodes' = [inodes EXCEPT ![files[from][u]].opened = TRUE]
           /\ UNCHANGED <<cmds, procs>>
  <2> DEFINE k == files[from][u]
             e == [inodes[k] EXCEPT !.opened = TRUE]
  <2>1. from \in Users /\ k \in 1..Len(inodes) /\ inodes \in Seq(File) /\ Len(inodes) \in Nat
    <3>1. from \in Users
      BY <1>2, <1>4 DEF Command
    <3>2. inodes \in Seq(File) /\ Len(inodes) \in Nat
      BY LenProperties DEF ReadInv, ShapeInv
    <3>3. k \in 0..Len(inodes) /\ k # 0
      BY <1>4, <3>1 DEF ReadInv, ShapeInv
    <3>4. QED
      BY <3>1, <3>2, <3>3
  <2>2. e \in File /\ e.units = inodes[k].units /\ e.writing = inodes[k].writing
    <3>1. PICK f \in File : f = inodes[k]
      BY <2>1, ElementOfSeq
    <3>2. [f EXCEPT !.opened = TRUE] \in File /\ [f EXCEPT !.opened = TRUE].units = f.units
          /\ [f EXCEPT !.opened = TRUE].writing = f.writing
      BY DEF File
    <3>3. QED
      BY <3>1, <3>2
  <2>3. inodes' = [inodes EXCEPT ![k] = e]
    BY <1>4
  <2>4. input' = [input EXCEPT ![u] = k]
    BY <1>4
  <2> HIDE DEF k, e, from
  <2>5. SameContents
    <3>1. /\ [inodes EXCEPT ![k] = e] \in Seq(File)
          /\ Len([inodes EXCEPT ![k] = e]) = Len(inodes)
          /\ \A n \in 1..Len(inodes) : [inodes EXCEPT ![k] = e][n] = IF n = k THEN e ELSE inodes[n]
      BY <2>1, <2>2, ExceptSeq
    <3>2. QED
      BY <2>2, <2>3, <3>1 DEF SameContents
  <2>6. ShapeInv'
    BY <1>1, <1>4, <2>1, <2>4, <2>5 DEF Goes, ReadInv, ShapeInv, Stages, SameContents
  <2>7. SameProcs
    BY <1>4 DEF ReadInv, ProcsInv, SameProcs
  <2>8. QED
    BY <2>5, <2>6, <2>7, ProcsStay DEF ReadInv
<1>5. CASE GiveUp(u) /\ inodes' = inodes
  BY <1>1, <1>5, GiveUpRead
<1>6. QED
  BY <1>3, <1>4, <1>5 DEF Input

\* What a shell forks has read nothing yet.
LEMMA ForkRead ==
    ASSUME ReadInv, NEW u \in Users, NEW out \in Nat, Fork(u, out), cmds[u] # << >>,
           inodes' \in Seq(File), Len(inodes') >= Len(inodes),
           \A n \in 1..Len(inodes) :
              inodes'[n].units = inodes[n].units /\ inodes'[n].writing = inodes[n].writing,
           files' \in [Users -> [Users -> 0..Len(inodes')]], visit' = visit,
           \A v \in Users \ {u} : files'[v] = files[v],
           out # 0 => out = Len(inodes) + 1 /\ out = Len(inodes') /\ inodes'[out].writing
    PROVE  ReadInv'
<1>1. /\ ShapeInv /\ ProcsInv /\ Len(inodes) \in Nat /\ Len(inodes') \in Nat
      /\ input[u] \in 0..Len(inodes) /\ cmds[u] \in Seq(Command)
  BY LenProperties DEF ReadInv, ShapeInv
<1> DEFINE p == Proc(input[u], out)
<1>2. /\ p \in Process /\ p.in = input[u] /\ p.out = out /\ p.got = 0 /\ p.runs
      /\ p.whole => p.in # 0 /\ ~inodes[p.in].writing
  <2>1. input[u] # 0 => inodes[input[u]] \in File
    BY <1>1, ElementOfSeq DEF ShapeInv
  <2>2. (input[u] # 0 /\ ~inodes[input[u]].writing) \in BOOLEAN
    BY <2>1
  <2>3. (IF input[u] = 0 THEN Size ELSE 0) \in Nat
    BY UserPipeFilesAssumption
  <2>4. input[u] \in Nat
    BY <1>1
  <2>5. QED
    BY <2>2, <2>3, <2>4 DEF Proc, Process
<1>3. procs' = [procs EXCEPT ![u] = Append(procs[u], p)]
  BY DEF Fork
<1> HIDE DEF p
<1>4. ProcsInv'
  BY <1>1, <1>2, <1>3, NewProc
<1>5. ShapeInv'
  <2>1. Tail(cmds[u]) \in Seq(Command)
    BY <1>1, HeadTailProperties
  <2>2. /\ at' = [at EXCEPT ![u] = "input"] /\ cmds' = [cmds EXCEPT ![u] = Tail(cmds[u])]
        /\ input' = [input EXCEPT ![u] = 0]
    BY <1>1 DEF Fork, Goes, ShapeInv
  <2>3. input' \in [Users -> 0..Len(inodes')]
    BY <1>1, <2>2 DEF ShapeInv
  <2>4. at'[u] = "input" /\ \A v \in Users \ {u} : at'[v] = at[v] /\ cmds'[v] = cmds[v]
    BY <1>1, <2>2 DEF ShapeInv
  <2>5. \A v \in Users : /\ at'[v] \in {"output", "look", "create"} => cmds'[v] # << >>
                         /\ at'[v] \in {"look", "create"} => Head(cmds'[v]).to # 0
                         /\ at'[v] = "create" => files'[v][Head(cmds'[v]).to] = 0
    <3> TAKE v \in Users
    <3>1. CASE v = u
      BY <2>4, <3>1
    <3>2. CASE v # u
      <4>1. at'[v] = at[v] /\ cmds'[v] = cmds[v] /\ files'[v] = files[v]
        BY <2>4, <3>2
      <4>2. QED
        BY <1>1, <4>1 DEF ShapeInv
    <3>3. QED
      BY <3>1, <3>2
  <2>6. at' \in [Users -> Stages] /\ cmds' \in [Users -> Seq(Command)] /\ visit' \in [Users -> Nat]
    BY <1>1, <2>1, <2>2 DEF ShapeInv, Stages
  <2>7. QED
    BY <2>3, <2>5, <2>6 DEF ShapeInv
<1>6. QED
  BY <1>4, <1>5 DEF ReadInv

LEMMA OutputRead ==
    ASSUME ReadInv, NEW u \in Users, Output(u)
    PROVE  ReadInv'
<1>1. UNCHANGED <<visit, files, inodes>> /\ at[u] = "output"
  BY DEF Output
<1>2. /\ cmds[u] # << >> /\ inodes \in Seq(File) /\ Len(inodes) \in Nat
      /\ files \in [Users -> [Users -> 0..Len(inodes)]]
  <2>1. cmds[u] # << >>
    BY <1>1 DEF ReadInv, ShapeInv
  <2>2. inodes \in Seq(File) /\ files \in [Users -> [Users -> 0..Len(inodes)]]
    BY DEF ReadInv, ShapeInv
  <2>3. QED
    BY <2>1, <2>2, LenProperties
<1>3. CASE Fork(u, 0)
  <2>1. /\ inodes' \in Seq(File) /\ Len(inodes') >= Len(inodes)
        /\ files' \in [Users -> [Users -> 0..Len(inodes')]]
        /\ \A n \in 1..Len(inodes) :
              inodes'[n].units = inodes[n].units /\ inodes'[n].writing = inodes[n].writing
    BY <1>1, <1>2
  <2>2. QED
    BY <1>1, <1>2, <1>3, <2>1, ForkRead
<1>4. CASE Goes(u, "look") /\ Head(cmds[u]).to # 0 /\ UNCHANGED <<cmds, input, procs>>
  <2>1. /\ visit' \in [Users -> Nat] /\ cmds' \in [Users -> Seq(Command)]
        /\ input' \in [Users -> 0..Len(inodes')]
        /\ at \in [Users -> Stages]
    BY <1>1, <1>4 DEF ReadInv, ShapeInv
  <2>2. at' = [at EXCEPT ![u] = "look"]
    BY <1>4 DEF Goes
  <2>3. \A v \in Users : /\ at'[v] \in {"output", "look", "create"} => cmds'[v] # << >>
                         /\ at'[v] \in {"look", "create"} => Head(cmds'[v]).to # 0
                         /\ at'[v] = "create" => files'[v][Head(cmds'[v]).to] = 0
    <3> TAKE v \in Users
    <3>1. CASE v = u
      BY <3>1, <1>2, <1>4, <2>1, <2>2
    <3>2. CASE v # u
      BY <3>2, <1>1, <1>4, <2>1, <2>2 DEF ReadInv, ShapeInv
    <3>3. QED
      BY <3>1, <3>2
  <2>4. ShapeInv'
    BY <1>1, <1>2, <2>1, <2>2, <2>3 DEF ShapeInv, Stages
  <2>5. QED
    BY <1>1, <1>4, <2>4, Quiet
<1>5. CASE GiveUp(u)
  BY <1>1, <1>5, GiveUpRead
<1>6. QED
  BY <1>3, <1>4, <1>5 DEF Output

\* The file is not there, or the line is given up.
LEMMA LookRead ==
    ASSUME ReadInv, NEW u \in Users, Look(u)
    PROVE  ReadInv'
<1>1. UNCHANGED <<visit, files, inodes>> /\ at[u] = "look"
  BY DEF Look
<1>2. CASE /\ files[u][Head(cmds[u]).to] = 0 /\ Goes(u, "create")
           /\ UNCHANGED <<cmds, input, procs>>
  <2>1. at' = [at EXCEPT ![u] = "create"]
    BY <1>2 DEF Goes
  <2>2. at'[u] = "create" /\ \A v \in Users \ {u} : at'[v] = at[v]
    BY <2>1 DEF ReadInv, ShapeInv
  <2>3. ShapeInv'
    BY <1>1, <1>2, <2>1, <2>2 DEF ReadInv, ShapeInv, Stages
  <2>4. QED
    BY <1>1, <1>2, <2>3, Quiet
<1>3. CASE GiveUp(u)
  BY <1>1, <1>3, GiveUpRead
<1>4. QED
  BY <1>2, <1>3 DEF Look

\* A new file, with its writer.
LEMMA CreateRead ==
    ASSUME ReadInv, NEW u \in Users, Create(u)
    PROVE  ReadInv'
<1> DEFINE to == Head(cmds[u]).to
<1>1. visit' = visit /\ at[u] = "create"
  BY DEF Create
<1>2. /\ cmds[u] # << >> /\ cmds[u] \in Seq(Command) /\ inodes \in Seq(File) /\ Len(inodes) \in Nat
      /\ files \in [Users -> [Users -> 0..Len(inodes)]]
  <2>1. cmds[u] # << >>
    BY <1>1 DEF ReadInv, ShapeInv
  <2>2. inodes \in Seq(File) /\ files \in [Users -> [Users -> 0..Len(inodes)]] /\ cmds[u] \in Seq(Command)
    BY DEF ReadInv, ShapeInv
  <2>3. QED
    BY <2>1, <2>2, LenProperties
<1>3. /\ inodes' = Append(inodes, Inode(u, to))
      /\ files' = [files EXCEPT ![u][to] = Len(inodes')] /\ Fork(u, Len(inodes'))
  <2>1. files[u][to] = 0
    BY <1>1 DEF ReadInv, ShapeInv
  <2>2. /\ inodes' = Append(inodes, Inode(u, to))
        /\ files' = [files EXCEPT ![u][to] = Len(inodes')] /\ Fork(u, files'[u][to])
    BY <2>1 DEF Create
  <2>3. to \in Users
    <3>1. Head(cmds[u]) \in Command /\ to # 0
      BY <1>1, <1>2, HeadTailProperties DEF ReadInv, ShapeInv
    <3>2. QED
      BY <3>1 DEF Command
  <2>4. files'[u][to] = Len(inodes')
    <3> HIDE DEF to
    <3>1. QED
      BY <1>2, <2>2, <2>3
  <2>5. QED
    BY <2>2, <2>4
<1>4. ReadInv'
  <2>1. Head(cmds[u]) \in Command /\ to # 0
    BY <1>1, <1>2, HeadTailProperties DEF ReadInv, ShapeInv
  <2>2. to \in Users
    BY <2>1 DEF Command
  <2> DEFINE e == Inode(u, to)
  <2>3. e \in File /\ e.writing /\ inodes' = Append(inodes, e)
    BY <2>2, <1>3 DEF Inode, File, ReadInv, ShapeInv
  <2> HIDE DEF e, to
  <2>4. /\ inodes' \in Seq(File) /\ Len(inodes') = Len(inodes) + 1
        /\ inodes'[Len(inodes) + 1] = e
        /\ \A n \in 1..Len(inodes) : inodes'[n] = inodes[n]
    BY <2>3, <1>2, AppendProperties
  <2> DEFINE size == Len(inodes)
  <2>5. size \in Nat /\ files \in [Users -> [Users -> 0..size]]
    BY <1>2
  <2>6. files' = [files EXCEPT ![u][to] = size + 1]
    BY <1>3, <2>4
  <2> HIDE DEF size
  <2>7. files' \in [Users -> [Users -> 0..(size + 1)]]
    <3>1. 0..size \subseteq 0..(size + 1) /\ size + 1 \in 0..(size + 1)
      BY <2>5
    <3>2. files \in [Users -> [Users -> 0..(size + 1)]]
      <4>1. \A x, y \in Users : files[x][y] \in 0..(size + 1)
        BY <2>5, <3>1
      <4>2. QED
        BY <2>5, <4>1
    <3>3. QED
      BY <2>2, <2>6, <3>1, <3>2
  <2>8. PICK out \in Nat : out = Len(inodes')
    BY <1>2, <2>4
  <2>9. Fork(u, out)
    BY <1>3, <2>8
  <2>10. /\ inodes' \in Seq(File) /\ Len(inodes') >= Len(inodes)
         /\ \A n \in 1..Len(inodes) :
              inodes'[n].units = inodes[n].units /\ inodes'[n].writing = inodes[n].writing
    BY <1>2, <2>4
  <2>11. out = Len(inodes) + 1 /\ out = Len(inodes') /\ inodes'[out].writing
    BY <2>3, <2>4, <2>8
  <2>12. files' \in [Users -> [Users -> 0..Len(inodes')]]
    BY <2>4, <2>7 DEF size
  <2>13. \A v \in Users \ {u} : files'[v] = files[v]
    BY <1>2, <2>6
  <2>14. QED
    BY <1>1, <1>2, <2>9, <2>10, <2>11, <2>12, <2>13, ForkRead
<1>5. QED
  BY <1>4

LEMMA CreateFailsRead ==
    ASSUME ReadInv, NEW u \in Users, CreateFails(u)
    PROVE  ReadInv'
BY GiveUpRead DEF CreateFails

LEMMA EndRead ==
    ASSUME ReadInv, NEW u \in Users,
           Wait(u) \/ Unlink(u) \/ EndLine(u) \/ Leave(u) \/ Exit(u) \/ Arrive(u)
    PROVE  ReadInv'
<1>1. procs' = procs /\ inodes' = inodes
  BY DEF Wait, Unlink, EndLine, Leave, Exit, Arrive
<1>2. Len(inodes) \in Nat /\ 0 \in 0..Len(inodes) /\ << >> \in Seq(Command)
  BY LenProperties, EmptySeq DEF ReadInv, ShapeInv
<1>3. CASE Wait(u) \/ Leave(u) \/ Arrive(u)
  <2>1. UNCHANGED <<files, cmds, input>> /\ visit' \in [Users -> Nat]
    BY <1>3 DEF Wait, Leave, Arrive, ReadInv, ShapeInv
  <2>2. PICK where \in {"removing", "left", "prompt"} : at' = [at EXCEPT ![u] = where]
    BY <1>3 DEF Wait, Leave, Arrive, Goes
  <2>3. ShapeInv'
    BY <1>1, <2>1, <2>2 DEF ReadInv, ShapeInv, Stages
  <2>4. QED
    BY <1>1, <2>3, Quiet
<1>4. CASE EndLine(u)
  <2>1. ShapeInv'
    BY <1>2, <1>4 DEF EndLine, Return, Goes, ReadInv, ShapeInv, Stages
  <2>2. QED
    BY <1>1, <2>1, Quiet
\* A name that goes takes nothing from the file.
<1>7. Unlink(u) => files' = files \/ \E from \in Users : files' = [files EXCEPT ![from][u] = 0]
  <2> SUFFICES ASSUME Unlink(u)
               PROVE  files' = files \/ \E from \in Users : files' = [files EXCEPT ![from][u] = 0]
    OBVIOUS
  <2> DEFINE from == Head(queue[u])
  <2>1. files' = [files EXCEPT ![from][u] = 0] /\ files = [x \in Users |-> files[x]]
    BY DEF Unlink, ReadInv, ShapeInv
  <2> HIDE DEF from
  <2>2. QED
    BY <2>1
<1>5. CASE Unlink(u) \/ Exit(u)
  <2>1. files' \in [Users -> [Users -> 0..Len(inodes)]]
    <3> DEFINE size == Len(inodes)
    <3>1. files \in [Users -> [Users -> 0..size]] /\ 0 \in 0..size
      BY <1>2 DEF ReadInv, ShapeInv
    <3> HIDE DEF size
    <3>2. Unlink(u) => files' \in [Users -> [Users -> 0..size]]
      BY <1>7, <3>1
    <3>3. Exit(u) => files' \in [Users -> [Users -> 0..size]]
      BY <3>1 DEF Exit
    <3>4. QED
      BY <1>5, <3>2, <3>3 DEF size
  <2>2. \A x, y \in Users : files'[x][y] \in {files[x][y], 0}
    <3>1. files \in [Users -> [Users -> 0..Len(inodes)]]
      BY DEF ReadInv, ShapeInv
    <3>2. ASSUME Exit(u), NEW x \in Users, NEW y \in Users PROVE files'[x][y] \in {files[x][y], 0}
      BY <3>1, <3>2 DEF Exit
    <3>3. ASSUME NEW from \in Users, files' = [files EXCEPT ![from][u] = 0],
                 NEW x \in Users, NEW y \in Users
          PROVE  files'[x][y] \in {files[x][y], 0}
      BY <3>1, <3>3
    <3>4. QED
      BY <1>5, <1>7, <3>2, <3>3
  <2>3. \A v \in Users : at'[v] = "create" =>
            at[v] = "create" /\ cmds'[v] = cmds[v] /\ Head(cmds[v]).to \in Users
    <3> SUFFICES ASSUME NEW v \in Users, at'[v] = "create"
                 PROVE  at[v] = "create" /\ cmds'[v] = cmds[v] /\ Head(cmds[v]).to \in Users
      OBVIOUS
    <3>1. at[v] = "create" /\ cmds'[v] = cmds[v]
      BY <1>5 DEF Unlink, Exit, Goes, ReadInv, ShapeInv
    <3>2. Head(cmds[v]) \in Command /\ Head(cmds[v]).to # 0
      BY <3>1, HeadTailProperties DEF ReadInv, ShapeInv
    <3>3. QED
      BY <3>1, <3>2 DEF Command
  <2>4. ASSUME NEW v \in Users, at'[v] = "create" PROVE files'[v][Head(cmds'[v]).to] = 0
    <3>1. at[v] = "create" /\ cmds'[v] = cmds[v] /\ Head(cmds[v]).to \in Users
      BY <2>3, <2>4
    <3>2. files[v][Head(cmds[v]).to] = 0
      BY <3>1 DEF ReadInv, ShapeInv
    <3>3. QED
      BY <2>2, <3>1, <3>2
  <2>5. ShapeInv'
    BY <1>1, <1>5, <2>1, <2>4 DEF Unlink, Exit, Goes, ReadInv, ShapeInv, Stages
  <2>6. QED
    BY <1>1, <2>5, Quiet
<1>6. QED
  BY <1>3, <1>4, <1>5

LEMMA InitRead == Init => ReadInv
<1> SUFFICES ASSUME Init PROVE ReadInv
  OBVIOUS
<1>1. << >> \in Seq(File) /\ << >> \in Seq(Process) /\ << >> \in Seq(Command) /\ Len(<< >>) = 0
  BY EmptySeq
<1>2. ShapeInv
  BY <1>1 DEF Init, ShapeInv, Stages
<1>3. ProcsInv
  BY <1>1 DEF Init, ProcsInv
<1>4. QED
  BY <1>2, <1>3 DEF ReadInv

LEMMA NextRead == ReadInv /\ [Next]_vars => ReadInv'
<1> SUFFICES ASSUME ReadInv, [Next]_vars PROVE ReadInv'
  OBVIOUS
<1>1. ASSUME NEW u \in Users, NEW line \in Lines, StartLine(u, line) PROVE ReadInv'
  BY <1>1, StartLineRead
<1>2. ASSUME NEW u \in Users, Shell(u) PROVE ReadInv'
  BY <1>2, InputRead, OutputRead, LookRead, CreateRead, CreateFailsRead, EndRead DEF Shell
<1>3. ASSUME NEW u \in Users, Runs(u) PROVE ReadInv'
  BY <1>3, WorksRead
<1>4. ASSUME NEW u \in Users, Exit(u) \/ Arrive(u) PROVE ReadInv'
  BY <1>4, EndRead
<1>5. CASE UNCHANGED vars
  <2>1. ShapeInv' /\ procs' = procs /\ inodes' = inodes
    BY <1>5 DEF vars, ReadInv, ShapeInv
  <2>2. QED
    BY <2>1, Quiet
<1>6. QED
  BY <1>1, <1>2, <1>3, <1>4, <1>5 DEF Next

\* Whatever the users type and whoever leaves, a user pipe that was complete
\* when its reader opened it is read completely: the name may go and come back
\* for another file, and the file has no second writer.
THEOREM Whole == Spec => []ReadWhole
<1>1. ReadInv => ReadWhole
  <2> SUFFICES ASSUME ReadInv, NEW u \in Users, NEW i \in DOMAIN procs[u],
                      procs[u][i].whole, ~procs[u][i].runs
               PROVE  procs[u][i].got = inodes[procs[u][i].in].units /\ ~inodes[procs[u][i].in].writing
    BY DEF ReadWhole
  <2>1. i \in 1..Len(procs[u])
    BY LenProperties DEF ReadInv, ProcsInv
  <2>2. QED
    BY <2>1 DEF ReadInv, ProcsInv
<1>2. QED
  BY <1>1, InitRead, NextRead, PTL DEF Spec

----------------------------------------------------------------------------
(* Who removes what                                                        *)

\* The receiver has opened the pipe that has this name.
Opened(from, to) == files[from][to] # 0 /\ inodes[files[from][to]].opened

\* What is queued without a doubt has been opened, and is queued once.
Certain(u, i) ==
    /\ Opened(queue[u][i], u)
    /\ \A j \in 1..Len(queue[u]) : queue[u][j] = queue[u][i] => j = i

QueueInv(u) ==
    /\ at[u] \in {"prompt", "leaving", "left"} => \A i \in 1..Len(queue[u]) : queue[u][i] \in doubtful[u]
    /\ \A i \in 1..Len(queue[u]) : queue[u][i] \in doubtful[u] \/ Certain(u, i)

QueueTypes == queue \in [Users -> Seq(Users)] /\ doubtful \in [Users -> SUBSET Users]

KeepInv == ReadInv /\ QueueTypes /\ \A u \in Users : QueueInv(u)

\* The step that KeptUntilOpened allows.
Kept ==
    \A from, to \in Users :
        files[from][to] # 0 /\ files'[from][to] = 0 =>
            \/ inodes[files[from][to]].opened
            \/ at'[to] = "leaving"
            \/ at[to] = "removing" /\ from \in doubtful[to]

\* Marks stay.
SameMarks == \A n \in 1..Len(inodes) : inodes[n].opened => inodes'[n].opened

\* A shell that does not touch its queue keeps what it has opened while the
\* names stay.
LEMMA QueueStays ==
    ASSUME KeepInv, NEW u \in Users, QueueTypes', SameMarks,
           \A x \in Users : files[x][u] # 0 => files'[x][u] = files[x][u],
           queue'[u] = queue[u], doubtful[u] \subseteq doubtful'[u],
           at'[u] \in {"prompt", "leaving", "left"} =>
              \A i \in 1..Len(queue[u]) : queue[u][i] \in doubtful'[u]
    PROVE  QueueInv(u)'
<1>1. ASSUME NEW i \in 1..Len(queue[u]), Certain(u, i) PROVE Certain(u, i)'
  <2>1. queue[u][i] \in Users
    BY ElementOfSeq DEF KeepInv, QueueTypes
  <2>2. files[queue[u][i]][u] \in 1..Len(inodes)
    <3>1. files[queue[u][i]][u] \in 0..Len(inodes) /\ Len(inodes) \in Nat
      BY <2>1, LenProperties DEF KeepInv, ReadInv, ShapeInv
    <3>2. QED
      BY <1>1, <3>1 DEF Certain, Opened
  <2>3. Opened(queue[u][i], u)'
    BY <1>1, <2>1, <2>2 DEF Certain, Opened, SameMarks
  <2>4. QED
    BY <1>1, <2>3 DEF Certain
<1>2. QED
  BY <1>1 DEF KeepInv, QueueInv

\* No name goes, and no mark.
LEMMA NothingRemoved ==
    ASSUME KeepInv, ReadInv', QueueTypes', SameMarks, NEW u \in Users,
           \A x, y \in Users : files[x][y] # 0 => files'[x][y] = files[x][y],
           \A w \in Users \ {u} : at'[w] = at[w] /\ queue'[w] = queue[w] /\ doubtful'[w] = doubtful[w],
           QueueInv(u)'
    PROVE  KeepInv' /\ Kept
<1>1. Kept
  BY DEF Kept
<1>2. \A w \in Users \ {u} : QueueInv(w)'
  BY QueueStays DEF KeepInv, QueueInv
<1>3. QED
  BY <1>1, <1>2 DEF KeepInv

\* The queue stays: the line goes on, or it is given up and what is queued
\* becomes doubtful.
LEMMA LineGoesOn ==
    ASSUME KeepInv, ReadInv', SameMarks, NEW u \in Users,
           \A x, y \in Users : files[x][y] # 0 => files'[x][y] = files[x][y],
           queue' = queue,
           NEW where, at' = [at EXCEPT ![u] = where],
           \/ doubtful' = doubtful /\ (where \notin {"prompt", "leaving", "left"} \/ at[u] = "left")
           \/ doubtful' = [doubtful EXCEPT ![u] = @ \cup Queued(u)]
    PROVE  KeepInv' /\ Kept
<1>1. /\ queue \in [Users -> Seq(Users)] /\ doubtful \in [Users -> SUBSET Users]
      /\ at \in [Users -> Stages] /\ QueueInv(u)
  BY DEF KeepInv, QueueTypes, ReadInv, ShapeInv
<1>2. \A i \in 1..Len(queue[u]) : queue[u][i] \in Queued(u)
  BY <1>1, LenProperties DEF Queued
<1>3. Queued(u) \subseteq Users
  BY <1>1, LenProperties, ElementOfSeq DEF Queued
<1>4. /\ QueueTypes' /\ doubtful[u] \subseteq doubtful'[u]
      /\ \A w \in Users \ {u} : at'[w] = at[w] /\ doubtful'[w] = doubtful[w]
  BY <1>1, <1>3 DEF QueueTypes
<1>5. at'[u] \in {"prompt", "leaving", "left"} =>
         \A i \in 1..Len(queue[u]) : queue[u][i] \in doubtful'[u]
  BY <1>1, <1>2 DEF QueueInv
<1>6. QueueInv(u)'
  BY <1>4, <1>5, QueueStays
<1>7. QED
  BY <1>4, <1>6, NothingRemoved

LEMMA GivenUp ==
    ASSUME KeepInv, ReadInv', NEW u \in Users, GiveUp(u), UNCHANGED <<files, inodes, queue>>
    PROVE  KeepInv' /\ Kept
<1>1. at' = [at EXCEPT ![u] = "prompt"] /\ doubtful' = [doubtful EXCEPT ![u] = @ \cup Queued(u)]
  BY DEF GiveUp, Return, Goes
<1>2. SameMarks
  BY DEF SameMarks
<1>3. QED
  BY <1>1, <1>2, LineGoesOn

\* The pipe a command reads is opened and queued.
LEMMA InputKeeps ==
    ASSUME KeepInv, ReadInv', NEW u \in Users, Input(u)
    PROVE  KeepInv' /\ Kept
<1> DEFINE from == Head(cmds[u]).from
<1>1. files' = files /\ at[u] = "input" /\ cmds[u] # << >>
  BY DEF Input
<1>2. CASE Goes(u, "output") /\ UNCHANGED <<inodes, queue, doubtful>>
  <2>1. at' = [at EXCEPT ![u] = "output"] /\ SameMarks
    BY <1>2 DEF Goes, SameMarks
  <2>2. QED
    BY <1>1, <1>2, <2>1, LineGoesOn
<1>3. CASE GiveUp(u) /\ UNCHANGED <<inodes, queue>>
  BY <1>1, <1>3, GivenUp
<1>4. CASE /\ from # 0 /\ files[from][u] # 0 /\ Goes(u, "output")
           /\ inodes' = [inodes EXCEPT ![files[from][u]].opened = TRUE]
           /\ queue' = [queue EXCEPT ![u] = Append(@, from)]
           /\ doubtful' = [doubtful EXCEPT ![u] = @ \cup (Queued(u) \cap {from})]
  <2>1. /\ queue \in [Users -> Seq(Users)] /\ doubtful \in [Users -> SUBSET Users]
        /\ at \in [Users -> Stages] /\ inodes \in Seq(File) /\ Len(inodes) \in Nat
        /\ QueueInv(u) /\ files \in [Users -> [Users -> 0..Len(inodes)]]
    BY LenProperties DEF KeepInv, QueueTypes, ReadInv, ShapeInv
  <2>2. from \in Users
    <3>1. Head(cmds[u]) \in Command
      BY <1>1, HeadTailProperties DEF KeepInv, ReadInv, ShapeInv
    <3>2. QED
      BY <1>4, <3>1 DEF Command
  <2> DEFINE k == files[from][u]
             e == [inodes[k] EXCEPT !.opened = TRUE]
             t == Append(queue[u], from)
  <2>3. k \in 1..Len(inodes)
    BY <1>4, <2>1, <2>2
  <2>4. e \in File /\ e.opened
    <3>1. PICK f \in File : f = inodes[k]
      BY <2>1, <2>3, ElementOfSeq
    <3>2. QED
      BY <3>1 DEF File
  <2>5. /\ t \in Seq(Users) /\ Len(t) = Len(queue[u]) + 1 /\ t[Len(queue[u]) + 1] = from
        /\ \A i \in 1..Len(queue[u]) : t[i] = queue[u][i]
        /\ Len(queue[u]) \in Nat
    BY <2>1, <2>2, AppendProperties, LenProperties
  <2>6. inodes' = [inodes EXCEPT ![k] = e] /\ queue' = [queue EXCEPT ![u] = t]
    BY <1>4
  <2>7. at' = [at EXCEPT ![u] = "output"]
    BY <1>4 DEF Goes
  <2>8. \A i \in 1..Len(queue[u]) : queue[u][i] \in Queued(u)
    BY <2>1, LenProperties DEF Queued
  <2>9. doubtful' = [doubtful EXCEPT ![u] = doubtful[u] \cup (Queued(u) \cap {from})]
    BY <1>4
  <2>10. files'[from][u] = k /\ k # 0 /\ inodes'[k].opened
    <3>1. files'[from][u] = k /\ k # 0
      BY <1>1, <1>4
    <3> HIDE DEF k, e
    <3>2. inodes'[k] = e
      BY <2>1, <2>3, <2>4, <2>6, ExceptSeq
    <3>3. QED
      BY <2>4, <3>1, <3>2
  <2> HIDE DEF k, e, t, from
  <2>11. SameMarks
    <3>1. \A n \in 1..Len(inodes) : [inodes EXCEPT ![k] = e][n] = IF n = k THEN e ELSE inodes[n]
      BY <2>1, <2>3, <2>4, ExceptSeq
    <3>2. QED
      BY <2>4, <2>6, <3>1 DEF SameMarks
  <2>12. /\ QueueTypes' /\ queue'[u] = t /\ doubtful'[u] = doubtful[u] \cup (Queued(u) \cap {from})
         /\ at'[u] = "output"
         /\ \A w \in Users \ {u} : at'[w] = at[w] /\ queue'[w] = queue[w] /\ doubtful'[w] = doubtful[w]
    BY <2>1, <2>2, <2>5, <2>6, <2>7, <2>9 DEF QueueTypes
  <2>13. ASSUME NEW i \in 1..Len(t), NEW x, x = t[i], x \notin doubtful'[u]
         PROVE  Opened(x, u)' /\ \A j \in 1..Len(t) : t[j] = x => j = i
    <3>1. CASE i = Len(queue[u]) + 1
      <4>1. x = from /\ x \notin Queued(u)
        BY <2>5, <2>12, <2>13, <3>1
      <4>2. \A j \in 1..Len(t) : t[j] = x => j = i
        BY <2>5, <2>8, <3>1, <4>1
      <4>3. QED
        BY <2>10, <4>1, <4>2 DEF Opened
    <3>2. CASE i \in 1..Len(queue[u])
      <4>1. x = queue[u][i] /\ x \notin doubtful[u] /\ x # from
        BY <2>5, <2>8, <2>12, <2>13, <3>2
      <4>2. Opened(x, u) /\ \A j \in 1..Len(queue[u]) : queue[u][j] = x => j = i
        BY <2>1, <3>2, <4>1 DEF QueueInv, Certain
      <4>3. x \in Users /\ files[x][u] \in 1..Len(inodes)
        <5>1. x \in Users
          BY <2>1, <3>2, <4>1, ElementOfSeq
        <5>2. files[x][u] # 0
          BY <4>2 DEF Opened
        <5>3. QED
          BY <2>1, <5>1, <5>2
      <4>4. Opened(x, u)'
        BY <1>1, <2>11, <4>2, <4>3 DEF Opened, SameMarks
      <4>5. QED
        BY <2>5, <3>2, <4>1, <4>2, <4>4
    <3>3. QED
      BY <2>5, <3>1, <3>2
  <2>14. QueueInv(u)'
    <3>1. ASSUME NEW i \in 1..Len(queue'[u]), queue'[u][i] \notin doubtful'[u] PROVE Certain(u, i)'
      BY <2>12, <2>13, <3>1 DEF Certain
    <3>2. QED
      BY <2>12, <3>1 DEF QueueInv
  <2>15. QED
    BY <1>1, <2>11, <2>12, <2>14, NothingRemoved
<1>5. QED
  BY <1>2, <1>3, <1>4 DEF Input

\* The rest of a line leaves the queue alone.
LEMMA LineKeeps ==
    ASSUME KeepInv, ReadInv', NEW u \in Users,
           \/ \E line \in Lines : StartLine(u, line)
           \/ Output(u) \/ Look(u) \/ CreateFails(u) \/ Wait(u) \/ Arrive(u)
    PROVE  KeepInv' /\ Kept
<1>1. files' = files /\ inodes' = inodes /\ queue' = queue
  BY DEF StartLine, Output, Look, CreateFails, Wait, Arrive
<1>2. SameMarks
  BY <1>1 DEF SameMarks
<1>3. CASE GiveUp(u)
  BY <1>1, <1>3, GivenUp
<1>4. ASSUME NEW where \in {"input", "look", "create", "removing"}, Goes(u, where), doubtful' = doubtful
      PROVE  KeepInv' /\ Kept
  <2>1. at' = [at EXCEPT ![u] = where]
    BY <1>4 DEF Goes
  <2>2. QED
    BY <1>1, <1>2, <1>4, <2>1, LineGoesOn
<1>5. CASE Arrive(u)
  <2>1. at' = [at EXCEPT ![u] = "prompt"] /\ at[u] = "left" /\ doubtful' = doubtful
    BY <1>5 DEF Arrive, Goes
  <2>2. QED
    BY <1>1, <1>2, <2>1, LineGoesOn
<1>6. QED
  BY <1>3, <1>4, <1>5 DEF StartLine, Output, Fork, Look, CreateFails, Wait

\* A new file has a name that was free.
LEMMA CreateKeeps ==
    ASSUME KeepInv, ReadInv', NEW u \in Users, Create(u)
    PROVE  KeepInv' /\ Kept
<1> DEFINE to == Head(cmds[u]).to
<1>1. /\ files[u][to] = 0 /\ files \in [Users -> [Users -> 0..Len(inodes)]]
      /\ inodes \in Seq(File) /\ Len(inodes) \in Nat
  BY LenProperties DEF Create, KeepInv, ReadInv, ShapeInv
<1>2. /\ inodes' = Append(inodes, Inode(u, to))
      /\ files' = [files EXCEPT ![u][to] = Len(inodes')]
      /\ at' = [at EXCEPT ![u] = "input"] /\ queue' = queue /\ doubtful' = doubtful
  BY <1>1 DEF Create, Fork, Goes
<1> HIDE DEF to
<1>3. \A x, y \in Users : files[x][y] # 0 => files'[x][y] = files[x][y]
  BY <1>1, <1>2
<1>4. SameMarks
  BY <1>1, <1>2 DEF SameMarks
<1>5. QED
  BY <1>2, <1>3, <1>4, LineGoesOn

\* The queue is empty in the end.
LEMMA EndKeeps ==
    ASSUME KeepInv, ReadInv', NEW u \in Users, EndLine(u) \/ Leave(u)
    PROVE  KeepInv' /\ Kept
<1>1. /\ queue \in [Users -> Seq(Users)] /\ doubtful \in [Users -> SUBSET Users]
      /\ at \in [Users -> Stages]
  BY DEF KeepInv, QueueTypes, ReadInv, ShapeInv
<1>2. /\ files' = files /\ inodes' = inodes /\ queue' = [queue EXCEPT ![u] = << >>]
      /\ doubtful' = [doubtful EXCEPT ![u] = {}]
      /\ \E where \in {"prompt", "left"} : at' = [at EXCEPT ![u] = where]
  BY <1>1 DEF EndLine, Leave, Return, Goes
<1>3. /\ queue'[u] = << >> /\ QueueTypes' /\ SameMarks
      /\ \A w \in Users \ {u} : at'[w] = at[w] /\ queue'[w] = queue[w] /\ doubtful'[w] = doubtful[w]
  <2>1. << >> \in Seq(Users)
    OBVIOUS
  <2>2. QED
    BY <1>1, <1>2, <2>1 DEF QueueTypes, SameMarks
<1>4. QueueInv(u)'
  BY <1>3 DEF QueueInv
<1>5. QED
  BY <1>2, <1>3, <1>4, NothingRemoved

\* What is removed has been opened, or its name is a doubtful one.
LEMMA UnlinkKeeps ==
    ASSUME KeepInv, ReadInv', NEW u \in Users, Unlink(u)
    PROVE  KeepInv' /\ Kept
<1>1. /\ queue \in [Users -> Seq(Users)] /\ QueueInv(u) /\ Len(queue[u]) \in Nat
      /\ files \in [Users -> [Users -> 0..Len(inodes)]]
  BY LenProperties DEF KeepInv, QueueTypes, ReadInv, ShapeInv
<1>2. PICK from \in Users : from = queue[u][1] /\ from = Head(queue[u])
  BY <1>1, EmptySeq, HeadTailProperties DEF Unlink
<1> DEFINE t == Tail(queue[u])
<1>3. /\ t \in Seq(Users) /\ Len(t) = Len(queue[u]) - 1 /\ 1 \in 1..Len(queue[u])
      /\ \A i \in 1..Len(t) : t[i] = queue[u][i + 1] /\ i + 1 \in 1..Len(queue[u]) /\ i + 1 # 1
  <2>1. queue[u] # << >> /\ Len(queue[u]) # 0
    <3>1. queue[u] # << >> /\ queue[u] \in Seq(Users)
      BY <1>1 DEF Unlink
    <3>2. QED
      BY <3>1, EmptySeq
  <2>2. t \in Seq(Users) /\ Len(t) = Len(queue[u]) - 1 /\ \A i \in 1..Len(t) : t[i] = queue[u][i + 1]
    BY <1>1, <2>1, HeadTailProperties
  <2> HIDE DEF t
  <2>3. 1 \in 1..Len(queue[u])
    BY <1>1, <2>1
  <2>4. ASSUME NEW i \in 1..Len(t) PROVE i + 1 \in 1..Len(queue[u]) /\ i + 1 # 1
    BY <1>1, <2>1, <2>2
  <2>5. QED
    BY <2>2, <2>3, <2>4
<1>4. /\ at[u] = "removing" /\ at' = at /\ queue' = [queue EXCEPT ![u] = t]
      /\ files' = [files EXCEPT ![from][u] = 0]
      /\ inodes' = inodes /\ doubtful' = doubtful
  BY <1>2 DEF Unlink
<1> HIDE DEF t
<1>5. /\ queue'[u] = t /\ QueueTypes'
      /\ \A w \in Users \ {u} : queue'[w] = queue[w]
  BY <1>1, <1>3, <1>4 DEF KeepInv, QueueTypes
<1>6. \A x, y \in Users : ~(x = from /\ y = u) => files'[x][y] = files[x][y]
  BY <1>1, <1>4
<1>7. Kept
  <2>1. from \in doubtful[u] \/ Opened(from, u)
    BY <1>1, <1>2, <1>3 DEF QueueInv, Certain
  <2>2. QED
    BY <1>4, <1>6, <2>1 DEF Kept, Opened
<1>8. \A w \in Users \ {u} : QueueInv(w)'
  <2>1. SameMarks
    BY <1>4 DEF SameMarks
  <2>2. QED
    BY <1>4, <1>5, <1>6, <2>1, QueueStays DEF KeepInv, QueueInv
<1>9. QueueInv(u)'
  <2>1. ASSUME NEW i \in 1..Len(t), NEW x, x = t[i], x \notin doubtful[u]
        PROVE  Opened(x, u)' /\ \A j \in 1..Len(t) : t[j] = x => j = i
    <3>1. x = queue[u][i + 1] /\ i + 1 \in 1..Len(queue[u]) /\ i + 1 # 1
      BY <1>3, <2>1
    <3>2. Opened(x, u) /\ \A j \in 1..Len(queue[u]) : queue[u][j] = x => j = i + 1
      BY <1>1, <2>1, <3>1 DEF QueueInv, Certain
    <3>3. x \in Users /\ x # from
      BY <1>1, <1>2, <1>3, <3>1, <3>2, ElementOfSeq
    <3>4. Opened(x, u)'
      BY <1>4, <1>6, <3>2, <3>3 DEF Opened
    <3>5. \A j \in 1..Len(t) : t[j] = x => j = i
      <4> SUFFICES ASSUME NEW j \in 1..Len(t), t[j] = x PROVE j = i
        OBVIOUS
      <4>1. j + 1 = i + 1
        BY <1>3, <3>2
      <4>2. QED
        BY <1>3, <4>1
    <3>6. QED
      BY <3>4, <3>5
  <2>2. ASSUME NEW i \in 1..Len(queue'[u]), queue'[u][i] \notin doubtful'[u] PROVE Certain(u, i)'
    BY <1>4, <1>5, <2>1, <2>2 DEF Certain
  <2>3. QED
    BY <1>4, <2>2 DEF QueueInv
<1>10. QED
  BY <1>5, <1>7, <1>8, <1>9 DEF KeepInv

\* Who leaves has nothing in the queue but what is doubtful.
LEMMA ExitKeeps ==
    ASSUME KeepInv, ReadInv', NEW u \in Users, Exit(u)
    PROVE  KeepInv' /\ Kept
<1>1. /\ at[u] = "prompt" /\ at' = [at EXCEPT ![u] = "leaving"]
      /\ files' = [from \in Users |-> [files[from] EXCEPT ![u] = 0]]
      /\ inodes' = inodes /\ queue' = queue /\ doubtful' = doubtful
  BY DEF Exit, Goes
<1>2. /\ at \in [Users -> Stages] /\ files \in [Users -> [Users -> 0..Len(inodes)]] /\ QueueInv(u)
  BY DEF KeepInv, ReadInv, ShapeInv
<1>3. /\ \A x \in Users, y \in Users \ {u} : files'[x][y] = files[x][y]
      /\ at'[u] = "leaving" /\ \A w \in Users \ {u} : at'[w] = at[w]
      /\ QueueTypes' /\ SameMarks
  BY <1>1, <1>2 DEF KeepInv, QueueTypes, SameMarks
<1>4. Kept
  BY <1>3 DEF Kept
<1>5. \A w \in Users \ {u} : QueueInv(w)'
  BY <1>1, <1>3, QueueStays DEF KeepInv, QueueInv
<1>6. QueueInv(u)'
  BY <1>1, <1>2 DEF QueueInv
<1>7. QED
  BY <1>3, <1>4, <1>5, <1>6 DEF KeepInv

\* Processes change what is in a file and whether it is written, nothing else.
LEMMA RunsKeep ==
    ASSUME KeepInv, ReadInv', NEW u \in Users, Runs(u)
    PROVE  KeepInv' /\ Kept
<1>1. PICK i \in DOMAIN procs[u] : Read(u, i) \/ Write(u, i) \/ End(u, i)
  BY DEF Runs
<1> DEFINE k == procs[u][i].out
<1>2. /\ files' = files /\ at' = at /\ queue' = queue /\ doubtful' = doubtful
      /\ \/ inodes' = inodes
         \/ inodes' = [inodes EXCEPT ![k] = [inodes[k] EXCEPT !.units = @ + 1]]
         \/ inodes' = [inodes EXCEPT ![k] = [inodes[k] EXCEPT !.writing = FALSE]]
  BY <1>1 DEF Read, Write, End, shellVars
<1> HIDE DEF k
<1>3. SameMarks
  <2>1. \A n \in 1..Len(inodes) : inodes[n] \in File /\ n \in DOMAIN inodes
    BY LenProperties, ElementOfSeq DEF KeepInv, ReadInv, ShapeInv
  <2>2. ASSUME NEW n \in 1..Len(inodes) PROVE inodes'[n].opened = inodes[n].opened
    BY <1>2, <2>1 DEF File
  <2>3. QED
    BY <2>2 DEF SameMarks
<1>4. QueueTypes'
  BY <1>2 DEF KeepInv, QueueTypes
<1>5. QueueInv(u)'
  BY <1>2, <1>3, <1>4, QueueStays DEF KeepInv, QueueInv
<1>6. QED
  BY <1>2, <1>3, <1>4, <1>5, NothingRemoved

LEMMA InitKeeps == Init => KeepInv
<1> SUFFICES ASSUME Init PROVE KeepInv
  OBVIOUS
<1>1. QueueTypes /\ \A u \in Users : QueueInv(u)
  BY EmptySeq DEF Init, QueueTypes, QueueInv
<1>2. QED
  BY <1>1, InitRead DEF KeepInv

LEMMA NextKeeps == KeepInv /\ [Next]_vars => KeepInv' /\ [Kept]_vars
<1> SUFFICES ASSUME KeepInv, [Next]_vars PROVE KeepInv' /\ [Kept]_vars
  OBVIOUS
<1>1. ReadInv'
  BY NextRead DEF KeepInv
<1>2. CASE UNCHANGED vars
  <2>1. UNCHANGED <<files, inodes, at, queue, doubtful>>
    BY <1>2 DEF vars
  <2>2. QueueTypes' /\ SameMarks
    BY <2>1 DEF KeepInv, QueueTypes, SameMarks
  <2>3. \A u \in Users : QueueInv(u)'
    BY <2>1, <2>2, QueueStays DEF KeepInv, QueueInv
  <2>4. QED
    BY <1>1, <1>2, <2>2, <2>3 DEF KeepInv
<1>3. ASSUME NEW u \in Users,
             \/ \E line \in Lines : StartLine(u, line)
             \/ Shell(u) \/ Runs(u) \/ Exit(u) \/ Arrive(u)
      PROVE  KeepInv' /\ Kept
  BY <1>1, <1>3, LineKeeps, InputKeeps, CreateKeeps, EndKeeps, UnlinkKeeps, ExitKeeps, RunsKeep
     DEF Shell
<1>4. QED
  BY <1>2, <1>3 DEF Next

\* A user pipe goes unread only when its receiver leaves or removes a name that
\* a line given up has left in its queue, or that a line has queued twice: for
\* any users, lines and visits.
THEOREM Keeping == Spec => KeptUntilOpened
<1>1. Kept <=> \A from, to \in Users :
          files[from][to] # 0 /\ files'[from][to] = 0 =>
              \/ inodes[files[from][to]].opened
              \/ at'[to] = "leaving"
              \/ at[to] = "removing" /\ from \in doubtful[to]
  BY DEF Kept
<1>2. QED
  BY <1>1, InitKeeps, NextKeeps, PTL DEF Spec, KeptUntilOpened
=============================================================================
