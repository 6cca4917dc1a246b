---------------------------- MODULE SharedMemory ----------------------------
(***************************************************************************)
(* The shared memory of np_multi_proc (multi_proc_SharedMemory.h): a table *)
(* of clients that every shell process scans, claims, reads and wipes      *)
(* without a lock, and the mailboxes in it, filled by the senders and      *)
(* emptied by the receiver's SIGUSR1 handler.                              *)
(*                                                                         *)
(* One step here is one access to the shared table, or a run of accesses   *)
(* nobody can tell apart.  A message buffer is [head, tail]: strncpy writes *)
(* it front to back and its first byte (the head) is what makes it taken.  *)
(* The look for a free buffer and the head are one step: only shells that  *)
(* share a position, or have none, look at the same buffers.               *)
(***************************************************************************)
EXTENDS Naturals, FiniteSets

CONSTANTS
    Shells,     \* the shell processes, one for each client
    Residents,  \* those of them that may be logged in at the start
    MaxUsers,   \* length of the table (35); element 0 is never claimed
    MaxMsgs,    \* message buffers for each pair of users (5)
    Names,      \* the names clients may take
    NoName,     \* "(no name)"
    Nobody,     \* an empty buffer, a pid of 0
    MaxOps      \* bound: commands the clients give, all together

\* Where a shell may be, besides between the scan for a name and its copy.
Labels ==
    {"scan", "fill", "number", "serve", "greet", "visit", "put", "tail", "kill", "prompt",
     "wipe", "wiperest", "leave", "gone"}

ASSUME SharedMemoryAssumption ==
    /\ Residents \subseteq Shells
    /\ IsFiniteSet(Residents)
    /\ Cardinality(Residents) < MaxUsers
    /\ Names \cap Labels = {}
    /\ MaxUsers \in Nat \ {0, 1}
    /\ MaxMsgs \in Nat \ {0}
    /\ Nobody \notin Shells
    /\ NoName \notin Names
    /\ MaxOps \in Nat

VARIABLES
    id, pid, name,   \* the header of each Client of the table
    msg,             \* msg[i][j][k]: k-th buffer of the mail from j to i
    serving_uid,     \* each shell's own position, 0 for none
    pc,              \* where each shell is
    i,               \* its loop variable: the position it looks at
    k,               \* the buffer it is filling
    after,           \* where its broadcast returns to
    pending,         \* SIGUSR1 pending
    handler,         \* where its signal handler is: <<j, k>>, or Idle
    shown,           \* has the handler printed the buffer it is at
    dead,            \* the shells that SIGPIPE killed, where they were
    ops,             \* commands given so far
    contested        \* history: positions found free with another shell in them

regVars == <<id, pid, name>>
mainVars == <<serving_uid, pc, i, k, after, ops, contested>>
sigVars == <<pending, handler, shown, dead>>
vars == <<regVars, msg, mainVars, sigVars>>

----------------------------------------------------------------------------
Positions == 0..(MaxUsers - 1)

Bufs == 1..MaxMsgs

Empty == [head |-> Nobody, tail |-> Nobody]

Mail == [head : Shells \cup {Nobody}, tail : Shells \cup {Nobody}]

NoMail == [j \in Positions |-> [b \in Bufs |-> Empty]]

Idle == <<>>

\* Buffers are visited row by row.
Order(c) == c[1] * MaxMsgs + c[2]

Cells == Positions \X Bufs

Alive(s) == s \notin dead /\ pc[s] # "gone"

\* A shell's main program is suspended while its handler runs.
Runs(s, label) == s \notin dead /\ pc[s] = label /\ handler[s] = Idle

Goto(s, label) == pc' = [pc EXCEPT ![s] = label]

----------------------------------------------------------------------------
\* Those logged in hold the first positions, in some order, names unset.
Init ==
    \E logged \in SUBSET Residents : \E seat \in [logged -> 1..Cardinality(logged)] :
        /\ \A s, t \in logged : seat[s] = seat[t] => s = t
        /\ id = [p \in Positions |-> IF \E s \in logged : seat[s] = p THEN p ELSE 0]
        /\ pid = [p \in Positions |->
                    IF \E s \in logged : seat[s] = p
                    THEN CHOOSE s \in logged : seat[s] = p ELSE Nobody]
        /\ name = [p \in Positions |-> NoName]
        /\ msg = [p \in Positions |-> NoMail]
        /\ serving_uid = [s \in Shells |-> IF s \in logged THEN seat[s] ELSE 0]
        /\ pc = [s \in Shells |-> IF s \in logged THEN "prompt" ELSE "scan"]
        /\ i = [s \in Shells |-> 1]
        /\ k = [s \in Shells |-> 1]
        /\ after = [s \in Shells |-> "prompt"]
        /\ pending = [s \in Shells |-> FALSE]
        /\ handler = [s \in Shells |-> Idle]
        /\ shown = [s \in Shells |-> FALSE]
        /\ dead = {}
        /\ ops = 0
        /\ contested = {}

----------------------------------------------------------------------------
(* insert_client: look for a free position and claim it, first its other   *)
(* fields, then its id, then serving_uid.  Between any two of these other  *)
(* shells run, and the shell's own handler, which reads element 0 until    *)
(* serving_uid is set.  With no position free serving_uid stays 0.         *)

\* A running shell that has position p, is about to have it, or still may
\* write to it.
Holds(t, p) ==
    /\ Alive(t)
    /\ \/ serving_uid[t] = p
       \/ pc[t] \in {"fill", "number", "serve"} /\ i[t] = p

Scan(s) ==
    /\ Runs(s, "scan")
    /\ IF i[s] = MaxUsers
       THEN Goto(s, "greet") /\ UNCHANGED <<i, contested>>
       ELSE IF id[i[s]] = 0
            THEN /\ Goto(s, "fill")
                 /\ contested' = contested \cup {p \in {i[s]} : \E t \in Shells : Holds(t, p)}
                 /\ UNCHANGED i
            ELSE i' = [i EXCEPT ![s] = @ + 1] /\ UNCHANGED <<pc, contested>>
    /\ UNCHANGED <<regVars, msg, serving_uid, k, after, ops, sigVars>>

\* Mutant: the pid is not stored.
FillWithoutPid(s) ==
    /\ Runs(s, "fill")
    /\ name' = [name EXCEPT ![i[s]] = NoName]
    /\ Goto(s, "number")
    /\ UNCHANGED <<id, pid, msg, serving_uid, i, k, after, ops, contested, sigVars>>

Fill(s) ==
    /\ Runs(s, "fill")
    /\ name' = [name EXCEPT ![i[s]] = NoName]
    /\ pid' = [pid EXCEPT ![i[s]] = s]
    /\ Goto(s, "number")
    /\ UNCHANGED <<id, msg, serving_uid, i, k, after, ops, contested, sigVars>>

Number(s) ==
    /\ Runs(s, "number")
    /\ id' = [id EXCEPT ![i[s]] = i[s]]
    /\ Goto(s, "serve")
    /\ UNCHANGED <<pid, name, msg, serving_uid, i, k, after, ops, contested, sigVars>>

Serve(s) ==
    /\ Runs(s, "serve")
    /\ serving_uid' = [serving_uid EXCEPT ![s] = i[s]]
    /\ Goto(s, "greet")
    /\ UNCHANGED <<regVars, msg, i, k, after, ops, contested, sigVars>>

StartBroadcast(s, returnTo) ==
    /\ Goto(s, "visit")
    /\ i' = [i EXCEPT ![s] = 1]
    /\ after' = [after EXCEPT ![s] = returnTo]

\* The welcome is out; the login message goes to everybody.
Greet(s) ==
    /\ Runs(s, "greet")
    /\ StartBroadcast(s, "prompt")
    /\ UNCHANGED <<regVars, msg, serving_uid, k, ops, contested, sigVars>>

----------------------------------------------------------------------------
(* broadcast and tell: put the message into the first free buffer of every *)
(* client (tell: of one), and send that client SIGUSR1.  With no buffer    *)
(* free the message is dropped for that client.                            *)
Free(p, s) == {b \in Bufs : msg[p][serving_uid[s]][b].head = Nobody}

First(S) == CHOOSE b \in S : \A c \in S : b <= c

\* The next client, or the end of the loop; tell has only one client.
Onward(s) ==
    IF after[s] = "told" \/ i[s] + 1 = MaxUsers
    THEN /\ Goto(s, IF after[s] = "told" THEN "prompt" ELSE after[s])
         /\ i' = [i EXCEPT ![s] = 1]
    ELSE /\ Goto(s, "visit")
         /\ i' = [i EXCEPT ![s] = @ + 1]

Visit(s) ==
    /\ Runs(s, "visit")
    /\ IF id[i[s]] > 0 THEN Goto(s, "put") /\ UNCHANGED i ELSE Onward(s)
    /\ UNCHANGED <<regVars, msg, serving_uid, k, after, ops, contested, sigVars>>

Put(s) ==
    /\ Runs(s, "put")
    /\ IF Free(i[s], s) # {}
       THEN LET b == First(Free(i[s], s))
            IN  /\ msg' = [msg EXCEPT ![i[s]][serving_uid[s]][b].head = s]
                /\ k' = [k EXCEPT ![s] = b]
                /\ Goto(s, "tail")
                /\ UNCHANGED i
       ELSE Onward(s) /\ UNCHANGED <<msg, k>>
    /\ UNCHANGED <<regVars, serving_uid, after, ops, contested, sigVars>>

WriteTail(s) ==
    /\ Runs(s, "tail")
    /\ msg' = [msg EXCEPT ![i[s]][serving_uid[s]][k[s]].tail = s]
    /\ Goto(s, "kill")
    /\ UNCHANGED <<regVars, serving_uid, i, k, after, ops, contested, sigVars>>

NextTaken(s, from) ==
    {c \in Cells : Order(c) >= from /\ msg[serving_uid[s]][c[1]][c[2]].head # Nobody}

FirstCell(S) == CHOOSE c \in S : \A d \in S : Order(c) <= Order(d)

\* Where the handler of s stands when it goes on from the buffer "from".
HandlerAt(s, from) ==
    IF NextTaken(s, from) = {} THEN Idle ELSE FirstCell(NextTaken(s, from))

\* kill(pid, SIGUSR1): pid 0, of a position just wiped, is the whole process
\* group, which every shell belongs to.
Signalled(p) ==
    IF pid[p] = Nobody THEN {s \in Shells : Alive(s)} ELSE {s \in {pid[p]} : Alive(s)}

\* A signal a process sends to itself is handled before kill returns; those
\* of the others arrive some time later.
Kill(s) ==
    /\ Runs(s, "kill")
    /\ LET S == Signalled(i[s])
       IN  /\ pending' = [t \in Shells |->
                            IF t = s /\ s \in S THEN FALSE ELSE pending[t] \/ t \in S]
           /\ handler' = [handler EXCEPT ![s] = IF s \in S THEN HandlerAt(s, 0) ELSE Idle]
    /\ Onward(s)
    /\ UNCHANGED <<regVars, msg, serving_uid, k, after, ops, contested, shown, dead>>

----------------------------------------------------------------------------
(* The commands                                                            *)

MayCommand(s) == Runs(s, "prompt") /\ ops < MaxOps

Count == ops' = ops + 1

Yell(s) ==
    /\ MayCommand(s)
    /\ Count
    /\ StartBroadcast(s, "prompt")
    /\ UNCHANGED <<regVars, msg, serving_uid, k, contested, sigVars>>

\* tell: nothing happens when the target does not exist.
Tell(s, who) ==
    /\ MayCommand(s)
    /\ Count
    /\ id[who] # 0
    /\ Goto(s, "put")
    /\ i' = [i EXCEPT ![s] = who]
    /\ after' = [after EXCEPT ![s] = "told"]
    /\ UNCHANGED <<regVars, msg, serving_uid, k, contested, sigVars>>

\* name: first the scan for a client of that name, then strcpy.
Taken(new) == \E p \in Positions : id[p] # 0 /\ name[p] = new

NameScan(s) ==
    /\ MayCommand(s)
    /\ \E new \in Names : ~Taken(new) /\ Goto(s, new)
    /\ Count
    /\ UNCHANGED <<regVars, msg, serving_uid, i, k, after, contested, sigVars>>

NameCopy(s) ==
    /\ s \notin dead
    /\ pc[s] \in Names
    /\ handler[s] = Idle
    /\ name' = [name EXCEPT ![serving_uid[s]] = pc[s]]
    /\ StartBroadcast(s, "prompt")
    /\ UNCHANGED <<id, pid, msg, serving_uid, k, ops, contested, sigVars>>

\* exit: ~Shell broadcasts, then remove_client overwrites the Client with an
\* empty one, its id first and its mail last, and the process ends.
Exit(s) ==
    /\ Runs(s, "prompt")
    /\ StartBroadcast(s, "wipe")
    /\ UNCHANGED <<regVars, msg, serving_uid, k, ops, contested, sigVars>>

WipeId(s) ==
    /\ Runs(s, "wipe")
    /\ id' = [id EXCEPT ![serving_uid[s]] = 0]
    /\ Goto(s, "wiperest")
    /\ UNCHANGED <<pid, name, msg, serving_uid, i, k, after, ops, contested, sigVars>>

WipeRest(s) ==
    /\ Runs(s, "wiperest")
    /\ LET me == serving_uid[s]
       IN  /\ pid' = [pid EXCEPT ![me] = Nobody]
           /\ name' = [name EXCEPT ![me] = NoName]
           /\ msg' = [msg EXCEPT ![me] = NoMail]
    /\ Goto(s, "leave")
    /\ UNCHANGED <<id, serving_uid, i, k, after, ops, contested, sigVars>>

Leave(s) ==
    /\ Runs(s, "leave")
    /\ Goto(s, "gone")
    /\ pending' = [pending EXCEPT ![s] = FALSE]
    /\ UNCHANGED <<regVars, msg, serving_uid, i, k, after, ops, contested, handler, shown, dead>>

\* The client goes away without exit, and the next output, the welcome, a
\* prompt or what the handler prints, raises SIGPIPE.  (At the end of file
\* getline returns an empty line for ever, and the check for emptiness comes
\* before the one for end of file, so the prompt is written again and again.)
\* Nothing is cleaned up.
Disconnect(s) ==
    /\ Alive(s)
    /\ \/ Runs(s, "greet") \/ Runs(s, "prompt")
       \/ handler[s] # Idle /\ ~shown[s]
    /\ dead' = dead \cup {s}
    /\ pending' = [pending EXCEPT ![s] = FALSE]
    /\ handler' = [handler EXCEPT ![s] = Idle]
    /\ UNCHANGED <<regVars, msg, mainVars, shown>>

----------------------------------------------------------------------------
(* The SIGUSR1 handler: it goes over its mail once, row by row, prints     *)
(* what it finds and clears it.  Another SIGUSR1 stays pending meanwhile.  *)
Advance(s, from) == handler' = [handler EXCEPT ![s] = HandlerAt(s, from)]

Deliver(s) ==
    /\ Alive(s)
    /\ pending[s]
    /\ handler[s] = Idle
    /\ pending' = [pending EXCEPT ![s] = FALSE]
    /\ Advance(s, 0)
    /\ UNCHANGED <<regVars, msg, mainVars, shown, dead>>

Show(s) ==
    /\ handler[s] # Idle
    /\ ~shown[s]
    /\ shown' = [shown EXCEPT ![s] = TRUE]
    /\ UNCHANGED <<regVars, msg, mainVars, pending, handler, dead>>

\* Mutant: the signals that came during the handler are forgotten.
ClearForgetting(s) ==
    /\ handler[s] # Idle
    /\ shown[s]
    /\ msg' = [msg EXCEPT ![serving_uid[s]][handler[s][1]][handler[s][2]] = Empty]
    /\ shown' = [shown EXCEPT ![s] = FALSE]
    /\ Advance(s, Order(handler[s]) + 1)
    /\ pending' = [pending EXCEPT ![s] = FALSE]
    /\ UNCHANGED <<regVars, mainVars, dead>>

Clear(s) ==
    /\ handler[s] # Idle
    /\ shown[s]
    /\ msg' = [msg EXCEPT ![serving_uid[s]][handler[s][1]][handler[s][2]] = Empty]
    /\ shown' = [shown EXCEPT ![s] = FALSE]
    /\ Advance(s, Order(handler[s]) + 1)
    /\ UNCHANGED <<regVars, mainVars, pending, dead>>

Handle(s) == Deliver(s) \/ Show(s) \/ Clear(s)

Main(s) ==
    \/ Scan(s) \/ Fill(s) \/ Number(s) \/ Serve(s) \/ Greet(s)
    \/ Visit(s) \/ Put(s) \/ WriteTail(s) \/ Kill(s) \/ NameCopy(s)
    \/ WipeId(s) \/ WipeRest(s) \/ Leave(s)

User(s) ==
    \/ Yell(s) \/ NameScan(s) \/ Exit(s) \/ Disconnect(s)
    \/ \E who \in Positions : Tell(s, who)

Done == (\A s \in Shells : ~Alive(s)) /\ UNCHANGED vars

Next == (\E s \in Shells : Main(s) \/ User(s) \/ Handle(s)) \/ Done

\* A shell that is not waiting for its client runs on, in its handler or
\* outside; clients need not do anything.
Spec == Init /\ [][Next]_vars /\ \A s \in Shells : WF_vars(Main(s) \/ Handle(s))

----------------------------------------------------------------------------
(* Properties                                                              *)

\* Every variable has its type.
TypeOK ==
    /\ id \in [Positions -> Positions]
    /\ pid \in [Positions -> Shells \cup {Nobody}]
    /\ name \in [Positions -> Names \cup {NoName}]
    /\ msg \in [Positions -> [Positions -> [Bufs -> Mail]]]
    /\ serving_uid \in [Shells -> Positions]
    /\ pc \in [Shells -> Names \cup Labels]
    /\ i \in [Shells -> 1..MaxUsers]
    /\ k \in [Shells -> Bufs]
    /\ after \in [Shells -> {"prompt", "wipe", "told"}]
    /\ pending \in [Shells -> BOOLEAN]
    /\ handler \in [Shells -> Cells \cup {Idle}]
    /\ shown \in [Shells -> BOOLEAN]
    /\ dead \subseteq Shells
    /\ ops \in 0..MaxOps
    /\ contested \subseteq Positions

\* A shell that has claimed a position and not begun to wipe it; SIGPIPE
\* leaves the position of a dead one as it is.
Seated(s) ==
    /\ pc[s] \notin {"scan", "fill", "number", "serve", "wiperest", "leave", "gone"}
    /\ serving_uid[s] # 0

\* The positions in doubt are those a newcomer found free while another shell
\* was claiming them, or wiping them.
Certain(s) == Seated(s) /\ serving_uid[s] \notin contested

\* A position belongs to the one shell that claimed it, as long as no shell
\* was let in before the claim, or the wiping, of another had ended: its
\* header says so, and no other shell serves it.
SeatsOwned ==
    /\ \A s \in Shells :
         Certain(s) => id[serving_uid[s]] = serving_uid[s] /\ pid[serving_uid[s]] = s
    /\ \A s, t \in Shells :
         Certain(s) /\ Seated(t) /\ serving_uid[s] = serving_uid[t] => s = t

\* Somebody has begun to put mail from j at position p and not signalled it:
\* it is about to, unless SIGPIPE killed it there.
Putting(t, p, j, b) ==
    pc[t] \in {"tail", "kill"} /\ i[t] = p /\ serving_uid[t] = j /\ k[t] = b

\* A shell that has just come in signals itself with its own login message.
WillSignalItself(s) ==
    \/ pc[s] = "greet"
    \/ /\ pc[s] \in {"visit", "put", "tail", "kill"}
       /\ i[s] <= serving_uid[s]
       /\ after[s] # "told"

\* No wake-up is lost: a taken buffer of a shell that serves its client has a
\* SIGUSR1 pending or coming for it, or the handler has yet to reach it.  A
\* sender that dies between the copy and the kill takes its signal with it.
NoLostWakeup ==
    \A s \in Shells, c \in Cells :
        /\ Certain(s)
        /\ Alive(s)
        /\ msg[serving_uid[s]][c[1]][c[2]].head # Nobody
        => \/ pending[s]
           \/ handler[s] # Idle /\ Order(handler[s]) <= Order(c)
           \/ \E t \in Shells : Putting(t, serving_uid[s], c[1], c[2])
           \/ WillSignalItself(s)

\* There is mail in cell c of the mailbox of s.
HasMail(s, c) == Certain(s) /\ msg[serving_uid[s]][c[1]][c[2]].head # Nobody

\* What becomes of it: the client is shown it, unless it leaves first, its
\* position becomes another's too, or the sender dies before it has signalled.
Settled(s, c) ==
    \/ handler[s] = c /\ shown[s]
    \/ ~Alive(s)
    \/ ~Certain(s)
    \/ \E t \in dead : Putting(t, serving_uid[s], c[1], c[2])

----------------------------------------------------------------------------
(* What the documents say and the code does not do                         *)

\* 4.2: the server assigns "a smallest unused id": no two users share one.
IdsUnique ==
    \A s, t \in Shells :
        Seated(s) /\ Seated(t) /\ serving_uid[s] = serving_uid[t] => s = t
============================================================================
