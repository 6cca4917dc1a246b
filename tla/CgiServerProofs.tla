--------------------------- MODULE CgiServerProofs ---------------------------
(***************************************************************************)
(* CgiServer, for any browsers, hosts and files: every session shows the   *)
(* dialogue with its own file, is made for the host that was named last,   *)
(* and the server dies of nothing but what it is not written to survive.   *)
(*                                                                         *)
(* A handler that stands in the middle of its writes is what the proofs    *)
(* turn on: while it has a line to send, its shell owes nothing and has    *)
(* not been told to exit, so that neither a second prompt nor the end of   *)
(* the shell can come between the line's way to the page and to the shell. *)
(***************************************************************************)
EXTENDS CgiServer, FiniteSetTheorems, SequenceTheorems, TLAPS

\* A browser that has not been served, and one that has.
Asking == {"away"} \cup Targets
Talking == {"open", "over", "closed", "reset"}

FileLines == {Script[f][i] : f \in Files, i \in Nat}

Texts == {"text", "prompt", ""} \cup FileLines

TypeInv ==
    /\ mode \in {"up", "dead"}
    /\ hosts = [s \in Slots |-> [f \in Fields |-> hosts[s][f]]]
    /\ served \in Seq(Browsers)
    /\ conn \in [Browsers -> Asking \cup Talking]
    /\ client \in [Sessions -> {"none", "resolving", "connecting", "reading", "closed"}]
    /\ host = [c \in Sessions |-> host[c]]
    /\ line \in [Sessions -> Nat]
    /\ page \in [Sessions -> Seq(Texts)]
    /\ shell \in [Sessions -> {"away", "owes", "midway", "idle", "gone"}]
    /\ asked = [c \in Sessions |-> asked[c]]
    /\ out \in [Sessions -> {"none", "text", "prompt"}]
    /\ busy \in Sessions \cup {Nobody}

\* One of those who named a field did it last.
SomeLast(n, s, f) ==
    Namers(n, s, f) # {} => \E k \in Namers(n, s, f) : \A m \in Namers(n, s, f) : m <= k

\* The table of hosts is what the requests so far have made of it.
ServedInv ==
    /\ \A n \in 1..Len(served) : conn[served[n]] \notin Asking
    /\ \A m, n \in 1..Len(served) : served[m] = served[n] => m = n
    /\ \A c \in Sessions : client[c] # "none" => \E n \in 1..Len(served) : served[n] = c[1]
    /\ \A n \in 0..Len(served) : \A s \in Slots : \A f \in Fields : SomeLast(n, s, f)
    /\ \A s \in Slots : \A f \in Fields : hosts[s][f] = LastSaid(Len(served), s, f)
    /\ \A s \in Slots : hosts[s].file \in Files
    /\ \A c \in Sessions : client[c] # "none" => host[c].file \in Files

\* A shell that waits for its next line.
Silent(c) == out[c] = "none" /\ shell[c] \in {"idle", "gone"} /\ asked[c] # "exit"

\* What a handler has still to write.
Handling(c) ==
    LET l == LineAt(c, line[c])
    IN  \/ todo = <<ToBrowser("text")>>
        \/ /\ line[c] > 0
           /\ \/ todo = <<ToBrowser("prompt"), ToBrowser(l), ToShell(l)>>
              \/ todo = <<ToBrowser(l), ToShell(l)>>
              \/ todo = <<ToShell(l)>>
           /\ Silent(c)

\* The prompts and lines it has still to write into the page.
Unsaid(c) == IF busy = c /\ Len(todo) > 1 THEN Len(todo) - 1 ELSE 0

SaidOf(c) == Said(page[c], Len(page[c]))

DialogueOf(c) ==
    \A n \in 1..Len(page[c]) :
        page[c][n] # "text" =>
            page[c][n] = IF Said(page[c], n) % 2 = 1 THEN "prompt"
                         ELSE LineAt(c, Said(page[c], n) \div 2)

SessionInv(c) ==
    /\ conn[c[1]] \in Asking => client[c] = "none"
    /\ client[c] \in {"none", "resolving", "connecting"} =>
          /\ shell[c] = "away" /\ out[c] = "none" /\ busy # c
          /\ line[c] = 0 /\ page[c] = << >>
    /\ out[c] = "prompt" => shell[c] \in {"idle", "gone"} /\ asked[c] # "exit"
    /\ shell[c] = "gone" /\ asked[c] # "exit" => c \in Dying
    /\ busy = c => Handling(c)
    /\ conn[c[1]] = "open" => SaidOf(c) + Unsaid(c) = 2 * line[c]
    /\ DialogueOf(c)

\* Only who may leave has left.
LeftInv == \A b \in Browsers : conn[b] \in {"closed", "reset"} => b \in Leaving

IInv ==
    /\ TypeInv
    /\ ServedInv
    /\ LeftInv
    /\ \A c \in Sessions : SessionInv(c)
    /\ LastNamed
    /\ Contained

----------------------------------------------------------------------------
(* Facts about the operators                                               *)

LEMMA Parts ==
    ASSUME NEW c \in Sessions
    PROVE  c[1] \in Browsers /\ c[2] \in Slots /\ c = <<c[1], c[2]>> /\ c # Nobody
<1>1. c[1] \in Browsers /\ c[2] \in Slots /\ c = <<c[1], c[2]>>
  BY DEF Sessions
<1>2. c # Nobody
  BY <1>1 DEF Nobody
<1>3. QED
  BY <1>1, <1>2

\* What is left of a handler's writes after one of them.
LEMMA Rest ==
    ASSUME NEW x, NEW y, NEW z
    PROVE  /\ Head(<<x>>) = x /\ Head(<<x, y>>) = x /\ Head(<<x, y, z>>) = x
           /\ Tail(<<x>>) = << >> /\ Tail(<<x, y>>) = <<y>> /\ Tail(<<x, y, z>>) = <<y, z>>
           /\ Len(<<x>>) = 1 /\ Len(<<x, y>>) = 2 /\ Len(<<x, y, z>>) = 3
           /\ <<x>> # << >> /\ <<x, y>> # << >> /\ <<x, y, z>> # << >>
OBVIOUS

\* One text more on a page.
LEMMA SaidMore ==
    ASSUME NEW S, NEW s \in Seq(S), NEW x \in S
    PROVE  /\ \A n \in 1..Len(s) : Said(Append(s, x), n) = Said(s, n)
           /\ Said(Append(s, x), Len(s) + 1) = IF x = "text" THEN Said(s, Len(s)) ELSE Said(s, Len(s)) + 1
           /\ Said(s, Len(s)) \in Nat
<1> DEFINE t == Append(s, x)
           m == Len(s)
           Of(q, n) == {i \in 1..n : q[i] # "text"}
<1>1. m \in Nat /\ t[m + 1] = x /\ \A i \in 1..m : t[i] = s[i]
  BY AppendProperties, LenProperties
<1>2. IsFiniteSet(Of(s, m)) /\ Cardinality(Of(s, m)) \in Nat
  <2>1. IsFiniteSet(1..m)
    BY <1>1, FS_Interval
  <2>2. IsFiniteSet(Of(s, m))
    BY <2>1, FS_Subset
  <2>3. QED
    BY <2>2, FS_CardinalityType
<1> HIDE DEF t, m
<1>3. \A n \in 1..m : Of(t, n) = Of(s, n)
  BY <1>1
<1>4. x = "text" => Of(t, m + 1) = Of(s, m)
  BY <1>1
<1>5. x # "text" => Of(t, m + 1) = Of(s, m) \cup {m + 1}
  BY <1>1
<1>6. m + 1 \notin Of(s, m)
  BY <1>1
<1> HIDE DEF Of
<1>7. Cardinality(Of(s, m) \cup {m + 1}) = Cardinality(Of(s, m)) + 1
  BY <1>2, <1>6, FS_AddElement
<1>8. /\ \A n \in 1..m : Cardinality(Of(t, n)) = Cardinality(Of(s, n))
      /\ Cardinality(Of(t, m + 1)) = IF x = "text" THEN Cardinality(Of(s, m)) ELSE Cardinality(Of(s, m)) + 1
  BY <1>3, <1>4, <1>5, <1>7
<1>9. QED
  BY <1>2, <1>8 DEF Said, Of, t, m

\* Nothing has been said on an empty page.
LEMMA SaidNothing == Said(<< >>, 0) = 0
<1>1. {i \in 1..0 : << >>[i] # "text"} = {}
  OBVIOUS
<1>2. QED
  BY <1>1, FS_EmptySet DEF Said

\* A line of a file is never what stands for the output of a shell.
LEMMA NoText ==
    ASSUME NEW c \in Sessions, host[c].file \in Files, NEW n \in Nat \ {0}
    PROVE  LineAt(c, n) # "text" /\ LineAt(c, n) \in Texts
<1> DEFINE lines == Script[host[c].file]
<1>1. CASE n <= Len(lines)
  <2>1. LineAt(c, n) = lines[n]
    BY <1>1 DEF LineAt
  <2>2. lines[n] \in FileLines
    BY DEF FileLines
  <2>3. lines[n] # "text"
    BY <1>1, CgiServerAssumption
  <2>4. lines[n] \in Texts
    BY <2>2 DEF Texts
  <2>5. QED
    BY <2>1, <2>3, <2>4
<1>2. CASE ~(n <= Len(lines))
  BY <1>2 DEF LineAt, Texts
<1>3. QED
  BY <1>1, <1>2

----------------------------------------------------------------------------
(* What a step leaves alone                                                *)

\* Nobody asks, is served or leaves who could not.
ConnLater ==
    \A b \in Browsers :
        /\ conn'[b] \in Asking => conn[b] \in Asking
        /\ conn'[b] = "open" => conn[b] = "open"
        /\ conn'[b] \in {"closed", "reset"} => b \in Leaving

\* No session begins.
TablesStay ==
    /\ UNCHANGED <<hosts, served, host>>
    /\ \A c \in Sessions : client'[c] # "none" => client[c] # "none"

SessionStays(d) ==
    /\ client'[d] = client[d] /\ line'[d] = line[d] /\ page'[d] = page[d]
    /\ shell'[d] = shell[d] /\ asked'[d] = asked[d] /\ out'[d] = out[d]
    /\ busy' = d <=> busy = d
    /\ busy = d => todo' = todo

\* The reasons there may be for the end of the server.
Excuse ==
    \/ \E b \in Browsers : conn[b] = "throws"
    \/ \E b \in Leaving : conn[b] = "reset"
    \/ \E c \in Dying : shell[c] = "gone" /\ asked[c] # "exit"

ExcuseStays ==
    /\ mode' = mode
    /\ \A b \in Browsers : conn[b] \in {"throws", "reset"} => conn'[b] = conn[b]
    /\ \A c \in Sessions : shell[c] = "gone" => shell'[c] = "gone" /\ asked'[c] = asked[c]

LEMMA Excused == ASSUME Contained, ExcuseStays PROVE Contained'
<1>1. Excuse => Excuse'
  <2>1. Leaving \subseteq Browsers /\ Dying \subseteq Sessions
    BY CgiServerAssumption
  <2>2. QED
    BY <2>1 DEF Excuse, ExcuseStays
<1>2. QED
  BY <1>1 DEF Contained, Excuse, ExcuseStays

LEMMA SameLines ==
    ASSUME host' = host, NEW c, NEW n
    PROVE  LineAt(c, n)' = LineAt(c, n)
BY DEF LineAt

LEMMA SameNames ==
    ASSUME served' = served, NEW n, NEW s, NEW f
    PROVE  LastSaid(n, s, f)' = LastSaid(n, s, f) /\ SomeLast(n, s, f)' = SomeLast(n, s, f)
BY DEF LastSaid, SomeLast, Namers

LEMMA ServedStays ==
    ASSUME IInv, ConnLater, TablesStay
    PROVE  ServedInv' /\ LeftInv' /\ LastNamed'
<1>1. /\ served \in Seq(Browsers) /\ hosts' = hosts /\ served' = served /\ host' = host
      /\ \A n \in 1..Len(served) : served[n] \in Browsers
      /\ \A n, s, f : LastSaid(n, s, f)' = LastSaid(n, s, f) /\ SomeLast(n, s, f)' = SomeLast(n, s, f)
  BY SameNames, ElementOfSeq DEF TablesStay, IInv, TypeInv
<1>2. ServedInv'
  <2>1. \A n \in 1..Len(served') : conn'[served'[n]] \notin Asking
    BY <1>1 DEF ConnLater, IInv, ServedInv
  <2>2. \A s \in Slots : \A f \in Fields : hosts'[s][f] = LastSaid(Len(served), s, f)'
    BY <1>1 DEF IInv, ServedInv
  <2>3. \A m, n \in 1..Len(served') : served'[m] = served'[n] => m = n
    BY <1>1 DEF IInv, ServedInv
  <2>4. \A c \in Sessions : client'[c] # "none" => \E n \in 1..Len(served') : served'[n] = c[1]
    BY <1>1 DEF IInv, ServedInv, TablesStay
  <2>5. /\ \A s \in Slots : hosts'[s].file \in Files
        /\ \A c \in Sessions : client'[c] # "none" => host'[c].file \in Files
    BY <1>1 DEF IInv, ServedInv, TablesStay
  <2>6. \A n \in 0..Len(served') : \A s \in Slots : \A f \in Fields : SomeLast(n, s, f)'
    BY <1>1 DEF IInv, ServedInv
  <2>7. QED
    BY <1>1, <2>1, <2>2, <2>3, <2>4, <2>5, <2>6 DEF ServedInv
<1>3. LastNamed'
  <2>1. \A b : Turn(b)' = Turn(b)
    BY <1>1 DEF Turn
  <2>2. QED
    BY <1>1, <2>1 DEF LastNamed, IInv, TablesStay
<1>4. QED
  BY <1>2, <1>3 DEF ConnLater, LeftInv

LEMMA OthersStay ==
    ASSUME IInv, NEW d \in Sessions, SessionStays(d), host'[d] = host[d],
           conn'[d[1]] \in Asking => conn[d[1]] \in Asking,
           conn'[d[1]] = "open" => conn[d[1]] = "open"
    PROVE  SessionInv(d)'
<1>1. d[1] \in Browsers /\ SessionInv(d)
  BY Parts DEF IInv
<1>2. \A n : LineAt(d, n)' = LineAt(d, n)
  BY DEF LineAt
<1>3. /\ conn'[d[1]] \in Asking => conn[d[1]] \in Asking
      /\ conn'[d[1]] = "open" => conn[d[1]] = "open"
  OBVIOUS
<1>4. /\ client'[d] = client[d] /\ line'[d] = line[d] /\ page'[d] = page[d]
      /\ shell'[d] = shell[d] /\ asked'[d] = asked[d] /\ out'[d] = out[d]
      /\ busy' = d <=> busy = d
      /\ busy = d => todo' = todo
  BY DEF SessionStays
<1>5. busy' = d => Handling(d)'
  <2>1. LineAt(d, line[d])' = LineAt(d, line[d])
    BY <1>1, <1>4 DEF LineAt
  <2>2. QED
    BY <1>1, <1>4, <2>1 DEF SessionInv, Handling, Silent
<1>6. DialogueOf(d)'
  <2>1. \A n : Said(page'[d], n) = Said(page[d], n)
    BY <1>4
  <2>2. QED
    BY <1>1, <1>2, <1>4, <2>1 DEF SessionInv, DialogueOf
<1>7. conn'[d[1]] = "open" => SaidOf(d)' + Unsaid(d)' = 2 * line'[d]
  BY <1>1, <1>3, <1>4 DEF SessionInv, SaidOf, Unsaid
<1>8. QED
  BY <1>1, <1>3, <1>4, <1>5, <1>6, <1>7 DEF SessionInv

\* A step of one session.
LEMMA OneSession ==
    ASSUME IInv, TypeInv', ConnLater, TablesStay, NEW c \in Sessions, SessionInv(c)',
           \A d \in Sessions \ {c} : SessionStays(d), Contained'
    PROVE  IInv'
<1>1. \A d \in Sessions \ {c} : SessionInv(d)'
  BY Parts, OthersStay DEF ConnLater, TablesStay
<1>2. QED
  BY <1>1, ServedStays DEF IInv

\* A step of no session.
LEMMA NoSession ==
    ASSUME IInv, TypeInv', ConnLater, TablesStay,
           \A d \in Sessions : SessionStays(d), Contained'
    PROVE  IInv'
<1>1. \A d \in Sessions : SessionInv(d)'
  BY Parts, OthersStay DEF ConnLater, TablesStay
<1>2. QED
  BY <1>1, ServedStays DEF IInv

----------------------------------------------------------------------------
(* The requests                                                            *)

LEMMA AskInv ==
    ASSUME IInv, NEW b \in Browsers, Ask(b)
    PROVE  IInv'
<1>1. PICK target \in Target[b] : conn' = [conn EXCEPT ![b] = target]
  BY DEF Ask
<1>2. /\ conn[b] = "away" /\ target \in Targets
      /\ UNCHANGED <<mode, hosts, served, host, client, line, page, shell, asked, out, busy, todo>>
  BY CgiServerAssumption DEF Ask, requestVars, shellVars, handlerVars
<1>3. TypeInv'
  BY <1>1, <1>2 DEF IInv, TypeInv, Asking
<1>4. ConnLater
  BY <1>1, <1>2 DEF IInv, TypeInv, LeftInv, ConnLater, Asking, Targets
<1>5. TablesStay /\ \A d \in Sessions : SessionStays(d)
  BY <1>2 DEF TablesStay, SessionStays
<1>6. ExcuseStays
  BY <1>1, <1>2 DEF ExcuseStays, IInv, TypeInv
<1>7. QED
  BY <1>3, <1>4, <1>5, <1>6, NoSession, Excused DEF IInv

LEMMA ServeAtOnceInv ==
    ASSUME IInv, NEW b \in Browsers, ServeAtOnce(b)
    PROVE  IInv'
<1>1. /\ mode = "up" /\ conn[b] \in {"panel", "other"} /\ conn' = [conn EXCEPT ![b] = "over"]
      /\ UNCHANGED <<mode, hosts, served, host, client, line, page, shell, asked, out, busy, todo>>
  BY DEF ServeAtOnce, Free, requestVars, shellVars, handlerVars
<1>2. TypeInv'
  BY <1>1 DEF IInv, TypeInv, Talking
<1>3. ConnLater
  BY <1>1 DEF IInv, TypeInv, LeftInv, ConnLater, Asking, Targets
<1>4. TablesStay /\ \A d \in Sessions : SessionStays(d)
  BY <1>1 DEF TablesStay, SessionStays
<1>5. Contained'
  BY <1>1 DEF Contained
<1>6. QED
  BY <1>2, <1>3, <1>4, <1>5, NoSession

\* The parser throws, and the server ends.
LEMMA ServeThrowsInv ==
    ASSUME IInv, NEW b \in Browsers, ServeThrows(b)
    PROVE  IInv'
<1>1. /\ conn[b] = "throws" /\ mode' = "dead"
      /\ UNCHANGED <<hosts, served, host, conn, client, line, page, shell, asked, out, busy, todo>>
  BY DEF ServeThrows, requestVars, shellVars, handlerVars
<1>2. TypeInv'
  BY <1>1 DEF IInv, TypeInv
<1>3. ConnLater /\ TablesStay /\ \A d \in Sessions : SessionStays(d)
  BY <1>1 DEF IInv, LeftInv, ConnLater, TablesStay, SessionStays
<1>4. Contained'
  BY <1>1 DEF Contained
<1>5. QED
  BY <1>2, <1>3, <1>4, NoSession

LEMMA ReceiveInv ==
    ASSUME IInv, NEW b \in Browsers, Receive(b)
    PROVE  IInv'
<1>1. UNCHANGED <<mode, hosts, served, host, conn, client, line, page, shell, asked, out, busy, todo>>
  BY DEF Receive, requestVars, shellVars, handlerVars
<1>2. TypeInv'
  BY <1>1 DEF IInv, TypeInv
<1>3. ConnLater /\ TablesStay /\ \A d \in Sessions : SessionStays(d)
  BY <1>1 DEF IInv, LeftInv, ConnLater, TablesStay, SessionStays
<1>4. ExcuseStays
  BY <1>1 DEF ExcuseStays
<1>5. QED
  BY <1>2, <1>3, <1>4, NoSession, Excused DEF IInv

LEMMA LeaveInv ==
    ASSUME IInv, NEW b \in Browsers, Leave(b)
    PROVE  IInv'
<1>1. PICK state \in {"closed", "reset"} : conn' = [conn EXCEPT ![b] = state]
  BY DEF Leave
<1>2. /\ conn[b] = "open" /\ b \in Leaving
      /\ UNCHANGED <<mode, hosts, served, host, client, line, page, shell, asked, out, busy, todo>>
  BY DEF Leave, requestVars, shellVars, handlerVars
<1>3. TypeInv'
  BY <1>1, <1>2 DEF IInv, TypeInv, Talking
<1>4. ConnLater
  BY <1>1, <1>2 DEF IInv, TypeInv, LeftInv, ConnLater, Asking, Targets
<1>5. TablesStay /\ \A d \in Sessions : SessionStays(d)
  BY <1>2 DEF TablesStay, SessionStays
<1>6. ExcuseStays
  BY <1>1, <1>2 DEF ExcuseStays, IInv, TypeInv
<1>7. QED
  BY <1>3, <1>4, <1>5, <1>6, NoSession, Excused DEF IInv

----------------------------------------------------------------------------
(* The steps of a session                                                  *)

LEMMA Ending ==
    ASSUME IInv, NEW c \in Sessions, End(c)
    PROVE  /\ client' = [client EXCEPT ![c] = "closed"] /\ ConnLater
           /\ conn' \in [Browsers -> Asking \cup Talking]
           /\ client' \in [Sessions -> {"none", "resolving", "connecting", "reading", "closed"}]
<1>1. client' = [client EXCEPT ![c] = "closed"] /\ c[1] \in Browsers
  BY Parts DEF End
<1>2. PICK state \in {conn[c[1]], "over"} :
         conn' = [conn EXCEPT ![c[1]] = state] /\ (state = conn[c[1]] \/ conn[c[1]] = "open")
  BY DEF End
<1>3. conn' \in [Browsers -> Asking \cup Talking]
  BY <1>1, <1>2 DEF IInv, TypeInv, Talking
<1>4. ConnLater
  BY <1>1, <1>2 DEF IInv, TypeInv, LeftInv, ConnLater, Asking, Targets
<1>5. QED
  BY <1>1, <1>3, <1>4 DEF IInv, TypeInv

\* Without a line on its way, a session needs little of its invariant.
LEMMA NothingPending ==
    ASSUME NEW c \in Sessions, SessionInv(c), ConnLater, host' = host,
           line'[c] = line[c], page'[c] = page[c], busy # c, busy' # c,
           client'[c] \notin {"none", "resolving", "connecting"},
           conn[c[1]] \notin Asking,
           out'[c] = "prompt" => shell'[c] \in {"idle", "gone"} /\ asked'[c] # "exit",
           shell'[c] = "gone" /\ asked'[c] # "exit" => c \in Dying
    PROVE  SessionInv(c)'
<1>1. /\ conn'[c[1]] \notin Asking /\ (conn'[c[1]] = "open" => conn[c[1]] = "open")
  BY Parts DEF ConnLater
<1>2. DialogueOf(c)'
  <2>1. /\ \A n : Said(page'[c], n) = Said(page[c], n)
        /\ \A n : LineAt(c, n)' = LineAt(c, n)
    BY SameLines
  <2>2. QED
    BY <2>1 DEF SessionInv, DialogueOf
<1>3. conn'[c[1]] = "open" => SaidOf(c)' + Unsaid(c)' = 2 * line'[c]
  BY <1>1 DEF SessionInv, SaidOf, Unsaid
<1>4. QED
  BY <1>1, <1>2, <1>3 DEF SessionInv

LEMMA ResolvedInv ==
    ASSUME IInv, NEW c \in Sessions, Resolved(c)
    PROVE  IInv'
<1>1. /\ mode = "up" /\ busy = Nobody /\ client[c] = "resolving"
      /\ UNCHANGED <<mode, hosts, served, host, line, page, shell, asked, out, busy, todo>>
  BY DEF Resolved, Free, requestVars, shellVars, handlerVars
<1>2. SessionInv(c) /\ c # Nobody /\ TypeInv
  BY Parts DEF IInv
<1>3. Contained'
  BY <1>1 DEF Contained
<1>4. CASE client' = [client EXCEPT ![c] = "connecting"] /\ conn' = conn
  <2>1. TypeInv' /\ ConnLater /\ TablesStay
    BY <1>1, <1>4 DEF IInv, TypeInv, LeftInv, ConnLater, TablesStay
  <2>2. \A d \in Sessions \ {c} : SessionStays(d)
    BY <1>1, <1>4 DEF IInv, TypeInv, SessionStays
  <2>3. SessionInv(c)'
    <3>1. client'[c] = "connecting" /\ conn'[c[1]] \notin Asking
      BY <1>1, <1>2, <1>4 DEF TypeInv, SessionInv
    <3>2. DialogueOf(c)' /\ (conn'[c[1]] = "open" => SaidOf(c)' + Unsaid(c)' = 2 * line'[c])
      <4>1. /\ \A n : Said(page'[c], n) = Said(page[c], n)
            /\ \A n : LineAt(c, n)' = LineAt(c, n)
        BY <1>1, SameLines
      <4>2. QED
        BY <4>1, <1>1, <1>2, <1>4 DEF SessionInv, DialogueOf, SaidOf, Unsaid
    <3>3. QED
      BY <3>1, <3>2, <1>1, <1>2, <1>4 DEF SessionInv
  <2>4. QED
    BY <2>1, <2>2, <2>3, <1>3, OneSession
<1>5. CASE End(c)
  <2>1. client' = [client EXCEPT ![c] = "closed"] /\ ConnLater
    BY <1>5, Ending
  <2>2. TypeInv' /\ TablesStay
    BY <1>1, <1>5, Ending DEF IInv, TypeInv, TablesStay
  <2>3. \A d \in Sessions \ {c} : SessionStays(d)
    BY <1>1, <2>1 DEF IInv, TypeInv, SessionStays
  <2>4. SessionInv(c)'
    BY <1>1, <1>2, <2>1, NothingPending DEF SessionInv, TypeInv
  <2>5. QED
    BY <2>1, <2>2, <2>3, <2>4, <1>3, OneSession
<1>6. QED
  BY <1>4, <1>5 DEF Resolved

LEMMA ConnectedInv ==
    ASSUME IInv, NEW c \in Sessions, Connected(c)
    PROVE  IInv'
<1>1. /\ mode = "up" /\ busy = Nobody /\ client[c] = "connecting"
      /\ UNCHANGED <<mode, hosts, served, host, line, page, asked, out, busy, todo>>
  BY DEF Connected, Free, requestVars, handlerVars
<1>2. SessionInv(c) /\ c # Nobody /\ TypeInv
  BY Parts DEF IInv
<1>3. Contained'
  BY <1>1 DEF Contained
<1>4. CASE /\ client' = [client EXCEPT ![c] = "reading"] /\ conn' = conn
           /\ shell' = [shell EXCEPT ![c] = "owes"]
  <2>1. TypeInv' /\ ConnLater /\ TablesStay
    BY <1>1, <1>4 DEF IInv, TypeInv, LeftInv, ConnLater, TablesStay
  <2>2. \A d \in Sessions \ {c} : SessionStays(d)
    BY <1>1, <1>4 DEF IInv, TypeInv, SessionStays
  <2>3. SessionInv(c)'
    <3>1. /\ client'[c] = "reading" /\ conn[c[1]] \notin Asking /\ shell'[c] = "owes" /\ out'[c] = "none"
          /\ busy # c /\ busy' # c /\ line'[c] = line[c] /\ page'[c] = page[c] /\ host' = host
      BY <1>1, <1>2, <1>4 DEF SessionInv, TypeInv
    <3>2. QED
      BY <3>1, <1>2, <2>1, NothingPending
  <2>4. QED
    BY <2>1, <2>2, <2>3, <1>3, OneSession
<1>5. CASE End(c) /\ shell' = shell
  <2>1. client' = [client EXCEPT ![c] = "closed"] /\ ConnLater
    BY <1>5, Ending
  <2>2. TypeInv' /\ TablesStay
    BY <1>1, <1>5, Ending DEF IInv, TypeInv, TablesStay
  <2>3. \A d \in Sessions \ {c} : SessionStays(d)
    BY <1>1, <1>5, <2>1 DEF IInv, TypeInv, SessionStays
  <2>4. SessionInv(c)'
    BY <1>1, <1>2, <1>5, <2>1, NothingPending DEF SessionInv, TypeInv
  <2>5. QED
    BY <2>1, <2>2, <2>3, <2>4, <1>3, OneSession
<1>6. QED
  BY <1>4, <1>5 DEF Connected

LEMMA ReadErrorInv ==
    ASSUME IInv, NEW c \in Sessions, ReadError(c)
    PROVE  IInv'
<1>1. /\ mode = "up" /\ busy = Nobody /\ client[c] = "reading" /\ End(c)
      /\ UNCHANGED <<mode, hosts, served, host, line, page, shell, asked, out, busy, todo>>
  BY DEF ReadError, Free, requestVars, shellVars, handlerVars
<1>2. SessionInv(c) /\ c # Nobody /\ TypeInv
  BY Parts DEF IInv
<1>3. Contained'
  BY <1>1 DEF Contained
<1>4. client' = [client EXCEPT ![c] = "closed"] /\ ConnLater
  BY <1>1, Ending
<1>5. TypeInv' /\ TablesStay
  BY <1>1, Ending DEF IInv, TypeInv, TablesStay
<1>6. \A d \in Sessions \ {c} : SessionStays(d)
  BY <1>1, <1>4 DEF IInv, TypeInv, SessionStays
<1>7. SessionInv(c)'
  BY <1>1, <1>2, <1>4, NothingPending DEF SessionInv, TypeInv
<1>8. QED
  BY <1>3, <1>4, <1>5, <1>6, <1>7, OneSession

\* A page that is not written to.
LEMMA PageStays ==
    ASSUME NEW c \in Sessions, SessionInv(c), ConnLater, host' = host,
           line'[c] = line[c], page'[c] = page[c], Unsaid(c)' = Unsaid(c)
    PROVE  DialogueOf(c)' /\ (conn'[c[1]] = "open" => SaidOf(c)' + Unsaid(c)' = 2 * line'[c])
<1>1. conn'[c[1]] = "open" => conn[c[1]] = "open"
  BY Parts DEF ConnLater
<1>2. /\ \A n : Said(page'[c], n) = Said(page[c], n)
      /\ \A n : LineAt(c, n)' = LineAt(c, n)
  BY SameLines
<1>3. QED
  BY <1>1, <1>2 DEF SessionInv, DialogueOf, SaidOf

\* The prompt is read: its shell is silent now, and the next line taken.
LEMMA ReadInv ==
    ASSUME IInv, NEW c \in Sessions, Read(c)
    PROVE  IInv'
<1>1. /\ mode = "up" /\ busy = Nobody /\ client[c] = "reading" /\ busy' = c
      /\ out' = [out EXCEPT ![c] = "none"]
      /\ UNCHANGED <<mode, hosts, served, host, conn, client, page, shell, asked>>
  BY DEF Read, Free, requestVars
<1>2. /\ SessionInv(c) /\ c # Nobody /\ TypeInv /\ line[c] \in Nat
      /\ conn'[c[1]] = conn[c[1]] /\ page'[c] = page[c] /\ out'[c] = "none"
  BY <1>1, Parts DEF IInv, TypeInv
<1>3. Contained'
  BY <1>1 DEF Contained
<1>4. PICK n \in {line[c], line[c] + 1} :
         /\ line' = [line EXCEPT ![c] = n]
         /\ \/ n = line[c] /\ todo' = <<ToBrowser("text")>>
            \/ /\ n = line[c] + 1 /\ out[c] = "prompt"
               /\ todo' = <<ToBrowser("prompt"), ToBrowser(LineAt(c, n)), ToShell(LineAt(c, n))>>
  <2>1. CASE out[c] = "prompt"
    BY <2>1 DEF Read, LineOf
  <2>2. CASE out[c] # "prompt"
    <3>1. line' = line /\ line = [line EXCEPT ![c] = line[c]]
      BY <2>2, <1>2 DEF Read, TypeInv
    <3>2. QED
      BY <2>2, <3>1 DEF Read
  <2>3. QED
    BY <2>1, <2>2
<1>5. TypeInv' /\ ConnLater /\ TablesStay
  BY <1>1, <1>2, <1>4 DEF IInv, TypeInv, LeftInv, ConnLater, TablesStay
<1>6. \A d \in Sessions \ {c} : SessionStays(d)
  <2>1. \A d \in Sessions : d # Nobody
    BY Parts
  <2>2. QED
    BY <2>1, <1>1, <1>2, <1>4 DEF IInv, TypeInv, SessionStays
<1>7. SessionInv(c)'
  <2>1. line'[c] = n /\ Unsaid(c) = 0
    BY <1>1, <1>2, <1>4 DEF TypeInv, Unsaid
  <2>2. CASE n = line[c] /\ todo' = <<ToBrowser("text")>>
    <3>1. Handling(c)'
      BY <2>2 DEF Handling, ToBrowser
    <3>2. Unsaid(c)' = 0
      BY <2>2, Rest DEF Unsaid
    <3>3. DialogueOf(c)' /\ (conn'[c[1]] = "open" => SaidOf(c)' + Unsaid(c)' = 2 * line'[c])
      BY <1>1, <1>2, <1>5, <2>1, <2>2, <3>2, PageStays
    <3>4. QED
      BY <1>1, <1>2, <3>1, <3>3 DEF SessionInv
  <2>3. CASE /\ n = line[c] + 1 /\ out[c] = "prompt"
             /\ todo' = <<ToBrowser("prompt"), ToBrowser(LineAt(c, n)), ToShell(LineAt(c, n))>>
    <3>1. Silent(c)'
      BY <1>1, <1>2, <2>3 DEF SessionInv, Silent
    <3>2. LineAt(c, line[c])' = LineAt(c, n)
      BY <1>1, <2>1 DEF LineAt
    <3>3. Handling(c)'
      BY <1>2, <2>1, <2>3, <3>1, <3>2 DEF Handling, ToBrowser, ToShell
    <3>4. Unsaid(c)' = 2
      BY <1>1, <2>3, Rest DEF Unsaid
    <3>5. SaidOf(c)' = SaidOf(c) /\ SaidOf(c) \in Nat
      <4>1. page[c] \in Seq(Texts) /\ "text" \in Texts
        BY <1>2 DEF TypeInv, Texts
      <4>2. Said(page[c], Len(page[c])) \in Nat
        BY <4>1, SaidMore
      <4>3. QED
        BY <1>2, <4>2 DEF SaidOf
    <3>6. conn'[c[1]] = "open" => SaidOf(c)' + Unsaid(c)' = 2 * line'[c]
      BY <1>2, <2>1, <2>3, <3>4, <3>5 DEF SessionInv
    <3>7. DialogueOf(c)'
      <4>1. /\ \A k : Said(page'[c], k) = Said(page[c], k)
            /\ \A k : LineAt(c, k)' = LineAt(c, k)
        BY <1>1, SameLines
      <4>2. QED
        BY <4>1, <1>2 DEF SessionInv, DialogueOf
    <3>8. QED
      BY <1>1, <1>2, <3>3, <3>6, <3>7 DEF SessionInv
  <2>4. QED
    BY <1>4, <2>2, <2>3
<1>8. QED
  BY <1>3, <1>5, <1>6, <1>7, OneSession

LEMMA AnswerInv ==
    ASSUME IInv, NEW c \in Sessions, Answer(c)
    PROVE  IInv'
<1>1. /\ shell[c] \in {"owes", "midway"} /\ out[c] = "none"
      /\ UNCHANGED <<mode, hosts, served, host, conn, client, line, page, asked, busy, todo>>
  BY DEF Answer, requestVars, handlerVars
<1>2. SessionInv(c) /\ TypeInv
  BY DEF IInv
<1>3. PICK state \in {"gone", "midway", "idle"}, token \in {"none", "text", "prompt"} :
         /\ shell' = [shell EXCEPT ![c] = state] /\ out' = [out EXCEPT ![c] = token]
         /\ state = "gone" => asked[c] = "exit"
         /\ token = "prompt" => state = "idle" /\ asked[c] # "exit"
  <2>1. out = [out EXCEPT ![c] = "none"]
    BY <1>1, <1>2 DEF TypeInv
  <2>2. CASE asked[c] = "exit" /\ shell' = [shell EXCEPT ![c] = "gone"] /\ out' = out
    BY <2>1, <2>2
  <2>3. CASE /\ shell' = [shell EXCEPT ![c] = "midway"] /\ out' = [out EXCEPT ![c] = "text"]
    BY <2>3
  <2>4. CASE /\ asked[c] \notin {"exit", ""} /\ shell' = [shell EXCEPT ![c] = "idle"]
             /\ out' = [out EXCEPT ![c] = "prompt"]
    BY <2>4
  <2>5. QED
    BY <2>2, <2>3, <2>4 DEF Answer
<1>4. TypeInv' /\ ConnLater /\ TablesStay
  BY <1>1, <1>3 DEF IInv, TypeInv, LeftInv, ConnLater, TablesStay
<1>5. \A d \in Sessions \ {c} : SessionStays(d)
  BY <1>1, <1>3 DEF IInv, TypeInv, SessionStays
<1>6. ExcuseStays
  BY <1>1, <1>2, <1>3 DEF ExcuseStays, TypeInv
<1>7. SessionInv(c)'
  <2>1. shell'[c] = state /\ out'[c] = token
    BY <1>2, <1>3 DEF TypeInv
  <2>2. Unsaid(c)' = Unsaid(c)
    BY <1>1 DEF Unsaid
  <2>3. DialogueOf(c)' /\ (conn'[c[1]] = "open" => SaidOf(c)' + Unsaid(c)' = 2 * line'[c])
    BY <1>1, <1>2, <1>4, <2>2, PageStays
  <2>4. busy' = c => Handling(c)'
    BY <1>1, <1>2 DEF SessionInv, Handling, Silent
  <2>5. QED
    BY <1>1, <1>2, <1>3, <2>1, <2>3, <2>4 DEF SessionInv
<1>8. QED
  BY <1>4, <1>5, <1>6, <1>7, OneSession, Excused DEF IInv

LEMMA DieInv ==
    ASSUME IInv, NEW c \in Sessions, Die(c)
    PROVE  IInv'
<1>1. /\ c \in Dying /\ shell[c] \in {"owes", "midway", "idle"} /\ shell' = [shell EXCEPT ![c] = "gone"]
      /\ UNCHANGED <<mode, hosts, served, host, conn, client, line, page, asked, out, busy, todo>>
  BY DEF Die, requestVars, handlerVars
<1>2. SessionInv(c) /\ TypeInv
  BY DEF IInv
<1>3. TypeInv' /\ ConnLater /\ TablesStay
  BY <1>1 DEF IInv, TypeInv, LeftInv, ConnLater, TablesStay
<1>4. \A d \in Sessions \ {c} : SessionStays(d)
  BY <1>1 DEF IInv, TypeInv, SessionStays
<1>5. ExcuseStays
  BY <1>1, <1>2 DEF ExcuseStays, TypeInv
<1>6. SessionInv(c)'
  <2>1. shell'[c] = "gone"
    BY <1>1, <1>2 DEF TypeInv
  <2>2. Unsaid(c)' = Unsaid(c)
    BY <1>1 DEF Unsaid
  <2>3. DialogueOf(c)' /\ (conn'[c[1]] = "open" => SaidOf(c)' + Unsaid(c)' = 2 * line'[c])
    BY <1>1, <1>2, <1>3, <2>2, PageStays
  <2>4. LineAt(c, line[c])' = LineAt(c, line[c])
    BY <1>1 DEF LineAt
  <2>5. busy' = c => Handling(c)'
    BY <1>1, <1>2, <2>1, <2>4 DEF SessionInv, Handling, Silent
  <2>6. QED
    BY <1>1, <1>2, <2>1, <2>3, <2>5 DEF SessionInv
<1>7. QED
  BY <1>3, <1>4, <1>5, <1>6, OneSession, Excused DEF IInv

LEMMA Halves ==
    ASSUME NEW k \in Nat \ {0}
    PROVE  (2 * k - 1) % 2 = 1 /\ (2 * k) % 2 # 1 /\ (2 * k) \div 2 = k
OBVIOUS

\* What a write to a browser does with what the handler has still to write:
\* output, the prompt that a line answers, or the line.
LEMMA Writes ==
    ASSUME NEW c \in Sessions, SessionInv(c), Writing(c, "browser"), host' = host,
           line[c] \in Nat, line'[c] = line[c], out'[c] = out[c], shell'[c] = shell[c], asked'[c] = asked[c]
    PROVE  /\ busy' = c => Handling(c)'
           /\ \/ /\ Head(todo).text = "text"
                 /\ Unsaid(c)' = Unsaid(c)
              \/ /\ line[c] > 0
                 /\ Head(todo).text = "prompt"
                 /\ Unsaid(c) = 2 /\ Unsaid(c)' = 1
              \/ /\ line[c] > 0
                 /\ Head(todo).text = LineAt(c, line[c])
                 /\ Unsaid(c) = 1 /\ Unsaid(c)' = 0
<1> DEFINE l == LineAt(c, line[c])
<1>1. /\ busy = c /\ c # Nobody /\ Head(todo).to = "browser" /\ todo' = Tail(todo)
      /\ busy' = IF todo' = << >> THEN Nobody ELSE c
  BY Parts DEF Writing
<1>2. Handling(c)
  BY <1>1 DEF SessionInv
<1>3. LineAt(c, line[c])' = l
  BY DEF LineAt
<1>4. /\ ToBrowser("text").text = "text" /\ ToBrowser("prompt").text = "prompt"
      /\ ToBrowser(l).text = l /\ ToShell(l).to # "browser"
  BY DEF ToBrowser, ToShell
<1> HIDE DEF l
<1>5. CASE todo = <<ToBrowser("text")>>
  <2>1. Head(todo) = ToBrowser("text") /\ todo' = << >> /\ Len(todo) = 1
    BY <1>1, <1>5, Rest
  <2>2. busy' # c
    BY <1>1, <2>1
  <2>3. Unsaid(c) = 0 /\ Unsaid(c)' = 0
    BY <2>1, <2>2 DEF Unsaid
  <2>4. QED
    BY <1>4, <2>1, <2>2, <2>3
<1>6. CASE todo = <<ToBrowser("prompt"), ToBrowser(l), ToShell(l)>> /\ line[c] > 0 /\ Silent(c)
  <2>1. /\ Head(todo) = ToBrowser("prompt") /\ todo' = <<ToBrowser(l), ToShell(l)>>
        /\ Len(todo) = 3 /\ Len(todo') = 2 /\ busy' = c
    BY <1>1, <1>6, Rest
  <2>2. Handling(c)'
    BY <1>3, <1>6, <2>1 DEF Handling, Silent, ToBrowser, ToShell
  <2>3. Unsaid(c) = 2 /\ Unsaid(c)' = 1
    BY <1>1, <2>1 DEF Unsaid
  <2>4. QED
    BY <1>4, <1>6, <2>1, <2>2, <2>3
<1>7. CASE todo = <<ToBrowser(l), ToShell(l)>> /\ line[c] > 0 /\ Silent(c)
  <2>1. /\ Head(todo) = ToBrowser(l) /\ todo' = <<ToShell(l)>>
        /\ Len(todo) = 2 /\ Len(todo') = 1 /\ busy' = c
    BY <1>1, <1>7, Rest
  <2>2. Handling(c)'
    BY <1>3, <1>7, <2>1 DEF Handling, Silent, ToBrowser, ToShell
  <2>3. Unsaid(c) = 1 /\ Unsaid(c)' = 0
    BY <1>1, <2>1 DEF Unsaid
  <2>4. QED
    BY <1>4, <1>7, <2>1, <2>2, <2>3 DEF l
<1>8. CASE todo = <<ToShell(l)>>
  <2>1. Head(todo) = ToShell(l)
    BY <1>8, Rest
  <2>2. QED
    BY <1>1, <1>4, <2>1
<1>9. QED
  BY <1>2, <1>5, <1>6, <1>7, <1>8 DEF Handling, l

\* A page that shows the dialogue shows it with the next text.
LEMMA PageGrows ==
    ASSUME NEW c \in Sessions, SessionInv(c), NEW text \in Texts,
           page[c] \in Seq(Texts), page'[c] = Append(page[c], text),
           line[c] \in Nat, line'[c] = line[c], host' = host,
           host[c].file \in Files,
           SaidOf(c) + Unsaid(c) = 2 * line[c],
           \/ text = "text" /\ Unsaid(c)' = Unsaid(c)
           \/ line[c] > 0 /\ text = "prompt" /\ Unsaid(c) = 2 /\ Unsaid(c)' = 1
           \/ line[c] > 0 /\ text = LineAt(c, line[c]) /\ Unsaid(c) = 1 /\ Unsaid(c)' = 0
    PROVE  DialogueOf(c)' /\ SaidOf(c)' + Unsaid(c)' = 2 * line'[c]
<1> DEFINE s == page[c]
           m == Len(page[c])
           said == SaidOf(c)
<1>1. /\ m \in Nat /\ Len(page'[c]) = m + 1 /\ page'[c][m + 1] = text
      /\ \A n \in 1..m : page'[c][n] = s[n]
  BY AppendProperties, LenProperties
<1>2. /\ \A n \in 1..m : Said(page'[c], n) = Said(s, n)
      /\ Said(page'[c], m + 1) = IF text = "text" THEN said ELSE said + 1
      /\ said \in Nat
  BY SaidMore DEF SaidOf
<1>3. \A n : LineAt(c, n)' = LineAt(c, n)
  BY SameLines
<1>4. line[c] > 0 => LineAt(c, line[c]) # "text"
  BY NoText
<1>5. SaidOf(c)' = IF text = "text" THEN said ELSE said + 1
  BY <1>1, <1>2 DEF SaidOf
<1> HIDE DEF said, m
<1>6. SaidOf(c)' + Unsaid(c)' = 2 * line'[c]
  BY <1>2, <1>4, <1>5 DEF said
<1>7. text # "text" => text = IF (said + 1) % 2 = 1 THEN "prompt" ELSE LineAt(c, (said + 1) \div 2)
  <2>1. CASE text = "prompt" /\ line[c] > 0 /\ Unsaid(c) = 2
    <3>1. said + 1 = 2 * line[c] - 1
      BY <1>2, <2>1 DEF said
    <3>2. QED
      BY <2>1, <3>1, Halves
  <2>2. CASE text = LineAt(c, line[c]) /\ line[c] > 0 /\ Unsaid(c) = 1
    <3>1. said + 1 = 2 * line[c]
      BY <1>2, <2>2 DEF said
    <3>2. QED
      BY <2>2, <3>1, Halves
  <2>3. QED
    BY <2>1, <2>2
<1>8. DialogueOf(c)'
  <2> SUFFICES ASSUME NEW n \in 1..(m + 1), page'[c][n] # "text"
               PROVE  page'[c][n] = IF Said(page'[c], n) % 2 = 1 THEN "prompt"
                                    ELSE LineAt(c, Said(page'[c], n) \div 2)
    BY <1>1, <1>3 DEF DialogueOf
  <2>1. CASE n = m + 1
    BY <2>1, <1>1, <1>2, <1>7
  <2>2. CASE n \in 1..m
    <3>1. page'[c][n] = s[n] /\ Said(page'[c], n) = Said(s, n)
      BY <2>2, <1>1, <1>2
    <3>2. QED
      BY <2>2, <3>1 DEF SessionInv, DialogueOf, m
  <2>3. QED
    BY <2>1, <2>2, <1>1
<1>9. QED
  BY <1>6, <1>8

\* A write to the page, or to a browser that has left, which may end the server.
LEMMA WriteInv ==
    ASSUME IInv, NEW c \in Sessions, Write(c)
    PROVE  IInv'
<1> DEFINE b == c[1]
           text == Head(todo).text
<1>1. /\ mode = "up" /\ busy = c /\ Writing(c, "browser")
      /\ todo' = Tail(todo) /\ busy' \in {Nobody, c}
      /\ UNCHANGED <<hosts, served, host, client, line, shell, asked, out>>
  BY DEF Write, Writing, requestVars, shellVars
<1>2. /\ SessionInv(c) /\ TypeInv /\ b \in Browsers /\ c # Nobody
      /\ line[c] \in Nat /\ page[c] \in Seq(Texts)
  BY Parts DEF IInv, TypeInv
<1>3. /\ client[c] \notin {"none", "resolving", "connecting"} /\ host[c].file \in Files
      /\ conn[b] \notin Asking
  BY <1>1, <1>2 DEF SessionInv, IInv, ServedInv
<1>4. /\ busy' = c => Handling(c)'
      /\ \/ text = "text" /\ Unsaid(c)' = Unsaid(c)
         \/ line[c] > 0 /\ text = "prompt" /\ Unsaid(c) = 2 /\ Unsaid(c)' = 1
         \/ line[c] > 0 /\ text = LineAt(c, line[c]) /\ Unsaid(c) = 1 /\ Unsaid(c)' = 0
  BY <1>1, <1>2, Writes
<1>5. text \in Texts
  <2>1. line[c] > 0 => LineAt(c, line[c]) \in Texts
    BY <1>2, <1>3, NoText
  <2>2. QED
    BY <1>4, <2>1 DEF Texts
<1> HIDE DEF text, b
<1>6. TablesStay /\ \A d \in Sessions : client'[d] = client[d]
  BY <1>1 DEF TablesStay
\* It is the page of no other session.
<1>7. ASSUME page' = page \/ page' = [page EXCEPT ![c] = Append(page[c], text)]
      PROVE  \A d \in Sessions \ {c} : SessionStays(d)
  <2>1. \A d \in Sessions : d # Nobody
    BY Parts
  <2>2. QED
    BY <2>1, <1>1, <1>2, <1>7 DEF TypeInv, SessionStays
<1>8. ASSUME conn' = conn \/ (conn' = [conn EXCEPT ![b] = "reset"] /\ conn[b] = "closed")
      PROVE  ConnLater /\ conn' \in [Browsers -> Asking \cup Talking]
  BY <1>2, <1>8 DEF IInv, TypeInv, LeftInv, ConnLater, Asking, Talking, Targets
<1>9. CASE /\ conn[b] = "open" /\ conn' = conn /\ mode' = mode
           /\ page' = [page EXCEPT ![c] = Append(page[c], text)]
  <2>1. Append(page[c], text) \in Seq(Texts) /\ page'[c] = Append(page[c], text)
    BY <1>2, <1>5, <1>9, AppendProperties DEF TypeInv
  <2>2. TypeInv'
    BY <1>1, <1>2, <1>9, <2>1 DEF TypeInv
  <2>3. SaidOf(c) + Unsaid(c) = 2 * line[c]
    BY <1>2, <1>9 DEF SessionInv, b
  <2>4. line'[c] = line[c] /\ host' = host
    BY <1>1
  <2>5. DialogueOf(c)' /\ SaidOf(c)' + Unsaid(c)' = 2 * line'[c]
    BY <1>2, <1>3, <1>4, <1>5, <2>1, <2>3, <2>4, PageGrows
  <2>6. SessionInv(c)'
    BY <1>1, <1>2, <1>3, <1>4, <1>9, <2>5 DEF SessionInv, b
  <2>7. Contained'
    BY <1>1, <1>9 DEF Contained
  <2>8. ConnLater /\ \A d \in Sessions \ {c} : SessionStays(d)
    <3>1. ConnLater
      BY <1>8, <1>9
    <3>2. \A d \in Sessions \ {c} : SessionStays(d)
      BY <1>7, <1>9
    <3>3. QED
      BY <3>1, <3>2
  <2>9. QED
    BY <1>6, <2>2, <2>6, <2>7, <2>8, OneSession
<1>10. ASSUME page' = page, conn'[b] # "open", ConnLater
       PROVE  SessionInv(c)'
  <2>1. DialogueOf(c)'
    <3>1. /\ \A k : Said(page'[c], k) = Said(page[c], k)
          /\ \A k : LineAt(c, k)' = LineAt(c, k)
      BY <1>1, <1>10, SameLines
    <3>2. QED
      BY <3>1, <1>2, <1>10 DEF SessionInv, DialogueOf
  <2>2. conn'[b] \notin Asking
    BY <1>2, <1>3, <1>10 DEF ConnLater
  <2>3. QED
    BY <1>1, <1>2, <1>3, <1>4, <1>10, <2>1, <2>2 DEF SessionInv, b
<1>11. CASE /\ conn[b] = "closed" /\ conn' = [conn EXCEPT ![b] = "reset"] /\ mode' = mode
            /\ page' = page
  <2>1. conn' \in [Browsers -> Asking \cup Talking] /\ ConnLater
    BY <1>8, <1>11
  <2>2. TypeInv'
    BY <1>1, <1>2, <1>11, <2>1 DEF TypeInv
  <2>3. conn'[b] # "open"
    BY <1>2, <1>11 DEF TypeInv
  <2>4. Contained'
    BY <1>1, <1>11 DEF Contained
  <2>5. SessionInv(c)' /\ \A d \in Sessions \ {c} : SessionStays(d)
    BY <1>7, <1>10, <1>11, <2>1, <2>3
  <2>6. QED
    BY <1>6, <2>1, <2>2, <2>4, <2>5, OneSession
<1>12. CASE conn[b] = "reset" /\ mode' = "dead" /\ conn' = conn /\ page' = page
  <2>1. conn' \in [Browsers -> Asking \cup Talking] /\ ConnLater /\ conn'[b] # "open"
    BY <1>8, <1>12
  <2>5. TypeInv'
    BY <1>1, <1>2, <1>12, <2>1 DEF TypeInv
  <2>2. b \in Leaving
    BY <1>2, <1>12 DEF IInv, LeftInv
  <2>3. Contained'
    BY <1>12, <2>2 DEF Contained
  <2>4. SessionInv(c)' /\ \A d \in Sessions \ {c} : SessionStays(d)
    BY <1>7, <1>10, <1>12, <2>1
  <2>6. QED
    BY <1>6, <2>1, <2>3, <2>4, <2>5, OneSession
<1>13. QED
  BY <1>9, <1>11, <1>12 DEF Write, b, text

\* The line reaches a shell that has not been told to exit yet; one that has
\* gone, and may end the server, broke off.
LEMMA CommandInv ==
    ASSUME IInv, NEW c \in Sessions, Command(c)
    PROVE  IInv'
<1>1. /\ mode = "up" /\ busy = c /\ Head(todo).to = "shell"
      /\ todo' = Tail(todo) /\ busy' = IF todo' = << >> THEN Nobody ELSE c
      /\ UNCHANGED <<hosts, served, host, conn, client, line, page, out>>
  BY DEF Command, Writing, requestVars
<1>2. SessionInv(c) /\ TypeInv /\ c # Nobody
  BY Parts DEF IInv
<1>3. /\ client[c] \notin {"none", "resolving", "connecting"} /\ conn[c[1]] \notin Asking
      /\ Handling(c)
  BY <1>1, <1>2 DEF SessionInv
<1>4. /\ Silent(c) /\ Len(todo) = 1 /\ todo' = << >> /\ busy' = Nobody
  <2> DEFINE l == LineAt(c, line[c])
  <2>1. ToBrowser("text").to # "shell" /\ ToBrowser("prompt").to # "shell" /\ ToBrowser(l).to # "shell"
    BY DEF ToBrowser
  <2> HIDE DEF l
  <2>2. CASE todo = <<ToBrowser("text")>>
    BY <1>1, <2>1, <2>2, Rest
  <2>3. CASE todo = <<ToBrowser("prompt"), ToBrowser(l), ToShell(l)>>
    BY <1>1, <2>1, <2>3, Rest
  <2>4. CASE todo = <<ToBrowser(l), ToShell(l)>>
    BY <1>1, <2>1, <2>4, Rest
  <2>5. CASE todo = <<ToShell(l)>> /\ Silent(c)
    BY <1>1, <2>5, Rest
  <2>6. QED
    BY <1>3, <2>2, <2>3, <2>4, <2>5 DEF Handling, l
<1>5. Unsaid(c)' = Unsaid(c) /\ busy' # c
  BY <1>1, <1>2, <1>4 DEF Unsaid
<1>6. ConnLater /\ TablesStay
  BY <1>1 DEF IInv, LeftInv, ConnLater, TablesStay
<1>7. DialogueOf(c)' /\ (conn'[c[1]] = "open" => SaidOf(c)' + Unsaid(c)' = 2 * line'[c])
  BY <1>1, <1>2, <1>5, <1>6, PageStays
<1>8. CASE /\ mode' = mode
           /\ shell' = [shell EXCEPT ![c] = IF shell[c] = "idle" THEN "owes" ELSE shell[c]]
           /\ asked' = [asked EXCEPT ![c] = Head(todo).text]
  <2>1. TypeInv'
    BY <1>1, <1>2, <1>4, <1>8 DEF TypeInv
  <2>2. \A d \in Sessions \ {c} : SessionStays(d)
    <3>1. \A d \in Sessions : d # Nobody
      BY Parts
    <3>2. QED
      BY <3>1, <1>1, <1>2, <1>4, <1>8 DEF TypeInv, SessionStays
  <2>3. SessionInv(c)'
    <3>1. out'[c] = "none" /\ (shell'[c] = "gone" => c \in Dying)
      BY <1>1, <1>2, <1>4, <1>8 DEF Silent, SessionInv, TypeInv
    <3>2. QED
      BY <3>1, <1>1, <1>3, <1>5, <1>7 DEF SessionInv
  <2>4. Contained'
    BY <1>1, <1>8 DEF Contained
  <2>5. QED
    BY <1>6, <2>1, <2>2, <2>3, <2>4, OneSession
<1>9. CASE shell[c] = "gone" /\ mode' = "dead" /\ UNCHANGED <<shell, asked>>
  <2>1. TypeInv'
    BY <1>1, <1>2, <1>4, <1>9 DEF TypeInv
  <2>2. \A d \in Sessions \ {c} : SessionStays(d)
    <3>1. \A d \in Sessions : d # Nobody
      BY Parts
    <3>2. QED
      BY <3>1, <1>1, <1>2, <1>4, <1>9 DEF SessionStays
  <2>3. c \in Dying /\ asked[c] # "exit"
    BY <1>2, <1>4, <1>9 DEF SessionInv, Silent
  <2>4. SessionInv(c)'
    BY <1>1, <1>2, <1>3, <1>5, <1>7, <1>9 DEF SessionInv
  <2>5. Contained'
    BY <1>9, <2>3 DEF Contained
  <2>6. QED
    BY <1>6, <2>1, <2>2, <2>4, <2>5, OneSession
<1>10. QED
  BY <1>8, <1>9 DEF Command

----------------------------------------------------------------------------
(* A console page                                                          *)

\* Namers, SomeLast and LastSaid, of any sequence of requests.
Value(q, k, s, f) == Query[q[k]][s][f]

NamersIn(q, n, s, f) == {k \in 1..n : Value(q, k, s, f) # ""}

HasLast(namers) == namers # {} => \E k \in namers : \A m \in namers : m <= k

LastOf(namers) == CHOOSE k \in namers : \A m \in namers : m <= k

WordOf(q, namers, s, f) == IF namers = {} THEN "" ELSE Value(q, LastOf(namers), s, f)

LastIn(q, n, s, f) == WordOf(q, NamersIn(q, n, s, f), s, f)

\* What those before said stands.
LEMMA SaidStands ==
    ASSUME NEW q, NEW r, NEW L \in Nat, \A k \in 1..L : r[k] = q[k],
           NEW n \in 0..L, NEW s, NEW f, HasLast(NamersIn(q, n, s, f))
    PROVE  /\ NamersIn(r, n, s, f) = NamersIn(q, n, s, f)
           /\ LastIn(r, n, s, f) = LastIn(q, n, s, f)
<1> DEFINE namers == NamersIn(q, n, s, f)
<1>1. \A m \in 1..n : r[m] = q[m]
  OBVIOUS
<1>2. NamersIn(r, n, s, f) = namers
  BY <1>1 DEF NamersIn, Value
<1>3. namers \subseteq 1..n
  BY DEF NamersIn
<1>4. namers # {} => LastOf(namers) \in namers
  BY DEF HasLast, LastOf
<1> HIDE DEF namers
<1>6. WordOf(r, namers, s, f) = WordOf(q, namers, s, f)
  <2>1. CASE namers = {}
    BY <2>1 DEF WordOf
  <2>2. CASE namers # {}
    <3>1. r[LastOf(namers)] = q[LastOf(namers)]
      BY <1>1, <1>3, <1>4, <2>2
    <3>2. QED
      BY <3>1 DEF WordOf, Value
  <2>3. QED
    BY <2>1, <2>2
<1>7. QED
  BY <1>2, <1>6 DEF LastIn, namers

\* The last request says the last word, where it says anything.
LEMMA LastWord ==
    ASSUME NEW q, NEW L \in Nat, NEW s, NEW f, HasLast(NamersIn(q, L, s, f))
    PROVE  /\ HasLast(NamersIn(q, L + 1, s, f))
           /\ (Value(q, L + 1, s, f) = "" => LastIn(q, L + 1, s, f) = LastIn(q, L, s, f))
           /\ (Value(q, L + 1, s, f) # "" => LastIn(q, L + 1, s, f) = Value(q, L + 1, s, f))
<1> DEFINE namers == NamersIn(q, L + 1, s, f)
<1>1. CASE Value(q, L + 1, s, f) = ""
  <2>1. namers = NamersIn(q, L, s, f)
    <3>1. \A m \in 1..(L + 1) : m \in 1..L \/ m = L + 1
      OBVIOUS
    <3>2. 1..L \subseteq 1..(L + 1)
      OBVIOUS
    <3>3. QED
      BY <3>1, <3>2, <1>1 DEF NamersIn
  <2>2. LastIn(q, L + 1, s, f) = LastIn(q, L, s, f)
    BY <2>1, Zenon DEF LastIn
  <2>3. HasLast(namers)
    BY <2>1, Zenon
  <2>4. QED
    BY <1>1, <2>2, <2>3
<1>2. CASE Value(q, L + 1, s, f) # ""
  <2>1. L + 1 \in 1..(L + 1)
    OBVIOUS
  <2>2. L + 1 \in namers
    BY <1>2, <2>1 DEF NamersIn
  <2>3. \A m \in namers : m \in Nat /\ m <= L + 1
    <3>1. \A m \in namers : m \in 1..(L + 1)
      BY Zenon DEF NamersIn
    <3>2. \A m \in 1..(L + 1) : m \in Nat /\ m <= L + 1
      OBVIOUS
    <3>3. QED
      BY <3>1, <3>2
  <2>4. HasLast(namers)
    BY <2>2, <2>3 DEF HasLast
  <2> HIDE DEF namers
  <2>6. LastOf(namers) \in namers /\ \A m \in namers : m <= LastOf(namers)
    BY <2>2, <2>3 DEF LastOf
  <2>7. LastOf(namers) = L + 1
    BY <2>2, <2>3, <2>6
  <2>8. WordOf(q, namers, s, f) = Value(q, L + 1, s, f)
    BY <2>2, <2>7 DEF WordOf
  <2>9. QED
    BY <1>2, <2>4, <2>8 DEF LastIn, namers
<1>3. QED
  BY <1>1, <1>2

\* How the properties say it.
LEMMA AsSaid ==
    ASSUME NEW n, NEW s, NEW f
    PROVE  /\ LastSaid(n, s, f) = LastIn(served, n, s, f)
           /\ SomeLast(n, s, f) <=> HasLast(NamersIn(served, n, s, f))
           /\ LastSaid(n, s, f)' = LastIn(served', n, s, f)
           /\ SomeLast(n, s, f)' <=> HasLast(NamersIn(served', n, s, f))
BY DEF LastSaid, SomeLast, Namers, LastIn, NamersIn, Value, WordOf, LastOf, HasLast

LEMMA ServeConsoleInv ==
    ASSUME IInv, NEW b \in Browsers, ServeConsole(b)
    PROVE  IInv'
<1>1. PICK L \in Nat : L = Len(served)
  BY LenProperties DEF IInv, TypeInv
<1>2. /\ mode = "up" /\ busy = Nobody /\ conn[b] = "console"
      /\ hosts' = Named(b) /\ served' = Append(served, b)
      /\ host' = [c \in Sessions |-> IF c[1] = b THEN hosts'[c[2]] ELSE host[c]]
      /\ client' = [c \in Sessions |->
                      IF c[1] = b /\ hosts'[c[2]] # NoHost THEN "resolving" ELSE client[c]]
      /\ conn' = [conn EXCEPT ![b] = IF hosts' = [s \in Slots |-> NoHost] THEN "over" ELSE "open"]
      /\ UNCHANGED <<mode, line, page, shell, asked, out, busy, todo>>
  BY DEF ServeConsole, Free, shellVars, handlerVars
<1>3. /\ served' \in Seq(Browsers) /\ Len(served') = L + 1 /\ served'[L + 1] = b
      /\ \A n \in 1..L : served'[n] = served[n]
      /\ DOMAIN served = 1..L /\ DOMAIN served' = 1..(L + 1)
  BY <1>1, <1>2, AppendProperties, LenProperties DEF IInv, TypeInv
<1>4. \A n \in 1..L : served[n] \in Browsers /\ served[n] # b /\ conn[served[n]] \notin Asking
  BY <1>1, <1>2, ElementOfSeq DEF IInv, TypeInv, ServedInv, Asking, Targets
<1>5. /\ \A n \in 0..L : \A s \in Slots : \A f \in Fields : HasLast(NamersIn(served, n, s, f))
      /\ \A s \in Slots : \A f \in Fields : hosts[s][f] = LastIn(served, L, s, f)
  BY <1>1, AsSaid DEF IInv, ServedInv
<1>6. \A n \in 0..L : \A s \in Slots : \A f \in Fields :
          /\ NamersIn(served', n, s, f) = NamersIn(served, n, s, f)
          /\ LastIn(served', n, s, f) = LastIn(served, n, s, f)
          /\ HasLast(NamersIn(served', n, s, f))
  BY <1>3, <1>5, SaidStands
<1>7. \A s \in Slots : \A f \in Fields :
          /\ HasLast(NamersIn(served', L + 1, s, f))
          /\ hosts'[s][f] = LastIn(served', L + 1, s, f)
  <2>1. SUFFICES ASSUME NEW s \in Slots, NEW f \in Fields
                 PROVE  /\ HasLast(NamersIn(served', L + 1, s, f))
                        /\ hosts'[s][f] = LastIn(served', L + 1, s, f)
    OBVIOUS
  <2>2. HasLast(NamersIn(served', L, s, f)) /\ LastIn(served', L, s, f) = hosts[s][f]
    <3>1. L \in 0..L
      OBVIOUS
    <3>2. QED
      BY <1>5, <1>6, <3>1
  <2>3. /\ HasLast(NamersIn(served', L + 1, s, f))
        /\ (Value(served', L + 1, s, f) = "" => LastIn(served', L + 1, s, f) = LastIn(served', L, s, f))
        /\ (Value(served', L + 1, s, f) # "" => LastIn(served', L + 1, s, f) = Value(served', L + 1, s, f))
    <3>1. ASSUME NEW q, HasLast(NamersIn(q, L, s, f))
          PROVE  /\ HasLast(NamersIn(q, L + 1, s, f))
                 /\ (Value(q, L + 1, s, f) = "" => LastIn(q, L + 1, s, f) = LastIn(q, L, s, f))
                 /\ (Value(q, L + 1, s, f) # "" => LastIn(q, L + 1, s, f) = Value(q, L + 1, s, f))
      <4>1. L \in Nat
        OBVIOUS
      <4>2. QED
        BY <3>1, <4>1, LastWord
    <3>2. QED
      BY <2>2, <3>1, Zenon
  <2>4. hosts'[s][f] = IF Query[b][s][f] = "" THEN hosts[s][f] ELSE Query[b][s][f]
    BY <1>2 DEF Named
  <2>5. QED
    BY <1>3, <2>2, <2>3, <2>4 DEF Value
<1>8. /\ conn'[b] \in {"over", "open"} /\ conn'[b] \notin Asking
      /\ \A x \in Browsers \ {b} : conn'[x] = conn[x]
  BY <1>2 DEF IInv, TypeInv, Asking, Targets
<1>9. TypeInv'
  <2>1. conn' \in [Browsers -> Asking \cup Talking]
    BY <1>2 DEF IInv, TypeInv, Talking
  <2>2. client' \in [Sessions -> {"none", "resolving", "connecting", "reading", "closed"}]
    BY <1>2 DEF IInv, TypeInv
  <2>3. hosts' = [s \in Slots |-> [f \in Fields |-> hosts'[s][f]]]
    BY <1>2 DEF Named
  <2>4. host' = [c \in Sessions |-> host'[c]]
    BY <1>2
  <2>5. QED
    BY <1>2, <1>3, <2>1, <2>2, <2>3, <2>4 DEF IInv, TypeInv
<1>10. \A s \in Slots : hosts'[s].file \in Files
  <2>1. SUFFICES ASSUME NEW s \in Slots PROVE hosts'[s].file \in Files
    OBVIOUS
  <2>2. Query[b][s].file \in Files
    <3>1. PICK c \in Sessions : c[1] = b /\ c[2] = s
      <4>1. <<b, s>> \in Sessions
        BY DEF Sessions
      <4>2. QED
        BY <4>1
    <3>2. Query[c[1]][c[2]].file \in {Query[d[1]][d[2]].file : d \in Sessions}
      OBVIOUS
    <3>3. QED
      BY <3>1, <3>2 DEF Files
  <2>3. hosts'[s]["file"] = IF Query[b][s]["file"] = "" THEN hosts[s]["file"] ELSE Query[b][s]["file"]
    BY <1>2 DEF Named, Fields
  <2>4. QED
    BY <2>2, <2>3 DEF IInv, ServedInv
<1>11. \A c \in Sessions : client'[c] # "none" =>
          \/ c[1] = b /\ host'[c] = hosts'[c[2]] /\ c[2] \in Slots
          \/ c[1] # b /\ client[c] # "none" /\ host'[c] = host[c]
  BY <1>2, Parts
<1>12. ServedInv'
  <2>1. \A n \in 1..(L + 1) : n = L + 1 \/ n \in 1..L
    OBVIOUS
  <2>2. \A n \in 1..(L + 1) : conn'[served'[n]] \notin Asking
    BY <1>3, <1>4, <1>8, <2>1
  <2>3. \A m, n \in 1..(L + 1) : served'[m] = served'[n] => m = n
    <3>1. \A m, n \in 1..L : served[m] = served[n] => m = n
      BY <1>1 DEF IInv, ServedInv
    <3>2. QED
      BY <1>3, <1>4, <2>1, <3>1
  <2>4. \A c \in Sessions : client'[c] # "none" => \E n \in 1..(L + 1) : served'[n] = c[1]
    <3>1. \A c \in Sessions : client[c] # "none" => \E n \in 1..L : served[n] = c[1]
      BY <1>1 DEF IInv, ServedInv
    <3>2. 1..L \subseteq 1..(L + 1) /\ L + 1 \in 1..(L + 1)
      OBVIOUS
    <3>3. QED
      BY <1>3, <1>11, <3>1, <3>2
  <2>5. \A n \in 0..(L + 1) : \A s \in Slots : \A f \in Fields : SomeLast(n, s, f)'
    <3>1. \A n \in 0..(L + 1) : n = L + 1 \/ n \in 0..L
      OBVIOUS
    <3>2. QED
      BY <1>6, <1>7, <3>1, AsSaid
  <2>6. \A s \in Slots : \A f \in Fields : hosts'[s][f] = LastSaid(L + 1, s, f)'
    BY <1>7, AsSaid
  <2>7. \A c \in Sessions : client'[c] # "none" => host'[c].file \in Files
    BY <1>10, <1>11 DEF IInv, ServedInv
  <2>8. QED
    BY <1>3, <1>10, <2>2, <2>3, <2>4, <2>5, <2>6, <2>7 DEF ServedInv
<1>13. LeftInv'
  BY <1>8 DEF IInv, LeftInv
<1>14. LastNamed'
  <2>1. SUFFICES ASSUME NEW c \in Sessions, client'[c] # "none", NEW f \in Fields
                 PROVE  host'[c][f] = LastSaid(Turn(c[1]), c[2], f)'
    BY DEF LastNamed
  <2>2. c[1] \in Browsers /\ c[2] \in Slots
    BY Parts
  <2>3. \A m, n \in 1..(L + 1) : served'[m] = served'[n] => m = n
    BY <1>3, <1>12 DEF ServedInv
  <2>4. CASE c[1] = b
    <3>1. Turn(b)' = L + 1
      <4>1. L + 1 \in 1..(L + 1)
        OBVIOUS
      <4>2. QED
        BY <1>3, <2>3, <4>1 DEF Turn
    <3>2. host'[c][f] = LastIn(served', L + 1, c[2], f)
      BY <1>7, <1>11, <2>1, <2>2, <2>4
    <3>3. QED
      BY <2>4, <3>1, <3>2, AsSaid
  <2>5. CASE c[1] # b
    <3>1. client[c] # "none" /\ host'[c] = host[c]
      BY <1>11, <2>1, <2>5
    <3>2. PICK n \in 1..L : served[n] = c[1]
      BY <1>1, <3>1 DEF IInv, ServedInv
    <3>3. n \in 1..(L + 1) /\ n \in 0..L /\ served'[n] = c[1]
      BY <1>3, <3>2
    <3>4. Turn(c[1])' = n
      BY <1>3, <2>3, <3>3 DEF Turn
    <3>5. Turn(c[1]) = n
      <4>1. \A m, k \in 1..L : served[m] = served[k] => m = k
        BY <1>1 DEF IInv, ServedInv
      <4>2. QED
        BY <1>3, <3>2, <4>1 DEF Turn
    <3>6. host[c][f] = LastIn(served, n, c[2], f)
      BY <3>1, <3>5, AsSaid DEF IInv, LastNamed
    <3>7. LastIn(served', n, c[2], f) = LastIn(served, n, c[2], f)
      BY <1>6, <2>2, <3>3
    <3>8. QED
      BY <3>1, <3>4, <3>6, <3>7, AsSaid
  <2>6. QED
    BY <2>4, <2>5
<1>15. Contained'
  BY <1>2 DEF Contained
<1>16. \A d \in Sessions : SessionInv(d)'
  <2>1. SUFFICES ASSUME NEW d \in Sessions PROVE SessionInv(d)'
    OBVIOUS
  <2>2. d[1] \in Browsers /\ d # Nobody
    BY Parts
  <2>3. CASE d[1] # b
    <3>1. client'[d] = client[d] /\ host'[d] = host[d] /\ conn'[d[1]] = conn[d[1]]
      BY <1>2, <1>8, <2>2, <2>3
    <3>2. SessionStays(d)
      BY <1>2, <3>1 DEF SessionStays
    <3>3. QED
      BY <3>1, <3>2, OthersStay
  <2>4. CASE d[1] = b
    <3>1. client[d] = "none"
      BY <1>2, <2>4 DEF IInv, SessionInv, Asking, Targets
    <3>2. client'[d] \in {"none", "resolving"} /\ conn'[d[1]] \notin Asking
      BY <1>2, <1>8, <2>4, <3>1
    <3>3. shell[d] = "away" /\ out[d] = "none" /\ line[d] = 0 /\ page[d] = << >>
      BY <3>1 DEF IInv, SessionInv
    <3>4. shell'[d] = "away" /\ out'[d] = "none" /\ busy' # d /\ line'[d] = 0 /\ page'[d] = << >>
      BY <1>2, <2>2, <3>3
    <3>5. Len(page'[d]) = 0
      BY <3>4
    <3>6. SaidOf(d)' = 0 /\ Unsaid(d)' = 0
      BY <3>4, <3>5, SaidNothing DEF SaidOf, Unsaid
    <3>7. DialogueOf(d)'
      BY <3>5 DEF DialogueOf
    <3>8. QED
      BY <3>2, <3>4, <3>6, <3>7 DEF SessionInv
  <2>5. QED
    BY <2>3, <2>4
<1>17. QED
  BY <1>9, <1>12, <1>13, <1>14, <1>15, <1>16 DEF IInv

----------------------------------------------------------------------------
LEMMA InitInv == Init => IInv
<1>1. SUFFICES ASSUME Init PROVE IInv
  OBVIOUS
<1>2. served = << >> /\ Len(served) = 0 /\ served \in Seq(Browsers)
  BY <1>1 DEF Init
<1>3. TypeInv
  <2>1. hosts = [s \in Slots |-> [f \in Fields |-> hosts[s][f]]]
    BY <1>1 DEF Init, NoHost
  <2>2. page \in [Sessions -> Seq(Texts)] /\ line \in [Sessions -> Nat]
    <3>1. << >> \in Seq(Texts)
      OBVIOUS
    <3>2. QED
      BY <1>1, <3>1 DEF Init
  <2>3. conn \in [Browsers -> Asking \cup Talking]
    BY <1>1 DEF Init, Asking
  <2>4. host = [c \in Sessions |-> host[c]] /\ asked = [c \in Sessions |-> asked[c]]
    BY <1>1 DEF Init
  <2>5. /\ mode \in {"up", "dead"} /\ busy \in Sessions \cup {Nobody}
        /\ client \in [Sessions -> {"none", "resolving", "connecting", "reading", "closed"}]
        /\ shell \in [Sessions -> {"away", "owes", "midway", "idle", "gone"}]
        /\ out \in [Sessions -> {"none", "text", "prompt"}]
    BY <1>1 DEF Init
  <2>6. QED
    BY <1>2, <2>1, <2>2, <2>3, <2>4, <2>5 DEF TypeInv
<1>4. ServedInv
  <2>1. \A s, f : NamersIn(served, 0, s, f) = {}
    BY DEF NamersIn
  <2>2. \A s, f : SomeLast(0, s, f) /\ LastSaid(0, s, f) = ""
    BY <2>1, AsSaid DEF HasLast, LastIn, WordOf
  <2>3. /\ \A s \in Slots : \A f \in Fields : hosts[s][f] = ""
        /\ \A s \in Slots : hosts[s].file = ""
    BY <1>1 DEF Init, NoHost, Fields
  <2>4. \A n \in 0..0 : n = 0
    OBVIOUS
  <2>5. \A n : n \notin 1..0
    OBVIOUS
  <2>6. /\ \A n \in 1..Len(served) : conn[served[n]] \notin Asking
        /\ \A m, n \in 1..Len(served) : served[m] = served[n] => m = n
    BY <1>2, <2>5
  <2>7. \A c \in Sessions : client[c] = "none"
    BY <1>1 DEF Init
  <2>8. \A n \in 0..Len(served) : \A s \in Slots : \A f \in Fields : SomeLast(n, s, f)
    BY <1>2, <2>2, <2>4
  <2>9. \A s \in Slots : \A f \in Fields : hosts[s][f] = LastSaid(Len(served), s, f)
    BY <1>2, <2>2, <2>3
  <2>10. QED
    BY <2>3, <2>6, <2>7, <2>8, <2>9 DEF ServedInv, Files
<1>5. \A c \in Sessions : SessionInv(c)
  <2>1. SUFFICES ASSUME NEW c \in Sessions PROVE SessionInv(c)
    OBVIOUS
  <2>2. /\ client[c] = "none" /\ shell[c] = "away" /\ out[c] = "none" /\ busy # c
        /\ line[c] = 0 /\ page[c] = << >> /\ Len(page[c]) = 0
    BY <1>1, Parts DEF Init
  <2>3. SaidOf(c) = 0 /\ Unsaid(c) = 0 /\ DialogueOf(c)
    BY <2>2, SaidNothing DEF SaidOf, Unsaid, DialogueOf
  <2>4. QED
    BY <2>2, <2>3 DEF SessionInv
<1>6. LeftInv /\ LastNamed /\ Contained
  BY <1>1 DEF Init, LeftInv, LastNamed, Contained
<1>7. QED
  BY <1>3, <1>4, <1>5, <1>6 DEF IInv

LEMMA NextInv == IInv /\ [Next]_vars => IInv'
<1>1. SUFFICES ASSUME IInv, [Next]_vars PROVE IInv'
  OBVIOUS
<1>2. CASE UNCHANGED vars
  <2>1. UNCHANGED <<mode, hosts, served, host, conn, client, line, page, shell, asked, out, busy, todo>>
    BY <1>2 DEF vars, requestVars, shellVars, handlerVars
  <2>2. TypeInv'
    BY <1>1, <2>1 DEF IInv, TypeInv
  <2>3. ConnLater /\ TablesStay /\ Contained' /\ \A d \in Sessions : SessionStays(d)
    BY <1>1, <2>1 DEF IInv, LeftInv, Contained, ConnLater, TablesStay, SessionStays
  <2>4. QED
    BY <1>1, <2>2, <2>3, NoSession
<1>3. ASSUME NEW b \in Browsers, Ask(b) \/ Serve(b) \/ Receive(b) \/ Leave(b)
      PROVE  IInv'
  BY <1>1, <1>3, AskInv, ServeAtOnceInv, ServeThrowsInv, ServeConsoleInv, ReceiveInv, LeaveInv DEF Serve
<1>4. ASSUME NEW c \in Sessions, Handler(c) \/ Answer(c) \/ Die(c)
      PROVE  IInv'
  BY <1>1, <1>4, ResolvedInv, ConnectedInv, ReadInv, WriteInv, CommandInv, ReadErrorInv,
     AnswerInv, DieInv DEF Handler
<1>5. QED
  BY <1>1, <1>2, <1>3, <1>4 DEF Next

\* The table of hosts is what the queries served so far have made of it, and
\* every session is where its page, its shell and the event loop say.  Session.
THEOREM Invariance == Spec => []IInv
<1>1. QED
  BY InitInv, NextInv, PTL DEF Spec

\* Every session shows the dialogue with its own file, whatever browsers ask for
\* while another handler stands in the middle of its writes.  Client::read.
THEOREM Transcripts == Spec => []Transcript
<1>1. IInv => Transcript
  <2>1. SUFFICES ASSUME IInv, NEW c \in Sessions
                 PROVE  \A n \in DOMAIN page[c] :
                            page[c][n] # "text" =>
                                page[c][n] = IF Said(page[c], n) % 2 = 1 THEN "prompt"
                                             ELSE LineAt(c, Said(page[c], n) \div 2)
    BY DEF Transcript
  <2>2. DOMAIN page[c] = 1..Len(page[c])
    BY <2>1, LenProperties DEF IInv, TypeInv
  <2>3. QED
    BY <2>1, <2>2 DEF IInv, SessionInv, DialogueOf
<1>2. QED
  BY <1>1, Invariance, PTL

\* Each field of a session's host is what the last request that named it said.
\* get_console_cgi_write_string.
THEOREM NamedLast == Spec => []LastNamed
<1>1. IInv => LastNamed
  BY DEF IInv
<1>2. QED
  BY <1>1, Invariance, PTL

\* The server dies of nothing but a request that its parser throws at, a browser
\* that left, or a shell that broke off.  io_service.run.
THEOREM DiesOfThese == Spec => []Contained
<1>1. IInv => Contained
  BY DEF IInv
<1>2. QED
  BY <1>1, Invariance, PTL
==============================================================================
