-------------------------- MODULE ForkServersProofs --------------------------
(***************************************************************************)
(* That the servers of ForkServers keep the sockets of their clients apart *)
(* and forget no child, and that http_server answers what its one read has *)
(* taken, or the beginning of that answer, for any number of clients and   *)
(* any requests.                                                           *)
(***************************************************************************)
EXTENDS ForkServers, SequenceTheorems, TLAPS

\* Whose socket the server holds, and whose shell it waits for.
LoopOK ==
    /\ server \in {"accept", "stray"} => holds[Parent] = {}
    /\ server \in {"fork", "wait", "close"} => current \in Clients /\ holds[Parent] \subseteq {current}
    /\ server = "wait" => program = "np_simple"

\* np_simple has one shell at a time, the one it waits for, and no handler.
SimpleOK ==
    program = "np_simple" =>
        /\ server # "dead"
        /\ ~pending /\ ~reaping
        /\ \A c \in Clients :
              child[c] \in {"session", "zombie"} => server = "wait" /\ current = c

\* Only the child of http_server reads a request.
ReadersOK ==
    \A c \in Clients : child[c] \in {"reading", "execv"} => program = "http_server"

IInv ==
    /\ TypeOK
    /\ SocketsPrivate
    /\ NoChildForgotten
    /\ LoopOK
    /\ SimpleOK
    /\ ReadersOK

----------------------------------------------------------------------------
LEMMA InitInv == Init => IInv
  BY ForkServersAssumption
  DEF Init, IInv, TypeOK, SocketsPrivate, NoChildForgotten, LoopOK, SimpleOK, ReadersOK,
      Programs, Processes

\* The main program, which takes one client after the other.
LEMMA MainInv == ASSUME IInv, Main \/ Failure PROVE IInv'
<1> USE ForkServersAssumption DEF IInv, TypeOK, SocketsPrivate, NoChildForgotten, LoopOK,
      SimpleOK, ReadersOK, Programs, Processes, At
<1>1. ASSUME NEW c \in Clients, Accept(c) PROVE IInv'
  BY <1>1 DEF Accept, signalVars
<1>2. CASE Fork
  BY <1>2 DEF Fork, signalVars
<1>3. CASE Wait
  BY <1>3 DEF Wait, signalVars
<1>4. CASE CloseSocket
  BY <1>4 DEF CloseSocket, Close, signalVars
<1>5. CASE AcceptFails
  BY <1>5 DEF AcceptFails, signalVars
<1>6. CASE ForkFails
  BY <1>6 DEF ForkFails, Close, signalVars
<1>7. CASE StrayEnds
  BY <1>7 DEF StrayEnds, signalVars
<1>8. QED
  BY <1>1, <1>2, <1>3, <1>4, <1>5, <1>6, <1>7 DEF Main, Failure

\* The SIGCHLD handler: it ends only when no zombie is left.
LEMMA HandlerInv == ASSUME IInv, Handler PROVE IInv'
<1> USE ForkServersAssumption DEF IInv, TypeOK, SocketsPrivate, NoChildForgotten, LoopOK,
      SimpleOK, ReadersOK, Programs, Processes, serverVars
<1>1. CASE Deliver
  BY <1>1 DEF Deliver
<1>2. ASSUME NEW c \in Clients, Reap(c) PROVE IInv'
  BY <1>2 DEF Reap, signalVars
<1>3. CASE ReapEnd
  BY <1>3 DEF ReapEnd
<1>4. QED
  BY <1>1, <1>2, <1>3 DEF Handler

\* The children: one that ends leaves a signal, or a server that waits for it.
LEMMA ChildInv == ASSUME IInv, NEW c \in Clients, Child(c) PROVE IInv'
<1> USE ForkServersAssumption DEF IInv, TypeOK, SocketsPrivate, NoChildForgotten, LoopOK,
      SimpleOK, ReadersOK, Programs, Processes, serverVars
<1>1. CASE ShellEnds(c)
  <2>1. /\ child' = [child EXCEPT ![c] = "zombie"] /\ child[c] = "session"
        /\ pending' = (pending \/ (program # "np_simple" /\ server # "dead"))
        /\ UNCHANGED <<program, server, current, reaping>>
    BY <1>1 DEF ShellEnds, Dies
  <2>2. holds' \in [Processes -> SUBSET Clients]
        /\ \A p \in Processes : holds'[p] \in {holds[p], {}}
    <3>1. holds' \in {holds, [holds EXCEPT ![c] = {}]}
      BY <1>1 DEF ShellEnds
    <3>2. QED
      BY <3>1
  <2>3. TypeOK' /\ SocketsPrivate'
    BY <2>1, <2>2
  <2>4. LoopOK' /\ SimpleOK' /\ ReadersOK'
    BY <2>1, <2>2
  <2>5. NoChildForgotten'
    BY <2>1
  <2>6. QED
    BY <2>3, <2>4, <2>5
<1>2. CASE CommandsEnd(c)
  BY <1>2 DEF CommandsEnd, signalVars
<1>3. CASE Read(c)
  BY <1>3 DEF Read, TakeRequest, signalVars
<1>4. CASE ReadError(c)
  BY <1>4 DEF ReadError, Close, Dies
<1>5. CASE Execv(c)
  BY <1>5 DEF Execv, Close, Dies
<1>6. CASE ReadThrows(c)
  BY <1>6 DEF ReadThrows, TakeRequest, Dies
<1>7. QED
  BY <1>1, <1>2, <1>3, <1>4, <1>5, <1>6 DEF Child

LEMMA ClientInv == ASSUME IInv, NEW c \in Clients, Client(c) PROVE IInv'
  BY DEF IInv, TypeOK, SocketsPrivate, NoChildForgotten, LoopOK, SimpleOK, ReadersOK,
      serverVars, signalVars, Client, Connect, Send, Receive, Finish, Vanish

LEMMA NextInv == IInv /\ [Next]_vars => IInv'
<1> SUFFICES ASSUME IInv, [Next]_vars PROVE IInv'
  OBVIOUS
<1>1. CASE Next
  BY <1>1, MainInv, HandlerInv, ChildInv, ClientInv DEF Next
<1>2. CASE UNCHANGED vars
  BY <1>2 DEF IInv, TypeOK, SocketsPrivate, NoChildForgotten, LoopOK, SimpleOK, ReadersOK,
      vars, serverVars, signalVars
<1>3. QED
  BY <1>1, <1>2

(* Who holds which socket and who is yet to be reaped, in each of the      *)
(* three accept loops.                                                     *)
THEOREM Invariance == Spec => []IInv
  BY InitInv, NextInv, PTL DEF Spec

----------------------------------------------------------------------------
(* No client's socket is left in another client's process, nor in the      *)
(* server when it accepts the next one.                                    *)
THEOREM SocketsKeptApart == Spec => []SocketsPrivate
<1>1. IInv => SocketsPrivate
  BY DEF IInv
<1>2. QED
  BY <1>1, Invariance, PTL

(* However the SIGCHLD of several children coalesce, a zombie is one that  *)
(* a signal, the handler or wait(nullptr) will come to.                    *)
THEOREM EveryChildReaped == Spec => []NoChildForgotten
<1>1. IInv => NoChildForgotten
  BY DEF IInv
<1>2. QED
  BY <1>1, Invariance, PTL

----------------------------------------------------------------------------
(* The answer of http_server.                                              *)

Parts == {"start", "line", "rest", "bad"}
Texts == {"status", "page", "error", "exception"}
Ends == {"away", "queued", "open", "ended", "gone"}

TextsOK ==
    /\ conn \in [Clients -> Ends]
    /\ sent \in [Clients -> Nat]
    /\ inbox \in [Clients -> Seq(Parts)]
    /\ taken \in [Clients -> Seq(Parts)]
    /\ reply \in [Clients -> Seq(Texts)]
    /\ got \in [Clients -> Seq(Texts)]

\* Every part that was sent is unread or has been read.
Counted ==
    \A c \in Clients :
        sent[c] <= Len(Request[c]) /\ sent[c] = Len(taken[c]) + Len(inbox[c])

\* A client is forked for once, after it has been accepted, and while its
\* child has not ended the child has its socket.
OneChild ==
    /\ server = "fork" => /\ current \in holds[Parent] /\ child[current] = "none"
                          /\ conn[current] \notin {"away", "queued"}
    /\ \A c \in Clients :
          /\ conn[c] \in {"away", "queued"} => child[c] = "none"
          /\ child[c] \in {"reading", "execv"} => c \in holds[c]
          /\ child[c] = "session" => program # "http_server"

\* Who has seen the end of a connection finds nothing more on it.
EndsOK == \A c \in Clients : conn[c] = "ended" => ~Held(c) /\ reply[c] = <<>>

\* What has come, with what is on its way, is the answer as far as it goes, and
\* the whole of it where nothing was left unread.
AnswerOK ==
    program = "http_server" =>
        \A c \in Clients :
            /\ child[c] \in {"none", "reading"} =>
                  taken[c] = <<>> /\ reply[c] = <<>> /\ got[c] = <<>>
            /\ child[c] = "execv" => got[c] \o reply[c] = <<"status">> /\ ~Within("bad", taken[c])
            /\ child[c] \in {"zombie", "reaped"} /\ taken[c] # <<>> =>
                  /\ got[c] \o reply[c] \in Beginnings(Deserved(c, taken[c]))
                  /\ inbox[c] = <<>> /\ conn[c] # "gone" =>
                        got[c] \o reply[c] = Deserved(c, taken[c])

AInv == IInv /\ TextsOK /\ Counted /\ OneChild /\ EndsOK /\ AnswerOK

----------------------------------------------------------------------------
\* What an append to nothing is.
LEMMA EmptyConcat ==
  ASSUME NEW S, NEW s \in Seq(S)
  PROVE  s \o <<>> = s /\ <<>> \o s = s
  BY ConcatEmptySeq

LEMMA TwoParts ==
  ASSUME NEW S, NEW a \in S, NEW b \in S
  PROVE  <<a>> \o <<b>> = <<a, b>>
<1> DEFINE s == <<a>> \o <<b>>
           t == <<a, b>>
<1>1. s \in Seq(S) /\ Len(s) = 2 /\ s[1] = a /\ s[2] = b
  BY ConcatProperties
<1>2. t \in Seq(S) /\ Len(t) = 2 /\ t[1] = a /\ t[2] = b
  OBVIOUS
<1> HIDE DEF s, t
<1>3. s = t
  BY <1>1, <1>2, SeqEqual
<1>4. QED
  BY <1>3 DEF s, t

\* What a client has and what is on its way, together, are not changed when
\* it receives.
LEMMA MovedOn ==
  ASSUME NEW S, NEW g \in Seq(S), NEW r \in Seq(S), r # <<>>
  PROVE  /\ Append(g, Head(r)) \in Seq(S) /\ Tail(r) \in Seq(S)
         /\ Append(g, Head(r)) \o Tail(r) = g \o r
<1> DEFINE h == Head(r)
           t == Tail(r)
<1>1. h \in S /\ t \in Seq(S) /\ r = <<h>> \o t
  BY HeadTailProperties, HeadTailAppend
<1> HIDE DEF h, t
<1>2. <<h>> \in Seq(S) /\ Append(g, h) = g \o <<h>> /\ Append(g, h) \in Seq(S)
  BY <1>1, AppendIsConcat, AppendProperties
<1>3. (g \o <<h>>) \o t = g \o (<<h>> \o t)
  BY <1>1, <1>2, ConcatAssociative
<1>4. QED
  BY <1>1, <1>2, <1>3 DEF h, t

\* The beginnings of a sequence, element by element.
LEMMA Beginning ==
  ASSUME NEW S, NEW s \in Seq(S), NEW t \in Seq(S)
  PROVE  t \in Beginnings(s) <=> Len(t) <= Len(s) /\ \A i \in 1..Len(t) : t[i] = s[i]
<1>0. Len(s) \in Nat /\ Len(t) \in Nat
  BY LenProperties
<1>1. ASSUME NEW n \in 0..Len(s)
      PROVE  /\ SubSeq(s, 1, n) \in Seq(S) /\ Len(SubSeq(s, 1, n)) = n
             /\ \A i \in 1..n : SubSeq(s, 1, n)[i] = s[i]
  BY <1>0, SubSeqProperties
<1>2. ASSUME t \in Beginnings(s) PROVE Len(t) <= Len(s) /\ \A i \in 1..Len(t) : t[i] = s[i]
  BY <1>0, <1>1, <1>2 DEF Beginnings
<1>3. ASSUME Len(t) <= Len(s), \A i \in 1..Len(t) : t[i] = s[i] PROVE t \in Beginnings(s)
  <2>1. Len(t) \in 0..Len(s)
    BY <1>0, <1>3
  <2>2. t = SubSeq(s, 1, Len(t))
    BY <1>1, <1>3, <2>1, SeqEqual
  <2>3. QED
    BY <2>1, <2>2 DEF Beginnings
<1>4. QED
  BY <1>2, <1>3

\* A sequence is the last of its beginnings, and the empty one the first.
LEMMA BeginningEnds ==
  ASSUME NEW S, NEW s \in Seq(S)
  PROVE  s \in Beginnings(s) /\ <<>> \in Beginnings(s)
<1>1. Len(s) \in Nat /\ <<>> \in Seq(S) /\ Len(<<>>) = 0
  BY LenProperties, EmptySeq
<1>2. s \in Beginnings(s)
  BY <1>1, Beginning
<1>3. <<>> \in Beginnings(s)
  <2>1. SubSeq(s, 1, 0) = <<>> /\ 0 \in 0..Len(s)
    BY <1>1
  <2>2. QED
    BY <2>1 DEF Beginnings
<1>4. QED
  BY <1>2, <1>3

\* A beginning that loses something of its end is still one.
LEMMA BeginningCut ==
  ASSUME NEW S, NEW s \in Seq(S), NEW g \in Seq(S), NEW r \in Seq(S), NEW x \in Beginnings(r),
         g \o r \in Beginnings(s)
  PROVE  g \o x \in Beginnings(s)
<1>1. x \in Seq(S)
  BY SubSeqProperties, LenProperties DEF Beginnings
<1>2. Len(x) <= Len(r) /\ \A i \in 1..Len(x) : x[i] = r[i]
  BY <1>1, Beginning
<1>3. /\ Len(g) \in Nat /\ Len(r) \in Nat /\ Len(x) \in Nat /\ Len(s) \in Nat
      /\ g \o r \in Seq(S) /\ g \o x \in Seq(S)
  BY <1>1, LenProperties, ConcatProperties
<1>4. /\ Len(g \o r) = Len(g) + Len(r) /\ Len(g \o x) = Len(g) + Len(x)
      /\ \A i \in 1..Len(g) + Len(r) : (g \o r)[i] = IF i <= Len(g) THEN g[i] ELSE r[i - Len(g)]
      /\ \A i \in 1..Len(g) + Len(x) : (g \o x)[i] = IF i <= Len(g) THEN g[i] ELSE x[i - Len(g)]
  BY <1>1, ConcatProperties
<1>5. Len(g \o r) <= Len(s) /\ \A i \in 1..Len(g \o r) : (g \o r)[i] = s[i]
  BY <1>3, Beginning
<1>6. Len(g \o x) <= Len(s)
  BY <1>2, <1>3, <1>4, <1>5
<1>7. ASSUME NEW i \in 1..Len(g \o x) PROVE (g \o x)[i] = s[i]
  <2>1. i \in 1..Len(g) + Len(x) /\ i \in 1..Len(g) + Len(r) /\ i \in 1..Len(g \o r)
    BY <1>2, <1>3, <1>4
  <2>2. i <= Len(g) \/ i - Len(g) \in 1..Len(x)
    BY <1>3, <2>1
  <2>3. (g \o x)[i] = (g \o r)[i]
    BY <1>2, <1>4, <2>1, <2>2
  <2>4. QED
    BY <1>5, <2>1, <2>3
<1>8. QED
  BY <1>3, <1>6, <1>7, Beginning

\* What a request deserves is text, and starts with the status line.
LEMMA DeservedText ==
  ASSUME NEW c \in Clients, NEW request
  PROVE  /\ Deserved(c, request) \in Seq(Texts)
         /\ ~Within("bad", request) => <<"status">> \in Beginnings(Deserved(c, request))
<1>1. Deserved(c, request) \in Seq(Texts)
  <2>1. CASE Within("bad", request)
    BY <2>1, EmptySeq DEF Deserved
  <2>2. CASE ~Within("bad", request)
    <3> DEFINE page == IF ~Within("line", request) THEN "exception"
                       ELSE IF c \in Unknown THEN "error" ELSE "page"
    <3>1. "status" \in Texts /\ page \in Texts
      BY DEF Texts
    <3>2. Deserved(c, request) = <<"status", page>>
      BY <2>2 DEF Deserved
    <3> HIDE DEF page
    <3>3. QED
      BY <3>1, <3>2
  <2>3. QED
    BY <2>1, <2>2
<1>2. ASSUME ~Within("bad", request) PROVE <<"status">> \in Beginnings(Deserved(c, request))
  <2>1. Len(Deserved(c, request)) = 2 /\ Deserved(c, request)[1] = "status"
    BY <1>2 DEF Deserved
  <2>2. <<"status">> \in Seq(Texts) /\ Len(<<"status">>) = 1 /\ <<"status">>[1] = "status"
    BY DEF Texts
  <2>3. QED
    BY <1>1, <2>1, <2>2, Beginning
<1>3. QED
  BY <1>1, <1>2

\* Where all that was sent has been read, nothing is unread.
LEMMA WholeRead ==
  ASSUME AInv, NEW c \in Clients, taken[c] = SubSeq(Request[c], 1, sent[c])
  PROVE  inbox[c] = <<>>
<1>1. inbox[c] \in Seq(Parts) /\ Len(inbox[c]) \in Nat /\ sent[c] \in Nat
      /\ Request[c] \in Seq(Parts) /\ Len(Request[c]) \in Nat
  BY RequestAssumption, LenProperties DEF AInv, TextsOK, Parts
<1>2. sent[c] <= Len(Request[c]) /\ sent[c] = Len(taken[c]) + Len(inbox[c])
  BY DEF AInv, Counted
<1>3. PICK r, n, i \in Nat : r = Len(Request[c]) /\ n = sent[c] /\ i = Len(inbox[c])
  BY <1>1
<1>4. \A k \in 1..r : Request[c][k] \in Parts
  BY <1>1, <1>3, ElementOfSeq
<1>5. n <= r /\ n = Len(taken[c]) + i
  <2>1. PICK t \in Nat : t = Len(taken[c])
    BY LenProperties DEF AInv, TextsOK
  <2>2. n <= r /\ n = t + i
    BY <1>2, <1>3, <2>1
  <2>3. QED
    BY <2>1, <2>2
<1>6. Len(SubSeq(Request[c], 1, n)) = n
  <2>1. n <= r /\ \A k \in 1..n : Request[c][k] \in Parts
    <3>1. n \in Nat /\ r \in Nat /\ n <= r
      BY <1>3, <1>5
    <3>2. \A k \in 1..n : k \in 1..r
      BY <3>1
    <3>3. QED
      BY <1>4, <3>1, <3>2
  <2>2. Len(SubSeq(Request[c], 1, n)) = IF 1 <= n THEN n - 1 + 1 ELSE 0
    BY <1>3, <2>1, SubSeqProperties
  <2>3. QED
    BY <1>3, <2>2
<1>7. n = n + i
  BY <1>3, <1>5, <1>6
<1>8. Len(inbox[c]) = 0
  BY <1>3, <1>7
<1>9. QED
  BY <1>1, <1>8, EmptySeq

\* What a close may do to what is on its way.
LEMMA CloseReply ==
  ASSUME TextsOK, NEW q, NEW c \in Clients, NEW text \in Seq(Texts), Close(q, c, text)
  PROVE  /\ reply' = [reply EXCEPT ![c] = reply'[c]]
         /\ reply'[c] \in Seq(Texts)
         /\ inbox[c] = <<>> \/ (\E p \in Processes \ {q} : c \in holds[p])
               => reply'[c] = reply[c] \o text
         /\ reply'[c] \in {reply[c] \o text} \cup Beginnings(reply[c])
         /\ reply[c] = <<>> /\ text = <<>> => reply'[c] = <<>>
<1>1. PICK r \in {reply[c] \o text} \cup
                  (IF inbox[c] = <<>> \/ \E p \in Processes \ {q} : c \in holds[p]
                   THEN {} ELSE Beginnings(reply[c])) :
            reply' = [reply EXCEPT ![c] = r]
  BY DEF Close
<1>2. reply'[c] = r
  BY <1>1 DEF TextsOK
<1>3. reply[c] \o text \in Seq(Texts)
  BY ConcatProperties DEF TextsOK
<1>4. ASSUME NEW n \in 0..Len(reply[c]) PROVE SubSeq(reply[c], 1, n) \in Seq(Texts)
  BY SubSeqProperties, LenProperties DEF TextsOK
<1>5. ASSUME reply[c] = <<>>, NEW n \in 0..Len(reply[c]) PROVE SubSeq(reply[c], 1, n) = <<>>
  BY <1>5
<1>6. QED
  BY <1>1, <1>2, <1>3, <1>4, <1>5, EmptyConcat DEF TextsOK, Beginnings

LEMMA AnswerInit == Init => AInv
<1> SUFFICES ASSUME Init PROVE AInv
  OBVIOUS
<1>1. TextsOK /\ Counted
  <2>0. \A c \in Clients : Len(Request[c]) \in Nat
    BY RequestAssumption, LenProperties
  <2>1. /\ <<>> \in Seq(Parts) /\ <<>> \in Seq(Texts) /\ Len(<<>>) = 0
    BY EmptySeq
  <2>2. TextsOK
    BY <2>1 DEF Init, TextsOK, Ends
  <2>3. Counted
    <3>1. \A c \in Clients : sent[c] = 0 /\ taken[c] = <<>> /\ inbox[c] = <<>>
      BY DEF Init
    <3>2. \A c \in Clients : Len(taken[c]) = 0 /\ Len(inbox[c]) = 0
      BY <2>1, <3>1, Zenon
    <3>3. \A c \in Clients : sent[c] <= Len(Request[c]) /\ sent[c] = Len(taken[c]) + Len(inbox[c])
      <4>1. SUFFICES ASSUME NEW c \in Clients
                     PROVE  sent[c] <= Len(Request[c]) /\ sent[c] = Len(taken[c]) + Len(inbox[c])
        OBVIOUS
      <4>2. sent[c] = 0 /\ Len(taken[c]) = 0 /\ Len(inbox[c]) = 0 /\ Len(Request[c]) \in Nat
        BY <2>0, <3>1, <3>2
      <4>3. QED
        BY <4>2
    <3>4. QED
      BY <3>3 DEF Counted
  <2>4. QED
    BY <2>2, <2>3
<1>2. OneChild /\ EndsOK /\ AnswerOK
  BY ForkServersAssumption, RequestAssumption, EmptySeq DEF Init, OneChild, EndsOK, AnswerOK
<1>3. QED
  BY <1>1, <1>2, InitInv DEF AInv

\* Where nothing is said and no child changes but by being reaped.
LEMMA QuietAnswer ==
  ASSUME AInv, program' = program, conn' \in [Clients -> Ends], UNCHANGED <<sent, inbox, taken, reply, got>>,
         \A c \in Clients : conn[c] = "gone" => conn'[c] = "gone",
         \A c \in Clients : child'[c] = child[c] \/ (child'[c] = "reaped" /\ child[c] = "zombie")
  PROVE  TextsOK' /\ Counted' /\ AnswerOK'
<1>1. TextsOK' /\ Counted'
  BY DEF AInv, TextsOK, Counted
<1>2. AnswerOK'
  BY DEF AInv, AnswerOK
<1>3. QED
  BY <1>1, <1>2

\* A process closes what it holds of c's connection and says nothing: it is
\* the server, or the child of a client that has gone.
LEMMA ClosedAnswer ==
  ASSUME AInv, NEW q \in Processes, NEW c \in Clients, Close(q, c, <<>>),
         UNCHANGED <<program, inbox, taken, got, conn, sent>>,
         q # Parent => child[c] = "reading" /\ inbox[c] = <<>> /\ q = c /\ child' = [child EXCEPT ![c] = "zombie"],
         q = Parent => child' = child
  PROVE  TextsOK' /\ Counted' /\ AnswerOK'
<1>1. TextsOK
  BY DEF AInv
<1>2. /\ reply' = [reply EXCEPT ![c] = reply'[c]]
      /\ reply'[c] \in Seq(Texts)
      /\ inbox[c] = <<>> \/ (\E p \in Processes \ {q} : c \in holds[p]) => reply'[c] = reply[c] \o <<>>
      /\ reply'[c] \in {reply[c] \o <<>>} \cup Beginnings(reply[c])
      /\ reply[c] = <<>> => reply'[c] = <<>>
  <2>1. <<>> \in Seq(Texts)
    BY EmptySeq
  <2>2. QED
    BY <1>1, <2>1, CloseReply
<1>3. reply[c] \o <<>> = reply[c]
  BY <1>1, EmptyConcat DEF TextsOK
<1>4. TextsOK' /\ Counted'
  BY <1>2 DEF AInv, TextsOK, Counted
<1>5. \A d \in Clients \ {c} : reply'[d] = reply[d]
  BY <1>1, <1>2 DEF TextsOK
<1>6. ASSUME program = "http_server", q = Parent PROVE AnswerOK'
  <2>1. \A d \in Clients : child'[d] = child[d]
    BY <1>6
  <2>2. child[c] = "execv" => reply'[c] = reply[c]
    BY <1>2, <1>3, ForkServersAssumption DEF AInv, OneChild, Processes
  <2>3. inbox[c] = <<>> => reply'[c] = reply[c]
    BY <1>2, <1>3
  <2>4. ASSUME got[c] \o reply[c] \in Beginnings(Deserved(c, taken[c]))
        PROVE  got[c] \o reply'[c] \in Beginnings(Deserved(c, taken[c]))
    <3> DEFINE g == got[c]
               r == reply[c]
               x == reply'[c]
               s == Deserved(c, taken[c])
    <3>1. g \in Seq(Texts) /\ r \in Seq(Texts) /\ s \in Seq(Texts) /\ g \o r \in Beginnings(s)
      BY <1>1, <2>4, DeservedText DEF TextsOK
    <3>2. x = r \/ x \in Beginnings(r)
      BY <1>2, <1>3
    <3> HIDE DEF g, r, x, s
    <3>3. g \o x \in Beginnings(s)
      BY <3>1, <3>2, BeginningCut
    <3>4. QED
      BY <3>3 DEF g, x, s
  <2>5. ASSUME NEW d \in Clients
        PROVE  /\ child[d] \in {"none", "reading"} =>
                     taken[d] = <<>> /\ reply'[d] = <<>> /\ got[d] = <<>>
               /\ child[d] = "execv" => got[d] \o reply'[d] = <<"status">> /\ ~Within("bad", taken[d])
               /\ child[d] \in {"zombie", "reaped"} /\ taken[d] # <<>> =>
                     /\ got[d] \o reply'[d] \in Beginnings(Deserved(d, taken[d]))
                     /\ inbox[d] = <<>> /\ conn[d] # "gone" =>
                           got[d] \o reply'[d] = Deserved(d, taken[d])
    <3>1. CASE d = c
      BY <1>2, <1>6, <2>2, <2>3, <2>4, <3>1 DEF AInv, AnswerOK
    <3>2. CASE d # c
      BY <1>5, <1>6, <3>2 DEF AInv, AnswerOK
    <3>3. QED
      BY <3>1, <3>2
  <2>6. QED
    BY <2>1, <2>5 DEF AnswerOK
<1>7. ASSUME program = "http_server", q # Parent PROVE AnswerOK'
  BY <1>7, <1>2, <1>3, <1>5 DEF AInv, AnswerOK, Deserved, IInv, TypeOK
<1>8. AnswerOK'
  BY <1>6, <1>7 DEF AnswerOK
<1>9. QED
  BY <1>4, <1>8

LEMMA MainAnswer == ASSUME AInv, Main \/ Failure PROVE AInv'
<1> USE ForkServersAssumption
<1>0. IInv'
  BY MainInv DEF AInv
<1>1. ASSUME NEW c \in Clients, Accept(c) PROVE AInv'
  <2>1. TextsOK' /\ Counted' /\ AnswerOK'
    <3>1. /\ program' = program /\ conn' \in [Clients -> Ends] /\ UNCHANGED <<sent, inbox, taken, reply, got>>
          /\ \A d \in Clients : child'[d] = child[d] \/ (child'[d] = "reaped" /\ child[d] = "zombie")
          /\ \A d \in Clients : conn[d] = "gone" => conn'[d] = "gone"
      <4>1. conn' = [conn EXCEPT ![c] = "open"] /\ conn \in [Clients -> Ends]
        BY <1>1 DEF Accept, AInv, TextsOK
      <4>2. conn' \in [Clients -> Ends]
        BY <4>1 DEF Ends
      <4>3. QED
        BY <1>1, <4>2 DEF Accept, replyVars
    <3>2. QED
      BY <3>1, QuietAnswer
  <2>2. OneChild'
    BY <1>1 DEF AInv, IInv, TypeOK, TextsOK, Ends, OneChild, Accept, At, Processes
  <2>3. EndsOK'
    BY <1>1 DEF AInv, IInv, TypeOK, TextsOK, Ends, EndsOK, Accept, Processes, Held, replyVars
  <2>4. QED
    BY <1>0, <2>1, <2>2, <2>3 DEF AInv
<1>2. CASE Fork
  <2>1. TextsOK' /\ Counted'
    BY <1>2 DEF Fork, AInv, TextsOK, Counted, replyVars, clientVars
  <2>2. AnswerOK'
    <3>1. /\ \A c \in Clients \ {current} : child'[c] = child[c]
          /\ child[current] = "none" /\ current \in Clients
          /\ program = "http_server" => child'[current] = "reading"
          /\ UNCHANGED <<program, conn, inbox, taken, reply, got>>
      BY <1>2 DEF Fork, AInv, OneChild, At, IInv, TypeOK, LoopOK, replyVars, clientVars
    <3>2. QED
      BY <3>1 DEF AInv, AnswerOK
  <2>3. OneChild'
    BY <1>2 DEF Fork, AInv, OneChild, At, IInv, TypeOK, LoopOK, Processes, clientVars
  <2>4. EndsOK'
    BY <1>2 DEF Fork, AInv, OneChild, At, IInv, TypeOK, LoopOK, EndsOK, Held, Processes, clientVars, replyVars
  <2>5. QED
    BY <1>0, <2>1, <2>2, <2>3, <2>4 DEF AInv
<1>3. CASE Wait
  <2>1. TextsOK' /\ Counted' /\ AnswerOK'
    <3>1. /\ program' = program /\ conn' \in [Clients -> Ends] /\ UNCHANGED <<sent, inbox, taken, reply, got>>
          /\ \A d \in Clients : child'[d] = child[d] \/ (child'[d] = "reaped" /\ child[d] = "zombie")
          /\ \A d \in Clients : conn[d] = "gone" => conn'[d] = "gone"
      BY <1>3 DEF Wait, AInv, IInv, TypeOK, TextsOK, clientVars, replyVars
    <3>2. QED
      BY <3>1, QuietAnswer
  <2>2. OneChild' /\ EndsOK'
    BY <1>3 DEF Wait, At, AInv, IInv, TypeOK, LoopOK, OneChild, EndsOK, Held, clientVars, replyVars
  <2>3. QED
    BY <1>0, <2>1, <2>2 DEF AInv
<1>4. ASSUME Close(Parent, current, <<>>), current \in Clients, server' \in {"accept", "dead"},
             UNCHANGED <<program, child, clientVars, inbox, taken, got>>
      PROVE  AInv'
  <2>1. TextsOK' /\ Counted' /\ AnswerOK'
    <3>1. Parent \in Processes
      BY DEF Processes
    <3>2. QED
      BY <1>4, <3>1, ClosedAnswer DEF clientVars
  <2>2. OneChild'
    BY <1>4 DEF AInv, IInv, TypeOK, OneChild, Close, Processes, clientVars
  <2>3. EndsOK'
    <3>1. reply' = [reply EXCEPT ![current] = reply'[current]] /\ (reply[current] = <<>> => reply'[current] = <<>>)
      BY <1>4, CloseReply, EmptySeq DEF AInv
    <3>2. \A c \in Clients : reply[c] = <<>> => reply'[c] = <<>>
      BY <3>1 DEF AInv, TextsOK
    <3>3. \A c \in Clients : ~Held(c) => ~Held(c)'
      BY <1>4 DEF AInv, IInv, TypeOK, Close, Held
    <3>4. QED
      BY <1>4, <3>2, <3>3 DEF AInv, EndsOK, clientVars
  <2>4. QED
    BY <1>0, <2>1, <2>2, <2>3 DEF AInv
<1>5. CASE CloseSocket
  <2>1. current \in Clients
    BY <1>5 DEF CloseSocket, At, AInv, IInv, LoopOK
  <2>2. QED
    BY <1>4, <1>5, <2>1 DEF CloseSocket
<1>6. CASE AcceptFails
  <2>1. TextsOK' /\ Counted' /\ AnswerOK'
    <3>1. /\ program' = program /\ conn' \in [Clients -> Ends] /\ UNCHANGED <<sent, inbox, taken, reply, got>>
          /\ \A d \in Clients : child'[d] = child[d] \/ (child'[d] = "reaped" /\ child[d] = "zombie")
          /\ \A d \in Clients : conn[d] = "gone" => conn'[d] = "gone"
      BY <1>6 DEF AcceptFails, AInv, TextsOK, clientVars, replyVars
    <3>2. QED
      BY <3>1, QuietAnswer
  <2>2. OneChild' /\ EndsOK'
    BY <1>6 DEF AcceptFails, AInv, IInv, TypeOK, Programs, OneChild, EndsOK, Held, clientVars, replyVars
  <2>3. QED
    BY <1>0, <2>1, <2>2 DEF AInv
<1>7. CASE ForkFails
  <2>1. current \in Clients
    BY <1>7 DEF ForkFails, At, AInv, IInv, LoopOK
  <2>2. CASE program = "np_multi_proc"
    BY <1>4, <1>7, <2>1, <2>2 DEF ForkFails
  <2>3. CASE program # "np_multi_proc"
    <3>1. TextsOK' /\ Counted' /\ AnswerOK'
      <4>1. /\ program' = program /\ conn' \in [Clients -> Ends] /\ UNCHANGED <<sent, inbox, taken, reply, got>>
            /\ \A d \in Clients : child'[d] = child[d] \/ (child'[d] = "reaped" /\ child[d] = "zombie")
          /\ \A d \in Clients : conn[d] = "gone" => conn'[d] = "gone"
        BY <1>7, <2>3 DEF ForkFails, AInv, TextsOK, clientVars, replyVars
      <4>2. QED
        BY <4>1, QuietAnswer
    <3>2. OneChild' /\ EndsOK'
      BY <1>7, <2>3 DEF ForkFails, AInv, OneChild, EndsOK, Held, clientVars
    <3>3. QED
      BY <1>0, <3>1, <3>2 DEF AInv
  <2>4. QED
    BY <2>2, <2>3
<1>8. CASE StrayEnds
  <2>1. TextsOK' /\ Counted' /\ AnswerOK'
    <3>1. /\ program' = program /\ conn' \in [Clients -> Ends] /\ UNCHANGED <<sent, inbox, taken, reply, got>>
          /\ \A d \in Clients : child'[d] = child[d] \/ (child'[d] = "reaped" /\ child[d] = "zombie")
          /\ \A d \in Clients : conn[d] = "gone" => conn'[d] = "gone"
      BY <1>8 DEF StrayEnds, AInv, TextsOK, clientVars, replyVars
    <3>2. QED
      BY <3>1, QuietAnswer
  <2>2. OneChild' /\ EndsOK'
    BY <1>8 DEF StrayEnds, AInv, OneChild, EndsOK, Held, clientVars, replyVars
  <2>3. QED
    BY <1>0, <2>1, <2>2 DEF AInv
<1>9. QED
  BY <1>1, <1>2, <1>3, <1>5, <1>6, <1>7, <1>8 DEF Main, Failure

LEMMA HandlerAnswer == ASSUME AInv, Handler PROVE AInv'
<1>0. IInv'
  BY HandlerInv DEF AInv
<1>1. ASSUME UNCHANGED <<serverVars, holds, clientVars, replyVars>>,
             \A d \in Clients : child'[d] = child[d] \/ (child'[d] = "reaped" /\ child[d] = "zombie")
      PROVE  AInv'
  <2>1. TextsOK' /\ Counted' /\ AnswerOK'
    <3>1. /\ program' = program /\ conn' \in [Clients -> Ends] /\ UNCHANGED <<sent, inbox, taken, reply, got>>
          /\ \A d \in Clients : child'[d] = child[d] \/ (child'[d] = "reaped" /\ child[d] = "zombie")
          /\ \A d \in Clients : conn[d] = "gone" => conn'[d] = "gone"
      BY <1>1 DEF AInv, TextsOK, serverVars, clientVars, replyVars
    <3>2. QED
      BY <3>1, QuietAnswer
  <2>2. OneChild'
    BY <1>1 DEF AInv, OneChild, IInv, LoopOK, serverVars, clientVars
  <2>3. EndsOK'
    BY <1>1 DEF AInv, EndsOK, Held, clientVars, replyVars
  <2>4. QED
    BY <1>0, <2>1, <2>2, <2>3 DEF AInv
<1>2. CASE Deliver
  BY <1>1, <1>2 DEF Deliver
<1>3. ASSUME NEW c \in Clients, Reap(c) PROVE AInv'
  <2>1. \A d \in Clients : child'[d] = child[d] \/ (child'[d] = "reaped" /\ child[d] = "zombie")
    BY <1>3 DEF Reap, AInv, IInv, TypeOK
  <2>2. QED
    BY <1>1, <1>3, <2>1 DEF Reap
<1>4. CASE ReapEnd
  BY <1>1, <1>4 DEF ReapEnd
<1>5. QED
  BY <1>2, <1>3, <1>4 DEF Handler

\* What the one read does to what the client has sent.
LEMMA TakeOK ==
  ASSUME AInv, NEW c \in Clients, TakeRequest(c), UNCHANGED <<conn, sent>>
  PROVE  /\ taken' = [taken EXCEPT ![c] = taken'[c]] /\ taken'[c] \in Seq(Parts)
         /\ inbox' = [inbox EXCEPT ![c] = inbox'[c]] /\ inbox'[c] \in Seq(Parts)
         /\ taken[c] = <<>> /\ reply[c] = <<>> /\ got[c] = <<>> /\ taken'[c] # <<>>
         /\ child[c] = "reading" /\ program = "http_server"
         /\ Counted'
<1> USE ForkServersAssumption, RequestAssumption
<1> DEFINE n == IF Len(inbox[c]) < Buffer THEN Len(inbox[c]) ELSE Buffer
<1>1. /\ inbox[c] \in Seq(Parts) /\ n \in 1..Len(inbox[c])
      /\ taken' = [taken EXCEPT ![c] = SubSeq(inbox[c], 1, n)]
      /\ inbox' = [inbox EXCEPT ![c] = SubSeq(inbox[c], n + 1, Len(inbox[c]))]
      /\ child[c] = "reading" /\ program = "http_server"
  <2>1. inbox[c] \in Seq(Parts) /\ inbox[c] # <<>>
    BY DEF TakeRequest, AInv, TextsOK
  <2>2. Len(inbox[c]) \in Nat \ {0}
    BY <2>1, EmptySeq, LenProperties
  <2>3. n \in 1..Len(inbox[c])
    BY <2>2
  <2>4. QED
    BY <2>1, <2>3 DEF TakeRequest, AInv, IInv, TypeOK, ReadersOK
<1> HIDE DEF n
<1>2. /\ SubSeq(inbox[c], 1, n) \in Seq(Parts) /\ Len(SubSeq(inbox[c], 1, n)) = n
      /\ SubSeq(inbox[c], n + 1, Len(inbox[c])) \in Seq(Parts)
      /\ Len(SubSeq(inbox[c], n + 1, Len(inbox[c]))) = Len(inbox[c]) - n
      /\ Len(inbox[c]) \in Nat
  BY <1>1, SubSeqProperties, LenProperties
<1>3. taken[c] = <<>> /\ reply[c] = <<>> /\ got[c] = <<>>
  BY <1>1 DEF AInv, AnswerOK
<1>4. taken'[c] = SubSeq(inbox[c], 1, n) /\ inbox'[c] = SubSeq(inbox[c], n + 1, Len(inbox[c]))
  BY <1>1 DEF AInv, TextsOK
<1>5. taken'[c] # <<>>
  <2>1. Len(taken'[c]) = n /\ n # 0
    BY <1>1, <1>2, <1>4
  <2>2. QED
    BY <2>1
<1>6. Counted'
  <2>1. Len(taken[c]) = 0
    BY <1>3
  <2>2. QED
    BY <1>1, <1>2, <2>1 DEF AInv, TextsOK, Counted
<1>7. QED
  BY <1>1, <1>2, <1>3, <1>4, <1>5, <1>6

LEMMA ReadAnswer == ASSUME AInv, NEW c \in Clients, Read(c) PROVE AInv'
<1> USE ForkServersAssumption
<1>0. IInv'
  BY ChildInv DEF AInv, Child
<1>1. /\ reply' = [reply EXCEPT ![c] = <<"status">>]
      /\ child' = [child EXCEPT ![c] = "execv"]
      /\ ~Within("bad", taken'[c])
      /\ UNCHANGED <<serverVars, holds, signalVars, conn, sent, got>>
  BY DEF Read, clientVars
<1>2. /\ taken' = [taken EXCEPT ![c] = taken'[c]] /\ taken'[c] \in Seq(Parts)
      /\ inbox' = [inbox EXCEPT ![c] = inbox'[c]] /\ inbox'[c] \in Seq(Parts)
      /\ got[c] = <<>> /\ child[c] = "reading" /\ program = "http_server"
      /\ Counted'
  BY <1>1, TakeOK DEF Read
<1>3. <<"status">> \in Seq(Texts) /\ <<>> \o <<"status">> = <<"status">>
  <2>1. <<"status">> \in Seq(Texts)
    BY DEF Texts
  <2>2. QED
    BY <2>1, EmptyConcat
<1>4. TextsOK'
  BY <1>1, <1>2, <1>3 DEF AInv, TextsOK
<1>5. OneChild'
  BY <1>1, <1>2 DEF AInv, OneChild, IInv, TypeOK, serverVars
<1>6. EndsOK'
  BY <1>1, <1>2 DEF AInv, OneChild, EndsOK, TextsOK, Held, Processes
<1>7. AnswerOK'
  <2>1. \A d \in Clients \ {c} : /\ taken'[d] = taken[d] /\ inbox'[d] = inbox[d]
                                 /\ reply'[d] = reply[d] /\ child'[d] = child[d]
    BY <1>1, <1>2 DEF AInv, TextsOK, IInv, TypeOK
  <2>2. child'[c] = "execv" /\ reply'[c] = <<"status">>
    BY <1>1 DEF AInv, TextsOK, IInv, TypeOK
  <2>3. QED
    BY <1>1, <1>2, <1>3, <2>1, <2>2 DEF AInv, AnswerOK, serverVars
<1>8. QED
  BY <1>0, <1>2, <1>4, <1>5, <1>6, <1>7 DEF AInv

LEMMA ReadThrowsAnswer == ASSUME AInv, NEW c \in Clients, ReadThrows(c) PROVE AInv'
<1> USE ForkServersAssumption
<1>0. IInv'
  BY ChildInv DEF AInv, Child
<1>1. /\ child' = [child EXCEPT ![c] = "zombie"]
      /\ holds' = [holds EXCEPT ![c] = {}]
      /\ Within("bad", taken'[c]) \/ conn[c] = "gone"
      /\ UNCHANGED <<serverVars, reaping, conn, sent, got, reply>>
  BY DEF ReadThrows, Dies, clientVars
<1>2. /\ taken' = [taken EXCEPT ![c] = taken'[c]] /\ taken'[c] \in Seq(Parts)
      /\ inbox' = [inbox EXCEPT ![c] = inbox'[c]] /\ inbox'[c] \in Seq(Parts)
      /\ reply[c] = <<>> /\ got[c] = <<>> /\ taken'[c] # <<>>
      /\ child[c] = "reading" /\ program = "http_server"
      /\ Counted'
  BY <1>1, TakeOK DEF ReadThrows
<1>3. TextsOK'
  BY <1>1, <1>2 DEF AInv, TextsOK
<1>4. OneChild'
  BY <1>1, <1>2 DEF AInv, OneChild, IInv, TypeOK, Processes, serverVars
<1>5. EndsOK'
  BY <1>1 DEF AInv, EndsOK, IInv, TypeOK, Held
<1>6. AnswerOK'
  <2>1. \A d \in Clients \ {c} : /\ taken'[d] = taken[d] /\ inbox'[d] = inbox[d]
                                 /\ child'[d] = child[d]
    BY <1>1, <1>2 DEF AInv, TextsOK, IInv, TypeOK
  <2>2. <<>> \o <<>> = <<>>
    BY EmptySeq, EmptyConcat
  <2>3. <<>> \in Beginnings(Deserved(c, taken'[c]))
    BY DeservedText, BeginningEnds
  <2>4. Within("bad", taken'[c]) => Deserved(c, taken'[c]) = <<>>
    BY DEF Deserved
  <2>5. child'[c] = "zombie" /\ conn'[c] = conn[c] /\ got'[c] \o reply'[c] = <<>>
    BY <1>1, <1>2, <2>2 DEF AInv, IInv, TypeOK
  <2>6. QED
    BY <1>1, <1>2, <2>1, <2>3, <2>4, <2>5 DEF AInv, AnswerOK, serverVars
<1>7. QED
  BY <1>0, <1>2, <1>3, <1>4, <1>5, <1>6 DEF AInv

LEMMA ExecvAnswer == ASSUME AInv, NEW c \in Clients, Execv(c) PROVE AInv'
<1> USE ForkServersAssumption, RequestAssumption
<1>0. IInv'
  BY ChildInv DEF AInv, Child
<1>1. /\ Close(c, c, <<Outcome(c)>>) /\ child[c] = "execv"
      /\ child' = [child EXCEPT ![c] = "zombie"]
      /\ UNCHANGED <<serverVars, reaping, clientVars, got, inbox, taken>>
  BY DEF Execv, Dies
<1>2. <<Outcome(c)>> \in Seq(Texts)
  <2>1. Outcome(c) \in Texts
    BY DEF Outcome, Texts
  <2>2. QED
    BY <2>1
<1> DEFINE text == <<Outcome(c)>>
<1>3. /\ reply' = [reply EXCEPT ![c] = reply'[c]]
      /\ reply'[c] \in Seq(Texts)
      /\ inbox[c] = <<>> => reply'[c] = reply[c] \o text
      /\ reply'[c] \in {reply[c] \o text} \cup Beginnings(reply[c])
  BY <1>1, <1>2, CloseReply DEF AInv
<1>4. \A d \in Clients \ {c} : reply'[d] = reply[d]
  BY <1>3 DEF AInv, TextsOK
<1>5. TextsOK' /\ Counted'
  BY <1>1, <1>3 DEF AInv, TextsOK, Counted, clientVars
<1>6. OneChild'
  BY <1>1 DEF AInv, OneChild, IInv, TypeOK, Close, Processes, serverVars, clientVars
<1>7. EndsOK'
  <2>1. \A d \in Clients : Held(d)' => Held(d)
    BY <1>1 DEF AInv, IInv, TypeOK, Close, Held
  <2>2. conn[c] # "ended"
    BY <1>1 DEF AInv, OneChild, EndsOK, Held, Processes
  <2>3. QED
    BY <1>1, <1>4, <2>1, <2>2 DEF AInv, EndsOK, clientVars
<1>8. AnswerOK'
  <2>1. program = "http_server" /\ got[c] \o reply[c] = <<"status">> /\ ~Within("bad", taken[c])
    BY <1>1 DEF AInv, IInv, ReadersOK, AnswerOK
  <2>2. got[c] \o (reply[c] \o text) = Deserved(c, taken[c])
    <3> DEFINE g == got[c]
               r == reply[c]
    <3>1. g \in Seq(Texts) /\ r \in Seq(Texts) /\ text \in Seq(Texts)
      BY <1>2 DEF AInv, TextsOK
    <3> HIDE DEF g, r, text
    <3>2. g \o (r \o text) = (g \o r) \o text
      BY <3>1, ConcatAssociative
    <3>3. (g \o r) \o text = <<"status">> \o <<Outcome(c)>>
      BY <2>1 DEF g, r, text
    <3>4. <<"status">> \o <<Outcome(c)>> = <<"status", Outcome(c)>>
      <4>1. "status" \in Texts /\ Outcome(c) \in Texts
        BY DEF Outcome, Texts
      <4>2. QED
        BY <4>1, TwoParts
    <3>5. <<"status", Outcome(c)>> = Deserved(c, taken[c])
      BY <2>1 DEF Outcome, Deserved
    <3>6. QED
      BY <3>2, <3>3, <3>4, <3>5 DEF g, r
  <2>3. inbox[c] = <<>> => got[c] \o reply'[c] = Deserved(c, taken[c])
    BY <1>3, <2>2
  <2>4. got[c] \o reply'[c] \in Beginnings(Deserved(c, taken[c]))
    <3>1. CASE reply'[c] = reply[c] \o text
      BY <2>2, <3>1, DeservedText, BeginningEnds
    <3>2. CASE reply'[c] \in Beginnings(reply[c])
      <4>1. got[c] \o reply[c] \in Beginnings(Deserved(c, taken[c]))
        BY <2>1, DeservedText
      <4>2. QED
        BY <3>2, <4>1, DeservedText, BeginningCut DEF AInv, TextsOK
    <3>3. QED
      BY <1>3, <3>1, <3>2
  <2>5. /\ child'[c] = "zombie" /\ \A d \in Clients \ {c} : child'[d] = child[d] /\ reply'[d] = reply[d]
        /\ UNCHANGED <<program, conn, inbox, taken, got>>
    BY <1>1, <1>4 DEF AInv, IInv, TypeOK, serverVars, clientVars
  <2>6. QED
    BY <2>1, <2>3, <2>4, <2>5 DEF AInv, AnswerOK
<1>9. QED
  BY <1>0, <1>5, <1>6, <1>7, <1>8 DEF AInv

LEMMA ChildAnswer == ASSUME AInv, NEW c \in Clients, Child(c) PROVE AInv'
<1> USE ForkServersAssumption, RequestAssumption
<1>0. IInv'
  BY ChildInv DEF AInv
<1>1. CASE ShellEnds(c)
  <2>1. /\ child' = [child EXCEPT ![c] = "zombie"] /\ child[c] = "session"
        /\ inbox' = [inbox EXCEPT ![c] = <<>>]
        /\ taken' = [taken EXCEPT ![c] = taken[c] \o inbox[c]]
        /\ UNCHANGED <<program, server, current, reaping, conn, sent, got, reply>>
    BY <1>1 DEF ShellEnds, Dies, serverVars, clientVars
  <2>2. /\ holds' \in [Processes -> SUBSET Clients]
        /\ \A p \in Processes : holds'[p] \in {holds[p], {}}
        /\ \A p \in Processes \ {c} : holds'[p] = holds[p]
    <3>1. holds' \in {holds, [holds EXCEPT ![c] = {}]}
      BY <1>1 DEF ShellEnds
    <3>2. QED
      BY <3>1 DEF AInv, IInv, TypeOK
  <2>3. /\ taken[c] \o inbox[c] \in Seq(Parts)
        /\ Len(taken[c] \o inbox[c]) = Len(taken[c]) + Len(inbox[c])
        /\ <<>> \in Seq(Parts) /\ Len(<<>>) = 0
        /\ Len(taken[c]) \in Nat /\ Len(inbox[c]) \in Nat
    BY ConcatProperties, LenProperties, EmptySeq DEF AInv, TextsOK
  <2>4. TextsOK'
    BY <2>1, <2>3 DEF AInv, TextsOK
  <2>5. Counted'
    <3>1. ASSUME NEW d \in Clients
          PROVE  sent'[d] <= Len(Request[d]) /\ sent'[d] = Len(taken'[d]) + Len(inbox'[d])
      <4>1. CASE d = c
        <5>1. taken'[c] = taken[c] \o inbox[c] /\ inbox'[c] = <<>>
          BY <2>1 DEF AInv, TextsOK
        <5>2. Len(inbox'[c]) = 0 /\ Len(taken'[c]) = Len(taken[c]) + Len(inbox[c])
              /\ Len(taken[c]) \in Nat /\ Len(inbox[c]) \in Nat
          BY <5>1, <2>3
        <5>3. QED
          <6>1. /\ sent[c] \in Nat /\ sent'[c] = sent[c] /\ Len(Request[c]) \in Nat
                /\ Len(taken'[c]) \in Nat /\ Len(inbox'[c]) \in Nat
            BY <5>2, <2>1, LenProperties DEF AInv, TextsOK
          <6>2. sent[c] <= Len(Request[c]) /\ sent[c] = Len(taken[c]) + Len(inbox[c])
            BY DEF AInv, Counted
          <6>3. PICK r, s, t, i \in Nat : r = Len(Request[c]) /\ s = sent[c] /\ t = Len(taken[c]) /\ i = Len(inbox[c])
            BY <5>2, <6>1
          <6>4. s <= r /\ s = t + i
            BY <6>2, <6>3
          <6>5. sent'[c] = s /\ Len(taken'[c]) = t + i /\ Len(inbox'[c]) = 0
            BY <5>2, <6>1, <6>3
          <6>6. sent'[c] <= r /\ sent'[c] = Len(taken'[c]) + Len(inbox'[c])
            BY <6>4, <6>5
          <6>7. QED
            BY <4>1, <6>3, <6>6, Zenon
      <4>2. CASE d # c
        BY <4>2, <2>1 DEF AInv, TextsOK, Counted
      <4>3. QED
        BY <4>1, <4>2
    <3>2. QED
      BY <3>1 DEF Counted
  <2>6. OneChild' /\ EndsOK' /\ AnswerOK'
    <3>1. OneChild'
      BY <2>1, <2>2 DEF AInv, OneChild, IInv, TypeOK, Processes
    <3>2. EndsOK'
      BY <2>1, <2>2 DEF AInv, EndsOK, Held
    <3>3. AnswerOK'
      BY <2>1 DEF AInv, OneChild, AnswerOK
    <3>4. QED
      BY <3>1, <3>2, <3>3
  <2>7. QED
    BY <1>0, <2>4, <2>5, <2>6 DEF AInv
<1>2. CASE CommandsEnd(c)
  <2>1. TextsOK' /\ Counted' /\ AnswerOK'
    <3>1. /\ program' = program /\ conn' \in [Clients -> Ends] /\ UNCHANGED <<sent, inbox, taken, reply, got>>
          /\ \A d \in Clients : child'[d] = child[d] \/ (child'[d] = "reaped" /\ child[d] = "zombie")
          /\ \A d \in Clients : conn[d] = "gone" => conn'[d] = "gone"
      BY <1>2 DEF CommandsEnd, AInv, TextsOK, serverVars, clientVars, replyVars
    <3>2. QED
      BY <3>1, QuietAnswer
  <2>2. OneChild'
    BY <1>2 DEF CommandsEnd, AInv, OneChild, IInv, TypeOK, Processes, serverVars, clientVars
  <2>3. EndsOK'
    BY <1>2 DEF CommandsEnd, AInv, EndsOK, IInv, TypeOK, Held, clientVars, replyVars
  <2>4. QED
    BY <1>0, <2>1, <2>2, <2>3 DEF AInv
<1>3. CASE Read(c)
  BY <1>3, ReadAnswer
<1>4. CASE ReadError(c)
  <2>1. /\ Close(c, c, <<>>) /\ child[c] = "reading" /\ inbox[c] = <<>> /\ conn[c] = "gone"
        /\ child' = [child EXCEPT ![c] = "zombie"]
        /\ UNCHANGED <<serverVars, reaping, clientVars, got, inbox, taken>>
    BY <1>4 DEF ReadError, Dies
  <2>2. TextsOK' /\ Counted' /\ AnswerOK'
    <3>1. c \in Processes /\ c # Parent /\ UNCHANGED <<program, inbox, taken, got, conn, sent>>
      BY <2>1 DEF Processes, serverVars, clientVars
    <3>2. QED
      BY <2>1, <3>1, ClosedAnswer
  <2>3. OneChild'
    BY <2>1 DEF AInv, OneChild, IInv, TypeOK, Close, Processes, serverVars, clientVars
  <2>4. EndsOK'
    <3>1. \A d \in Clients : Held(d)' => Held(d)
      BY <2>1 DEF AInv, IInv, TypeOK, Close, Held
    <3>2. \A d \in Clients \ {c} : reply'[d] = reply[d]
      BY <2>1 DEF AInv, TextsOK, Close
    <3>3. QED
      BY <2>1, <3>1, <3>2 DEF AInv, EndsOK, clientVars
  <2>5. QED
    BY <1>0, <2>2, <2>3, <2>4 DEF AInv
<1>5. CASE Execv(c)
  BY <1>5, ExecvAnswer
<1>6. CASE ReadThrows(c)
  BY <1>6, ReadThrowsAnswer
<1>7. QED
  BY <1>1, <1>2, <1>3, <1>4, <1>5, <1>6 DEF Child

LEMMA ClientAnswer == ASSUME AInv, NEW c \in Clients, Client(c) PROVE AInv'
<1> USE ForkServersAssumption, RequestAssumption
<1>0. IInv'
  BY ClientInv DEF AInv
\* Only the end of the connection the client sees is another.
<1>1. ASSUME UNCHANGED <<serverVars, holds, child, signalVars, sent, replyVars>>,
             NEW e \in Ends \ {"away"}, conn' = [conn EXCEPT ![c] = e],
             e = "queued" => conn[c] = "away", conn[c] = "gone" => e = "gone",
             e = "ended" => ~Held(c) /\ reply[c] = <<>>
      PROVE  AInv'
  <2>1. TextsOK' /\ Counted' /\ AnswerOK'
    <3>1. /\ program' = program /\ conn' \in [Clients -> Ends] /\ UNCHANGED <<sent, inbox, taken, reply, got>>
          /\ \A d \in Clients : child'[d] = child[d] \/ (child'[d] = "reaped" /\ child[d] = "zombie")
          /\ \A d \in Clients : conn[d] = "gone" => conn'[d] = "gone"
      BY <1>1 DEF AInv, TextsOK, serverVars, replyVars
    <3>2. QED
      BY <3>1, QuietAnswer
  <2>2. OneChild'
    BY <1>1 DEF AInv, OneChild, TextsOK, serverVars
  <2>3. EndsOK'
    BY <1>1 DEF AInv, EndsOK, TextsOK, Held, replyVars
  <2>4. QED
    BY <1>0, <2>1, <2>2, <2>3 DEF AInv
<1>2. CASE Connect(c)
  BY <1>1, <1>2 DEF Connect, Ends
<1>3. CASE Finish(c)
  BY <1>1, <1>3 DEF Finish, Ends
<1>4. CASE Vanish(c)
  BY <1>1, <1>4 DEF Vanish, Ends
<1>5. CASE Send(c)
  <2> DEFINE part == Request[c][sent[c] + 1]
  <2>1. /\ sent' = [sent EXCEPT ![c] = sent[c] + 1]
        /\ inbox' = [inbox EXCEPT ![c] = Append(inbox[c], part)]
        /\ sent[c] < Len(Request[c])
        /\ UNCHANGED <<program, server, current, holds, child, conn, taken, reply, got>>
    BY <1>5 DEF Send, serverVars
  <2>2. part \in Parts
    <3>1. Request[c] \in Seq(Parts) /\ Len(Request[c]) \in Nat /\ sent[c] \in Nat
      BY LenProperties DEF Parts, AInv, TextsOK
    <3>2. sent[c] + 1 \in 1..Len(Request[c])
      BY <2>1, <3>1
    <3>3. QED
      BY <3>1, <3>2, ElementOfSeq
  <2> HIDE DEF part
  <2>3. /\ Append(inbox[c], part) \in Seq(Parts)
        /\ Len(Append(inbox[c], part)) = Len(inbox[c]) + 1
        /\ Len(inbox[c]) \in Nat /\ Len(taken[c]) \in Nat /\ sent[c] \in Nat /\ Len(Request[c]) \in Nat
    BY <2>2, AppendProperties, LenProperties DEF AInv, TextsOK
  <2>4. TextsOK'
    BY <2>1, <2>3 DEF AInv, TextsOK
  <2>5. Counted'
    <3>1. ASSUME NEW d \in Clients
          PROVE  sent'[d] <= Len(Request[d]) /\ sent'[d] = Len(taken'[d]) + Len(inbox'[d])
      <4>1. sent[d] <= Len(Request[d]) /\ sent[d] = Len(taken[d]) + Len(inbox[d])
        BY DEF AInv, Counted
      <4>2. CASE d = c
        <5>1. sent'[c] = sent[c] + 1 /\ inbox'[c] = Append(inbox[c], part)
          BY <2>1 DEF AInv, TextsOK
        <5>2. sent'[c] <= Len(Request[c]) /\ sent'[c] = Len(taken[c]) + Len(inbox'[c])
          <6>1. Len(inbox'[c]) = Len(inbox[c]) + 1 /\ sent'[c] \in Nat /\ Len(inbox'[c]) \in Nat
            BY <5>1, <2>3
          <6>2. sent[c] < Len(Request[c]) /\ sent[c] = Len(taken[c]) + Len(inbox[c])
            BY <4>1, <4>2, <2>1, Zenon
          <6>3. PICK r, s, t, i \in Nat : r = Len(Request[c]) /\ s = sent[c] /\ t = Len(taken[c]) /\ i = Len(inbox[c])
            BY <2>3
          <6>4. s < r /\ s = t + i
            BY <6>2, <6>3
          <6>5. sent'[c] = s + 1 /\ Len(taken[c]) = t /\ Len(inbox'[c]) = i + 1
            BY <5>1, <6>1, <6>3
          <6>6. sent'[c] <= r /\ sent'[c] = Len(taken[c]) + Len(inbox'[c])
            BY <6>4, <6>5
          <6>7. QED
            BY <6>3, <6>6, Zenon
        <5>3. QED
          BY <2>1, <4>2, <5>2
      <4>3. CASE d # c
        BY <2>1, <4>1, <4>3 DEF AInv, TextsOK
      <4>4. QED
        BY <4>2, <4>3
    <3>2. QED
      BY <3>1 DEF Counted
  <2>6. OneChild' /\ EndsOK'
    BY <2>1 DEF AInv, OneChild, EndsOK, Held
  <2>7. AnswerOK'
    <3>1. inbox'[c] # <<>> /\ \A d \in Clients \ {c} : inbox'[d] = inbox[d]
      <4>1. Len(inbox'[c]) = Len(inbox[c]) + 1
        BY <2>1, <2>3 DEF AInv, TextsOK
      <4>2. QED
        BY <2>1, <2>3, <4>1, EmptySeq DEF AInv, TextsOK
    <3>2. QED
      BY <2>1, <3>1 DEF AInv, AnswerOK
  <2>8. QED
    BY <1>0, <2>4, <2>5, <2>6, <2>7 DEF AInv
<1>6. CASE Receive(c)
  <2>1. /\ got' = [got EXCEPT ![c] = Append(got[c], Head(reply[c]))]
        /\ reply' = [reply EXCEPT ![c] = Tail(reply[c])]
        /\ conn[c] = "open" /\ reply[c] # <<>>
        /\ UNCHANGED <<program, server, current, holds, child, conn, sent, inbox, taken>>
    BY <1>6 DEF Receive, serverVars, clientVars
  <2>2. /\ Append(got[c], Head(reply[c])) \in Seq(Texts) /\ Tail(reply[c]) \in Seq(Texts)
        /\ Append(got[c], Head(reply[c])) \o Tail(reply[c]) = got[c] \o reply[c]
    <3> DEFINE g == got[c]
               r == reply[c]
    <3>1. g \in Seq(Texts) /\ r \in Seq(Texts) /\ r # <<>>
      BY <2>1 DEF AInv, TextsOK
    <3> HIDE DEF g, r
    <3>2. /\ Append(g, Head(r)) \in Seq(Texts) /\ Tail(r) \in Seq(Texts)
          /\ Append(g, Head(r)) \o Tail(r) = g \o r
      BY <3>1, MovedOn
    <3>3. QED
      BY <3>2 DEF g, r
  <2>3. TextsOK'
    BY <2>1, <2>2 DEF AInv, TextsOK
  <2>4. Counted' /\ OneChild'
    BY <2>1 DEF AInv, Counted, OneChild
  <2>5. EndsOK'
    BY <2>1 DEF AInv, EndsOK, TextsOK, Held
  <2>6. AnswerOK'
    <3>1. /\ \A d \in Clients \ {c} : got'[d] = got[d] /\ reply'[d] = reply[d]
          /\ got'[c] \o reply'[c] = got[c] \o reply[c]
      BY <2>1, <2>2 DEF AInv, TextsOK
    <3>2. \A d \in Clients : got'[d] \o reply'[d] = got[d] \o reply[d]
      BY <3>1
    <3>3. QED
      BY <2>1, <3>1, <3>2 DEF AInv, AnswerOK
  <2>7. QED
    BY <1>0, <2>3, <2>4, <2>5, <2>6 DEF AInv
<1>7. QED
  BY <1>2, <1>3, <1>4, <1>5, <1>6 DEF Client

LEMMA NextAnswer == AInv /\ [Next]_vars => AInv'
<1> SUFFICES ASSUME AInv, [Next]_vars PROVE AInv'
  OBVIOUS
<1>1. CASE Next
  BY <1>1, MainAnswer, HandlerAnswer, ChildAnswer, ClientAnswer DEF Next
<1>2. CASE UNCHANGED vars
  <2>1. IInv'
    BY <1>2, NextInv DEF AInv
  <2>2. (TextsOK /\ Counted /\ OneChild)'
    BY <1>2 DEF AInv, TextsOK, Counted, OneChild, vars, serverVars, clientVars, replyVars
  <2>3. (EndsOK /\ AnswerOK)'
    BY <1>2 DEF AInv, EndsOK, AnswerOK, Held, vars, serverVars, clientVars, replyVars
  <2>4. QED
    BY <2>1, <2>2, <2>3 DEF AInv
<1>3. QED
  BY <1>1, <1>2

(* What a child of http_server has read and answered, and what its client  *)
(* has got of it.                                                          *)
THEOREM Answers == Spec => []AInv
  BY AnswerInit, NextAnswer, PTL DEF Spec

(* Who has seen the end of a connection to http_server has got a beginning *)
(* of what the request that was read deserves (nothing, if the parser      *)
(* throws at it), and the whole if the one read took all that was sent:    *)
(* for any number of clients, requests and failures of accept and fork.    *)
THEOREM WholeReplies == Spec => []ReplyWhole
<1>1. ASSUME AInv PROVE ReplyWhole
  <2> SUFFICES ASSUME NEW c \in Clients, conn[c] = "ended", program = "http_server",
                      taken[c] # <<>>
               PROVE  /\ got[c] \in Beginnings(Deserved(c, taken[c]))
                      /\ taken[c] = SubSeq(Request[c], 1, sent[c]) => got[c] = Deserved(c, taken[c])
    BY DEF ReplyWhole
  <2>1. ~Held(c) /\ reply[c] = <<>>
    BY <1>1 DEF AInv, EndsOK
  <2>2. child[c] \in {"zombie", "reaped"}
    BY <1>1, <2>1 DEF AInv, OneChild, AnswerOK, IInv, TypeOK, Held, Processes
  <2>3. got[c] \o <<>> \in Beginnings(Deserved(c, taken[c]))
        /\ (inbox[c] = <<>> => got[c] \o <<>> = Deserved(c, taken[c]))
    BY <1>1, <2>1, <2>2 DEF AInv, AnswerOK
  <2>4. got[c] \o <<>> = got[c]
    BY <1>1, EmptyConcat DEF AInv, TextsOK
  <2>5. QED
    BY <1>1, <2>3, <2>4, WholeRead
<1>2. QED
  BY <1>1, Answers, PTL
============================================================================
