--------------------------- MODULE ConsoleProofs ---------------------------
(***************************************************************************)
(* Console: whatever the shells do, the console dies only of a host a      *)
(* proxy cannot reach, or of a prompt of a shell that broke off by itself, *)
(* and what the page shows is the dialogue of the file with the shell.     *)
(*                                                                         *)
(* The invariant says that a session alternates: a line is on its way only *)
(* when nothing the shell printed is left to read, and what is left to     *)
(* read has no prompt except at its end.  A shell that left on exit has    *)
(* therefore no prompt in the queue, and no write to it can throw.  For    *)
(* the page, TalkInv says how far each dialogue has got: n lines of it     *)
(* have been answered, and perhaps the next one has been sent.             *)
(***************************************************************************)
EXTENDS Console, SequenceTheorems, FiniteSetTheorems, WellFoundedInduction, TLAPS

Lines == DOMAIN Output \cup {""}

\* What may be on its way to a shell: one line at most.
Queues == {<<>>} \cup {<<cmd>> : cmd \in Lines}

\* No shell prints a prompt of its own in the output of a command.
Unmistakable == \A cmd \in DOMAIN Output : ~HasPrompt(Output[cmd])

TypeOK ==
    /\ proxied \in BOOLEAN
    /\ mode \in {"starting", "serving", "ended", "dead"}
    /\ next \in Nat
    /\ session \in [Hosts -> {"none", "resolving", "connecting", "reading", "rejected", "closed"}]
    /\ line \in [Hosts -> Nat]
    /\ shell \in [Hosts -> {"away", "up", "gone"}]
    /\ toConsole \in [Hosts -> Seq(Tokens)]
    /\ toShell \in [Hosts -> Queues]

\* A prompt in the text is its end.
PromptEnds(text) ==
    \A i \in 1..Len(text) - 1 : text[i] = "percent" /\ text[i + 1] = "space" => i + 1 = Len(text)

\* Nothing is left to read, and no line is on its way.
Idle(h) == toConsole[h] = <<>> /\ toShell[h] = <<>>

\* The shell and the console speak in turn.
Alternates(h) ==
    /\ PromptEnds(toConsole[h])
    /\ toShell[h] # <<>> => toConsole[h] = <<>>
    /\ shell[h] = "gone" => h \in Dying \/ Idle(h)
    /\ session[h] \in {"none", "resolving", "connecting", "rejected"} => shell[h] = "away"
    /\ shell[h] = "away" => Idle(h)

ConsoleInv ==
    /\ TypeOK
    /\ mode = "starting" => \A h \in Hosts : h >= next => session[h] = "none"
    /\ \A h \in Hosts : Alternates(h)
    /\ Contained

----------------------------------------------------------------------------
(* Lines and prompts                                                       *)

\* What the console sends is a line of the file, or an empty one after it.
LEMMA LineSent ==
    ASSUME TypeOK, NEW h \in Hosts
    PROVE  NextLine(h) \in Lines
<1>1. Script[h] \in Seq(DOMAIN Output) /\ line[h] \in Nat
  BY ConsoleAssumption DEF TypeOK
<1>2. CASE line[h] < Len(Script[h])
  <2>1. line[h] + 1 \in 1..Len(Script[h])
    BY <1>1, <1>2
  <2>2. Script[h][line[h] + 1] \in DOMAIN Output
    BY <1>1, <2>1, ElementOfSeq
  <2>3. QED
    BY <1>2, <2>2 DEF NextLine, Lines
<1>3. CASE ~(line[h] < Len(Script[h]))
  BY <1>3 DEF NextLine, Lines
<1>4. QED
  BY <1>2, <1>3

LEMMA SmallerOfTwo ==
    ASSUME NEW a \in Nat, NEW b \in Nat
    PROVE  Min({a, b}) \in Nat
<1>1. \E x \in {a, b} : \A y \in {a, b} : x =< y
  <2>1. CASE a =< b
    BY <2>1
  <2>2. CASE b =< a
    BY <2>2
  <2>3. QED
    BY <2>1, <2>2
<1>2. Min({a, b}) \in {a, b}
  BY <1>1 DEF Min
<1>3. QED
  BY <1>2

\* A prompt is a "percent" with a space after it.
LEMMA PromptAt ==
    ASSUME NEW text \in Seq(Tokens)
    PROVE  HasPrompt(text) <=> \E i \in 1..Len(text) - 1 : text[i] = "percent" /\ text[i + 1] = "space"
<1>1. ASSUME NEW i \in 1..Len(text) - 1
      PROVE  SubSeq(text, i, i + 1) = Prompt <=> text[i] = "percent" /\ text[i + 1] = "space"
  <2> DEFINE two == SubSeq(text, i, i + 1)
  <2>1. i \in Nat /\ Len(text) \in Nat /\ 1 <= i /\ i + 1 <= Len(text)
    BY <1>1, LenProperties
  <2>2. Len(two) = 2 /\ two \in Seq(Tokens) /\ two[1] = text[i] /\ two[2] = text[i + 1]
    BY <2>1
  <2>3. Prompt \in Seq(Tokens) /\ Len(Prompt) = 2 /\ Prompt[1] = "percent" /\ Prompt[2] = "space"
    BY DEF Prompt, Tokens
  <2> HIDE DEF two
  <2>4. two = Prompt <=> two[1] = "percent" /\ two[2] = "space"
    <3>1. ASSUME two[1] = "percent" /\ two[2] = "space"
          PROVE  two = Prompt
      <4>1. \A j \in 1..Len(two) : two[j] = Prompt[j]
        BY <2>2, <2>3, <3>1
      <4>2. QED
        BY <2>2, <2>3, <4>1, SeqEqual
    <3>2. QED
      BY <2>3, <3>1
  <2>5. QED
    BY <2>2, <2>4 DEF two
<1>2. QED
  BY <1>1 DEF HasPrompt

\* What a shell prints before a prompt does not hide another one.
LEMMA Prompted ==
    ASSUME NEW text \in Seq(Tokens), ~HasPrompt(text)
    PROVE  text \o Prompt \in Seq(Tokens) /\ PromptEnds(text \o Prompt)
<1>1. PICK n \in Nat : n = Len(text)
  BY LenProperties
<1>2. PICK all : all = text \o Prompt
  OBVIOUS
<1>3. /\ all \in Seq(Tokens) /\ Len(all) = n + 2
      /\ \A i \in 1..n : all[i] = text[i]
      /\ all[n + 1] = "percent" /\ all[n + 2] = "space"
  <2>1. Prompt \in Seq(Tokens) /\ Len(Prompt) = 2 /\ Prompt[1] = "percent" /\ Prompt[2] = "space"
    BY DEF Prompt, Tokens
  <2>2. PICK prompt \in Seq(Tokens) : prompt = Prompt
    BY <2>1
  <2>3. /\ text \o prompt \in Seq(Tokens)
        /\ Len(text \o prompt) = Len(text) + Len(prompt)
        /\ \A i \in 1..Len(text) + Len(prompt) :
              (text \o prompt)[i] = IF i <= Len(text) THEN text[i] ELSE prompt[i - Len(text)]
    BY ConcatProperties, Zenon
  <2>4. /\ all \in Seq(Tokens) /\ Len(all) = n + 2
        /\ \A i \in 1..n + 2 : all[i] = IF i <= n THEN text[i] ELSE prompt[i - n]
    BY <1>1, <1>2, <2>1, <2>2, <2>3
  <2>5. all[n + 1] = prompt[1] /\ all[n + 2] = prompt[2]
    BY <1>1, <2>4
  <2>6. QED
    BY <1>1, <2>1, <2>2, <2>4, <2>5
<1>4. SUFFICES ASSUME NEW i \in 1..n + 1, all[i] = "percent", all[i + 1] = "space"
               PROVE  i + 1 = n + 2
  BY <1>2, <1>3 DEF PromptEnds
<1>5. CASE i \in 1..n - 1
  <2>1. all[i] = text[i] /\ all[i + 1] = text[i + 1]
    BY <1>1, <1>3, <1>5
  <2>2. HasPrompt(text)
    BY <1>1, <1>4, <1>5, <2>1, PromptAt
  <2>3. QED
    BY <2>2
<1>6. CASE i = n
  BY <1>3, <1>4, <1>6
<1>7. CASE i = n + 1
  BY <1>1, <1>7
<1>8. QED
  BY <1>1, <1>4, <1>5, <1>6, <1>7

\* A read that brings a prompt leaves nothing; another leaves the end.
LEMMA RestOfText ==
    ASSUME NEW text \in Seq(Tokens), PromptEnds(text), NEW n \in 1..Len(text),
           NEW data, data = SubSeq(text, 1, n)
    PROVE  LET rest == SubSeq(text, Len(data) + 1, Len(text))
           IN  rest \in Seq(Tokens) /\ PromptEnds(rest) /\ (HasPrompt(data) => rest = <<>>)
<1>1. PICK L \in Nat : L = Len(text)
  BY LenProperties
<1>2. n \in Nat /\ 1 <= n /\ n <= L
  BY <1>1
<1>3. data \in Seq(Tokens) /\ Len(data) = n /\ \A i \in 1..n : data[i] = text[i]
  BY <1>1, <1>2
<1>4. PICK rest : rest = SubSeq(text, n + 1, L)
  OBVIOUS
<1>5. rest \in Seq(Tokens) /\ Len(rest) = L - n /\ \A i \in 1..L - n : rest[i] = text[n + i]
  BY <1>1, <1>2, <1>4
<1>6. PromptEnds(rest)
  <2>1. SUFFICES ASSUME NEW i \in 1..L - n - 1, rest[i] = "percent", rest[i + 1] = "space"
                 PROVE  i + 1 = L - n
    BY <1>5 DEF PromptEnds
  <2>2. text[n + i] = "percent" /\ text[n + i + 1] = "space"
    <3>1. i \in 1..L - n /\ i + 1 \in 1..L - n /\ n + (i + 1) = n + i + 1
      BY <1>1, <1>2, <2>1
    <3>2. QED
      BY <1>5, <2>1, <3>1
  <2>3. n + i \in 1..L - 1
    BY <1>1, <1>2, <2>1
  <2>4. n + i + 1 = L
    BY <1>1, <2>2, <2>3 DEF PromptEnds
  <2>5. QED
    BY <1>1, <1>2, <2>1, <2>4
<1>7. ASSUME HasPrompt(data)
      PROVE  rest = <<>>
  <2>1. PICK i \in 1..n - 1 : data[i] = "percent" /\ data[i + 1] = "space"
    BY <1>3, <1>7, PromptAt
  <2>2. i \in 1..L - 1 /\ text[i] = "percent" /\ text[i + 1] = "space"
    BY <1>1, <1>2, <1>3, <2>1
  <2>3. i + 1 = L
    BY <1>1, <2>2 DEF PromptEnds
  <2>4. n = L
    BY <1>1, <1>2, <2>1, <2>3
  <2>5. QED
    BY <1>5, <2>4, EmptySeq
<1>8. QED
  BY <1>1, <1>3, <1>4, <1>5, <1>6, <1>7

LEMMA Greeting == <<"text">> \o Prompt \in Seq(Tokens) /\ PromptEnds(<<"text">> \o Prompt)
<1>1. <<"text">> \in Seq(Tokens) /\ Len(<<"text">>) = 1
  BY DEF Tokens
<1>2. ~HasPrompt(<<"text">>)
  BY <1>1 DEF HasPrompt
<1>3. PICK text : text = <<"text">>
  OBVIOUS
<1>4. QED
  BY <1>1, <1>2, <1>3, Prompted

LEMMA NoLine == <<>> \in Queues
BY DEF Queues

LEMMA NothingSaid == PromptEnds(<<>>)
BY EmptySeq DEF PromptEnds

----------------------------------------------------------------------------
(* The steps                                                               *)

\* A step of host h leaves the other sessions as they are.
LEMMA OneHost ==
    ASSUME ConsoleInv, NEW h \in Hosts,
           \A g \in Hosts : g # h => /\ session'[g] = session[g] /\ shell'[g] = shell[g]
                                     /\ toConsole'[g] = toConsole[g] /\ toShell'[g] = toShell[g],
           Alternates(h)'
    PROVE  \A g \in Hosts : Alternates(g)'
<1>1. ASSUME NEW g \in Hosts, g # h
      PROVE  Alternates(g)'
  <2>1. Alternates(g)
    BY DEF ConsoleInv
  <2>2. session'[g] = session[g] /\ shell'[g] = shell[g]
        /\ toConsole'[g] = toConsole[g] /\ toShell'[g] = toShell[g]
    BY <1>1
  <2>3. QED
    BY <2>1, <2>2 DEF Alternates, Idle, PromptEnds
<1>2. QED
  BY <1>1

\* The greeting of a shell starts a session that was not connected.
LEMMA MeetKeeps ==
    ASSUME ConsoleInv, NEW h \in Hosts, session[h] \in {"none", "connecting"}, Meet(h)
    PROVE  /\ session' \in [Hosts -> {"none", "resolving", "connecting", "reading", "rejected", "closed"}]
           /\ shell' \in [Hosts -> {"away", "up", "gone"}]
           /\ toConsole' \in [Hosts -> Seq(Tokens)]
           /\ proxied' = proxied /\ line' = line /\ toShell' = toShell
           /\ \A g \in Hosts : g # h => session'[g] = session[g]
           /\ \A g \in Hosts : Alternates(g)'
<1>1. PICK greeting \in Seq(Tokens) : greeting = <<"text">> \o Prompt
  BY Greeting
<1>2. /\ session' = [session EXCEPT ![h] = "reading"]
      /\ shell' = [shell EXCEPT ![h] = "up"]
      /\ toConsole' = [toConsole EXCEPT ![h] = greeting]
      /\ proxied' = proxied /\ line' = line /\ toShell' = toShell
  BY <1>1 DEF Meet
<1>3. TypeOK /\ Alternates(h)
  BY DEF ConsoleInv
<1>4. /\ session' \in [Hosts -> {"none", "resolving", "connecting", "reading", "rejected", "closed"}]
      /\ shell' \in [Hosts -> {"away", "up", "gone"}]
      /\ toConsole' \in [Hosts -> Seq(Tokens)]
  BY <1>2, <1>3 DEF TypeOK
<1>5. /\ session'[h] = "reading" /\ shell'[h] = "up" /\ toConsole'[h] = greeting
      /\ \A g \in Hosts : g # h => /\ session'[g] = session[g] /\ shell'[g] = shell[g]
                                   /\ toConsole'[g] = toConsole[g] /\ toShell'[g] = toShell[g]
  BY <1>2, <1>3 DEF TypeOK
<1>6. Alternates(h)'
  <2>1. toShell[h] = <<>>
    BY <1>3 DEF Alternates, Idle
  <2>2. PromptEnds(greeting)
    BY <1>1, Greeting
  <2>3. QED
    BY <1>2, <1>5, <2>1, <2>2 DEF Alternates
<1>7. QED
  BY <1>2, <1>4, <1>5, <1>6, OneHost

\* A session that is not connected and stays so.
LEMMA StayKeeps ==
    ASSUME ConsoleInv, NEW h \in Hosts,
           NEW state \in {"none", "resolving", "connecting", "rejected", "closed"},
           session[h] \in {"none", "resolving", "connecting"} \/ state = "closed",
           Stay(h, state)
    PROVE  /\ session' \in [Hosts -> {"none", "resolving", "connecting", "reading", "rejected", "closed"}]
           /\ shell' = shell /\ toConsole' = toConsole
           /\ proxied' = proxied /\ line' = line /\ toShell' = toShell
           /\ session'[h] = state
           /\ \A g \in Hosts : g # h => session'[g] = session[g]
           /\ \A g \in Hosts : Alternates(g)'
<1>1. /\ session' = [session EXCEPT ![h] = state]
      /\ shell' = shell /\ toConsole' = toConsole
      /\ proxied' = proxied /\ line' = line /\ toShell' = toShell
  BY DEF Stay
<1>2. TypeOK /\ Alternates(h)
  BY DEF ConsoleInv
<1>3. /\ session' \in [Hosts -> {"none", "resolving", "connecting", "reading", "rejected", "closed"}]
      /\ session'[h] = state
      /\ \A g \in Hosts : g # h => session'[g] = session[g]
  BY <1>1, <1>2 DEF TypeOK
<1>4. Alternates(h)'
  BY <1>1, <1>2, <1>3 DEF Alternates, Idle, PromptEnds
<1>5. QED
  BY <1>1, <1>3, <1>4, OneHost

\* main starts one session after the other.
LEMMA StartKeeps ==
    ASSUME ConsoleInv, NEW h \in Hosts, Start(h)
    PROVE  ConsoleInv'
<1>1. /\ mode = "starting" /\ next = h /\ session[h] = "none" /\ TypeOK
      /\ \A g \in Hosts : g >= next => session[g] = "none"
      /\ h \in Nat
  BY ConsoleAssumption DEF Start, StartDirect, StartProxied, Starting, ConsoleInv, Hosts, TypeOK
<1>2. CASE \/ StartDirect(h)
           \/ h \notin Down /\ next' = next + 1 /\ UNCHANGED mode /\ Meet(h)
           \/ next' = next + 1 /\ UNCHANGED mode /\ Stay(h, "rejected")
  <2>1. /\ next' = next + 1 /\ mode' = mode
        /\ Meet(h) \/ Stay(h, "resolving") \/ Stay(h, "rejected")
    BY <1>2 DEF StartDirect
  <2>2. /\ TypeOK' /\ \A g \in Hosts : g # h => session'[g] = session[g]
        /\ \A g \in Hosts : Alternates(g)'
    <3>1. next' \in Nat /\ mode' \in {"starting", "serving", "ended", "dead"}
      BY <1>1, <2>1 DEF TypeOK
    <3>2. CASE Meet(h)
      BY <1>1, <3>1, <3>2, MeetKeeps DEF TypeOK
    <3>3. CASE Stay(h, "resolving")
      BY <1>1, <3>1, <3>3, StayKeeps DEF TypeOK
    <3>4. CASE Stay(h, "rejected")
      BY <1>1, <3>1, <3>4, StayKeeps DEF TypeOK
    <3>5. QED
      BY <2>1, <3>2, <3>3, <3>4
  <2>3. \A g \in Hosts : g >= next' => session'[g] = "none"
    <3>1. \A g \in Hosts : g \in Nat
      BY DEF Hosts
    <3>2. \A g \in Hosts : g >= next' => g # h /\ g >= next
      BY <1>1, <2>1, <3>1
    <3>3. QED
      BY <1>1, <2>2, <3>2
  <2>4. QED
    BY <1>1, <2>1, <2>2, <2>3 DEF ConsoleInv, Contained
<1>3. CASE proxied /\ h \in Down /\ mode' = "dead" /\ UNCHANGED next /\ Stay(h, "none")
  <2>1. TypeOK' /\ \A g \in Hosts : Alternates(g)'
    BY <1>1, <1>3, StayKeeps DEF TypeOK
  <2>2. Contained'
    BY <1>1, <1>3, StayKeeps DEF Contained
  <2>3. QED
    BY <1>3, <2>1, <2>2 DEF ConsoleInv
<1>4. QED
  BY <1>2, <1>3 DEF Start, StartProxied

LEMMA RunReturnKeeps ==
    ASSUME ConsoleInv, Run \/ Return
    PROVE  ConsoleInv'
<1>1. /\ mode' \in {"serving", "ended"}
      /\ proxied' = proxied /\ next' = next /\ session' = session /\ line' = line
      /\ shell' = shell /\ toConsole' = toConsole /\ toShell' = toShell
  BY DEF Run, Return
<1>2. TypeOK'
  BY <1>1 DEF ConsoleInv, TypeOK
<1>3. \A h \in Hosts : Alternates(h)'
  BY <1>1 DEF ConsoleInv, Alternates, Idle, PromptEnds
<1>4. QED
  BY <1>1, <1>2, <1>3 DEF ConsoleInv, Contained

\* The handlers other than read_handler, and its error branch.
LEMMA HandlersKeep ==
    ASSUME ConsoleInv, NEW h \in Hosts, Resolved(h) \/ Connected(h) \/ ReadError(h)
    PROVE  ConsoleInv'
<1>1. /\ mode = "serving" /\ mode' = mode /\ next' = next /\ TypeOK
      /\ \/ session[h] = "connecting" /\ Meet(h)
         \/ session[h] = "resolving" /\ Stay(h, "connecting")
         \/ Stay(h, "closed")
  BY DEF Resolved, Connected, ReadError, ConsoleInv
<1>2. TypeOK' /\ \A g \in Hosts : Alternates(g)'
  <2>1. CASE session[h] = "connecting" /\ Meet(h)
    BY <1>1, <2>1, MeetKeeps DEF TypeOK
  <2>2. CASE session[h] = "resolving" /\ Stay(h, "connecting")
    BY <1>1, <2>2, StayKeeps DEF TypeOK
  <2>3. CASE Stay(h, "closed")
    BY <1>1, <2>3, StayKeeps DEF TypeOK
  <2>4. QED
    BY <1>1, <2>1, <2>2, <2>3
<1>3. QED
  BY <1>1, <1>2 DEF ConsoleInv, Contained

\* A line is sent for a prompt, which was the last thing to read: and only a
\* shell that broke off by itself left one behind.
LEMMA ReadKeeps ==
    ASSUME ConsoleInv, NEW h \in Hosts, Read(h)
    PROVE  ConsoleInv'
<1>1. /\ mode = "serving" /\ session[h] = "reading" /\ TypeOK /\ Alternates(h)
      /\ proxied' = proxied /\ next' = next /\ session' = session /\ shell' = shell
  BY DEF Read, ConsoleInv
<1>2. PICK data \in Reads(h) :
          /\ toConsole' = [toConsole EXCEPT ![h] = SubSeq(@, Len(data) + 1, Len(@))]
          /\ IF HasPrompt(data)
             THEN /\ line' = [line EXCEPT ![h] = Min({@ + 1, Len(Script[h])})]
                  /\ \/ /\ toShell' = [toShell EXCEPT ![h] =
                                          IF shell[h] = "up" THEN Append(@, NextLine(h)) ELSE @]
                        /\ UNCHANGED mode
                     \/ /\ shell[h] = "gone"
                        /\ mode' = "dead"
                        /\ UNCHANGED toShell
             ELSE UNCHANGED <<line, toShell, mode>>
  BY DEF Read
<1>3. PICK text \in Seq(Tokens) : text = toConsole[h]
  BY <1>1 DEF TypeOK
<1>4. PICK n \in 1..Len(text) : data = SubSeq(text, 1, n)
  BY <1>2, <1>3 DEF Reads
<1>5. PICK rest : rest = SubSeq(text, Len(data) + 1, Len(text))
  OBVIOUS
<1>6. PromptEnds(text) /\ text # <<>> /\ toShell[h] = <<>> /\ (shell[h] = "gone" => h \in Dying)
  <2>1. text # <<>>
    BY <1>4, EmptySeq
  <2>2. QED
    BY <1>1, <1>3, <2>1 DEF Alternates, Idle
<1>7. rest \in Seq(Tokens) /\ PromptEnds(rest) /\ (HasPrompt(data) => rest = <<>>)
  BY <1>4, <1>5, <1>6, RestOfText
<1>8. /\ toConsole' \in [Hosts -> Seq(Tokens)] /\ toConsole'[h] = rest
      /\ \A g \in Hosts : g # h => toConsole'[g] = toConsole[g]
  BY <1>1, <1>2, <1>3, <1>5, <1>7 DEF TypeOK
<1>9. NextLine(h) \in Lines
  BY <1>1, LineSent
<1>10. /\ line' \in [Hosts -> Nat]
       /\ toShell' \in [Hosts -> Queues]
       /\ toShell'[h] # <<>> => HasPrompt(data)
       /\ shell[h] # "up" => toShell'[h] = <<>>
       /\ \A g \in Hosts : g # h => toShell'[g] = toShell[g]
  <2>1. CASE HasPrompt(data)
    <3>1. line' \in [Hosts -> Nat]
      <4>1. Len(Script[h]) \in Nat /\ line[h] + 1 \in Nat
        BY <1>1, ConsoleAssumption, LenProperties DEF TypeOK
      <4>2. Min({line[h] + 1, Len(Script[h])}) \in Nat
        BY <4>1, SmallerOfTwo
      <4>3. QED
        BY <1>1, <1>2, <2>1, <4>2 DEF TypeOK
    <3>2. PICK cmd \in Lines : cmd = NextLine(h)
      BY <1>9
    <3>3. Append(toShell[h], cmd) = <<cmd>>
      BY <1>6
    <3>4. toShell' = [toShell EXCEPT ![h] = IF shell[h] = "up" THEN <<cmd>> ELSE <<>>]
          \/ (shell[h] = "gone" /\ toShell' = toShell)
      BY <1>1, <1>2, <1>6, <2>1, <3>2, <3>3 DEF TypeOK
    <3>5. <<>> \in Queues /\ <<cmd>> \in Queues
      BY Zenon DEF Queues
    <3>6. PICK queue \in Queues :
             /\ toShell' = [toShell EXCEPT ![h] = queue] \/ (toShell' = toShell /\ queue = <<>>)
             /\ shell[h] # "up" => queue = <<>>
      BY <1>1, <3>4, <3>5
    <3>7. QED
      BY <1>1, <1>6, <2>1, <3>1, <3>6 DEF TypeOK
  <2>2. CASE ~HasPrompt(data)
    BY <1>1, <1>2, <1>6, <2>2 DEF TypeOK
  <2>3. QED
    BY <2>1, <2>2
<1>11. /\ mode' \in {"serving", "dead"}
       /\ mode' = "dead" => shell[h] = "gone"
  BY <1>1, <1>2
<1>12. Alternates(h)'
  <2>1. shell[h] = "gone" => h \in Dying
    BY <1>6
  <2>2. shell[h] # "away"
    BY <1>1, <1>3, <1>6 DEF Alternates, Idle
  <2>3. QED
    BY <1>1, <1>7, <1>8, <1>10, <2>1, <2>2 DEF Alternates
<1>13. \A g \in Hosts : Alternates(g)'
  BY <1>1, <1>8, <1>10, <1>12, OneHost
<1>14. Contained'
  BY <1>1, <1>6, <1>11 DEF Contained
<1>15. TypeOK'
  BY <1>1, <1>8, <1>10, <1>11 DEF TypeOK
<1>16. QED
  BY <1>11, <1>13, <1>14, <1>15 DEF ConsoleInv

\* The shells: an answer ends in a prompt, exit and a break leave none to come.
LEMMA ShellsKeep ==
    ASSUME Unmistakable, ConsoleInv, NEW h \in Hosts, Answer(h) \/ Die(h)
    PROVE  ConsoleInv'
<1>1. /\ shell[h] = "up" /\ TypeOK /\ Alternates(h)
      /\ proxied' = proxied /\ mode' = mode /\ next' = next /\ session' = session /\ line' = line
  BY DEF Answer, Die, ConsoleInv
<1>2. /\ shell' \in [Hosts -> {"away", "up", "gone"}]
      /\ toConsole' \in [Hosts -> Seq(Tokens)]
      /\ toShell' \in [Hosts -> Queues]
      /\ \A g \in Hosts : g # h => /\ shell'[g] = shell[g] /\ toConsole'[g] = toConsole[g]
                                   /\ toShell'[g] = toShell[g]
      /\ toShell'[h] = <<>> /\ PromptEnds(toConsole'[h])
      /\ shell'[h] = "up" \/ (shell'[h] = "gone" /\ (h \in Dying \/ toConsole'[h] = <<>>))
  <2>1. CASE Answer(h)
    <3>1. PICK cmd \in Lines : toShell[h] = <<cmd>>
      <4>1. toShell[h] \in Queues /\ toShell[h] # <<>>
        BY <1>1, <2>1 DEF Answer, TypeOK
      <4>2. QED
        BY <4>1, Zenon DEF Queues
    <3>2. Head(toShell[h]) = cmd /\ Tail(toShell[h]) = <<>> /\ toConsole[h] = <<>>
      BY <1>1, <3>1 DEF Alternates
    <3>3. /\ toShell' = [toShell EXCEPT ![h] = <<>>]
          /\ \/ cmd = "exit" /\ shell' = [shell EXCEPT ![h] = "gone"] /\ toConsole' = toConsole
             \/ cmd = "" /\ shell' = shell /\ toConsole' = [toConsole EXCEPT ![h] = <<>> \o Prompt]
             \/ /\ cmd \notin {"exit", ""} /\ shell' = shell
                /\ toConsole' = [toConsole EXCEPT ![h] = <<>> \o Output[cmd] \o Prompt]
      BY <2>1, <3>2 DEF Answer
    <3>4. /\ toShell' \in [Hosts -> Queues] /\ toShell'[h] = <<>>
          /\ \A g \in Hosts : g # h => toShell'[g] = toShell[g]
      BY <1>1, <3>3, NoLine DEF TypeOK
    <3>5. CASE cmd = "exit" /\ shell' = [shell EXCEPT ![h] = "gone"] /\ toConsole' = toConsole
      BY <1>1, <3>2, <3>4, <3>5, NothingSaid DEF TypeOK
    <3>6. ASSUME NEW text \in Seq(Tokens), ~HasPrompt(text), shell' = shell,
                 toConsole' = [toConsole EXCEPT ![h] = text \o Prompt]
          PROVE  /\ shell' \in [Hosts -> {"away", "up", "gone"}]
                 /\ toConsole' \in [Hosts -> Seq(Tokens)]
                 /\ \A g \in Hosts : g # h => shell'[g] = shell[g] /\ toConsole'[g] = toConsole[g]
                 /\ PromptEnds(toConsole'[h]) /\ shell'[h] = "up"
      <4>1. PICK all \in Seq(Tokens) : all = text \o Prompt /\ PromptEnds(all)
        BY <3>6, Prompted
      <4>2. QED
        BY <1>1, <3>6, <4>1 DEF TypeOK
    <3>7. CASE cmd = "" /\ shell' = shell /\ toConsole' = [toConsole EXCEPT ![h] = <<>> \o Prompt]
      <4>1. <<>> \in Seq(Tokens) /\ ~HasPrompt(<<>>)
        BY EmptySeq DEF HasPrompt
      <4>2. QED
        BY <3>4, <3>6, <3>7, <4>1
    <3>8. CASE /\ cmd \notin {"exit", ""} /\ shell' = shell
               /\ toConsole' = [toConsole EXCEPT ![h] = <<>> \o Output[cmd] \o Prompt]
      <4>1. cmd \in DOMAIN Output
        BY <3>8 DEF Lines
      <4>2. Output[cmd] \in Seq(Tokens) /\ ~HasPrompt(Output[cmd])
        BY <4>1, ConsoleAssumption DEF Unmistakable
      <4>3. <<>> \o Output[cmd] = Output[cmd]
        BY <4>2, ConcatEmptySeq
      <4>4. QED
        BY <3>4, <3>6, <3>8, <4>2, <4>3
    <3>9. QED
      BY <3>3, <3>5, <3>7, <3>8
  <2>2. CASE Die(h)
    BY <1>1, <2>2, NoLine DEF Die, TypeOK, Alternates
  <2>3. QED
    BY <2>1, <2>2
<1>3. Alternates(h)'
  BY <1>1, <1>2 DEF Alternates, Idle
<1>4. \A g \in Hosts : Alternates(g)'
  BY <1>1, <1>2, <1>3, OneHost
<1>5. TypeOK'
  BY <1>1, <1>2 DEF TypeOK
<1>6. Contained'
  <2>1. \A g \in Hosts : shell[g] = "gone" => shell'[g] = "gone"
    BY <1>1, <1>2
  <2>2. Dying \subseteq Hosts
    BY ConsoleAssumption
  <2>3. QED
    BY <1>1, <2>1, <2>2 DEF ConsoleInv, Contained
<1>7. mode' = "starting" => \A g \in Hosts : g >= next' => session'[g] = "none"
  BY <1>1 DEF ConsoleInv
<1>8. QED
  BY <1>4, <1>5, <1>6, <1>7 DEF ConsoleInv

LEMMA InitConsole ==
    ASSUME Init
    PROVE  ConsoleInv
<1>1. TypeOK
  <2>1. <<>> \in Seq(Tokens)
    BY EmptySeq
  <2>2. QED
    BY <2>1, NoLine DEF Init, TypeOK
<1>2. \A h \in Hosts : Alternates(h)
  BY NothingSaid DEF Init, Alternates, Idle
<1>3. QED
  BY <1>1, <1>2 DEF Init, ConsoleInv, Contained

LEMMA StepConsole ==
    ASSUME Unmistakable, ConsoleInv, [Next]_vars
    PROVE  ConsoleInv'
<1>1. CASE Run \/ Return
  BY <1>1, RunReturnKeeps
<1>2. ASSUME NEW h \in Hosts, Start(h) \/ Handler(h) \/ Answer(h) \/ Die(h)
      PROVE  ConsoleInv'
  BY <1>2, StartKeeps, HandlersKeep, ReadKeeps, ShellsKeep DEF Handler
<1>3. CASE UNCHANGED vars
  <2>1. /\ mode' = mode /\ proxied' = proxied /\ next' = next /\ session' = session /\ line' = line
        /\ shell' = shell /\ toConsole' = toConsole /\ toShell' = toShell
    BY <1>3 DEF vars
  <2>2. TypeOK' /\ Contained'
    BY <2>1 DEF ConsoleInv, TypeOK, Contained
  <2>3. \A h \in Hosts : Alternates(h)'
    BY <2>1 DEF ConsoleInv, Alternates, Idle, PromptEnds
  <2>4. QED
    BY <2>1, <2>2, <2>3 DEF ConsoleInv
<1>4. QED
  BY <1>1, <1>2, <1>3 DEF Next

----------------------------------------------------------------------------
\* The console dies only of a host that a proxy cannot reach or of a shell
\* that broke off, whatever the files, the hosts and the outputs are, as long
\* as no command prints a prompt: after one that does a line is sent too soon,
\* and its prompt may then come from a shell that has left on exit.
THEOREM DiesOnlyOfThese == Unmistakable => (Spec => []Contained)
<1>1. SUFFICES ASSUME Unmistakable
               PROVE  Spec => []Contained
  OBVIOUS
<1>2. Init => ConsoleInv
  BY InitConsole
<1>3. ConsoleInv /\ [Next]_vars => ConsoleInv'
  BY <1>1, StepConsole
<1>4. ConsoleInv => Contained
  BY DEF ConsoleInv
<1>5. QED
  BY <1>2, <1>3, <1>4, PTL DEF Spec

----------------------------------------------------------------------------
(* Induction over the lines                                                *)

(* Every set of naturals has a least element: the intervals that end in S  *)
(* are ordered as their ends are, and inclusion of finite sets is          *)
(* well-founded.                                                           *)
LEMMA LeastElement ==
  ASSUME NEW S, S \subseteq Nat, S # {}
  PROVE  \E u \in S : \A v \in S : u <= v
<1> DEFINE Below == {0..u : u \in S}
<1> DEFINE R == StrictSubsetOrdering(Nat)
<1>1. Below \subseteq FiniteSubsetsOf(Nat)
  <2> SUFFICES ASSUME NEW u \in S PROVE 0..u \in FiniteSubsetsOf(Nat)
    OBVIOUS
  <2>1. IsFiniteSet(0..u)
    BY FS_Interval
  <2>2. QED
    BY <2>1 DEF FiniteSubsetsOf
<1>2. IsWellFoundedOn(R, FiniteSubsetsOf(Nat))
  BY FS_StrictSubsetOrderingWellFounded
<1>3. Below # {}
  OBVIOUS
<1> HIDE DEF R
<1>4. PICK X \in Below : \A Y \in Below : ~(<<Y, X>> \in R)
  <2> HIDE DEF Below
  <2> QED
    BY <1>1, <1>2, <1>3, WFMin
<1>5. PICK u \in S : X = 0..u
  OBVIOUS
<1>6. ASSUME NEW v \in S, v < u PROVE FALSE
  <2>1. 0..v \in Below /\ 0..v # X /\ 0..v \subseteq X /\ X \subseteq Nat
    BY <1>5, <1>6
  <2>2. <<0..v, X>> \in R
    BY <2>1, <1>1 DEF R, StrictSubsetOrdering, FiniteSubsetsOf
  <2>3. QED
    BY <1>4, <2>1, <2>2
<1>7. QED
  BY <1>6

\* Induction, for a set of naturals.
LEMMA EveryNumber ==
    ASSUME NEW S \in SUBSET Nat, 0 \in S, \A n \in S : n + 1 \in S
    PROVE  S = Nat
<1>1. SUFFICES ASSUME Nat \ S # {}
               PROVE  FALSE
  OBVIOUS
<1>2. PICK u \in Nat \ S : \A v \in Nat \ S : u <= v
  <2>1. Nat \ S \subseteq Nat
    OBVIOUS
  <2>2. QED
    BY <1>1, <2>1, LeastElement
<1>3. u # 0 /\ u - 1 \in Nat
  BY <1>2
<1>4. u - 1 \in S
  BY <1>2, <1>3
<1>5. (u - 1) + 1 \in S
  BY <1>4
<1>6. QED
  BY <1>2, <1>5

----------------------------------------------------------------------------
(* The dialogues, line by line                                             *)

Greetings == [h \in Hosts |-> <<"text">> \o Prompt]

Longer(said, n) == [h \in Hosts |-> said[h] \o <<Line(h, n)>> \o Response(Line(h, n))]

\* The dialogues of at most m lines.
Begins(f, m) == f = [n \in 0..m |-> IF n = 0 THEN Greetings ELSE Longer(f[n - 1], n)]

LEMMA BeginsAt ==
    ASSUME NEW f, NEW m \in Nat, Begins(f, m)
    PROVE  f[0] = Greetings /\ \A n \in 1..m : f[n] = Longer(f[n - 1], n)
<1>1. PICK g : g = [n \in 0..m |-> IF n = 0 THEN Greetings ELSE Longer(f[n - 1], n)]
  OBVIOUS
<1>2. g = f
  BY <1>1 DEF Begins
<1>3. g[0] = Greetings /\ \A n \in 1..m : g[n] = Longer(f[n - 1], n)
  BY <1>1
<1>4. QED
  BY <1>2, <1>3

LEMMA Beginnings == \A m \in Nat : \E f : Begins(f, m)
<1> DEFINE S == {m \in Nat : \E f : Begins(f, m)}
<1>1. 0 \in S
  <2>1. PICK f : f = [n \in 0..0 |-> Greetings]
    OBVIOUS
  <2>2. Begins(f, 0)
    BY <2>1 DEF Begins
  <2>3. QED
    BY <2>2
<1>2. ASSUME NEW m \in S
      PROVE  m + 1 \in S
  <2>1. PICK f : Begins(f, m)
    OBVIOUS
  <2>2. PICK g : g = [n \in 0..m + 1 |-> IF n = m + 1 THEN Longer(f[m], m + 1) ELSE f[n]]
    OBVIOUS
  <2>3. \A n \in 0..m + 1 : g[n] = IF n = 0 THEN Greetings ELSE Longer(g[n - 1], n)
    <3>1. \A n \in 0..m : g[n] = f[n]
      BY <2>2
    <3>2. g[0] = Greetings
      BY <2>1, <3>1, BeginsAt
    <3>3. ASSUME NEW n \in 1..m
          PROVE  g[n] = Longer(g[n - 1], n)
      <4>1. n - 1 \in 0..m /\ n \in 0..m
        BY <3>3
      <4>2. f[n] = Longer(f[n - 1], n)
        BY <2>1, BeginsAt
      <4>3. QED
        BY <3>1, <4>1, <4>2
    <3>4. g[m + 1] = Longer(g[m], m + 1)
      BY <2>2, <3>1
    <3>5. QED
      BY <3>2, <3>3, <3>4
  <2>4. g = [n \in 0..m + 1 |-> IF n = 0 THEN Greetings ELSE Longer(g[n - 1], n)]
    BY <2>2, <2>3
  <2>5. QED
    BY <2>4 DEF Begins
<1>3. S = Nat
  <2> HIDE DEF S
  <2>1. S \in SUBSET Nat
    BY DEF S
  <2>2. QED
    BY <1>1, <1>2, <2>1, EveryNumber
<1>4. QED
  BY <1>3

LEMMA SameBeginnings ==
    ASSUME NEW f, NEW l \in Nat, Begins(f, l), NEW g, NEW m \in Nat, Begins(g, m)
    PROVE  \A n \in Nat : n <= l /\ n <= m => f[n] = g[n]
<1> DEFINE S == {n \in Nat : n <= l /\ n <= m => f[n] = g[n]}
<1>1. 0 \in S
  BY BeginsAt
<1>2. ASSUME NEW n \in S
      PROVE  n + 1 \in S
  <2>1. SUFFICES ASSUME n + 1 <= l, n + 1 <= m
                 PROVE  f[n + 1] = g[n + 1]
    OBVIOUS
  <2>2. f[n] = g[n] /\ n + 1 \in 1..l /\ n + 1 \in 1..m /\ (n + 1) - 1 = n
    BY <2>1
  <2>3. f[n + 1] = Longer(f[n], n + 1) /\ g[n + 1] = Longer(g[n], n + 1)
    BY <2>2, BeginsAt
  <2>4. QED
    BY <2>2, <2>3
<1>3. S = Nat
  <2> HIDE DEF S
  <2>1. S \in SUBSET Nat
    BY DEF S
  <2>2. QED
    BY <1>1, <1>2, <2>1, EveryNumber
<1>4. QED
  BY <1>3

\* What the recursive definition defines.
LEMMA DialogueLines ==
    /\ Dialogue[0] = Greetings
    /\ \A n \in Nat : Dialogue[n + 1] = Longer(Dialogue[n], n + 1)
<1> DEFINE Some(m) == CHOOSE f : Begins(f, m)
<1>1. \A m \in Nat : Begins(Some(m), m)
  BY Beginnings
<1> HIDE DEF Some
<1>2. PICK all : all = [m \in Nat |-> Some(m)[m]]
  OBVIOUS
<1>3. \A n \in Nat : all[n] = IF n = 0 THEN Greetings ELSE Longer(all[n - 1], n)
  <2>1. SUFFICES ASSUME NEW n \in Nat
                 PROVE  all[n] = IF n = 0 THEN Greetings ELSE Longer(all[n - 1], n)
    OBVIOUS
  <2>2. all[n] = Some(n)[n] /\ Begins(Some(n), n)
    BY <1>1, <1>2
  <2>3. CASE n = 0
    BY <2>2, <2>3, BeginsAt
  <2>4. CASE n # 0
    <3>1. n - 1 \in Nat /\ n \in 1..n /\ n - 1 <= n
      BY <2>4
    <3>2. all[n - 1] = Some(n - 1)[n - 1] /\ Begins(Some(n - 1), n - 1)
      BY <1>1, <1>2, <3>1
    <3>3. Some(n)[n - 1] = Some(n - 1)[n - 1]
      BY <2>2, <3>1, <3>2, SameBeginnings
    <3>4. Some(n)[n] = Longer(Some(n)[n - 1], n)
      BY <2>2, <3>1, BeginsAt
    <3>5. QED
      BY <2>2, <2>4, <3>2, <3>3, <3>4
  <2>5. QED
    BY <2>3, <2>4
<1>4. all = [n \in Nat |-> IF n = 0 THEN Greetings ELSE Longer(all[n - 1], n)]
  BY <1>2, <1>3
<1>5. \E f : f = [n \in Nat |-> IF n = 0 THEN Greetings ELSE Longer(f[n - 1], n)]
  BY <1>4, Zenon
<1>6. Dialogue = [n \in Nat |-> IF n = 0 THEN Greetings ELSE Longer(Dialogue[n - 1], n)]
  BY <1>5, Zenon DEF Dialogue, Greetings, Longer
<1>7. PICK rest : rest = [n \in Nat |-> IF n = 0 THEN Greetings ELSE Longer(Dialogue[n - 1], n)]
  OBVIOUS
<1>8. rest[0] = Greetings /\ \A n \in Nat : rest[n + 1] = Longer(Dialogue[n], n + 1)
  BY <1>7
<1>9. QED
  BY <1>6, <1>7, <1>8

----------------------------------------------------------------------------
(* Prefixes of the dialogues                                               *)

\* What a page shows.
Words == Tokens \cup Lines

LEMMA LineOf ==
    ASSUME NEW h \in Hosts, NEW n \in Nat
    PROVE  Line(h, n + 1) \in Lines /\ (n + 1 > Len(Script[h]) => Line(h, n + 1) = "")
<1>1. Script[h] \in Seq(DOMAIN Output)
  BY ConsoleAssumption
<1>2. CASE n + 1 <= Len(Script[h])
  <2>1. n + 1 \in 1..Len(Script[h])
    BY <1>1, <1>2, LenProperties
  <2>2. Script[h][n + 1] \in DOMAIN Output
    BY <1>1, <2>1, ElementOfSeq
  <2>3. Line(h, n + 1) = Script[h][n + 1] /\ ~(n + 1 > Len(Script[h]))
    BY <1>1, <1>2, LenProperties DEF Line
  <2>4. QED
    BY <2>2, <2>3 DEF Lines
<1>3. CASE ~(n + 1 <= Len(Script[h]))
  BY <1>3 DEF Line, Lines
<1>4. QED
  BY <1>2, <1>3

LEMMA Printed ==
    ASSUME NEW cmd \in Lines
    PROVE  Response(cmd) \in Seq(Words)
<1>1. Prompt \in Seq(Tokens) /\ <<>> \in Seq(Tokens)
  BY EmptySeq DEF Prompt, Tokens
<1>2. CASE cmd \in {"exit", ""}
  BY <1>1, <1>2, SeqMonotonic DEF Response, Words
<1>3. CASE cmd \notin {"exit", ""}
  <2>1. Output[cmd] \in Seq(Tokens)
    BY <1>3, ConsoleAssumption DEF Lines
  <2>2. Output[cmd] \o Prompt \in Seq(Tokens)
    BY <1>1, <2>1, ConcatProperties
  <2>3. QED
    BY <1>3, <2>2, SeqMonotonic DEF Response, Words
<1>4. QED
  BY <1>2, <1>3

\* One more line, in three parts.
LEMMA OneMore ==
    ASSUME NEW h \in Hosts, NEW n \in Nat, Dialogue[n][h] \in Seq(Words)
    PROVE  /\ <<Line(h, n + 1)>> \in Seq(Words)
           /\ Response(Line(h, n + 1)) \in Seq(Words)
           /\ Dialogue[n][h] \o <<Line(h, n + 1)>> \in Seq(Words)
           /\ Dialogue[n + 1][h] =
                 (Dialogue[n][h] \o <<Line(h, n + 1)>>) \o Response(Line(h, n + 1))
           /\ Dialogue[n + 1][h] \in Seq(Words)
<1>1. PICK cmd \in Lines : cmd = Line(h, n + 1)
  BY LineOf
<1>2. PICK said : said = Response(cmd)
  OBVIOUS
<1>3. <<cmd>> \in Seq(Words) /\ said \in Seq(Words)
  BY <1>2, Printed DEF Words
<1>4. Dialogue[n + 1][h] = Dialogue[n][h] \o <<cmd>> \o said
  BY <1>1, <1>2, DialogueLines DEF Longer
<1>5. PICK one \in Seq(Words) : one = <<cmd>>
  BY <1>3
<1>6. Dialogue[n][h] \o one \in Seq(Words)
  BY <1>5, ConcatProperties
<1>7. PICK two \in Seq(Words) : two = Dialogue[n][h] \o one
  BY <1>6
<1>8. two \o said \in Seq(Words)
  BY <1>3, <1>7, ConcatProperties
<1>9. QED
  BY <1>1, <1>2, <1>3, <1>4, <1>5, <1>7, <1>8

LEMMA DialogueText == \A n \in Nat : \A h \in Hosts : Dialogue[n][h] \in Seq(Words)
<1> DEFINE S == {n \in Nat : \A h \in Hosts : Dialogue[n][h] \in Seq(Words)}
<1>1. 0 \in S
  <2>1. <<"text">> \o Prompt \in Seq(Words)
    BY Greeting, SeqMonotonic DEF Words
  <2>2. QED
    BY <2>1, DialogueLines DEF Greetings
<1>2. ASSUME NEW n \in S
      PROVE  n + 1 \in S
  <2>1. \A h \in Hosts : Dialogue[n + 1][h] \in Seq(Words)
    BY OneMore
  <2>2. QED
    BY <2>1
<1>3. S = Nat
  <2> HIDE DEF S
  <2>1. S \in SUBSET Nat
    BY DEF S
  <2>2. QED
    BY <1>1, <1>2, <2>1, EveryNumber
<1>4. QED
  BY <1>3

LEMMA Joined ==
    ASSUME NEW a \in Seq(Words), NEW b \in Seq(Words), NEW c \in Seq(Words)
    PROVE  (a \o b) \o c = a \o (b \o c)
OBVIOUS

Begun(text, whole) == \E rest \in Seq(Words) : whole = text \o rest

LEMMA BegunOn ==
    ASSUME NEW a \in Seq(Words), NEW b \in Seq(Words), NEW c \in Seq(Words), Begun(a, b), Begun(b, c)
    PROVE  Begun(a, c)
<1>1. PICK r \in Seq(Words) : b = a \o r
  BY DEF Begun
<1>2. PICK s \in Seq(Words) : c = b \o s
  BY DEF Begun
<1>3. c = a \o (r \o s) /\ r \o s \in Seq(Words)
  BY <1>1, <1>2, Joined, ConcatProperties
<1>4. QED
  BY <1>3 DEF Begun

\* A dialogue begins as the shorter ones.
LEMMA DialogueGrows ==
    ASSUME NEW h \in Hosts, NEW m \in Nat, NEW k \in Nat
    PROVE  Begun(Dialogue[m][h], Dialogue[m + k][h])
<1> DEFINE S == {n \in Nat : Begun(Dialogue[m][h], Dialogue[m + n][h])}
<1>1. 0 \in S
  <2>1. PICK said \in Seq(Words) : said = Dialogue[m][h]
    BY DialogueText
  <2>2. said = said \o <<>> /\ <<>> \in Seq(Words)
    BY ConcatEmptySeq, EmptySeq
  <2>3. m + 0 = m
    OBVIOUS
  <2>4. QED
    BY <2>1, <2>2, <2>3 DEF Begun
<1>2. ASSUME NEW n \in S
      PROVE  n + 1 \in S
  <2>1. m + n \in Nat /\ m + (n + 1) = (m + n) + 1
    OBVIOUS
  <2>2. PICK l \in Nat : l = m + n
    BY <2>1
  <2>3. Dialogue[m][h] \in Seq(Words) /\ Dialogue[l][h] \in Seq(Words) /\ Dialogue[l + 1][h] \in Seq(Words)
    BY DialogueText
  <2>4. PICK sent \in Seq(Words), said \in Seq(Words) :
           /\ sent = <<Line(h, l + 1)>>
           /\ said = Response(Line(h, l + 1))
           /\ Dialogue[l + 1][h] = (Dialogue[l][h] \o sent) \o said
    BY <2>3, OneMore
  <2>5. Dialogue[l + 1][h] = Dialogue[l][h] \o (sent \o said) /\ sent \o said \in Seq(Words)
    <3>1. PICK text \in Seq(Words) : text = Dialogue[l][h]
      BY <2>3
    <3>2. (text \o sent) \o said = text \o (sent \o said)
      BY Joined, Zenon
    <3>3. sent \o said \in Seq(Words)
      BY ConcatProperties
    <3>4. QED
      BY <2>4, <3>1, <3>2, <3>3
  <2>6. Begun(Dialogue[l][h], Dialogue[l + 1][h])
    BY <2>5 DEF Begun
  <2>7. Begun(Dialogue[m][h], Dialogue[l][h])
    BY <2>2
  <2>8. Begun(Dialogue[m][h], Dialogue[l + 1][h])
    BY <2>3, <2>6, <2>7, BegunOn
  <2>9. QED
    BY <2>1, <2>2, <2>8
<1>3. S = Nat
  <2> HIDE DEF S
  <2>1. S \in SUBSET Nat
    BY DEF S
  <2>2. QED
    BY <1>1, <1>2, <2>1, EveryNumber
<1>4. QED
  BY <1>3

LEMMA BegunIsPrefix ==
    ASSUME NEW text \in Seq(Words), NEW whole \in Seq(Words), Begun(text, whole)
    PROVE  IsPrefix(text, whole)
<1>1. PICK rest \in Seq(Words) : whole = text \o rest
  BY DEF Begun
<1>2. PICK n \in Nat : n = Len(text)
  BY LenProperties
<1>3. Len(whole) = n + Len(rest) /\ \A i \in 1..n : whole[i] = text[i]
  BY <1>1, <1>2, ConcatProperties, LenProperties
<1>4. n <= Len(whole)
  BY <1>3, LenProperties
<1>5. SubSeq(text, 1, n) = SubSeq(whole, 1, n)
  <2>1. \A i \in 1..n : text[i] \in Words /\ whole[i] \in Words
    BY <1>2, <1>3, ElementOfSeq
  <2>2. PICK s : s = SubSeq(text, 1, n)
    OBVIOUS
  <2>3. PICK t : t = SubSeq(whole, 1, n)
    OBVIOUS
  <2>4. /\ s \in Seq(Words) /\ t \in Seq(Words) /\ Len(s) = n /\ Len(t) = n
        /\ \A i \in 1..n : s[i] = text[i] /\ t[i] = whole[i]
    <3>1. 1 \in Int /\ n \in Int /\ n - 1 + 1 = n /\ (IF 1 <= n THEN n - 1 + 1 ELSE 0) = n
          /\ \A i \in 1..n : 1 + i - 1 = i
      OBVIOUS
    <3>2. QED
      BY <1>2, <1>4, <2>1, <2>2, <2>3, <3>1
  <2>5. QED
    BY <1>3, <2>2, <2>3, <2>4, SeqEqual
<1>6. QED
  BY <1>2, <1>4, <1>5 DEF IsPrefix

----------------------------------------------------------------------------
(* The dialogue in the course of a session                                 *)

\* What has been printed and not sent on included, n lines have been answered
\* and no other one been sent, or the next one has been sent and not answered.
Stage(h, n) ==
    /\ n <= Len(Script[h]) + answered[h]
    /\ \/ /\ page[h] \o toConsole[h] = Dialogue[n][h]
          /\ toShell[h] = <<>>
          /\ line[h] = Min({n, Len(Script[h])})
       \/ /\ page[h] = Dialogue[n][h] \o <<Line(h, n + 1)>>
          /\ toConsole[h] = <<>>
          /\ toShell[h] \in {<<>>, <<Line(h, n + 1)>>}
          /\ line[h] = Min({n + 1, Len(Script[h])})

Progress(h) ==
    IF shell[h] = "away"
    THEN page[h] = <<>> /\ line[h] = 0
    ELSE \E n \in Nat : Stage(h, n)

TalkInv ==
    /\ page \in [Hosts -> Seq(Words)]
    /\ answered \in [Hosts -> 0..MaxEmpty]
    /\ \A h \in Hosts : Progress(h)

LEMMA Lesser ==
    ASSUME NEW a \in Nat, NEW b \in Nat
    PROVE  Min({a, b}) = IF a <= b THEN a ELSE b
<1>1. CASE a <= b
  <2>1. \A x \in {a, b} : (\A y \in {a, b} : x <= y) => x = a
    BY <1>1
  <2>2. a \in {a, b} /\ \A y \in {a, b} : a <= y
    BY <1>1
  <2>3. QED
    BY <1>1, <2>1, <2>2 DEF Min
<1>2. CASE ~(a <= b)
  <2>1. \A x \in {a, b} : (\A y \in {a, b} : x <= y) => x = b
    BY <1>2
  <2>2. b \in {a, b} /\ \A y \in {a, b} : b <= y
    BY <1>2
  <2>3. QED
    BY <1>2, <2>1, <2>2 DEF Min
<1>3. QED
  BY <1>1, <1>2

\* What getline returns after n lines, and where it leaves the file.
LEMMA LineAfter ==
    ASSUME NEW h \in Hosts, NEW n \in Nat, line[h] = Min({n, Len(Script[h])})
    PROVE  /\ NextLine(h) = Line(h, n + 1)
           /\ Min({line[h] + 1, Len(Script[h])}) = Min({n + 1, Len(Script[h])})
<1>1. PICK L \in Nat : L = Len(Script[h])
  BY ConsoleAssumption, LenProperties
<1>2. line[h] = IF n <= L THEN n ELSE L
  BY <1>1, Lesser
<1>3. line[h] + 1 \in Nat /\ n + 1 \in Nat
  BY <1>2
<1>4. Min({line[h] + 1, L}) = IF line[h] + 1 <= L THEN line[h] + 1 ELSE L
  BY <1>3, Lesser
<1>5. Min({n + 1, L}) = IF n + 1 <= L THEN n + 1 ELSE L
  BY <1>3, Lesser
<1>6. NextLine(h) = Line(h, n + 1)
  <2>1. CASE n < L
    <3>1. line[h] = n /\ line[h] < L /\ n + 1 <= L
      BY <1>1, <1>2, <2>1
    <3>2. QED
      BY <1>1, <3>1 DEF NextLine, Line
  <2>2. CASE ~(n < L)
    <3>1. ~(line[h] < L) /\ ~(n + 1 <= L)
      BY <1>2, <2>2
    <3>2. QED
      BY <1>1, <3>1 DEF NextLine, Line
  <2>3. QED
    BY <2>1, <2>2
<1>7. QED
  BY <1>1, <1>2, <1>4, <1>5, <1>6

\* A session in which nothing is said goes on as it was.
LEMMA OtherHosts ==
    ASSUME TalkInv, NEW g \in Hosts,
           /\ page'[g] = page[g] /\ toConsole'[g] = toConsole[g] /\ line'[g] = line[g]
           /\ answered'[g] = answered[g] /\ shell'[g] = shell[g] /\ toShell'[g] = toShell[g]
    PROVE  Progress(g)'
<1>1. Progress(g)
  BY DEF TalkInv
<1>2. CASE shell[g] = "away"
  BY <1>1, <1>2 DEF Progress
<1>3. CASE shell[g] # "away"
  <2>1. PICK n \in Nat : Stage(g, n)
    BY <1>1, <1>3 DEF Progress
  <2>2. Stage(g, n)'
    BY <2>1 DEF Stage
  <2>3. QED
    BY <1>3, <2>2 DEF Progress
<1>4. QED
  BY <1>2, <1>3

\* The sessions are started and closed; a shell that is met greets.
LEMMA StartTalk ==
    ASSUME ConsoleInv, TalkInv, NEW h \in Hosts,
           \/ Meet(h) /\ session[h] \in {"none", "connecting"}
           \/ \E state : Stay(h, state)
    PROVE  TalkInv'
<1>1. CASE \E state : Stay(h, state)
  <2>1. page' = page /\ toConsole' = toConsole /\ line' = line
        /\ answered' = answered /\ shell' = shell /\ toShell' = toShell
    BY <1>1 DEF Stay
  <2>2. QED
    BY <2>1, OtherHosts DEF TalkInv
<1>2. CASE Meet(h) /\ session[h] \in {"none", "connecting"}
  <2>1. PICK greeting \in Seq(Words) : greeting = <<"text">> \o Prompt
    BY Greeting, SeqMonotonic DEF Words
  <2>2. /\ toConsole' = [toConsole EXCEPT ![h] = greeting] /\ shell' = [shell EXCEPT ![h] = "up"]
        /\ page' = page /\ line' = line /\ answered' = answered /\ toShell' = toShell
    BY <1>2, <2>1 DEF Meet
  <2>3. TypeOK /\ Alternates(h) /\ Progress(h)
    BY DEF ConsoleInv, TalkInv
  <2>4. shell[h] = "away" /\ toShell[h] = <<>> /\ page[h] = <<>> /\ line[h] = 0
    BY <1>2, <2>3 DEF Alternates, Idle, Progress
  <2>5. toConsole'[h] = greeting /\ shell'[h] = "up"
        /\ \A g \in Hosts : g # h => toConsole'[g] = toConsole[g] /\ shell'[g] = shell[g]
    BY <2>2, <2>3 DEF TypeOK
  <2>6. Stage(h, 0)'
    <3>1. <<>> \o greeting = greeting
      BY ConcatEmptySeq
    <3>2. Dialogue[0][h] = greeting
      BY <2>1, DialogueLines DEF Greetings
    <3>3. Len(Script[h]) \in Nat /\ answered[h] \in Nat
      BY ConsoleAssumption, LenProperties DEF TalkInv
    <3>4. Min({0, Len(Script[h])}) = 0
      BY <3>3, Lesser
    <3>5. 0 <= Len(Script[h]) + answered[h]
      BY <3>3
    <3>6. QED
      BY <2>2, <2>4, <2>5, <3>1, <3>2, <3>4, <3>5 DEF Stage
  <2>7. Progress(h)'
    BY <2>5, <2>6 DEF Progress
  <2>8. \A g \in Hosts : g # h => Progress(g)'
    BY <2>2, <2>5, OtherHosts
  <2>9. QED
    BY <2>2, <2>7, <2>8 DEF TalkInv
<1>3. QED
  BY <1>1, <1>2

\* A read moves what it returned to the page; with a prompt, a line goes along.
LEMMA ReadTalk ==
    ASSUME ConsoleInv, TalkInv, NEW h \in Hosts, Read(h)
    PROVE  TalkInv'
<1>1. /\ TypeOK /\ Alternates(h) /\ Progress(h)
      /\ answered' = answered /\ shell' = shell
  BY DEF Read, ConsoleInv, TalkInv
<1>2. PICK data \in Reads(h) :
          /\ toConsole' = [toConsole EXCEPT ![h] = SubSeq(@, Len(data) + 1, Len(@))]
          /\ IF HasPrompt(data)
             THEN /\ line' = [line EXCEPT ![h] = Min({@ + 1, Len(Script[h])})]
                  /\ page' = [page EXCEPT ![h] = @ \o data \o <<NextLine(h)>>]
                  /\ \/ toShell' = [toShell EXCEPT ![h] =
                                        IF shell[h] = "up" THEN Append(@, NextLine(h)) ELSE @]
                     \/ UNCHANGED toShell
             ELSE /\ page' = [page EXCEPT ![h] = @ \o data]
                  /\ UNCHANGED <<line, toShell>>
  BY DEF Read
<1>3. PICK text \in Seq(Tokens) : text = toConsole[h]
  BY <1>1 DEF TypeOK
<1>4. PICK n \in 1..Len(text) : data = SubSeq(text, 1, n)
  BY <1>2, <1>3 DEF Reads
<1>5. text # <<>> /\ shell[h] # "away" /\ PromptEnds(text)
  <2>1. text # <<>>
    BY <1>4, EmptySeq
  <2>2. QED
    BY <1>1, <1>3, <2>1 DEF Alternates, Idle
<1>6. PICK m \in Nat : Stage(h, m)
  BY <1>1, <1>5 DEF Progress
<1>7. /\ m <= Len(Script[h]) + answered[h]
      /\ page[h] \o text = Dialogue[m][h] /\ toShell[h] = <<>>
      /\ line[h] = Min({m, Len(Script[h])})
  BY <1>3, <1>5, <1>6 DEF Stage
<1>8. PICK rest : rest = SubSeq(text, Len(data) + 1, Len(text))
  OBVIOUS
<1>9. rest \in Seq(Tokens) /\ (HasPrompt(data) => rest = <<>>)
  BY <1>4, <1>5, <1>8, RestOfText
<1>10. data \in Seq(Tokens) /\ Len(data) = n /\ text = data \o rest
  <2>1. n \in Nat /\ 1 <= n /\ n <= Len(text) /\ Len(text) \in Nat
    BY <1>4, LenProperties
  <2>2. data \in Seq(Tokens) /\ Len(data) = n
    BY <1>4, <2>1
  <2>3. 1 \in 1..Len(text) + 1 /\ n \in 1 - 1..Len(text) /\ Len(text) \in n..Len(text)
    BY <2>1
  <2>4. SubSeq(text, 1, n) \o SubSeq(text, n + 1, Len(text)) = SubSeq(text, 1, Len(text))
    BY <2>3, ConcatAdjacentSubSeq
  <2>5. SubSeq(text, 1, Len(text)) = text
    BY SubSeqFull
  <2>6. QED
    BY <1>4, <1>8, <2>2, <2>4, <2>5
<1>11. page[h] \in Seq(Words) /\ data \in Seq(Words) /\ rest \in Seq(Words)
  BY <1>9, <1>10, SeqMonotonic DEF Words, TalkInv
<1>12. PICK shown \in Seq(Words) : shown = page[h] \o data
  BY <1>11, ConcatProperties
<1>13. shown \o rest = Dialogue[m][h]
  <2>1. PICK before \in Seq(Words) : before = page[h]
    BY <1>11
  <2>2. (before \o data) \o rest = before \o (data \o rest)
    BY <1>11, Joined, Zenon
  <2>3. QED
    BY <1>7, <1>10, <1>12, <2>1, <2>2
<1>14. toConsole'[h] = rest /\ \A g \in Hosts : g # h => toConsole'[g] = toConsole[g]
  BY <1>1, <1>2, <1>3, <1>8 DEF TypeOK
<1>15. CASE HasPrompt(data)
  <2>1. PICK cmd \in Lines : cmd = Line(h, m + 1) /\ cmd = NextLine(h)
    BY <1>7, LineAfter, LineOf
  <2>2. <<cmd>> \in Seq(Words)
    BY <2>1 DEF Words
  <2>3. rest = <<>> /\ shown = Dialogue[m][h]
    BY <1>9, <1>12, <1>13, <1>15, ConcatEmptySeq
  <2>4. PICK all \in Seq(Words) : all = shown \o <<cmd>>
    BY <2>2, ConcatProperties
  <2>5. page' = [page EXCEPT ![h] = all]
    BY <1>2, <1>12, <1>15, <2>1, <2>4
  <2>6. /\ page' \in [Hosts -> Seq(Words)] /\ page'[h] = all
        /\ \A g \in Hosts : g # h => page'[g] = page[g]
    BY <2>5 DEF TalkInv
  <2>7. /\ line'[h] = Min({m + 1, Len(Script[h])})
        /\ \A g \in Hosts : g # h => line'[g] = line[g]
    BY <1>1, <1>2, <1>7, <1>15, LineAfter DEF TypeOK
  <2>8. /\ toShell'[h] \in {<<>>, <<cmd>>}
        /\ \A g \in Hosts : g # h => toShell'[g] = toShell[g]
    <3>1. Append(toShell[h], cmd) = <<cmd>>
      BY <1>7
    <3>2. \/ toShell' = [toShell EXCEPT ![h] = <<cmd>>]
          \/ toShell' = [toShell EXCEPT ![h] = toShell[h]]
          \/ toShell' = toShell
      BY <1>2, <1>15, <2>1, <3>1
    <3>3. QED
      BY <1>1, <1>7, <3>2 DEF TypeOK
  <2>9. Stage(h, m)'
    BY <1>1, <1>7, <1>14, <2>1, <2>3, <2>4, <2>6, <2>7, <2>8 DEF Stage
  <2>10. Progress(h)'
    BY <1>1, <1>5, <2>9 DEF Progress
  <2>11. \A g \in Hosts : g # h => Progress(g)'
    BY <1>1, <1>14, <2>6, <2>7, <2>8, OtherHosts
  <2>12. QED
    BY <1>1, <2>6, <2>10, <2>11 DEF TalkInv
<1>16. CASE ~HasPrompt(data)
  <2>1. page' = [page EXCEPT ![h] = shown] /\ line' = line /\ toShell' = toShell
    BY <1>2, <1>12, <1>16
  <2>2. /\ page' \in [Hosts -> Seq(Words)] /\ page'[h] = shown
        /\ \A g \in Hosts : g # h => page'[g] = page[g]
    BY <2>1 DEF TalkInv
  <2>3. Stage(h, m)'
    BY <1>1, <1>7, <1>13, <1>14, <2>1, <2>2 DEF Stage
  <2>4. Progress(h)'
    BY <1>1, <1>5, <2>3 DEF Progress
  <2>5. \A g \in Hosts : g # h => Progress(g)'
    BY <1>1, <1>14, <2>1, <2>2, OtherHosts
  <2>6. QED
    BY <1>1, <2>2, <2>4, <2>5 DEF TalkInv
<1>17. QED
  BY <1>15, <1>16

\* An answer completes a line of the dialogue.
LEMMA AnswerTalk ==
    ASSUME ConsoleInv, TalkInv, NEW h \in Hosts, Answer(h)
    PROVE  TalkInv'
<1>1. /\ TypeOK /\ Progress(h) /\ shell[h] = "up" /\ toShell[h] # <<>>
      /\ page' = page /\ line' = line
  BY DEF Answer, ConsoleInv, TalkInv
<1>2. PICK n \in Nat : Stage(h, n)
  BY <1>1 DEF Progress
<1>3. PICK cmd \in Lines : cmd = Line(h, n + 1)
  BY LineOf
<1>4. PICK L \in Nat, a \in Nat : L = Len(Script[h]) /\ a = answered[h] /\ a <= MaxEmpty
  BY ConsoleAssumption, LenProperties DEF TalkInv
<1>5. /\ n <= L + a
      /\ page[h] = Dialogue[n][h] \o <<cmd>> /\ toConsole[h] = <<>>
      /\ toShell[h] = <<cmd>> /\ line[h] = Min({n + 1, L})
  BY <1>1, <1>2, <1>3, <1>4 DEF Stage
<1>6. Head(toShell[h]) = cmd /\ Tail(toShell[h]) = <<>>
  BY <1>5
<1>7. PICK printed \in Seq(Words) : printed = Response(cmd)
  BY Printed
<1>8. page[h] \o printed = Dialogue[n + 1][h]
  BY <1>3, <1>5, <1>7, DialogueText, OneMore
<1>9. /\ toShell' = [toShell EXCEPT ![h] = <<>>]
      /\ \/ cmd = "exit" /\ shell' = [shell EXCEPT ![h] = "gone"] /\ toConsole' = toConsole /\ answered' = answered
         \/ /\ cmd = "" /\ a < MaxEmpty /\ shell' = shell
            /\ answered' = [answered EXCEPT ![h] = a + 1]
            /\ toConsole' = [toConsole EXCEPT ![h] = <<>> \o Prompt]
         \/ /\ cmd \notin {"exit", ""} /\ shell' = shell /\ answered' = answered
            /\ toConsole' = [toConsole EXCEPT ![h] = <<>> \o Output[cmd] \o Prompt]
  BY <1>4, <1>5, <1>6 DEF Answer
<1>10. toShell'[h] = <<>> /\ \A g \in Hosts : g # h => toShell'[g] = toShell[g]
  BY <1>1, <1>9 DEF TypeOK
<1>11. CASE cmd = "exit" /\ shell' = [shell EXCEPT ![h] = "gone"] /\ toConsole' = toConsole /\ answered' = answered
  <2>1. shell'[h] = "gone" /\ \A g \in Hosts : g # h => shell'[g] = shell[g]
    BY <1>1, <1>11 DEF TypeOK
  <2>2. Stage(h, n)'
    BY <1>1, <1>3, <1>4, <1>5, <1>10, <1>11 DEF Stage
  <2>3. Progress(h)'
    BY <2>1, <2>2 DEF Progress
  <2>4. \A g \in Hosts : g # h => Progress(g)'
    BY <1>1, <1>10, <1>11, <2>1, OtherHosts
  <2>5. QED
    BY <1>1, <1>11, <2>3, <2>4 DEF TalkInv
<1>12. ASSUME shell' = shell, toConsole' = [toConsole EXCEPT ![h] = printed],
              \/ answered' = answered /\ n + 1 <= L
              \/ answered' = [answered EXCEPT ![h] = a + 1] /\ a < MaxEmpty
       PROVE  TalkInv'
  <2>1. toConsole'[h] = printed /\ \A g \in Hosts : g # h => toConsole'[g] = toConsole[g]
    BY <1>1, <1>12 DEF TypeOK
  <2>2. /\ answered' \in [Hosts -> 0..MaxEmpty]
        /\ \A g \in Hosts : g # h => answered'[g] = answered[g]
        /\ (answered'[h] = a /\ n + 1 <= L) \/ answered'[h] = a + 1
    <3>1. MaxEmpty \in Nat
      BY ConsoleAssumption
    <3>2. CASE answered' = answered /\ n + 1 <= L
      BY <1>4, <3>2 DEF TalkInv
    <3>3. CASE answered' = [answered EXCEPT ![h] = a + 1] /\ a < MaxEmpty
      <4>1. a + 1 \in 0..MaxEmpty
        BY <1>4, <3>1, <3>3
      <4>2. QED
        BY <3>3, <4>1 DEF TalkInv
    <3>4. QED
      BY <1>12, <3>2, <3>3
  <2>3. n + 1 <= L + answered'[h]
    BY <1>4, <1>5, <2>2
  <2>4. Stage(h, n + 1)'
    BY <1>1, <1>4, <1>5, <1>8, <1>10, <2>1, <2>3 DEF Stage
  <2>5. n + 1 \in Nat
    OBVIOUS
  <2>6. Progress(h)'
    BY <1>1, <1>12, <2>4, <2>5 DEF Progress
  <2>7. \A g \in Hosts : g # h => Progress(g)'
    BY <1>1, <1>10, <1>12, <2>1, <2>2, OtherHosts
  <2>8. QED
    BY <1>1, <2>2, <2>6, <2>7 DEF TalkInv
<1>13. CASE /\ cmd = "" /\ a < MaxEmpty /\ shell' = shell
            /\ answered' = [answered EXCEPT ![h] = a + 1]
            /\ toConsole' = [toConsole EXCEPT ![h] = <<>> \o Prompt]
  <2>1. printed = <<>> \o Prompt
    <3>1. Prompt \in Seq(Tokens)
      BY DEF Prompt, Tokens
    <3>2. <<>> \o Prompt = Prompt
      BY <3>1, ConcatEmptySeq
    <3>3. QED
      BY <1>7, <1>13, <3>2 DEF Response
  <2>2. QED
    BY <1>12, <1>13, <2>1
<1>14. CASE /\ cmd \notin {"exit", ""} /\ shell' = shell /\ answered' = answered
            /\ toConsole' = [toConsole EXCEPT ![h] = <<>> \o Output[cmd] \o Prompt]
  <2>1. printed = <<>> \o Output[cmd] \o Prompt
    <3>1. Output[cmd] \in Seq(Tokens)
      BY <1>14, ConsoleAssumption DEF Lines
    <3>2. <<>> \o Output[cmd] = Output[cmd]
      BY <3>1, ConcatEmptySeq
    <3>3. QED
      BY <1>7, <1>14, <3>2 DEF Response
  <2>2. n + 1 <= L
    <3>1. n + 1 > Len(Script[h]) => cmd = ""
      BY <1>3, LineOf
    <3>2. ~(n + 1 > L)
      BY <1>4, <1>14, <3>1, Zenon
    <3>3. QED
      BY <3>2
  <2>3. QED
    BY <1>12, <1>14, <2>1, <2>2
<1>15. QED
  BY <1>9, <1>11, <1>13, <1>14

LEMMA DieTalk ==
    ASSUME ConsoleInv, TalkInv, NEW h \in Hosts, Die(h)
    PROVE  TalkInv'
<1>1. /\ TypeOK /\ Progress(h) /\ shell[h] = "up"
      /\ page' = page /\ line' = line /\ answered' = answered /\ toConsole' = toConsole
      /\ shell' = [shell EXCEPT ![h] = "gone"] /\ toShell' = [toShell EXCEPT ![h] = <<>>]
  BY DEF Die, ConsoleInv, TalkInv
<1>2. /\ shell'[h] = "gone" /\ toShell'[h] = <<>>
      /\ \A g \in Hosts : g # h => shell'[g] = shell[g] /\ toShell'[g] = toShell[g]
  BY <1>1 DEF TypeOK
<1>3. PICK n \in Nat : Stage(h, n)
  BY <1>1 DEF Progress
<1>4. Stage(h, n)'
  BY <1>1, <1>2, <1>3 DEF Stage
<1>5. Progress(h)'
  BY <1>2, <1>4 DEF Progress
<1>6. \A g \in Hosts : g # h => Progress(g)'
  BY <1>1, <1>2, OtherHosts
<1>7. QED
  BY <1>1, <1>5, <1>6 DEF TalkInv

LEMMA StepTalk ==
    ASSUME ConsoleInv, TalkInv, [Next]_vars
    PROVE  TalkInv'
<1>1. CASE Run \/ Return \/ UNCHANGED vars
  <2>1. page' = page /\ toConsole' = toConsole /\ line' = line
        /\ answered' = answered /\ shell' = shell /\ toShell' = toShell
    BY <1>1 DEF Run, Return, vars
  <2>2. QED
    BY <2>1, OtherHosts DEF TalkInv
<1>2. ASSUME NEW h \in Hosts, Start(h) \/ Resolved(h) \/ Connected(h) \/ ReadError(h)
      PROVE  TalkInv'
  <2>1. mode = "starting" /\ next = h => session[h] = "none"
    BY ConsoleAssumption DEF ConsoleInv, TypeOK, Hosts
  <2>2. \/ Meet(h) /\ session[h] \in {"none", "connecting"}
        \/ \E state \in {"none", "resolving", "connecting", "rejected", "closed"} : Stay(h, state)
    <3>1. CASE Start(h)
      BY <2>1, <3>1 DEF Start, StartDirect, StartProxied, Starting
    <3>2. CASE Resolved(h) \/ Connected(h) \/ ReadError(h)
      BY <3>2 DEF Resolved, Connected, ReadError
    <3>3. QED
      BY <1>2, <3>1, <3>2
  <2>3. QED
    BY <2>2, StartTalk
<1>3. ASSUME NEW h \in Hosts, Read(h) \/ Answer(h) \/ Die(h)
      PROVE  TalkInv'
  BY <1>3, ReadTalk, AnswerTalk, DieTalk
<1>4. QED
  BY <1>1, <1>2, <1>3 DEF Next, Handler

LEMMA InitTalk ==
    ASSUME Init
    PROVE  TalkInv
<1>1. <<>> \in Seq(Words) /\ 0 \in 0..MaxEmpty
  BY EmptySeq, ConsoleAssumption
<1>2. QED
  BY <1>1 DEF Init, TalkInv, Progress

\* What is on the page by now is how the dialogue begins.
LEMMA TalkShown ==
    ASSUME ConsoleInv, TalkInv
    PROVE  Transcript
<1>1. SUFFICES ASSUME NEW h \in Hosts
               PROVE  IsPrefix(page[h], Dialogue[Len(Script[h]) + MaxEmpty + 1][h])
  BY DEF Transcript
<1>2. PICK L \in Nat : L = Len(Script[h])
  BY ConsoleAssumption, LenProperties
<1>3. PICK m \in Nat : m = L + MaxEmpty + 1
  BY ConsoleAssumption
<1>4. page[h] \in Seq(Words) /\ Dialogue[m][h] \in Seq(Words)
  BY DialogueText DEF TalkInv
<1>5. CASE shell[h] = "away"
  <2>1. page[h] = <<>>
    BY <1>5 DEF TalkInv, Progress
  <2>2. <<>> \o Dialogue[m][h] = Dialogue[m][h]
    BY <1>4, ConcatEmptySeq
  <2>3. Begun(page[h], Dialogue[m][h])
    BY <1>4, <2>1, <2>2 DEF Begun
  <2>4. QED
    BY <1>2, <1>3, <1>4, <2>3, BegunIsPrefix
<1>6. CASE shell[h] # "away"
  <2>1. PICK n \in Nat : Stage(h, n)
    BY <1>6 DEF TalkInv, Progress
  <2>2. n <= L + MaxEmpty
    BY <1>2, <2>1, ConsoleAssumption DEF Stage, TalkInv
  <2>3. PICK k \in Nat : m = (n + 1) + k
    <3>1. m - (n + 1) \in Nat /\ m = (n + 1) + (m - (n + 1))
      BY <1>3, <2>2, ConsoleAssumption
    <3>2. QED
      BY <3>1
  <2>4. Begun(Dialogue[n][h], Dialogue[n + 1][h]) /\ Begun(Dialogue[n + 1][h], Dialogue[m][h])
    BY <2>3, DialogueGrows
  <2>5. Dialogue[n][h] \in Seq(Words) /\ Dialogue[n + 1][h] \in Seq(Words)
    BY DialogueText
  <2>6. Begun(page[h], Dialogue[n + 1][h])
    <3>1. CASE page[h] \o toConsole[h] = Dialogue[n][h]
      <4>1. toConsole[h] \in Seq(Words)
        BY SeqMonotonic DEF Words, ConsoleInv, TypeOK
      <4>2. Begun(page[h], Dialogue[n][h])
        BY <3>1, <4>1 DEF Begun
      <4>3. QED
        BY <1>4, <2>4, <2>5, <4>2, BegunOn
    <3>2. CASE page[h] = Dialogue[n][h] \o <<Line(h, n + 1)>>
      BY <2>5, <3>2, OneMore DEF Begun
    <3>3. QED
      BY <2>1, <3>1, <3>2 DEF Stage
  <2>7. Begun(page[h], Dialogue[m][h])
    BY <1>4, <2>4, <2>5, <2>6, BegunOn
  <2>8. QED
    BY <1>2, <1>3, <1>4, <2>7, BegunIsPrefix
<1>7. QED
  BY <1>5, <1>6

\* The page shows the dialogue of the file with the shell and nothing else,
\* however what the shell prints is cut into reads, as long as no command
\* prints a prompt: after one that does, a line is sent too soon.
THEOREM PlaysItsFile == Unmistakable => (Spec => []Transcript)
<1>1. SUFFICES ASSUME Unmistakable
               PROVE  Spec => []Transcript
  OBVIOUS
<1>2. Init => ConsoleInv /\ TalkInv
  BY InitConsole, InitTalk
<1>3. ConsoleInv /\ TalkInv /\ [Next]_vars => ConsoleInv' /\ TalkInv'
  BY <1>1, StepConsole, StepTalk
<1>4. ConsoleInv /\ TalkInv => Transcript
  BY TalkShown
<1>5. QED
  BY <1>2, <1>3, <1>4, PTL DEF Spec

=============================================================================
