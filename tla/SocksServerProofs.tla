------------------------- MODULE SocksServerProofs -------------------------
(***************************************************************************)
(* The relay of SocksServer for any number of clients and units: nothing   *)
(* is lost, repeated or reordered, clients are told of destinations there  *)
(* are, and downloads are complete.                                        *)
(*                                                                         *)
(* The invariant says what is in the queues at every stage of a child      *)
(* (Stages), and that what has come out of a direction, what its buffer    *)
(* holds and what has arrived make up what was sent (Flow).  From it, each *)
(* step of SocksServer is one of Tunnel, or none.                          *)
(***************************************************************************)
EXTENDS SocksServer, SequenceTheorems, TLAPS

Byte == [kind : {"data", "request", "user id", "Accept", "Reject"}, n : Nat]

Bytes == Seq(Byte)

StageNames == {"none", "waiting", "refused"} \cup Running \cup {"ended"}

Standings == {"away", "open", "shut", "gone"}

TypeInv ==
    /\ conf \in Confs
    /\ command \in [Clients -> Commands \cup {"none"}]
    /\ child \in [Clients -> StageNames]
    /\ cause \in [Clients -> (Directions \cup {"none"}) \X {"none", "eof", "error"}]
    /\ peer \in [Clients -> [client : Standings, destination : Standings]]
    /\ sent \in [Clients -> [Directions -> Nat]]
    /\ arrived \in [Clients -> [Directions -> Bytes]]
    /\ buffer \in [Clients -> [Directions -> Bytes]]
    /\ leaving \in [Clients -> [Directions -> Bytes]]
    /\ got \in [Clients -> [Directions -> Bytes]]

----------------------------------------------------------------------------
(* Prefixes                                                                *)

\* What is read and what is left make up what was there.
LEMMA ReadSome ==
    ASSUME NEW S, NEW s \in Seq(S), NEW t \in Prefixes(s)
    PROVE  /\ t \in Seq(S) /\ SubSeq(s, Len(t) + 1, Len(s)) \in Seq(S)
           /\ t \o SubSeq(s, Len(t) + 1, Len(s)) = s
<1>1. PICK n \in 0..Len(s) : t = SubSeq(s, 1, n)
  BY DEF Prefixes
<1>2. Len(s) \in Nat /\ \A i \in 1..Len(s) : s[i] \in S
  BY LenProperties, ElementOfSeq
<1>3. Len(t) = n
  BY <1>1, <1>2, SubSeqProperties
<1>4. t \in Seq(S) /\ SubSeq(s, n + 1, Len(s)) \in Seq(S)
  BY <1>1, <1>2, SubSeqProperties
<1>5. 1 \in 1..(Len(s) + 1) /\ n \in (1 - 1)..Len(s) /\ Len(s) \in n..Len(s)
  BY <1>2
<1>6. t \o SubSeq(s, n + 1, Len(s)) = SubSeq(s, 1, Len(s))
  BY <1>1, <1>5, ConcatAdjacentSubSeq
<1> QED
  BY <1>3, <1>4, <1>6, SubSeqFull

\* A prefix leaves a rest.
LEMMA PrefixSplit ==
    ASSUME NEW S, NEW s \in Seq(S), NEW t \in Prefixes(s)
    PROVE  t \in Seq(S) /\ \E u \in Seq(S) : s = t \o u
BY ReadSome

\* What a sequence begins with is a prefix of it.
LEMMA PrefixJoin ==
    ASSUME NEW S, NEW t \in Seq(S), NEW u \in Seq(S)
    PROVE  t \in Prefixes(t \o u)
<1>1. t \o u \in Seq(S) /\ Len(t) \in Nat /\ Len(u) \in Nat /\ Len(t \o u) = Len(t) + Len(u)
  BY ConcatProperties, LenProperties
<1>2. Len(t) \in 0..Len(t \o u)
  BY <1>1
<1>3. SubSeq(t \o u, 1, Len(t)) = t
  <2>1. CASE t = << >>
    BY <2>1, <1>1, EmptySeq, SubSeqEmpty
  <2>2. CASE t # << >>
    <3>1. Len(t) \in Nat \ {0}
      BY <2>2, EmptySeq
    <3>2. 1 \in 1..Len(t) /\ Len(t) \in 1..Len(t)
      BY <3>1
    <3>3. SubSeq(t \o u, 1, Len(t)) = SubSeq(t, 1, Len(t))
      BY <3>2, SubSeqOfConcat1
    <3> QED
      BY <3>3, SubSeqFull
  <2> QED
    BY <2>1, <2>2
<1> QED
  BY <1>2, <1>3 DEF Prefixes

\* The empty sequence and the whole are prefixes.
LEMMA PrefixEnds ==
    ASSUME NEW S, NEW s \in Seq(S)
    PROVE  << >> \in Prefixes(s) /\ s \in Prefixes(s)
<1>1. << >> \in Seq(S) /\ s \o << >> = s /\ << >> \o s = s
  BY EmptySeq, ConcatEmptySeq
<1>2. << >> \in Prefixes(<< >> \o s)
  BY <1>1, PrefixJoin
<1>3. s \in Prefixes(s \o << >>)
  BY <1>1, PrefixJoin
<1> QED
  BY <1>1, <1>2, <1>3

\* A prefix stays one when the sequence grows.
LEMMA PrefixOfMore ==
    ASSUME NEW S, NEW s \in Seq(S), NEW t \in Prefixes(s), NEW u \in Seq(S)
    PROVE  t \in Prefixes(s \o u)
<1>1. t \in Seq(S)
  BY PrefixSplit
<1>2. PICK v \in Seq(S) : s = t \o v
  BY PrefixSplit
<1>3. s \o u = t \o (v \o u) /\ v \o u \in Seq(S)
  BY <1>1, <1>2, ConcatAssociative, ConcatProperties
<1>4. t \in Prefixes(t \o (v \o u))
  BY <1>1, <1>3, PrefixJoin
<1> QED
  BY <1>3, <1>4

\* Prefixes of prefixes are prefixes.
LEMMA PrefixTrans ==
    ASSUME NEW S, NEW s \in Seq(S), NEW t \in Prefixes(s), NEW r \in Prefixes(t)
    PROVE  r \in Prefixes(s)
<1>1. t \in Seq(S)
  BY PrefixSplit
<1>2. PICK u \in Seq(S) : s = t \o u
  BY PrefixSplit
<1>3. r \in Prefixes(t \o u)
  BY <1>1, PrefixOfMore
<1> QED
  BY <1>2, <1>3

\* What is cut off at the end leaves a prefix.
LEMMA PrefixCut ==
    ASSUME NEW S, NEW g \in Seq(S), NEW s \in Seq(S), NEW t \in Prefixes(s)
    PROVE  g \o t \in Prefixes(g \o s)
<1>1. t \in Seq(S)
  BY PrefixSplit
<1>2. PICK u \in Seq(S) : s = t \o u
  BY PrefixSplit
<1>3. g \o s = (g \o t) \o u /\ g \o t \in Seq(S)
  <2>1. (g \o t) \o u = g \o (t \o u)
    BY SMTT(60), <1>1, ConcatAssociative
  <2>2. g \o t \in Seq(S)
    BY <1>1, ConcatProperties
  <2>3. QED
    BY <1>2, <2>1, <2>2
<1>4. g \o t \in Prefixes((g \o t) \o u)
  BY <1>3, PrefixJoin
<1> QED
  BY <1>3, <1>4

\* The prefixes of a sequence of one.
LEMMA PrefixOfOne ==
    ASSUME NEW S, NEW e \in S, NEW t \in Prefixes(<<e>>)
    PROVE  t = << >> \/ t = <<e>>
<1>1. PICK n \in 0..1 : t = SubSeq(<<e>>, 1, n)
  BY DEF Prefixes
<1>2. <<e>> \in Seq(S) /\ Len(<<e>>) = 1
  OBVIOUS
<1>3. CASE n = 0
  BY <1>1, <1>3, SubSeqEmpty
<1>4. CASE n = 1
  BY <1>1, <1>2, <1>4, SubSeqFull
<1> QED
  BY <1>1, <1>3, <1>4

\* A prefix begins as the sequence does.
LEMMA PrefixFirst ==
    ASSUME NEW S, NEW s \in Seq(S), NEW t \in Prefixes(s), t # << >>
    PROVE  s # << >> /\ t[1] = s[1]
<1>1. t \in Seq(S)
  BY PrefixSplit
<1>2. PICK u \in Seq(S) : s = t \o u
  BY PrefixSplit
<1>3. Len(t) \in Nat \ {0} /\ Len(u) \in Nat
  BY <1>1, EmptySeq, LenProperties
<1>4. Len(t \o u) = Len(t) + Len(u) /\ (t \o u)[1] = t[1]
  BY <1>1, <1>3, ConcatProperties
<1> QED
  BY <1>2, <1>3, <1>4, EmptySeq

\* Moving the first element from the front of one sequence to the end of
\* the one before it keeps their concatenation.
LEMMA MoveOne ==
    ASSUME NEW S, NEW g \in Seq(S), NEW s \in Seq(S), s # << >>
    PROVE  /\ Head(s) \in S /\ Tail(s) \in Seq(S)
           /\ Append(g, Head(s)) = g \o <<Head(s)>>
           /\ g \o <<Head(s)>> \in Seq(S)
           /\ (g \o <<Head(s)>>) \o Tail(s) = g \o s
<1>1. Head(s) \in S /\ Tail(s) \in Seq(S) /\ <<Head(s)>> \in Seq(S)
  BY HeadTailProperties
<1>2. s = <<Head(s)>> \o Tail(s)
  <2>1. Len(s) \in Nat \ {0}
    BY EmptySeq
  <2>2. Head(s) = s[1]
    BY <2>1, HeadTailOfSubSeq, SubSeqFull
  <2>3. SubSeq(s, 1, Len(s)) = <<s[1]>> \o SubSeq(s, 2, Len(s))
    BY <2>1, SubSeqRecursiveFirst
  <2> QED
    BY <2>2, <2>3, TailIsSubSeq, SubSeqFull
<1> DEFINE first == <<Head(s)>>
           rest == Tail(s)
<1>3. s = first \o rest /\ first \in Seq(S) /\ rest \in Seq(S)
  BY <1>1, <1>2
<1>4. Append(g, Head(s)) = g \o first
  BY <1>1, AppendIsConcat
<1> HIDE DEF first, rest
<1>5. (g \o first) \o rest = g \o (first \o rest)
  BY <1>3, ConcatAssociative
<1>6. g \o first \in Seq(S)
  BY <1>3, ConcatProperties
<1> QED
  BY <1>1, <1>3, <1>4, <1>5, <1>6 DEF first, rest

\* Concatenation may be grouped at will.
LEMMA Regroup ==
    ASSUME NEW a \in Seq(Byte), NEW b \in Seq(Byte), NEW e \in Seq(Byte)
    PROVE  /\ (a \o b) \o e = a \o (b \o e)
           /\ a \o b \in Seq(Byte) /\ b \o e \in Seq(Byte)
<1>1. (a \o b) \o e = a \o (b \o e)
  BY ConcatAssociative
<1> QED
  BY <1>1, ConcatProperties

----------------------------------------------------------------------------
(* The invariant                                                           *)

Accept1 == <<Reply("Accept")>>
Reject1 == <<Reply("Reject")>>

\* What is where at the stages of a child.
Stages(c) ==
    /\ child[c] \in {"none", "waiting", "refused"} =>
          /\ command[c] = "none"
          /\ arrived[c]["up"] = << >>
          /\ \A d \in Directions : sent[c][d] = 0 /\ got[c][d] = << >> /\ leaving[c][d] = << >>
    /\ child[c] \notin {"relaying", "ended"} =>
          /\ peer[c].destination = "away"
          /\ \A d \in Directions : buffer[c][d] = << >>
          /\ sent[c]["down"] = 0 /\ arrived[c]["down"] = << >>
          /\ got[c]["up"] = << >> /\ leaving[c]["up"] = << >>
    /\ child[c] = "reading" =>
          /\ got[c]["down"] = << >> /\ leaving[c]["down"] = << >>
          /\ command[c] = "none" => sent[c]["up"] = 0 /\ arrived[c]["up"] = << >>
          /\ command[c] # "none" => arrived[c]["up"] = <<Request>> \o Whole(c, "up")
    /\ child[c] = "connecting" =>
          /\ command[c] = "connect"
          /\ arrived[c]["up"] = Whole(c, "up")
          /\ got[c]["down"] = << >> /\ leaving[c]["down"] = << >>
    /\ child[c] = "accepting" =>
          /\ command[c] = "bind"
          /\ arrived[c]["up"] = Whole(c, "up")
          /\ Out(c, "down") \in {<< >>, Accept1}
          /\ peer[c].client # "gone" => Out(c, "down") = Accept1
    /\ child[c] = "relaying" => command[c] \in {"connect", "bind"} /\ peer[c].destination # "away"

\* What has come out of direction d is a beginning of what is to come out,
\* and while the relay runs nothing is missing.
Flow(c, d) ==
    /\ \/ Out(c, d) \in Prefixes(Whole(c, d))
       \/ /\ d = "down" /\ Out(c, d) = Reject1
          /\ child[c] = "ended" /\ peer[c].destination = "away"
    /\ child[c] = "relaying" /\ peer[c][To(d)] # "gone" =>
          Out(c, d) \o buffer[c][d] \o arrived[c][d] = Whole(c, d)

\* Without a destination the client has been told nothing final but a reject.
Untold(c) ==
    peer[c].destination = "away" =>
        \/ Out(c, "down") \in {<< >>, Reject1}
        \/ command[c] = "bind" /\ Out(c, "down") = Accept1

\* Nothing arrives from a peer that has said nothing.
Silent(c) ==
    child[c] = "relaying" =>
        \A d \in Directions :
            sent[c][d] = 0 /\ (d = "up" => c \notin Naming) => arrived[c][d] = << >>

\* A cause is that of a child that has ended, and an end of file that of a
\* complete direction.
Complete(c) ==
    /\ cause[c][1] # "none" => child[c] = "ended"
    /\ \A d \in Directions :
          /\ cause[c] = <<d, "eof">>
          /\ peer[c][To(d)] # "gone"
          /\ sent[c][Opposite(d)] = 0
          /\ d = "down" => c \notin Naming
          => Out(c, d) = Whole(c, d)

ClientInv(c) ==
    /\ Stages(c)
    /\ \A d \in Directions : Flow(c, d)
    /\ Untold(c)
    /\ Silent(c)
    /\ Complete(c)

IInv == TypeInv /\ \A c \in Clients : ClientInv(c)

----------------------------------------------------------------------------
(* Facts about the state                                                   *)

\* A client none of whose variables changes keeps its invariant.
Untouched(c) ==
    /\ command'[c] = command[c]
    /\ child'[c] = child[c]
    /\ cause'[c] = cause[c]
    /\ peer'[c] = peer[c]
    /\ sent'[c] = sent[c]
    /\ arrived'[c] = arrived[c]
    /\ buffer'[c] = buffer[c]
    /\ leaving'[c] = leaving[c]
    /\ got'[c] = got[c]

\* What nobody touches stays as it is.
LEMMA UntouchedInv ==
    ASSUME NEW c, ClientInv(c), Untouched(c)
    PROVE  ClientInv(c)'
<1> USE DEF Untouched
<1>1. \A d : Out(c, d)' = Out(c, d) /\ Whole(c, d)' = Whole(c, d)
  BY DEF Out, Whole, Replies, NameOf
<1>2. Stages(c)'
  BY <1>1 DEF ClientInv, Stages
<1>3. \A d \in Directions : Flow(c, d)'
  BY <1>1 DEF ClientInv, Flow
<1>4. Untold(c)' /\ Silent(c)' /\ Complete(c)'
  BY <1>1 DEF ClientInv, Untold, Silent, Complete
<1> QED
  BY <1>2, <1>3, <1>4 DEF ClientInv

\* The kinds of bytes.
LEMMA ByteTypes ==
    /\ UserId \in Byte /\ Request \in Byte
    /\ Reply("Accept") \in Byte /\ Reply("Reject") \in Byte
    /\ Reply("Accept") # Reply("Reject")
    /\ \A n \in Nat : Data(n) \in Byte
BY DEF UserId, Request, Reply, Data, Byte

\* The sequences of the state, and what is to come out.
LEMMA StateTypes ==
    ASSUME TypeInv, NEW c \in Clients, NEW d \in Directions
    PROVE  /\ got[c][d] \in Bytes /\ leaving[c][d] \in Bytes
           /\ buffer[c][d] \in Bytes /\ arrived[c][d] \in Bytes
           /\ sent[c][d] \in Nat
           /\ Out(c, d) \in Bytes
           /\ NameOf(c) \in Bytes /\ Replies(c) \in Bytes
           /\ Whole(c, d) \in Bytes
<1>1. /\ got[c][d] \in Bytes /\ leaving[c][d] \in Bytes
      /\ buffer[c][d] \in Bytes /\ arrived[c][d] \in Bytes
      /\ sent[c][d] \in Nat
  BY DEF TypeInv
<1>2. Out(c, d) \in Bytes
  BY <1>1, ConcatProperties DEF Out, Bytes
<1>3. NameOf(c) \in Bytes /\ Replies(c) \in Bytes
  BY ByteTypes DEF NameOf, Replies, Bytes
<1>4. [n \in 1..sent[c][d] |-> Data(n)] \in Bytes
  <2> DEFINE units == [n \in 1..sent[c][d] |-> Data(n)]
  <2>1. units \in [1..sent[c][d] -> Byte]
    BY <1>1, ByteTypes
  <2> QED
    BY <2>1, <1>1, SeqDef DEF Bytes
<1> QED
  BY <1>1, <1>2, <1>3, <1>4, ConcatProperties DEF Whole, Bytes

----------------------------------------------------------------------------
(* Types                                                                   *)

\* What the end of a child leaves on its way to the peers.
LEMMA CutTypes ==
    ASSUME NEW s \in Bytes, NEW u, NEW t \in Cut(s, u)
    PROVE  t \in Bytes /\ t \in Prefixes(s)
<1>1. t \in Prefixes(s)
  BY PrefixEnds DEF Cut, Bytes
<1> QED
  BY <1>1, PrefixSplit DEF Bytes

\* What the kernel takes for a peer.
LEMMA PutTypes ==
    ASSUME TypeInv, NEW c \in Clients, NEW d \in Directions, NEW bytes \in Bytes
    PROVE  Put(c, d, bytes) \in Bytes
BY StateTypes, ConcatProperties DEF Put, Bytes

\* A child that ends, point by point.
LEMMA EndsFacts ==
    ASSUME TypeInv, NEW c \in Clients,
           NEW why \in (Directions \cup {"none"}) \X {"none", "eof", "error"},
           NEW unread, NEW reply \in Bytes, Ends(c, why, unread, reply)
    PROVE  /\ TypeInv'
           /\ child'[c] = "ended" /\ cause'[c] = why
           /\ arrived'[c] = EachWay(<< >>) /\ buffer'[c] = EachWay(<< >>)
           /\ leaving'[c]["up"] \in Cut(leaving[c]["up"], unread["down"])
           /\ leaving'[c]["down"] \in Cut(Put(c, "down", reply), unread["up"])
           /\ conf' = conf /\ command' = command /\ peer' = peer /\ sent' = sent /\ got' = got
           /\ \A e \in Clients \ {c} : Untouched(e)
<1>1. PICK up \in Cut(leaving[c]["up"], unread["down"]),
           down \in Cut(Put(c, "down", reply), unread["up"]) :
           leaving' = [leaving EXCEPT ![c] = [up |-> up, down |-> down]]
  BY DEF Ends
<1>2. "up" \in Directions /\ "down" \in Directions /\ Directions = {"up", "down"}
  BY DEF Directions
<1>3. up \in Bytes /\ down \in Bytes
  BY <1>1, <1>2, StateTypes, PutTypes, CutTypes
<1>4. [up |-> up, down |-> down] \in [Directions -> Bytes]
  BY <1>2, <1>3
<1>5. /\ child' = [child EXCEPT ![c] = "ended"]
      /\ cause' = [cause EXCEPT ![c] = why]
      /\ arrived' = [arrived EXCEPT ![c] = EachWay(<<>>)]
      /\ buffer' = [buffer EXCEPT ![c] = EachWay(<<>>)]
      /\ conf' = conf /\ command' = command /\ peer' = peer /\ sent' = sent /\ got' = got
  BY DEF Ends
<1>6. EachWay(<< >>) \in [Directions -> Bytes]
  BY DEF EachWay, Bytes
<1>7. TypeInv'
  BY <1>1, <1>4, <1>5, <1>6 DEF TypeInv, StageNames
<1>8. /\ leaving'[c]["up"] = up /\ leaving'[c]["down"] = down
      /\ child'[c] = "ended" /\ cause'[c] = why
      /\ arrived'[c] = EachWay(<< >>) /\ buffer'[c] = EachWay(<< >>)
  BY <1>1, <1>5 DEF TypeInv
<1>9. \A e \in Clients \ {c} : Untouched(e)
  BY <1>1, <1>5 DEF TypeInv, Untouched
<1> QED
  BY <1>1, <1>5, <1>7, <1>8, <1>9

----------------------------------------------------------------------------
(* Children that end                                                       *)

\* What has come out is cut at the end, if at all.
LEMMA EndsOut ==
    ASSUME TypeInv, NEW c \in Clients,
           NEW why \in (Directions \cup {"none"}) \X {"none", "eof", "error"},
           NEW unread, NEW reply \in Bytes, Ends(c, why, unread, reply)
    PROVE  /\ Out(c, "up")' \in Prefixes(Out(c, "up"))
           /\ Out(c, "down")' \in Prefixes(got[c]["down"] \o Put(c, "down", reply))
           /\ \A d \in Directions : Whole(c, d)' = Whole(c, d)
<1>1. /\ leaving'[c]["up"] \in Cut(leaving[c]["up"], unread["down"])
      /\ leaving'[c]["down"] \in Cut(Put(c, "down", reply), unread["up"])
      /\ got' = got /\ command' = command /\ sent' = sent
  BY EndsFacts
<1>2. "up" \in Directions /\ "down" \in Directions
  BY DEF Directions
<1>3. /\ leaving[c]["up"] \in Bytes /\ Put(c, "down", reply) \in Bytes
      /\ got[c]["up"] \in Bytes /\ got[c]["down"] \in Bytes
  BY <1>2, StateTypes, PutTypes
<1>4. /\ leaving'[c]["up"] \in Prefixes(leaving[c]["up"])
      /\ leaving'[c]["down"] \in Prefixes(Put(c, "down", reply))
  BY <1>1, <1>3, CutTypes
<1>5. got[c]["up"] \o leaving'[c]["up"] \in Prefixes(got[c]["up"] \o leaving[c]["up"])
  BY <1>3, <1>4, PrefixCut DEF Bytes
<1>6. got[c]["down"] \o leaving'[c]["down"] \in Prefixes(got[c]["down"] \o Put(c, "down", reply))
  BY <1>3, <1>4, PrefixCut DEF Bytes
<1>7. \A d \in Directions : Whole(c, d)' = Whole(c, d)
  BY <1>1 DEF Whole, Replies, NameOf
<1> QED
  BY <1>1, <1>5, <1>6, <1>7 DEF Out

\* A client that is given less has still been told nothing final.
LEMMA UntoldCut ==
    ASSUME NEW c, Untold(c), command'[c] = command[c],
           Out(c, "down")' \in Prefixes(Out(c, "down")),
           peer'[c].destination = "away" => peer[c].destination = "away"
    PROVE  Untold(c)'
<1>1. << >> \in Seq(Byte)
  BY EmptySeq
<1>2. ASSUME Out(c, "down") = << >> PROVE Out(c, "down")' = << >>
  <2>1. Out(c, "down")' \in Prefixes(<< >>)
    BY <1>2
  <2> QED
    BY <2>1, <1>1, PrefixFirst
<1>3. ASSUME Out(c, "down") = Reject1 PROVE Out(c, "down")' \in {<< >>, Reject1}
  <2>1. Out(c, "down")' \in Prefixes(Reject1)
    BY <1>3
  <2> QED
    BY <2>1, ByteTypes, PrefixOfOne DEF Reject1
<1>4. ASSUME Out(c, "down") = Accept1 PROVE Out(c, "down")' \in {<< >>, Accept1}
  <2>1. Out(c, "down")' \in Prefixes(Accept1)
    BY <1>4
  <2> QED
    BY <2>1, ByteTypes, PrefixOfOne DEF Accept1
<1>5. Accept1' = Accept1 /\ Reject1' = Reject1
  BY DEF Accept1, Reject1, Reply
<1> QED
  BY <1>2, <1>3, <1>4, <1>5 DEF Untold

\* A child that ends without a reply: nothing comes out any more.
LEMMA EndsInv ==
    ASSUME TypeInv, NEW c \in Clients, ClientInv(c), child[c] # "ended",
           NEW why \in (Directions \cup {"none"}) \X {"none", "eof", "error"},
           NEW unread, Ends(c, why, unread, << >>),
           why[2] = "eof" => Complete(c)'
    PROVE  ClientInv(c)'
<1>1. << >> \in Bytes /\ "up" \in Directions /\ "down" \in Directions /\ Directions = {"up", "down"}
  BY EmptySeq DEF Bytes, Directions
<1>2. child'[c] = "ended" /\ cause'[c] = why /\ peer' = peer /\ command' = command
  BY <1>1, EndsFacts
<1>3. \A d \in Directions : /\ Out(c, d)' \in Prefixes(Out(c, d))
                            /\ Whole(c, d)' = Whole(c, d)
  <2>1. Put(c, "down", << >>) = leaving[c]["down"]
    BY <1>1, StateTypes, ConcatEmptySeq DEF Put, Bytes
  <2>2. Out(c, "down") = got[c]["down"] \o Put(c, "down", << >>)
    BY <2>1 DEF Out
  <2> QED
    BY <2>2, <1>1, EndsOut
<1>4. \A d \in Directions : Out(c, d) \in Prefixes(Whole(c, d)) /\ Whole(c, d) \in Bytes /\ Out(c, d) \in Bytes
  BY StateTypes DEF ClientInv, Flow
<1>5. Stages(c)'
  BY <1>2 DEF Stages, Running
<1>6. \A d \in Directions : Flow(c, d)'
  <2>1. \A d \in Directions : Out(c, d)' \in Prefixes(Whole(c, d)')
    BY <1>3, <1>4, PrefixTrans DEF Bytes
  <2> QED
    BY <2>1, <1>2 DEF Flow
<1>7. Untold(c)'
  BY <1>1, <1>2, <1>3, UntoldCut DEF ClientInv
<1>8. Silent(c)'
  BY <1>2 DEF Silent
<1>9. Complete(c)'
  <2>1. CASE why[2] # "eof"
    BY <2>1, <1>2 DEF Complete
  <2> QED
    BY <2>1
<1> QED
  BY <1>5, <1>6, <1>7, <1>8, <1>9 DEF ClientInv

\* A request that is rejected: the reject, or nothing, comes out.
LEMMA RejectInv ==
    ASSUME TypeInv, NEW c \in Clients, ClientInv(c), child[c] = "reading",
           NEW unread, Ends(c, <<"none", "none">>, unread, <<Reply("Reject")>>)
    PROVE  ClientInv(c)'
<1>1. /\ << >> \in Bytes /\ Reject1 \in Bytes /\ <<Reply("Reject")>> = Reject1
      /\ "up" \in Directions /\ "down" \in Directions /\ Directions = {"up", "down"}
  BY EmptySeq, ByteTypes DEF Bytes, Directions, Reject1
<1>2. /\ child'[c] = "ended" /\ cause'[c] = <<"none", "none">>
      /\ peer' = peer /\ peer[c].destination = "away"
  BY <1>1, EndsFacts DEF ClientInv, Stages
<1>3. /\ got[c]["down"] = << >> /\ leaving[c]["down"] = << >>
      /\ got[c]["up"] = << >> /\ leaving[c]["up"] = << >>
  BY DEF ClientInv, Stages
<1>4. got[c]["down"] \o Put(c, "down", Reject1) \in {<< >>, Reject1}
  BY <1>1, <1>3, ConcatEmptySeq DEF Put, Bytes
<1>5. Out(c, "down")' \in {<< >>, Reject1}
  <2>1. Out(c, "down")' \in Prefixes(<< >>) \cup Prefixes(Reject1)
    BY <1>1, <1>4, EndsOut
  <2>2. \A t \in Prefixes(<< >>) : t = << >>
    BY <1>1, PrefixFirst DEF Bytes
  <2>3. \A t \in Prefixes(Reject1) : t \in {<< >>, Reject1}
    BY ByteTypes, PrefixOfOne DEF Reject1
  <2> QED
    BY <2>1, <2>2, <2>3
<1>6. Out(c, "up")' = << >>
  <2>1. Out(c, "up") = << >>
    BY <1>1, <1>3, ConcatEmptySeq DEF Out, Bytes
  <2>2. Out(c, "up")' \in Prefixes(<< >>)
    BY <2>1, <1>1, EndsOut
  <2> QED
    BY <2>2, <1>1, PrefixFirst DEF Bytes
<1>7. Stages(c)' /\ Untold(c)' /\ Silent(c)' /\ Complete(c)'
  BY <1>2, <1>5 DEF Stages, Running, Untold, Silent, Complete
<1>8. \A d \in Directions : Flow(c, d)'
  <2>1. \A d \in Directions : << >> \in Prefixes(Whole(c, d)')
    <3>1. \A d \in Directions : Whole(c, d)' = Whole(c, d)
      BY <1>1, EndsOut
    <3> QED
      BY <3>1, StateTypes, PrefixEnds DEF Bytes
  <2> QED
    BY <2>1, <1>1, <1>2, <1>5, <1>6 DEF Flow
<1> QED
  BY <1>7, <1>8 DEF ClientInv

----------------------------------------------------------------------------
(* The peers                                                               *)

\* A direction none of whose queues changes.
Still(c, d) ==
    /\ got'[c][d] = got[c][d] /\ leaving'[c][d] = leaving[c][d]
    /\ buffer'[c][d] = buffer[c][d] /\ arrived'[c][d] = arrived[c][d]
    /\ sent'[c][d] = sent[c][d]
    /\ command'[c] = command[c]

\* Where nothing moves what comes out is the same.
LEMMA StillOut ==
    ASSUME NEW c, NEW d, Still(c, d)
    PROVE  Out(c, d)' = Out(c, d) /\ Whole(c, d)' = Whole(c, d)
BY DEF Still, Out, Whole, Replies, NameOf

\* The flow of a direction in which nothing moves.
LEMMA StillFlow ==
    ASSUME NEW c, NEW d, Still(c, d), Flow(c, d),
           child'[c] = child[c] \/ (child[c] # "ended" /\ child'[c] # "relaying"),
           peer'[c][To(d)] # "gone" => peer[c][To(d)] # "gone",
           peer[c].destination = "away" => peer'[c].destination = "away"
    PROVE  Flow(c, d)'
BY StillOut DEF Still, Flow

\* As long as a child has not ended it has no cause to end.
LEMMA Uncaused ==
    ASSUME NEW c, ClientInv(c), child[c] # "ended", cause'[c] = cause[c]
    PROVE  Complete(c)'
<1>1. cause[c][1] = "none"
  BY DEF ClientInv, Complete
<1>2. \A d \in Directions : cause[c] # <<d, "eof">>
  BY <1>1 DEF Directions
<1> QED
  BY <1>1, <1>2 DEF Complete

\* Connect: the child is not there yet.
LEMMA ConnectInv ==
    ASSUME TypeInv, NEW c \in Clients, ClientInv(c), Connect(c)
    PROVE  TypeInv' /\ ClientInv(c)' /\ \A e \in Clients \ {c} : Untouched(e)
<1>1. /\ child[c] = "none"
      /\ child' = [child EXCEPT ![c] = "waiting"]
      /\ peer' = [peer EXCEPT ![c].client = "open"]
      /\ conf' = conf /\ command' = command /\ cause' = cause /\ sent' = sent
      /\ arrived' = arrived /\ buffer' = buffer /\ leaving' = leaving /\ got' = got
  BY DEF Connect
<1>2. TypeInv'
  BY <1>1 DEF TypeInv, StageNames, Standings
<1>3. /\ child'[c] = "waiting"
      /\ peer'[c].destination = peer[c].destination /\ peer'[c].client = "open"
      /\ \A e \in Clients \ {c} : Untouched(e)
  BY <1>1 DEF TypeInv, Untouched
<1>4. \A d : Still(c, d) /\ Out(c, d)' = Out(c, d) /\ Whole(c, d)' = Whole(c, d)
  <2>1. \A d : Still(c, d)
    BY <1>1 DEF Still
  <2> QED
    BY <2>1, StillOut
<1>5. Stages(c)'
  BY <1>1, <1>3 DEF ClientInv, Stages
<1>6. \A d \in Directions : Flow(c, d)'
  BY <1>1, <1>3, <1>4 DEF ClientInv, Flow
<1>7. Untold(c)' /\ Silent(c)' /\ Complete(c)'
  BY <1>1, <1>3, <1>4, Uncaused DEF ClientInv, Untold, Silent
<1> QED
  BY <1>2, <1>3, <1>5, <1>6, <1>7 DEF ClientInv

\* Ask: the request arrives, and what follows it is still to be sent.
LEMMA AskInv ==
    ASSUME TypeInv, NEW c \in Clients, ClientInv(c), NEW cmd \in Commands, Ask(c, cmd)
    PROVE  TypeInv' /\ ClientInv(c)' /\ \A e \in Clients \ {c} : Untouched(e)
<1>1. /\ child[c] = "reading" /\ command[c] = "none"
      /\ command' = [command EXCEPT ![c] = cmd]
      /\ arrived' = [arrived EXCEPT ![c]["up"] = <<Request>> \o NameOf(c)]
      /\ conf' = conf /\ child' = child /\ cause' = cause /\ peer' = peer /\ sent' = sent
      /\ buffer' = buffer /\ leaving' = leaving /\ got' = got
  BY DEF Ask
<1>2. /\ "up" \in Directions /\ "down" \in Directions /\ Directions = {"up", "down"}
      /\ cmd # "none" /\ "up" # "down" /\ << >> \in Bytes
  BY EmptySeq DEF Directions, Commands, Bytes
<1>3. /\ NameOf(c) \in Bytes /\ <<Request>> \in Bytes
      /\ <<Request>> \o NameOf(c) \in Bytes
  BY <1>2, StateTypes, ByteTypes, ConcatProperties DEF Bytes
<1>4. TypeInv'
  BY <1>1, <1>2, <1>3 DEF TypeInv
<1>5. /\ command'[c] = cmd
      /\ arrived'[c]["up"] = <<Request>> \o NameOf(c)
      /\ arrived'[c]["down"] = arrived[c]["down"]
      /\ \A e \in Clients \ {c} : Untouched(e)
  BY <1>1, <1>2 DEF TypeInv, Untouched
<1>6. /\ sent[c]["up"] = 0 /\ sent[c]["down"] = 0
      /\ \A d \in Directions : got[c][d] = << >> /\ leaving[c][d] = << >>
      /\ \A d \in Directions : Out(c, d) = << >>
  <2>1. /\ sent[c]["up"] = 0 /\ sent[c]["down"] = 0
        /\ \A d \in Directions : got[c][d] = << >> /\ leaving[c][d] = << >>
    BY <1>1, <1>2 DEF ClientInv, Stages
  <2> QED
    BY <2>1, <1>2, ConcatEmptySeq DEF Out, Bytes
<1>7. Whole(c, "up")' = NameOf(c)
  <2>1. [n \in 1..0 |-> Data(n)] = << >>
    OBVIOUS
  <2>2. Whole(c, "up")' = NameOf(c) \o << >>
    BY <2>1, <1>1, <1>6 DEF Whole, NameOf
  <2> QED
    BY <2>2, <1>3, ConcatEmptySeq DEF Bytes
<1>8. \A d : Out(c, d)' = Out(c, d)
  BY <1>1 DEF Out
<1>9. Stages(c)'
  BY <1>1, <1>2, <1>5, <1>6, <1>7 DEF ClientInv, Stages
<1>10. \A d \in Directions : Flow(c, d)'
  <2>1. \A d \in Directions : << >> \in Prefixes(Whole(c, d)')
    <3>1. \A d \in Directions : Whole(c, d)' \in Seq(Byte)
      <4>1. Whole(c, "down")' \in Bytes
        <5>1. Replies(c)' \in Bytes
          BY ByteTypes DEF Replies, Bytes
        <5>2. [n \in 1..0 |-> Data(n)] = << >>
          OBVIOUS
        <5>3. Whole(c, "down")' = Replies(c)' \o << >>
          BY <5>2, <1>1, <1>2, <1>6 DEF Whole
        <5> QED
          BY <5>1, <5>3, ConcatEmptySeq DEF Bytes
      <4> QED
        BY <4>1, <1>2, <1>3, <1>7 DEF Bytes
    <3> QED
      BY <3>1, PrefixEnds
  <2> QED
    BY <2>1, <1>1, <1>6, <1>8 DEF Flow
<1>11. Untold(c)' /\ Silent(c)' /\ Complete(c)'
  BY <1>1, <1>2, <1>6, <1>8, Uncaused DEF Untold, Silent
<1> QED
  BY <1>4, <1>5, <1>9, <1>10, <1>11 DEF ClientInv

\* Send: what is sent is what is to come out, later.
LEMMA SendInv ==
    ASSUME TypeInv, NEW c \in Clients, ClientInv(c), NEW d \in Directions, Send(c, d)
    PROVE  TypeInv' /\ ClientInv(c)' /\ \A e \in Clients \ {c} : Untouched(e)
<1> DEFINE unit == Data(sent[c][d] + 1)
<1>1. /\ peer[c][From(d)] = "open" /\ child[c] \in Running
      /\ d = "up" => command[c] # "none"
      /\ sent' = [sent EXCEPT ![c][d] = @ + 1]
      /\ arrived' = [arrived EXCEPT ![c][d] = Append(@, Data(sent'[c][d]))]
      /\ conf' = conf /\ command' = command /\ child' = child /\ cause' = cause
      /\ peer' = peer /\ buffer' = buffer /\ leaving' = leaving /\ got' = got
  BY DEF Send
<1>2. sent[c][d] \in Nat /\ arrived[c][d] \in Seq(Byte) /\ unit \in Byte
  BY StateTypes, ByteTypes DEF Bytes
<1>3. /\ sent'[c][d] = sent[c][d] + 1
      /\ sent' \in [Clients -> [Directions -> Nat]]
      /\ \A x \in Directions \ {d} : sent'[c][x] = sent[c][x]
  BY <1>1, <1>2 DEF TypeInv
<1>4. arrived' = [arrived EXCEPT ![c][d] = arrived[c][d] \o <<unit>>]
  <2>1. arrived' = [arrived EXCEPT ![c][d] = Append(arrived[c][d], unit)]
    BY <1>1, <1>3 DEF TypeInv
  <2> HIDE DEF unit
  <2>2. Append(arrived[c][d], unit) = arrived[c][d] \o <<unit>>
    BY <1>2, AppendIsConcat
  <2> QED
    BY <2>1, <2>2
<1>5. <<unit>> \in Seq(Byte) /\ arrived[c][d] \o <<unit>> \in Seq(Byte)
  BY <1>2, ConcatProperties
<1> HIDE DEF unit
<1>6. /\ arrived' \in [Clients -> [Directions -> Bytes]]
      /\ arrived'[c][d] = arrived[c][d] \o <<unit>>
      /\ \A x \in Directions \ {d} : arrived'[c][x] = arrived[c][x]
  BY <1>4, <1>5 DEF TypeInv, Bytes
<1>7. TypeInv'
  BY <1>1, <1>3, <1>6 DEF TypeInv
<1>8. \A e \in Clients \ {c} : Untouched(e)
  BY <1>1, <1>4 DEF TypeInv, Untouched
\* What is to come out grows by what was sent.
<1>9. Whole(c, d)' = Whole(c, d) \o <<unit>>
  <2> DEFINE base == IF d = "up" THEN NameOf(c) ELSE Replies(c)
             units(k) == [n \in 1..k |-> Data(n)]
  <2>1. base \in Seq(Byte)
    BY StateTypes DEF Bytes
  <2>2. units(sent[c][d]) \in Seq(Byte)
    <3>1. units(sent[c][d]) \in [1..sent[c][d] -> Byte]
      BY <1>2, ByteTypes
    <3> QED
      BY <3>1, <1>2, SeqDef
  <2>3. units(sent[c][d] + 1) = units(sent[c][d]) \o <<unit>>
    <3>1. units(sent[c][d] + 1) = Append(units(sent[c][d]), unit)
      BY <1>2 DEF unit
    <3> QED
      BY <3>1, <2>2, <1>2, AppendIsConcat
  <2>4. Whole(c, d) = base \o units(sent[c][d])
    BY DEF Whole
  <2>5. Whole(c, d)' = base \o units(sent[c][d] + 1)
    BY <1>1, <1>3 DEF Whole, Replies, NameOf
  <2> HIDE DEF base, units
  <2>6. (base \o units(sent[c][d])) \o <<unit>> = base \o (units(sent[c][d]) \o <<unit>>)
    BY <2>1, <2>2, <1>5, ConcatAssociative
  <2> QED
    BY <2>3, <2>4, <2>5, <2>6
<1>10. Out(c, d)' = Out(c, d)
  BY <1>1 DEF Out
<1>11. \A x \in Directions \ {d} : /\ Still(c, x)
                                   /\ Out(c, x)' = Out(c, x)
                                   /\ Whole(c, x)' = Whole(c, x)
  <2>1. \A x \in Directions \ {d} : Still(c, x)
    BY <1>1, <1>3, <1>6 DEF Still
  <2> QED
    BY <2>1, StillOut
<1>12. /\ Out(c, d) \in Seq(Byte) /\ buffer[c][d] \in Seq(Byte) /\ Whole(c, d) \in Seq(Byte)
       /\ Out(c, d) \o buffer[c][d] \in Seq(Byte)
       /\ <<Request>> \in Seq(Byte)
  BY StateTypes, ConcatProperties, ByteTypes DEF Bytes
<1>13. child[c] # "relaying" => d = "up"
  BY <1>1 DEF ClientInv, Stages, From, Directions, Running
<1>14. Stages(c)'
  <2>1. CASE child[c] = "relaying"
    BY <2>1, <1>1 DEF ClientInv, Stages
  <2>2. CASE child[c] # "relaying"
    <3>1. d = "up" /\ "down" \in Directions \ {d} /\ command[c] # "none"
      BY <2>2, <1>1, <1>13 DEF Directions
    <3>2. child[c] = "reading" => arrived'[c]["up"] = <<Request>> \o (Whole(c, "up")')
      <4>1. child[c] = "reading" => arrived[c]["up"] = <<Request>> \o Whole(c, "up")
        BY <3>1 DEF ClientInv, Stages
      <4>2. (<<Request>> \o Whole(c, d)) \o <<unit>> = <<Request>> \o (Whole(c, d) \o <<unit>>)
        BY <1>5, <1>12, ConcatAssociative
      <4> QED
        BY <4>1, <4>2, <3>1, <1>6, <1>9
    <3>3. child[c] \in {"connecting", "accepting"} => arrived'[c]["up"] = Whole(c, "up")'
      BY <3>1, <1>6, <1>9 DEF ClientInv, Stages
    <3> QED
      BY <3>1, <3>2, <3>3, <1>1, <1>3, <1>6, <1>11 DEF ClientInv, Stages, Running
  <2> QED
    BY <2>1, <2>2
<1>15. Flow(c, d)'
  <2>1. Out(c, d) \in Prefixes(Whole(c, d))
    BY <1>1 DEF ClientInv, Flow, Running
  <2>2. Out(c, d) \in Prefixes(Whole(c, d) \o <<unit>>)
    BY <2>1, <1>5, <1>12, PrefixOfMore
  <2>3. ASSUME Out(c, d) \o buffer[c][d] \o arrived[c][d] = Whole(c, d)
        PROVE  Out(c, d) \o buffer[c][d] \o (arrived[c][d] \o <<unit>>) = Whole(c, d) \o <<unit>>
    <3>1. (Out(c, d) \o buffer[c][d] \o arrived[c][d]) \o <<unit>>
             = Out(c, d) \o buffer[c][d] \o (arrived[c][d] \o <<unit>>)
      <4> DEFINE rest == arrived[c][d]
                 next == <<unit>>
                 before == Out(c, d) \o buffer[c][d]
      <4>1. before \in Seq(Byte) /\ rest \in Seq(Byte) /\ next \in Seq(Byte)
        BY <1>2, <1>5, <1>12
      <4> HIDE DEF rest, next, before
      <4>2. (before \o rest) \o next = before \o (rest \o next)
        BY <4>1, ConcatAssociative
      <4> QED
        BY <4>2 DEF rest, next, before
    <3> QED
      BY <2>3, <3>1
  <2> QED
    BY <2>2, <2>3, <1>1, <1>6, <1>9, <1>10 DEF ClientInv, Flow
<1>16. \A x \in Directions : Flow(c, x)'
  BY <1>1, <1>11, <1>15, StillFlow DEF ClientInv
<1>17. Untold(c)'
  <2>1. Out(c, "down")' = Out(c, "down")
    BY <1>1 DEF Out
  <2> QED
    BY <2>1, <1>1 DEF ClientInv, Untold
<1>18. Silent(c)'
  BY <1>1, <1>2, <1>3, <1>6 DEF ClientInv, Silent
<1>19. Complete(c)'
  BY <1>1, Uncaused DEF Running
<1> QED
  BY <1>7, <1>8, <1>14, <1>16, <1>17, <1>18, <1>19 DEF ClientInv

\* Receive: what was on its way has come out before.
LEMMA ReceiveInv ==
    ASSUME TypeInv, NEW c \in Clients, ClientInv(c), NEW d \in Directions, Receive(c, d)
    PROVE  TypeInv' /\ ClientInv(c)' /\ \A e \in Clients \ {c} : Untouched(e)
<1>1. /\ leaving[c][d] # << >>
      /\ got' = [got EXCEPT ![c][d] = Append(@, Head(leaving[c][d]))]
      /\ leaving' = [leaving EXCEPT ![c][d] = Tail(@)]
      /\ conf' = conf /\ command' = command /\ child' = child /\ cause' = cause
      /\ peer' = peer /\ sent' = sent /\ arrived' = arrived /\ buffer' = buffer
  BY DEF Receive
<1>2. got[c][d] \in Seq(Byte) /\ leaving[c][d] \in Seq(Byte)
  BY StateTypes DEF Bytes
<1>3. /\ Tail(leaving[c][d]) \in Seq(Byte)
      /\ Append(got[c][d], Head(leaving[c][d])) \in Seq(Byte)
      /\ Append(got[c][d], Head(leaving[c][d])) \o Tail(leaving[c][d]) = Out(c, d)
  <2> DEFINE g == got[c][d]
             l == leaving[c][d]
  <2>1. g \in Seq(Byte) /\ l \in Seq(Byte) /\ l # << >>
    BY <1>1, <1>2
  <2>2. Out(c, d) = g \o l
    BY DEF Out
  <2> HIDE DEF g, l
  <2>3. /\ Tail(l) \in Seq(Byte)
        /\ Append(g, Head(l)) \in Seq(Byte)
        /\ Append(g, Head(l)) \o Tail(l) = g \o l
    <3>1. /\ Tail(l) \in Seq(Byte)
          /\ Append(g, Head(l)) = g \o <<Head(l)>>
          /\ g \o <<Head(l)>> \in Seq(Byte)
          /\ (g \o <<Head(l)>>) \o Tail(l) = g \o l
      BY <2>1, MoveOne
    <3> QED
      BY <3>1
  <2> QED
    BY <2>2, <2>3 DEF g, l
<1>4. TypeInv'
  BY <1>1, <1>3 DEF TypeInv, Bytes
<1>5. /\ got'[c][d] = Append(got[c][d], Head(leaving[c][d]))
      /\ leaving'[c][d] = Tail(leaving[c][d])
      /\ \A x \in Directions \ {d} : got'[c][x] = got[c][x] /\ leaving'[c][x] = leaving[c][x]
      /\ \A e \in Clients \ {c} : Untouched(e)
  BY <1>1 DEF TypeInv, Untouched
<1>6. \A x \in Directions : Out(c, x)' = Out(c, x)
  BY <1>3, <1>5 DEF Out
<1>7. \A x : Whole(c, x)' = Whole(c, x)
  BY <1>1 DEF Whole, Replies, NameOf
<1>8. "down" \in Directions /\ "up" \in Directions
  BY DEF Directions
<1>9. child[c] \in {"accepting", "relaying", "ended"} /\ (child[c] = "accepting" => d = "down")
  BY <1>1, <1>8 DEF ClientInv, Stages, TypeInv, StageNames, Running, Directions
<1>10. Stages(c)'
  BY <1>1, <1>5, <1>6, <1>7, <1>8, <1>9 DEF ClientInv, Stages
<1>11. \A x \in Directions : Flow(c, x)'
  BY <1>1, <1>6, <1>7 DEF ClientInv, Flow
<1>12. Untold(c)' /\ Silent(c)' /\ Complete(c)'
  BY <1>1, <1>6, <1>7, <1>8 DEF ClientInv, Untold, Silent, Complete
<1> QED
  BY <1>4, <1>5, <1>10, <1>11, <1>12 DEF ClientInv

\* Shut: whoever was there is still there.
LEMMA ShutInv ==
    ASSUME TypeInv, NEW c \in Clients, ClientInv(c), NEW d \in Directions, Shut(c, d)
    PROVE  TypeInv' /\ ClientInv(c)' /\ \A e \in Clients \ {c} : Untouched(e)
<1>1. /\ peer[c][From(d)] = "open"
      /\ peer' = [peer EXCEPT ![c][From(d)] = "shut"]
      /\ conf' = conf /\ command' = command /\ child' = child /\ cause' = cause
      /\ sent' = sent /\ arrived' = arrived /\ buffer' = buffer
      /\ leaving' = leaving /\ got' = got
  BY DEF Shut
<1>2. From(d) \in {"client", "destination"}
  BY DEF From
<1>3. /\ peer' \in [Clients -> [client : Standings, destination : Standings]]
      /\ peer'[c].destination = "away" <=> peer[c].destination = "away"
      /\ peer'[c].destination = "gone" <=> peer[c].destination = "gone"
      /\ peer'[c].client = "gone" <=> peer[c].client = "gone"
      /\ \A e \in Clients \ {c} : peer'[e] = peer[e]
  <2>1. CASE From(d) = "client"
    BY <2>1, <1>1 DEF TypeInv, Standings
  <2>2. CASE From(d) = "destination"
    BY <2>2, <1>1 DEF TypeInv, Standings
  <2> QED
    BY <2>1, <2>2, <1>2
<1>4. TypeInv' /\ \A e \in Clients \ {c} : Untouched(e)
  BY <1>1, <1>3 DEF TypeInv, Untouched
<1>5. \A x : Out(c, x)' = Out(c, x) /\ Whole(c, x)' = Whole(c, x)
  BY <1>1 DEF Out, Whole, Replies, NameOf
<1>6. \A x \in Directions : peer'[c][To(x)] = "gone" <=> peer[c][To(x)] = "gone"
  BY <1>3 DEF To
<1>7. Stages(c)'
  BY <1>1, <1>3, <1>5 DEF ClientInv, Stages
<1>8. \A x \in Directions : Flow(c, x)'
  <2>1. \A x \in Directions : Still(c, x)
    BY <1>1 DEF Still
  <2> QED
    BY <2>1, <1>1, <1>3, <1>6, StillFlow DEF ClientInv
<1>9. Untold(c)' /\ Silent(c)' /\ Complete(c)'
  BY <1>1, <1>3, <1>5, <1>6 DEF ClientInv, Untold, Silent, Complete
<1> QED
  BY <1>4, <1>7, <1>8, <1>9 DEF ClientInv

\* Leave: what the peer has been given is a beginning of what it was to be.
LEMMA LeaveInv ==
    ASSUME TypeInv, NEW c \in Clients, ClientInv(c), NEW d \in Directions, Leave(c, d)
    PROVE  TypeInv' /\ ClientInv(c)' /\ \A e \in Clients \ {c} : Untouched(e)
<1>1. /\ peer[c][To(d)] \in {"open", "shut"}
      /\ peer' = [peer EXCEPT ![c][To(d)] = "gone"]
      /\ leaving' = [leaving EXCEPT ![c][d] = << >>]
      /\ conf' = conf /\ command' = command /\ child' = child /\ cause' = cause
      /\ sent' = sent /\ arrived' = arrived /\ buffer' = buffer /\ got' = got
  BY DEF Leave
<1>2. /\ "up" \in Directions /\ "down" \in Directions /\ Directions = {"up", "down"}
      /\ << >> \in Bytes /\ To(d) \in {"client", "destination"}
  BY EmptySeq DEF Directions, To, Bytes
<1>3. /\ peer' \in [Clients -> [client : Standings, destination : Standings]]
      /\ peer'[c].destination = "away" <=> peer[c].destination = "away"
      /\ peer[c].destination = "gone" => peer'[c].destination = "gone"
      /\ peer[c].client = "gone" => peer'[c].client = "gone"
      /\ peer'[c][To(d)] = "gone"
      /\ \A e \in Clients \ {c} : peer'[e] = peer[e]
  <2>1. CASE To(d) = "client"
    BY <2>1, <1>1 DEF TypeInv, Standings
  <2>2. CASE To(d) = "destination"
    BY <2>2, <1>1 DEF TypeInv, Standings
  <2> QED
    BY <2>1, <2>2, <1>2
<1>4. /\ leaving' \in [Clients -> [Directions -> Bytes]]
      /\ leaving'[c][d] = << >>
      /\ \A x \in Directions \ {d} : leaving'[c][x] = leaving[c][x]
      /\ \A e \in Clients \ {c} : leaving'[e] = leaving[e]
  BY <1>1, <1>2 DEF TypeInv
<1>5. TypeInv' /\ \A e \in Clients \ {c} : Untouched(e)
  BY <1>1, <1>3, <1>4 DEF TypeInv, Untouched
<1>6. \A x : Whole(c, x)' = Whole(c, x)
  BY <1>1 DEF Whole, Replies, NameOf
<1>7. \A x \in Directions \ {d} : Out(c, x)' = Out(c, x)
  BY <1>1, <1>4 DEF Out
<1>8. \A x \in Directions : /\ Out(c, x)' \in Prefixes(Out(c, x))
                            /\ Out(c, x) \in Seq(Byte) /\ Whole(c, x) \in Seq(Byte)
  <2>1. Out(c, d)' \in Prefixes(Out(c, d))
    <3>1. got[c][d] \in Seq(Byte) /\ leaving[c][d] \in Seq(Byte)
      BY StateTypes DEF Bytes
    <3>2. Out(c, d)' = got[c][d]
      BY <1>1, <1>4, <3>1, ConcatEmptySeq DEF Out
    <3> QED
      BY <3>1, <3>2, PrefixJoin DEF Out
  <2>2. \A x \in Directions : Out(c, x) \in Seq(Byte) /\ Whole(c, x) \in Seq(Byte)
    BY StateTypes DEF Bytes
  <2> QED
    BY <2>1, <2>2, <1>7, PrefixEnds
<1>9. \A x \in Directions : peer'[c][To(x)] # "gone" => peer[c][To(x)] # "gone" /\ x # d
  BY <1>3 DEF To
<1>10. Stages(c)'
  <2>1. ASSUME child[c] = "accepting" PROVE d = "down" /\ Out(c, "down")' \in {<< >>, Accept1}
    <3>1. d = "down"
      BY <2>1, <1>1, <1>2 DEF ClientInv, Stages, To
    <3>2. Out(c, "down") \in {<< >>, Accept1}
      BY <2>1 DEF ClientInv, Stages
    <3>3. Out(c, "down")' \in Prefixes(<< >>) \cup Prefixes(Accept1)
      BY <3>2, <1>2, <1>8
    <3>4. \A t \in Prefixes(<< >>) : t = << >>
      BY <1>2, PrefixFirst DEF Bytes
    <3>5. \A t \in Prefixes(Accept1) : t \in {<< >>, Accept1}
      BY ByteTypes, PrefixOfOne DEF Accept1
    <3> QED
      BY <3>1, <3>3, <3>4, <3>5
  <2>2. child[c] = "accepting" => peer'[c].client = "gone"
    BY <2>1, <1>3 DEF To
  <2>3. \A x \in Directions : leaving[c][x] = << >> => leaving'[c][x] = << >>
    BY <1>4
  <2> QED
    BY <2>1, <2>2, <2>3, <1>1, <1>2, <1>3, <1>6 DEF ClientInv, Stages, Accept1
<1>11. \A x \in Directions : Flow(c, x)'
  <2> SUFFICES ASSUME NEW x \in Directions PROVE Flow(c, x)'
    OBVIOUS
  <2>1. CASE Out(c, x) \in Prefixes(Whole(c, x))
    <3>1. Out(c, x)' \in Prefixes(Whole(c, x))
      BY <2>1, <1>8, PrefixTrans
    <3> QED
      BY <3>1, <1>1, <1>6, <1>7, <1>9 DEF ClientInv, Flow
  <2>2. CASE Out(c, x) \notin Prefixes(Whole(c, x))
    <3>1. /\ x = "down" /\ Out(c, x) = Reject1
          /\ child[c] = "ended" /\ peer[c].destination = "away"
      BY <2>2 DEF ClientInv, Flow
    <3>2. Out(c, x)' \in {<< >>, Reject1}
      <4>1. Out(c, x)' \in Prefixes(Reject1)
        BY <3>1, <1>8
      <4> QED
        BY <4>1, ByteTypes, PrefixOfOne DEF Reject1
    <3>3. << >> \in Prefixes(Whole(c, x))
      BY <1>8, PrefixEnds
    <3> QED
      BY <3>1, <3>2, <3>3, <1>1, <1>3, <1>6 DEF Flow, Reject1
  <2> QED
    BY <2>1, <2>2
<1>12. Untold(c)'
  BY <1>1, <1>2, <1>3, <1>8, UntoldCut DEF ClientInv
<1>13. Silent(c)' /\ Complete(c)'
  BY <1>1, <1>6, <1>7, <1>9 DEF ClientInv, Silent, Complete
<1> QED
  BY <1>5, <1>10, <1>11, <1>12, <1>13 DEF ClientInv

----------------------------------------------------------------------------
(* The parent and the child                                                *)

\* Accept: a child is forked or the client disconnected.
LEMMA AcceptInv ==
    ASSUME TypeInv, NEW c \in Clients, ClientInv(c), Accept(c)
    PROVE  TypeInv' /\ ClientInv(c)' /\ \A e \in Clients \ {c} : Untouched(e)
<1>1. /\ child[c] = "waiting"
      /\ conf' = conf /\ command' = command /\ cause' = cause /\ sent' = sent
      /\ buffer' = buffer /\ leaving' = leaving /\ got' = got
  BY DEF Accept
<1>2. "up" \in Directions /\ "down" \in Directions /\ << >> \in Bytes
  BY EmptySeq DEF Directions, Bytes
<1>3. \/ /\ child' = [child EXCEPT ![c] = "reading"]
         /\ peer' = peer /\ arrived' = arrived
      \/ /\ child' = [child EXCEPT ![c] = "refused"]
         /\ peer' = [peer EXCEPT ![c].client = "gone"]
         /\ arrived' = [arrived EXCEPT ![c] = EachWay(<<>>)]
  BY DEF Accept
<1>4. EachWay(<< >>) \in [Directions -> Bytes] /\ \A d \in Directions : EachWay(<< >>)[d] = << >>
  BY <1>2 DEF EachWay
<1>5. /\ TypeInv'
      /\ child'[c] \in {"reading", "refused"}
      /\ peer'[c].destination = peer[c].destination
      /\ \A d \in Directions : arrived'[c][d] = << >>
      /\ \A e \in Clients \ {c} : Untouched(e)
  <2>1. \A d \in Directions : arrived[c][d] = << >>
    BY <1>1 DEF ClientInv, Stages, Directions
  <2>2. CASE child' = [child EXCEPT ![c] = "reading"] /\ peer' = peer /\ arrived' = arrived
    BY <2>1, <2>2, <1>1 DEF TypeInv, Untouched, StageNames, Running
  <2>3. CASE /\ child' = [child EXCEPT ![c] = "refused"]
             /\ peer' = [peer EXCEPT ![c].client = "gone"]
             /\ arrived' = [arrived EXCEPT ![c] = EachWay(<<>>)]
    <3>1. TypeInv'
      BY <2>3, <1>1, <1>4 DEF TypeInv, StageNames, Standings
    <3>2. /\ child'[c] = "refused"
          /\ peer'[c].destination = peer[c].destination
          /\ arrived'[c] = EachWay(<< >>)
          /\ \A e \in Clients \ {c} : Untouched(e)
      BY <2>3, <1>1 DEF TypeInv, Untouched
    <3> QED
      BY <3>1, <3>2, <1>4
  <2> QED
    BY <1>3, <2>2, <2>3
<1>6. \A x : Out(c, x)' = Out(c, x) /\ Whole(c, x)' = Whole(c, x)
  BY <1>1 DEF Out, Whole, Replies, NameOf
<1>7. Stages(c)'
  BY <1>1, <1>2, <1>5 DEF ClientInv, Stages
<1>8. \A x \in Directions : Flow(c, x)'
  BY <1>1, <1>5, <1>6 DEF ClientInv, Flow
<1>9. Untold(c)' /\ Silent(c)' /\ Complete(c)'
  BY <1>1, <1>5, <1>6, Uncaused DEF ClientInv, Untold, Silent
<1> QED
  BY <1>5, <1>7, <1>8, <1>9 DEF ClientInv

\* A request is followed by what is to go up.
LEMMA TailOfOne ==
    ASSUME NEW S, NEW e \in S, NEW s \in Seq(S)
    PROVE  Tail(<<e>> \o s) = s
<1>1. <<e>> \in Seq(S) /\ Len(<<e>>) = 1 /\ Len(s) \in Nat
  BY LenProperties
<1>2. /\ <<e>> \o s \in Seq(S) /\ Len(<<e>> \o s) = 1 + Len(s)
      /\ \A i \in 1..(1 + Len(s)) : (<<e>> \o s)[i] = IF i <= 1 THEN <<e>>[i] ELSE s[i - 1]
  BY <1>1, ConcatProperties
<1>3. <<e>> \o s # << >>
  BY <1>1, <1>2, EmptySeq
<1>4. /\ Tail(<<e>> \o s) \in Seq(S) /\ Len(Tail(<<e>> \o s)) = Len(s)
      /\ \A i \in 1..Len(s) : Tail(<<e>> \o s)[i] = (<<e>> \o s)[i + 1]
  BY <1>1, <1>2, <1>3, HeadTailProperties
<1>5. \A i \in 1..Len(s) : (<<e>> \o s)[i + 1] = s[i]
  BY <1>1, <1>2
<1> QED
  BY <1>4, <1>5, SeqEqual

\* The client is to be told once, or twice when it binds.
LEMMA WholeDown ==
    ASSUME TypeInv, NEW c \in Clients
    PROVE  /\ Accept1 \in Prefixes(Whole(c, "down"))
           /\ sent[c]["down"] = 0 =>
                 Whole(c, "down") = IF command[c] = "bind" THEN Accept1 \o Accept1 ELSE Accept1
<1> DEFINE units == [n \in 1..sent[c]["down"] |-> Data(n)]
<1>1. sent[c]["down"] \in Nat /\ Accept1 \in Seq(Byte) /\ << >> \in Seq(Byte)
  BY StateTypes, ByteTypes, EmptySeq DEF Directions, Accept1
<1>2. units \in Seq(Byte)
  <2>1. units \in [1..sent[c]["down"] -> Byte]
    BY <1>1, ByteTypes
  <2> QED
    BY <2>1, <1>1, SeqDef
<1>3. Replies(c) = IF command[c] = "bind" THEN Accept1 \o Accept1 ELSE Accept1
  <2> DEFINE a == Reply("Accept")
  <2>1. a \in Byte /\ <<a>> \in Seq(Byte)
    BY ByteTypes
  <2> HIDE DEF a
  <2>2. Append(<<a>>, a) = <<a>> \o <<a>>
    BY <2>1, AppendIsConcat
  <2>3. Append(<<a>>, a) = <<a, a>>
    <3>1. /\ Append(<<a>>, a) \in Seq(Byte) /\ Len(Append(<<a>>, a)) = 2
          /\ \A i \in 1..2 : Append(<<a>>, a)[i] = a
      BY <2>1, AppendProperties
    <3>2. <<a, a>> \in Seq(Byte) /\ Len(<<a, a>>) = 2 /\ \A i \in 1..2 : <<a, a>>[i] = a
      BY <2>1
    <3> QED
      BY <3>1, <3>2, SeqEqual
  <2>4. <<a>> \o <<a>> = <<a, a>>
    BY <2>2, <2>3
  <2> QED
    BY <2>4 DEF Replies, Accept1, a
<1>4. Whole(c, "down") = Replies(c) \o units
  BY DEF Whole
<1>5. sent[c]["down"] = 0 => units = << >>
  OBVIOUS
<1> HIDE DEF units
<1>6. Accept1 \in Prefixes(Whole(c, "down"))
  <2>1. CASE command[c] = "bind"
    <3>1. Whole(c, "down") = Accept1 \o (Accept1 \o units) /\ Accept1 \o units \in Seq(Byte)
      <4>1. (Accept1 \o Accept1) \o units = Accept1 \o (Accept1 \o units)
        BY <1>1, <1>2, ConcatAssociative
      <4>2. Accept1 \o units \in Seq(Byte)
        BY <1>1, <1>2, ConcatProperties
      <4> QED
        BY <4>1, <4>2, <2>1, <1>3, <1>4
    <3> QED
      BY <3>1, <1>1, PrefixJoin
  <2>2. CASE command[c] # "bind"
    BY <2>2, <1>1, <1>2, <1>3, <1>4, PrefixJoin
  <2> QED
    BY <2>1, <2>2
<1>7. Replies(c) \o << >> = Replies(c)
  BY StateTypes, ConcatEmptySeq DEF Bytes, Directions
<1> QED
  BY <1>3, <1>4, <1>5, <1>6, <1>7

\* ReadRequest: the request is taken, and what follows it is what is to go up.
LEMMA ReadRequestInv ==
    ASSUME TypeInv, NEW c \in Clients, ClientInv(c), ReadRequest(c)
    PROVE  TypeInv' /\ ClientInv(c)' /\ \A e \in Clients \ {c} : Untouched(e)
<1> DEFINE rest == [arrived[c] EXCEPT !["up"] = Tail(@)]
<1>1. child[c] = "reading" /\ arrived[c]["up"] # << >>
  BY DEF ReadRequest
<1>2. /\ "up" \in Directions /\ "down" \in Directions /\ Directions = {"up", "down"} /\ "up" # "down"
      /\ << >> \in Bytes /\ <<"none", "none">> \in (Directions \cup {"none"}) \X {"none", "eof", "error"}
      /\ <<Reply("Reject")>> \in Bytes /\ Accept1 \in Bytes
  BY EmptySeq, ByteTypes DEF Directions, Bytes, Accept1
<1>3. CASE Ends(c, <<"none", "none">>, rest, << >>)
  <2>1. TypeInv' /\ \A e \in Clients \ {c} : Untouched(e)
    BY <1>2, <1>3, EndsFacts
  <2>2. ClientInv(c)'
    BY <1>1, <1>2, <1>3, EndsInv
  <2> QED
    BY <2>1, <2>2
<1>4. CASE Ends(c, <<"none", "none">>, rest, <<Reply("Reject")>>)
  <2>1. TypeInv' /\ \A e \in Clients \ {c} : Untouched(e)
    BY <1>2, <1>4, EndsFacts
  <2>2. ClientInv(c)'
    BY <1>1, <1>4, RejectInv
  <2> QED
    BY <2>1, <2>2
<1>5. CASE /\ command[c] # "other"
           /\ arrived' = [arrived EXCEPT ![c] = rest]
           /\ child' = [child EXCEPT ![c] =
                           IF command[c] = "bind" THEN "accepting" ELSE "connecting"]
           /\ leaving' = [leaving EXCEPT ![c]["down"] =
                             IF command[c] = "bind" THEN Put(c, "down", <<Reply("Accept")>>)
                                                    ELSE @]
           /\ UNCHANGED <<conf, command, cause, peer, sent, buffer, got>>
  <2>1. /\ got[c]["down"] = << >> /\ leaving[c]["down"] = << >>
        /\ got[c]["up"] = << >> /\ leaving[c]["up"] = << >>
        /\ command[c] \in {"connect", "bind"}
        /\ arrived[c]["up"] = <<Request>> \o Whole(c, "up")
    BY <1>1, <1>5 DEF ClientInv, Stages, TypeInv, Commands
  <2>2. Tail(arrived[c]["up"]) = Whole(c, "up") /\ Whole(c, "up") \in Bytes
    <3>1. Whole(c, "up") \in Seq(Byte) /\ Request \in Byte
      BY <1>2, StateTypes, ByteTypes DEF Bytes
    <3>2. Tail(<<Request>> \o Whole(c, "up")) = Whole(c, "up")
      BY <3>1, TailOfOne, Zenon
    <3> QED
      BY <2>1, <3>1, <3>2, Zenon DEF Bytes
  <2>3. rest \in [Directions -> Bytes] /\ rest["up"] = Whole(c, "up") /\ rest["down"] = arrived[c]["down"]
    BY <2>2, <1>2 DEF TypeInv
  <2>4. Put(c, "down", <<Reply("Accept")>>) = IF peer[c].client = "gone" THEN << >> ELSE Accept1
    BY <2>1, <1>2, ConcatEmptySeq DEF Put, To, Accept1, Bytes
  <2> HIDE DEF rest
  <2>5. /\ TypeInv'
        /\ child'[c] = IF command[c] = "bind" THEN "accepting" ELSE "connecting"
        /\ arrived'[c] = rest
        /\ leaving'[c]["up"] = leaving[c]["up"]
        /\ leaving'[c]["down"] = IF command[c] = "bind" /\ peer[c].client # "gone" THEN Accept1 ELSE << >>
        /\ \A e \in Clients \ {c} : Untouched(e)
    <3> DEFINE put == IF command[c] = "bind" /\ peer[c].client # "gone" THEN Accept1 ELSE << >>
    <3>1. leaving' = [leaving EXCEPT ![c]["down"] = put]
      BY <2>1, <2>4, <1>5 DEF TypeInv
    <3>2. put \in Bytes
      BY <1>2
    <3> HIDE DEF put
    <3>3. TypeInv'
      BY <3>1, <3>2, <2>3, <1>2, <1>5 DEF TypeInv, StageNames, Running
    <3>4. leaving'[c]["up"] = leaving[c]["up"] /\ leaving'[c]["down"] = put
      BY <3>1, <1>2 DEF TypeInv
    <3>5. child'[c] = (IF command[c] = "bind" THEN "accepting" ELSE "connecting") /\ arrived'[c] = rest
      BY <1>5 DEF TypeInv
    <3>6. \A e \in Clients \ {c} : Untouched(e)
      BY <3>1, <1>5 DEF TypeInv, Untouched
    <3> QED
      BY <3>3, <3>4, <3>5, <3>6 DEF put
  <2>6. /\ \A x : Whole(c, x)' = Whole(c, x)
        /\ Out(c, "up")' = << >>
        /\ Out(c, "down")' = IF command[c] = "bind" /\ peer[c].client # "gone" THEN Accept1 ELSE << >>
    <3>1. \A x : Whole(c, x)' = Whole(c, x)
      BY <1>5 DEF Whole, Replies, NameOf
    <3>2. << >> \o << >> = << >> /\ << >> \o Accept1 = Accept1
      BY <1>2, ConcatEmptySeq DEF Bytes
    <3> QED
      BY <3>1, <3>2, <2>1, <2>5, <1>5 DEF Out
  <2>7. Stages(c)'
    <3>1. /\ sent[c]["down"] = 0 /\ arrived[c]["down"] = << >>
          /\ peer[c].destination = "away"
          /\ \A d \in Directions : buffer[c][d] = << >>
      BY <1>1 DEF ClientInv, Stages
    <3>2. Accept1' = Accept1
      BY DEF Accept1, Reply
    <3> QED
      BY <3>1, <3>2, <2>1, <2>3, <2>5, <2>6, <1>5 DEF Stages
  <2>8. \A x \in Directions : Flow(c, x)'
    <3>1. Accept1 \in Prefixes(Whole(c, "down"))
      BY WholeDown
    <3>2. \A x \in Directions : << >> \in Prefixes(Whole(c, x))
      BY StateTypes, PrefixEnds DEF Bytes
    <3>3. \A x \in Directions : Out(c, x)' \in Prefixes(Whole(c, x)')
      BY <3>1, <3>2, <2>6, <1>2
    <3> QED
      BY <3>3, <2>5 DEF Flow
  <2>9. Untold(c)' /\ Silent(c)' /\ Complete(c)'
    <3>1. Accept1' = Accept1
      BY DEF Accept1, Reply
    <3>2. Untold(c)'
      BY <3>1, <2>6, <1>5 DEF Untold
    <3>3. Silent(c)'
      BY <2>5 DEF Silent
    <3>4. Complete(c)'
      BY <1>1, <1>5, Uncaused
    <3> QED
      BY <3>2, <3>3, <3>4
  <2> QED
    BY <2>5, <2>7, <2>8, <2>9 DEF ClientInv
<1> QED
  BY <1>3, <1>4, <1>5 DEF ReadRequest

\* The child gives up before it relays.
LEMMA AbortInv ==
    ASSUME TypeInv, NEW c \in Clients, ClientInv(c),
           NoRequest(c) \/ ConnectFails(c) \/ ReplyFails(c) \/ AcceptedLate(c)
    PROVE  TypeInv' /\ ClientInv(c)' /\ \A e \in Clients \ {c} : Untouched(e)
<1>1. child[c] # "ended" /\ Ends(c, <<"none", "none">>, arrived[c], << >>)
  BY DEF NoRequest, ConnectFails, ReplyFails, AcceptedLate, Aborts
<1>2. << >> \in Bytes /\ <<"none", "none">> \in (Directions \cup {"none"}) \X {"none", "eof", "error"}
  BY EmptySeq DEF Bytes
<1>3. TypeInv' /\ \A e \in Clients \ {c} : Untouched(e)
  BY <1>1, <1>2, EndsFacts
<1>4. ClientInv(c)'
  BY <1>1, <1>2, EndsInv
<1> QED
  BY <1>3, <1>4

\* Open: the client has been told what it was to be told by now, and the relay
\* starts with what follows the request.
LEMMA OpenInv ==
    ASSUME TypeInv, NEW c \in Clients, ClientInv(c),
           child[c] \in {"connecting", "accepting"}, Open(c)
    PROVE  TypeInv' /\ ClientInv(c)' /\ \A e \in Clients \ {c} : Untouched(e)
<1> DEFINE put == Put(c, "down", <<Reply("Accept")>>)
<1>1. /\ peer' = [peer EXCEPT ![c].destination = "open"]
      /\ child' = [child EXCEPT ![c] = "relaying"]
      /\ leaving' = [leaving EXCEPT ![c]["down"] = put]
      /\ conf' = conf /\ command' = command /\ cause' = cause /\ sent' = sent
      /\ arrived' = arrived /\ buffer' = buffer /\ got' = got
  BY DEF Open
<1>2. /\ "up" \in Directions /\ "down" \in Directions /\ Directions = {"up", "down"} /\ "up" # "down"
      /\ << >> \in Seq(Byte) /\ Accept1 \in Seq(Byte) /\ <<Reply("Accept")>> = Accept1
  BY EmptySeq, ByteTypes DEF Directions, Accept1
<1>3. /\ got[c]["down"] \in Seq(Byte) /\ leaving[c]["down"] \in Seq(Byte)
      /\ put \in Seq(Byte)
      /\ put = IF peer[c].client = "gone" THEN leaving[c]["down"]
                                          ELSE leaving[c]["down"] \o Accept1
  <2>1. put \in Seq(Byte)
    BY <1>2, PutTypes DEF Bytes
  <2> QED
    BY <2>1, <1>2, StateTypes DEF Bytes, Put, To
<1> HIDE DEF put
<1>4. TypeInv'
  <2>1. peer' \in [Clients -> [client : Standings, destination : Standings]]
    BY <1>1 DEF TypeInv, Standings
  <2>2. child' \in [Clients -> StageNames]
    BY <1>1 DEF TypeInv, StageNames, Running
  <2>3. leaving' \in [Clients -> [Directions -> Bytes]]
    BY <1>1, <1>2, <1>3 DEF TypeInv, Bytes
  <2> QED
    BY <2>1, <2>2, <2>3, <1>1 DEF TypeInv
<1>5. /\ child'[c] = "relaying"
      /\ peer'[c].destination = "open" /\ peer'[c].client = peer[c].client
      /\ leaving'[c]["up"] = leaving[c]["up"] /\ leaving'[c]["down"] = put
      /\ \A e \in Clients \ {c} : Untouched(e)
  BY <1>1, <1>2 DEF TypeInv, Untouched
<1>6. /\ \A d \in Directions : buffer[c][d] = << >>
      /\ sent[c]["down"] = 0 /\ arrived[c]["down"] = << >>
      /\ got[c]["up"] = << >> /\ leaving[c]["up"] = << >>
      /\ arrived[c]["up"] = Whole(c, "up")
      /\ command[c] = IF child[c] = "accepting" THEN "bind" ELSE "connect"
  BY DEF ClientInv, Stages
<1>7. \A x : Whole(c, x)' = Whole(c, x)
  BY <1>1 DEF Whole, Replies, NameOf
<1>8. Out(c, "up")' = << >>
  BY <1>1, <1>2, <1>5, <1>6, ConcatEmptySeq DEF Out
\* What the client has been told is what it was to be told.
<1>9. /\ peer[c].client = "gone" => Out(c, "down")' = Out(c, "down")
      /\ peer[c].client # "gone" => Out(c, "down")' = Out(c, "down") \o Accept1
  <2>1. Out(c, "down")' = got[c]["down"] \o put
    BY <1>1, <1>5 DEF Out
  <2>2. (got[c]["down"] \o leaving[c]["down"]) \o Accept1 = got[c]["down"] \o (leaving[c]["down"] \o Accept1)
    <3> DEFINE x == got[c]["down"]
               y == leaving[c]["down"]
               z == Accept1
    <3>1. x \in Seq(Byte) /\ y \in Seq(Byte) /\ z \in Seq(Byte)
      BY <1>2, <1>3
    <3> HIDE DEF x, y, z
    <3>2. (x \o y) \o z = x \o (y \o z)
      BY <3>1, Regroup
    <3> QED
      BY <3>2 DEF x, y, z
  <2> QED
    BY <2>1, <2>2, <1>3 DEF Out
<1>10. peer[c].client # "gone" => Out(c, "down")' = Whole(c, "down")
  <2>1. Whole(c, "down") = IF command[c] = "bind" THEN Accept1 \o Accept1 ELSE Accept1
    BY <1>6, WholeDown
  <2>2. child[c] = "connecting" => Out(c, "down") = << >>
    BY <1>2, ConcatEmptySeq DEF ClientInv, Stages, Out
  <2>3. child[c] = "accepting" /\ peer[c].client # "gone" => Out(c, "down") = Accept1
    BY DEF ClientInv, Stages
  <2>4. << >> \o Accept1 = Accept1
    BY <1>2, ConcatEmptySeq
  <2> QED
    BY <2>1, <2>2, <2>3, <2>4, <1>6, <1>9
<1>11. \A x \in Directions : Whole(c, x) \in Seq(Byte) /\ Out(c, x) \in Prefixes(Whole(c, x))
  BY StateTypes DEF ClientInv, Flow, Bytes
<1>12. Flow(c, "up")'
  <2>1. << >> \in Prefixes(Whole(c, "up"))
    BY <1>2, <1>11, PrefixEnds
  <2>2. << >> \o << >> \o Whole(c, "up") = Whole(c, "up")
    <3>1. << >> \o << >> = << >>
      BY <1>2, ConcatEmptySeq
    <3>2. << >> \o Whole(c, "up") = Whole(c, "up")
      BY <1>2, <1>11, ConcatEmptySeq
    <3> QED
      BY <3>1, <3>2
  <2> QED
    BY <2>1, <2>2, <1>1, <1>2, <1>6, <1>7, <1>8 DEF Flow
<1>13. Flow(c, "down")'
  <2>1. CASE peer[c].client = "gone"
    BY <2>1, <1>2, <1>5, <1>7, <1>9, <1>11 DEF Flow, To
  <2>2. CASE peer[c].client # "gone"
    <3>1. Whole(c, "down") \in Prefixes(Whole(c, "down"))
      BY <1>2, <1>11, PrefixEnds
    <3>2. Whole(c, "down") \o << >> \o << >> = Whole(c, "down")
      <4>1. Whole(c, "down") \o << >> = Whole(c, "down")
        BY <1>2, <1>11, ConcatEmptySeq
      <4> QED
        BY <4>1
    <3> QED
      BY <2>2, <3>1, <3>2, <1>1, <1>2, <1>6, <1>7, <1>10 DEF Flow
  <2> QED
    BY <2>1, <2>2
<1>14. Stages(c)'
  BY <1>1, <1>5, <1>6 DEF Stages
<1>15. Untold(c)' /\ Complete(c)'
  BY <1>1, <1>5, Uncaused DEF Untold
<1>16. Silent(c)'
  <2>1. sent[c]["up"] = 0 /\ c \notin Naming => Whole(c, "up") = << >>
    <3>1. [n \in 1..0 |-> Data(n)] = << >>
      OBVIOUS
    <3>2. << >> \o << >> = << >>
      BY <1>2, ConcatEmptySeq
    <3> QED
      BY <3>1, <3>2 DEF Whole, NameOf
  <2> QED
    BY <2>1, <1>1, <1>2, <1>6 DEF Silent
<1> QED
  BY <1>2, <1>4, <1>5, <1>12, <1>13, <1>14, <1>15, <1>16 DEF ClientInv

----------------------------------------------------------------------------
(* The relay                                                               *)

\* Read: what is read is in the buffer, which was empty.
LEMMA ReadInv ==
    ASSUME TypeInv, NEW c \in Clients, ClientInv(c), NEW d \in Directions, Read(c, d)
    PROVE  TypeInv' /\ ClientInv(c)' /\ \A e \in Clients \ {c} : Untouched(e)
<1>1. /\ child[c] = "relaying" /\ buffer[c][d] = << >> /\ arrived[c][d] # << >>
      /\ conf' = conf /\ command' = command /\ child' = child /\ cause' = cause
      /\ peer' = peer /\ sent' = sent /\ leaving' = leaving /\ got' = got
  BY DEF Read
<1>2. PICK data \in Prefixes(arrived[c][d]) :
         /\ buffer' = [buffer EXCEPT ![c][d] = data]
         /\ arrived' = [arrived EXCEPT ![c][d] = SubSeq(@, Len(data) + 1, Len(@))]
  BY DEF Read
<1> DEFINE rest == SubSeq(arrived[c][d], Len(data) + 1, Len(arrived[c][d]))
<1>3. arrived[c][d] \in Seq(Byte) /\ Out(c, d) \in Seq(Byte) /\ << >> \in Seq(Byte)
  BY StateTypes, EmptySeq DEF Bytes
<1>4. data \in Seq(Byte) /\ rest \in Seq(Byte) /\ data \o rest = arrived[c][d]
  BY <1>3, ReadSome
<1>5. arrived' = [arrived EXCEPT ![c][d] = rest]
  BY <1>2 DEF TypeInv
<1> HIDE DEF rest
<1>6. TypeInv'
  BY <1>1, <1>2, <1>4, <1>5 DEF TypeInv, Bytes
<1>7. /\ buffer'[c][d] = data /\ arrived'[c][d] = rest
      /\ \A x \in Directions \ {d} : buffer'[c][x] = buffer[c][x] /\ arrived'[c][x] = arrived[c][x]
      /\ \A e \in Clients \ {c} : Untouched(e)
  BY <1>1, <1>2, <1>5 DEF TypeInv, Untouched
<1>8. \A x : Out(c, x)' = Out(c, x) /\ Whole(c, x)' = Whole(c, x)
  BY <1>1 DEF Out, Whole, Replies, NameOf
<1>9. Flow(c, d)'
  <2>1. Out(c, d) \o data \o rest = Out(c, d) \o << >> \o arrived[c][d]
    <3>1. (Out(c, d) \o data) \o rest = Out(c, d) \o (data \o rest)
      BY <1>3, <1>4, Regroup, Zenon
    <3>2. Out(c, d) \o << >> = Out(c, d)
      BY <1>3, ConcatEmptySeq
    <3> QED
      BY <3>1, <3>2, <1>4
  <2> QED
    BY <2>1, <1>1, <1>7, <1>8 DEF ClientInv, Flow
<1>10. \A x \in Directions : Flow(c, x)'
  <2>1. \A x \in Directions \ {d} : Still(c, x)
    BY <1>1, <1>7 DEF Still
  <2> QED
    BY <2>1, <1>1, <1>9, StillFlow DEF ClientInv
<1>11. Stages(c)'
  BY <1>1 DEF ClientInv, Stages
<1>12. Untold(c)' /\ Complete(c)'
  BY <1>1, <1>8, Uncaused DEF ClientInv, Untold
<1>13. Silent(c)'
  BY <1>1, <1>7 DEF ClientInv, Silent
<1> QED
  BY <1>6, <1>7, <1>10, <1>11, <1>12, <1>13 DEF ClientInv

\* Write: the first unit of the buffer is on its way, or dropped.
LEMMA WriteInv ==
    ASSUME TypeInv, NEW c \in Clients, ClientInv(c), NEW d \in Directions, Write(c, d)
    PROVE  TypeInv' /\ ClientInv(c)' /\ \A e \in Clients \ {c} : Untouched(e)
<1> DEFINE h == Head(buffer[c][d])
           t == Tail(buffer[c][d])
           put == Put(c, d, <<Head(buffer[c][d])>>)
<1>1. /\ child[c] = "relaying" /\ buffer[c][d] # << >>
      /\ leaving' = [leaving EXCEPT ![c][d] = put]
      /\ buffer' = [buffer EXCEPT ![c][d] = t]
      /\ conf' = conf /\ command' = command /\ child' = child /\ cause' = cause
      /\ peer' = peer /\ sent' = sent /\ arrived' = arrived /\ got' = got
  BY DEF Write, TypeInv
<1>2. /\ buffer[c][d] \in Seq(Byte) /\ arrived[c][d] \in Seq(Byte) /\ Out(c, d) \in Seq(Byte)
      /\ got[c][d] \in Seq(Byte) /\ leaving[c][d] \in Seq(Byte) /\ Whole(c, d) \in Seq(Byte)
  BY StateTypes DEF Bytes
<1>3. /\ <<h>> \in Seq(Byte) /\ t \in Seq(Byte)
      /\ Out(c, d) \o <<h>> \in Seq(Byte)
      /\ (Out(c, d) \o <<h>>) \o t = Out(c, d) \o buffer[c][d]
  <2> DEFINE g == Out(c, d)
             b == buffer[c][d]
  <2>1. g \in Seq(Byte) /\ b \in Seq(Byte) /\ b # << >>
    BY <1>1, <1>2
  <2>2. h = Head(b) /\ t = Tail(b)
    OBVIOUS
  <2> HIDE DEF g, b, h, t
  <2>3. /\ Head(b) \in Byte /\ Tail(b) \in Seq(Byte)
        /\ g \o <<Head(b)>> \in Seq(Byte)
        /\ (g \o <<Head(b)>>) \o Tail(b) = g \o b
    BY <2>1, MoveOne
  <2>4. <<h>> \in Seq(Byte)
    BY <2>2, <2>3
  <2>5. /\ g \o <<h>> \in Seq(Byte)
        /\ (g \o <<h>>) \o t = g \o b
    BY <2>2, <2>3, Zenon
  <2>6. t \in Seq(Byte)
    BY <2>2, <2>3, Zenon
  <2> QED
    BY <2>4, <2>5, <2>6, Zenon DEF g, b
<1>4. put \in Seq(Byte)
  BY <1>3, PutTypes DEF Bytes
<1>5. put = IF peer[c][To(d)] = "gone" THEN leaving[c][d] ELSE leaving[c][d] \o <<h>>
  BY DEF Put
<1> HIDE DEF h, t, put
<1>6. TypeInv'
  BY <1>1, <1>3, <1>4 DEF TypeInv, Bytes
<1>7. /\ buffer'[c][d] = t /\ leaving'[c][d] = put
      /\ \A x \in Directions \ {d} : buffer'[c][x] = buffer[c][x] /\ leaving'[c][x] = leaving[c][x]
      /\ \A e \in Clients \ {c} : Untouched(e)
  BY <1>1 DEF TypeInv, Untouched
<1>8. \A x : Whole(c, x)' = Whole(c, x)
  BY <1>1 DEF Whole, Replies, NameOf
<1>9. /\ peer[c][To(d)] = "gone" => Out(c, d)' = Out(c, d)
      /\ peer[c][To(d)] # "gone" => Out(c, d)' = Out(c, d) \o <<h>>
  <2>1. Out(c, d)' = got[c][d] \o put
    BY <1>1, <1>7 DEF Out
  <2>2. (got[c][d] \o leaving[c][d]) \o <<h>> = got[c][d] \o (leaving[c][d] \o <<h>>)
    <3> DEFINE x == got[c][d]
               y == leaving[c][d]
               z == <<h>>
    <3>1. x \in Seq(Byte) /\ y \in Seq(Byte) /\ z \in Seq(Byte)
      BY <1>2, <1>3
    <3> HIDE DEF x, y, z
    <3>2. (x \o y) \o z = x \o (y \o z)
      BY <3>1, Regroup
    <3> QED
      BY <3>2 DEF x, y, z
  <2> QED
    BY <2>1, <2>2, <1>5 DEF Out
<1>10. Flow(c, d)'
  <2>1. CASE peer[c][To(d)] = "gone"
    BY <2>1, <1>1, <1>8, <1>9 DEF ClientInv, Flow
  <2>2. CASE peer[c][To(d)] # "gone"
    <3>1. Out(c, d) \o buffer[c][d] \o arrived[c][d] = Whole(c, d)
      BY <2>2, <1>1 DEF ClientInv, Flow
    <3>2. Out(c, d)' = Out(c, d) \o <<h>> /\ Out(c, d)' \in Seq(Byte)
      BY <2>2, <1>3, <1>9
    <3>3. Out(c, d)' \o t \o arrived[c][d] = Whole(c, d)
      BY <3>1, <3>2, <1>3
    <3>4. Out(c, d)' \in Prefixes(Whole(c, d))
      <4> DEFINE out == Out(c, d)'
                 more == arrived[c][d]
      <4>1. out \in Seq(Byte) /\ more \in Seq(Byte) /\ out \o t \o more = Whole(c, d)
        BY <3>2, <3>3, <1>2
      <4> HIDE DEF out, more
      <4>2. out \o t \o more = out \o (t \o more) /\ t \o more \in Seq(Byte)
        BY <4>1, <1>3, Regroup, Zenon
      <4>3. out \in Prefixes(out \o (t \o more))
        BY <4>1, <4>2, PrefixJoin
      <4> QED
        BY <4>1, <4>2, <4>3 DEF out
    <3> QED
      BY <3>3, <3>4, <1>1, <1>7, <1>8 DEF Flow
  <2> QED
    BY <2>1, <2>2
<1>11. \A x \in Directions : Flow(c, x)'
  <2>1. \A x \in Directions \ {d} : Still(c, x)
    BY <1>1, <1>7 DEF Still
  <2> QED
    BY <2>1, <1>1, <1>10, StillFlow DEF ClientInv
<1>12. Stages(c)'
  BY <1>1 DEF ClientInv, Stages
<1>13. Untold(c)' /\ Complete(c)'
  BY <1>1, Uncaused DEF ClientInv, Stages, Untold
<1>14. Silent(c)'
  BY <1>1 DEF ClientInv, Silent
<1> QED
  BY <1>6, <1>7, <1>11, <1>12, <1>13, <1>14 DEF ClientInv

\* EndOfFile: when nothing is on the way back nothing is lost, and what was to
\* come out has come out.
LEMMA EndOfFileInv ==
    ASSUME TypeInv, NEW c \in Clients, ClientInv(c), NEW d \in Directions, EndOfFile(c, d)
    PROVE  TypeInv' /\ ClientInv(c)' /\ \A e \in Clients \ {c} : Untouched(e)
<1>1. /\ child[c] = "relaying" /\ buffer[c][d] = << >> /\ arrived[c][d] = << >>
      /\ Ends(c, <<d, "eof">>, arrived[c], << >>)
  BY DEF EndOfFile
<1>2. /\ << >> \in Bytes /\ <<d, "eof">> \in (Directions \cup {"none"}) \X {"none", "eof", "error"}
      /\ Directions = {"up", "down"} /\ "up" \in Directions /\ "down" \in Directions
  BY EmptySeq DEF Bytes, Directions
<1>3. TypeInv' /\ \A e \in Clients \ {c} : Untouched(e)
  BY <1>1, <1>2, EndsFacts
<1>4. /\ child'[c] = "ended" /\ cause'[c] = <<d, "eof">>
      /\ peer' = peer /\ sent' = sent /\ got' = got
      /\ leaving'[c]["up"] \in Cut(leaving[c]["up"], arrived[c]["down"])
      /\ leaving'[c]["down"] \in Cut(Put(c, "down", << >>), arrived[c]["up"])
  BY <1>1, <1>2, EndsFacts
<1>5. Complete(c)'
  <2>1. SUFFICES ASSUME peer[c][To(d)] # "gone",
                        sent[c][Opposite(d)] = 0,
                        d = "down" => c \notin Naming
                 PROVE  Out(c, d)' = Whole(c, d)'
    BY <1>4 DEF Complete
  <2>2. arrived[c][Opposite(d)] = << >>
    BY <2>1, <1>1, <1>2 DEF ClientInv, Silent, Opposite
  <2>3. leaving'[c][d] = leaving[c][d]
    <3>1. CASE d = "up"
      BY <3>1, <2>2, <1>4 DEF Cut, Opposite
    <3>2. CASE d = "down"
      <4>1. Put(c, "down", << >>) = leaving[c]["down"]
        BY <1>2, StateTypes, ConcatEmptySeq DEF Put, Bytes
      <4> QED
        BY <4>1, <3>2, <2>2, <1>4 DEF Cut, Opposite
    <3> QED
      BY <3>1, <3>2, <1>2
  <2>4. Out(c, d)' = Out(c, d)
    BY <2>3, <1>4 DEF Out
  <2>5. Out(c, d) = Whole(c, d)
    <3>1. Out(c, d) \o << >> \o << >> = Whole(c, d)
      BY <2>1, <1>1 DEF ClientInv, Flow
    <3>2. Out(c, d) \o << >> = Out(c, d)
      BY StateTypes, ConcatEmptySeq DEF Bytes
    <3> QED
      BY <3>1, <3>2
  <2> QED
    BY <2>4, <2>5, <1>1, <1>2, EndsOut
<1>6. ClientInv(c)'
  BY <1>1, <1>2, <1>5, EndsInv
<1> QED
  BY <1>3, <1>6

\* WriteError: the child ends, and nothing more comes out.
LEMMA WriteErrorInv ==
    ASSUME TypeInv, NEW c \in Clients, ClientInv(c), NEW d \in Directions, WriteError(c, d)
    PROVE  TypeInv' /\ ClientInv(c)' /\ \A e \in Clients \ {c} : Untouched(e)
<1>1. child[c] = "relaying" /\ Ends(c, <<d, "error">>, arrived[c], << >>)
  BY DEF WriteError
<1>2. << >> \in Bytes /\ <<d, "error">> \in (Directions \cup {"none"}) \X {"none", "eof", "error"}
  BY EmptySeq DEF Bytes
<1>3. TypeInv' /\ \A e \in Clients \ {c} : Untouched(e)
  BY <1>1, <1>2, EndsFacts
<1>4. ClientInv(c)'
  BY <1>1, <1>2, EndsInv
<1> QED
  BY <1>3, <1>4

----------------------------------------------------------------------------
(* The theorems                                                            *)

\* Nothing has been sent when the parent starts.
LEMMA InitInv == Init => IInv
<1> SUFFICES ASSUME Init PROVE IInv
  OBVIOUS
<1>1. << >> \in Bytes
  BY EmptySeq DEF Bytes
<1>2. TypeInv
  BY <1>1 DEF Init, TypeInv, StageNames, Standings, EachWay
<1> SUFFICES ASSUME NEW c \in Clients PROVE ClientInv(c)
  BY <1>2 DEF IInv
<1>3. /\ child[c] = "none" /\ command[c] = "none" /\ cause[c] = <<"none", "none">>
      /\ peer[c].destination = "away"
      /\ \A d \in Directions : /\ sent[c][d] = 0 /\ got[c][d] = << >> /\ leaving[c][d] = << >>
                               /\ arrived[c][d] = << >> /\ buffer[c][d] = << >>
  BY DEF Init, EachWay
<1>4. "up" \in Directions /\ "down" \in Directions
  BY DEF Directions
<1>5. \A d \in Directions : Out(c, d) = << >>
  BY <1>1, <1>3, ConcatEmptySeq DEF Out, Bytes
<1>6. Stages(c)
  BY <1>3, <1>4 DEF Stages, Running
<1>7. \A d \in Directions : Flow(c, d)
  <2>1. \A d \in Directions : << >> \in Prefixes(Whole(c, d))
    BY <1>2, StateTypes, PrefixEnds DEF Bytes
  <2> QED
    BY <2>1, <1>3, <1>5 DEF Flow
<1>8. Untold(c) /\ Silent(c) /\ Complete(c)
  BY <1>3, <1>4, <1>5 DEF Untold, Silent, Complete, Directions
<1> QED
  BY <1>6, <1>7, <1>8 DEF ClientInv

\* A step of one client leaves the others alone.
LEMMA OneMoves ==
    ASSUME IInv, NEW c \in Clients,
           TypeInv' /\ ClientInv(c)' /\ \A e \in Clients \ {c} : Untouched(e)
    PROVE  IInv'
<1>1. \A e \in Clients \ {c} : ClientInv(e)'
  BY UntouchedInv DEF IInv
<1> QED
  BY <1>1 DEF IInv

\* Every step keeps the invariant.
LEMMA NextInv == IInv /\ [Next]_vars => IInv'
<1> SUFFICES ASSUME IInv, [Next]_vars PROVE IInv'
  OBVIOUS
<1>1. TypeInv /\ \A c \in Clients : ClientInv(c)
  BY DEF IInv
<1>2. CASE EditConf \/ UNCHANGED vars
  <2>1. TypeInv'
    BY <1>1, <1>2 DEF EditConf, vars, TypeInv
  <2>2. \A c \in Clients : Untouched(c)
    BY <1>2 DEF EditConf, vars, Untouched
  <2> QED
    BY <1>1, <2>1, <2>2, UntouchedInv DEF IInv
<1>3. ASSUME NEW c \in Clients, Connect(c) \/ \E cmd \in Commands : Ask(c, cmd)
      PROVE  IInv'
  BY <1>1, <1>3, ConnectInv, AskInv, OneMoves
<1>4. ASSUME NEW c \in Clients, Accept(c) \/ Child(c) \/ Accepted(c) \/ AcceptedLate(c) PROVE IInv'
  <2>1. CASE Accept(c)
    BY <1>1, <2>1, AcceptInv, OneMoves
  <2>2. CASE ReadRequest(c)
    BY <1>1, <2>2, ReadRequestInv, OneMoves
  <2>3. CASE NoRequest(c) \/ ConnectFails(c) \/ ReplyFails(c) \/ AcceptedLate(c)
    BY <1>1, <2>3, AbortInv, OneMoves
  <2>4. CASE Connected(c) \/ Accepted(c)
    BY <1>1, <2>4, OpenInv, OneMoves DEF Connected, Accepted
  <2> QED
    BY <1>4, <2>1, <2>2, <2>3, <2>4 DEF Child
<1>5. ASSUME NEW c \in Clients, NEW d \in Directions, Relay(c, d) PROVE IInv'
  <2>1. CASE Read(c, d)
    BY <1>1, <2>1, ReadInv, OneMoves
  <2>2. CASE EndOfFile(c, d)
    BY <1>1, <2>2, EndOfFileInv, OneMoves
  <2>3. CASE Write(c, d)
    BY <1>1, <2>3, WriteInv, OneMoves
  <2>4. CASE WriteError(c, d)
    BY <1>1, <2>4, WriteErrorInv, OneMoves
  <2> QED
    BY <1>5, <2>1, <2>2, <2>3, <2>4 DEF Relay
<1>6. ASSUME NEW c \in Clients, NEW d \in Directions, Peers(c, d) PROVE IInv'
  <2>1. CASE Send(c, d)
    BY <1>1, <2>1, SendInv, OneMoves
  <2>2. CASE Receive(c, d)
    BY <1>1, <2>2, ReceiveInv, OneMoves
  <2>3. CASE Shut(c, d)
    BY <1>1, <2>3, ShutInv, OneMoves
  <2>4. CASE Leave(c, d)
    BY <1>1, <2>4, LeaveInv, OneMoves
  <2> QED
    BY <1>6, <2>1, <2>2, <2>3, <2>4 DEF Peers
<1> QED
  BY <1>2, <1>3, <1>4, <1>5, <1>6 DEF Next

\* The invariant holds in every state.
THEOREM Invariance == Spec => []IInv
<1>1. Init => IInv
  BY InitInv
<1>2. IInv /\ [Next]_vars => IInv'
  BY NextInv
<1> QED
  BY <1>1, <1>2, PTL DEF Spec

\* RelayInOrder, for any number of clients, units and processes and for any
\* socks.conf: async_read_from_* and async_write_to_* neither lose, repeat nor
\* reorder bytes.
THEOREM InOrder == Spec => []RelayInOrder
<1>1. IInv => RelayInOrder
  BY DEF IInv, ClientInv, Flow, RelayInOrder, Reject1
<1> QED
  BY <1>1, Invariance, PTL

\* DownloadComplete: what a peer has sent before its end of file has all been
\* passed on when the child ends for it.
THEOREM DownloadsAreComplete == Spec => []DownloadComplete
<1>1. IInv => DownloadComplete
  BY DEF IInv, ClientInv, Complete, DownloadComplete
<1> QED
  BY <1>1, Invariance, PTL

\* ToldTruly: receive_socks4_package tells a client only of a destination that
\* there is.
THEOREM TellsTruly == Spec => []ToldTruly
<1>1. IInv => ToldTruly
  <2> SUFFICES ASSUME IInv, NEW c \in Clients
               PROVE  /\ Replies(c) \in Prefixes(Out(c, "down")) => peer[c].destination # "away"
                      /\ Reject1 \in Prefixes(Out(c, "down")) =>
                            Out(c, "down") = Reject1 /\ peer[c].destination = "away"
    BY DEF ToldTruly, Reject1
  <2>1. /\ TypeInv /\ ClientInv(c)
        /\ "down" \in Directions /\ << >> \in Seq(Byte)
        /\ Accept1 \in Seq(Byte) /\ Reject1 \in Seq(Byte)
    BY ByteTypes, EmptySeq DEF IInv, Directions, Accept1, Reject1
  <2>2. /\ \A t \in Prefixes(<< >>) : t = << >>
        /\ \A t \in Prefixes(Accept1) : t \in {<< >>, Accept1}
        /\ \A t \in Prefixes(Reject1) : t \in {<< >>, Reject1}
    <3>1. \A t \in Prefixes(<< >>) : t = << >>
      BY <2>1, PrefixFirst
    <3>2. \A t \in Prefixes(Accept1) : t \in {<< >>, Accept1}
      BY ByteTypes, PrefixOfOne DEF Accept1
    <3>3. \A t \in Prefixes(Reject1) : t \in {<< >>, Reject1}
      BY ByteTypes, PrefixOfOne DEF Reject1
    <3> QED
      BY <3>1, <3>2, <3>3
  <2>3. /\ Accept1 # << >> /\ Reject1 # << >>
        /\ Accept1[1] = Reply("Accept") /\ Reject1[1] = Reply("Reject")
        /\ Len(Accept1) = 1 /\ Len(Replies(c)) = IF command[c] = "bind" THEN 2 ELSE 1
        /\ command[c] # "bind" => Replies(c) = Accept1
        /\ Replies(c)[1] = Reply("Accept")
    BY DEF Accept1, Reject1, Replies
  <2>4. ASSUME Replies(c) \in Prefixes(Out(c, "down")), peer[c].destination = "away"
        PROVE  FALSE
    <3>1. CASE Out(c, "down") = << >>
      BY <3>1, <2>2, <2>3, <2>4
    <3>2. CASE Out(c, "down") = Reject1
      <4>1. Replies(c) = << >> \/ Replies(c) = Reject1
        BY <3>2, <2>2, <2>4
      <4>2. Replies(c) # << >>
        BY <2>3
      <4> QED
        BY <4>1, <4>2, <2>3, ByteTypes
    <3>3. CASE command[c] = "bind" /\ Out(c, "down") = Accept1
      <4>1. Replies(c) = << >> \/ Replies(c) = Accept1
        BY <3>3, <2>2, <2>4
      <4>2. Len(Replies(c)) = 2 /\ Len(Accept1) = 1 /\ Replies(c) # << >>
        BY <3>3, <2>3
      <4> QED
        BY <4>1, <4>2
    <3> QED
      BY <3>1, <3>2, <3>3, <2>1, <2>4 DEF ClientInv, Untold
  <2>5. ASSUME Reject1 \in Prefixes(Out(c, "down"))
        PROVE  Out(c, "down") = Reject1 /\ peer[c].destination = "away"
    <3>1. CASE Out(c, "down") \in Prefixes(Whole(c, "down"))
      <4>1. Whole(c, "down") \in Seq(Byte) /\ Accept1 \in Prefixes(Whole(c, "down"))
        BY <2>1, StateTypes, WholeDown DEF Bytes
      <4>2. Reject1 \in Prefixes(Whole(c, "down"))
        BY <4>1, <3>1, <2>5, PrefixTrans
      <4>3. Accept1[1] = Whole(c, "down")[1] /\ Reject1[1] = Whole(c, "down")[1]
        BY <4>1, <4>2, <2>3, PrefixFirst
      <4> QED
        BY <4>3, <2>3, ByteTypes
    <3>2. CASE Out(c, "down") = Reject1 /\ peer[c].destination = "away"
      BY <3>2
    <3> QED
      BY <3>1, <3>2, <2>1 DEF ClientInv, Flow
  <2> QED
    BY <2>4, <2>5
<1> QED
  BY <1>1, Invariance, PTL

----------------------------------------------------------------------------
(* SocksServer implements Tunnel                                           *)

Linked(c) == peer[c].destination # "away"

Verdicts == [c \in Clients |-> Verdict(c)]
Links == [c \in Clients |-> Linked(c)]

\* A reject is told by what comes first, and by a child that has ended.
LEMMA Rejection ==
    ASSUME IInv, NEW c \in Clients, NEW text \in Prefixes(Out(c, "down")), text # << >>
    PROVE  /\ text = Reject1 <=> Out(c, "down") = Reject1
           /\ text = Reject1 => child[c] = "ended" /\ peer[c].destination = "away"
<1>1. /\ "down" \in Directions /\ Out(c, "down") \in Seq(Byte) /\ Whole(c, "down") \in Seq(Byte)
      /\ Accept1 \in Prefixes(Whole(c, "down")) /\ Flow(c, "down")
  BY StateTypes, WholeDown DEF IInv, ClientInv, Directions, Bytes
<1>2. /\ Accept1 # << >> /\ Accept1[1] = Reply("Accept")
      /\ Reject1 # << >> /\ Reject1[1] = Reply("Reject") /\ Reply("Accept") # Reply("Reject")
  BY ByteTypes DEF Accept1, Reject1
<1>3. text[1] = Out(c, "down")[1] /\ Out(c, "down") # << >>
  BY <1>1, PrefixFirst
<1>4. CASE Out(c, "down") \in Prefixes(Whole(c, "down"))
  <2>1. Out(c, "down")[1] = Whole(c, "down")[1] /\ Accept1[1] = Whole(c, "down")[1]
    BY <1>1, <1>2, <1>3, <1>4, PrefixFirst
  <2> QED
    BY <1>2, <1>3, <2>1
<1>5. CASE Out(c, "down") = Reject1 /\ child[c] = "ended" /\ peer[c].destination = "away"
  <2>1. text \in {<< >>, Reject1}
    BY <1>5, ByteTypes, PrefixOfOne DEF Reject1
  <2> QED
    BY <1>5, <2>1
<1> QED
  BY <1>1, <1>4, <1>5 DEF Flow

\* What the client has received is how what comes out begins.
LEMMA GotFirst ==
    ASSUME IInv, NEW c \in Clients, NEW d \in Directions
    PROVE  got[c][d] \in Prefixes(Out(c, d))
BY StateTypes, PrefixJoin DEF IInv, Out, Bytes

\* Only the verdict on one client changes.
LEMMA OneVerdict ==
    ASSUME NEW c \in Clients, \A e \in Clients \ {c} : Untouched(e)
    PROVE  /\ Verdicts' = [Verdicts EXCEPT ![c] = Verdict(c)']
           /\ Links' = [Links EXCEPT ![c] = Linked(c)']
<1>1. ASSUME NEW e \in Clients \ {c}
      PROVE  Verdict(e)' = Verdict(e) /\ Linked(e)' = Linked(e)
  <2>1. Untouched(e)
    OBVIOUS
  <2>2. Out(e, "down")' = Out(e, "down")
    BY <2>1 DEF Untouched, Out
  <2> QED
    BY <2>1, <2>2 DEF Untouched, Verdict, Linked, Reply
<1> QED
  BY <1>1 DEF Verdicts, Links

\* A step in which a client's verdict is given, or nothing happens.
LEMMA Judged ==
    ASSUME IInv, NEW c \in Clients, \A e \in Clients \ {c} : Untouched(e),
           conf' = conf, command' = command, sent' = sent, got' = got, Linked(c)' = Linked(c),
           \/ Verdict(c)' = Verdict(c)
           \/ Verdict(c)' = "closed" /\ got[c]["down"] # Reject1
           \/ Verdict(c)' = "over" /\ Verdict(c) = "permitted"
           \/ Verdict(c)' = "permitted" /\ Verdict(c) = "none" /\ command[c] \in conf
           \/ Verdict(c)' = "rejected" /\ Verdict(c) = "none" /\ command[c] \notin conf \cup {"none"}
    PROVE  [Promised!Next]_(Promised!vars)
<1>1. /\ Verdicts' = [Verdicts EXCEPT ![c] = Verdict(c)'] /\ Verdicts[c] = Verdict(c)
      /\ Links' = [Links EXCEPT ![c] = Linked(c)] /\ Links[c] = Linked(c)
  BY OneVerdict DEF Verdicts, Links
<1>2. Links' = Links
  BY <1>1 DEF Links
<1>3. CASE Verdict(c)' = Verdict(c)
  <2>1. Verdicts' = Verdicts
    BY <1>1, <1>3 DEF Verdicts
  <2> QED
    BY <1>2, <2>1 DEF Promised!vars, Verdicts, Links, Linked
<1>4. ASSUME NEW v, Verdicts' = [Verdicts EXCEPT ![c] = v]
      PROVE  Promised!Judge(c, v)
  BY <1>2, <1>4 DEF Promised!Judge, Verdicts, Links, Linked
<1>5. CASE Verdict(c)' = "closed" /\ got[c]["down"] # Reject1
  <2>1. Promised!Close(c)
    BY <1>1, <1>4, <1>5 DEF Promised!Close, Promised!Token, Reject1, Reply
  <2> QED
    BY <2>1 DEF Promised!Next
<1>6. CASE Verdict(c)' = "over" /\ Verdict(c) = "permitted"
  <2>1. Promised!End(c)
    BY <1>1, <1>4, <1>6 DEF Promised!End
  <2> QED
    BY <2>1 DEF Promised!Next
<1>7. CASE Verdict(c)' = "permitted" /\ Verdict(c) = "none" /\ command[c] \in conf
  <2>1. Promised!Permit(c)
    BY <1>1, <1>4, <1>7 DEF Promised!Permit
  <2> QED
    BY <2>1 DEF Promised!Next
<1>8. CASE Verdict(c)' = "rejected" /\ Verdict(c) = "none" /\ command[c] \notin conf \cup {"none"}
  <2>1. Promised!Reject(c)
    BY <1>1, <1>4, <1>8 DEF Promised!Reject
  <2> QED
    BY <2>1 DEF Promised!Next
<1> QED
  BY <1>3, <1>5, <1>6, <1>7, <1>8

\* A child that ends without a reply: its tunnel ends or is closed.
LEMMA EndsRefines ==
    ASSUME IInv, NEW c \in Clients, child[c] \in Running,
           NEW why \in (Directions \cup {"none"}) \X {"none", "eof", "error"},
           NEW unread, Ends(c, why, unread, << >>)
    PROVE  [Promised!Next]_(Promised!vars)
<1>1. /\ << >> \in Bytes /\ "down" \in Directions
      /\ TypeInv /\ ClientInv(c)
  BY EmptySeq DEF Bytes, Directions, IInv
<1>2. /\ child'[c] = "ended" /\ peer' = peer /\ conf' = conf
      /\ command' = command /\ sent' = sent /\ got' = got
      /\ \A e \in Clients \ {c} : Untouched(e)
  BY <1>1, EndsFacts
<1>3. Out(c, "down")' \in Prefixes(Out(c, "down"))
  <2>1. Put(c, "down", << >>) = leaving[c]["down"]
    BY <1>1, StateTypes, ConcatEmptySeq DEF Put, Bytes
  <2> QED
    BY <1>1, <2>1, EndsOut DEF Out
<1>4. got[c]["down"] # Reject1
  BY <1>1, GotFirst, Rejection DEF Running, Reject1
<1>5. CASE Out(c, "down")' = << >>
  <2>1. Verdict(c)' = "closed"
    BY <1>2, <1>5 DEF Verdict
  <2> QED
    BY <1>2, <1>4, <2>1, Judged DEF Linked
<1>6. CASE Out(c, "down")' # << >>
  <2>1. Out(c, "down")' # Reject1
    BY <1>3, <1>6, Rejection DEF Running
  <2>2. Verdict(c)' = "over"
    BY <1>2, <1>6, <2>1 DEF Verdict, Reject1, Reply
  <2>3. child[c] # "reading"
    <3>1. ASSUME child[c] = "reading" PROVE FALSE
      <4>1. Out(c, "down") = << >> \o << >>
        BY <1>1, <3>1 DEF ClientInv, Stages, Out
      <4>2. Out(c, "down") = << >>
        BY <4>1
      <4> QED
        BY <1>3, <1>6, <1>1, <4>2, PrefixFirst DEF Bytes
    <3> QED
      BY <3>1
  <2>4. Verdict(c) = "permitted"
    BY <2>3 DEF Verdict, Running
  <2> QED
    BY <1>2, <2>2, <2>4, Judged DEF Linked
<1> QED
  BY <1>5, <1>6

\* ReadRequest: the firewall is asked for the command of the request.
LEMMA ReadRequestRefines ==
    ASSUME IInv, NEW c \in Clients, ReadRequest(c)
    PROVE  [Promised!Next]_(Promised!vars)
<1> DEFINE rest == [arrived[c] EXCEPT !["up"] = Tail(@)]
<1>1. child[c] = "reading" /\ arrived[c]["up"] # << >>
  BY DEF ReadRequest
<1>2. /\ TypeInv /\ ClientInv(c) /\ ClientInv(c)' /\ \A e \in Clients \ {c} : Untouched(e)
      /\ << >> \in Bytes /\ Reject1 \in Bytes /\ "down" \in Directions
      /\ <<"none", "none">> \in (Directions \cup {"none"}) \X {"none", "eof", "error"}
  BY ReadRequestInv, EmptySeq, ByteTypes DEF IInv, Bytes, Reject1, Directions
<1>3. /\ command[c] \in Commands /\ Verdict(c) = "none"
      /\ got[c]["down"] = << >> /\ leaving[c]["down"] = << >>
  BY <1>1, <1>2 DEF ClientInv, Stages, TypeInv, Verdict
<1>4. CASE Ends(c, <<"none", "none">>, rest, << >>)
  BY <1>1, <1>2, <1>4, EndsRefines DEF Running
<1>5. CASE ~Passes(c) /\ Ends(c, <<"none", "none">>, rest, Reject1)
  <2>1. /\ child'[c] = "ended" /\ peer' = peer /\ conf' = conf
        /\ command' = command /\ sent' = sent /\ got' = got
    BY <1>2, <1>5, EndsFacts
  <2>2. command[c] \notin conf \cup {"none"}
    <3>1. conf \subseteq {"connect", "bind"}
      BY <1>2, SocksServerAssumption DEF TypeInv
    <3> QED
      BY <1>3, <1>5, <3>1 DEF Passes, Commands
  <2>3. Out(c, "down")' \in {<< >>, Reject1}
    <3>1. got[c]["down"] \o Put(c, "down", Reject1) \in {<< >>, Reject1}
      BY <1>2, <1>3, ConcatEmptySeq DEF Put, Bytes
    <3>2. \A t \in Prefixes(<< >>) : t = << >>
      BY <1>2, PrefixFirst DEF Bytes
    <3>3. \A t \in Prefixes(Reject1) : t \in {<< >>, Reject1}
      BY ByteTypes, PrefixOfOne DEF Reject1
    <3>4. Out(c, "down")' \in Prefixes(got[c]["down"] \o Put(c, "down", Reject1))
      BY <1>2, <1>5, EndsOut
    <3> QED
      BY <3>1, <3>2, <3>3, <3>4
  <2>4. Verdict(c)' \in {"closed", "rejected"} /\ got[c]["down"] # Reject1
    BY <1>3, <2>1, <2>3 DEF Verdict, Reject1, Reply
  <2> QED
    BY <1>2, <1>3, <2>1, <2>2, <2>4, Judged DEF Linked
<1>6. CASE /\ Passes(c) /\ command[c] # "other"
           /\ child' = [child EXCEPT ![c] =
                           IF command[c] = "bind" THEN "accepting" ELSE "connecting"]
           /\ UNCHANGED <<conf, command, cause, peer, sent, buffer, got>>
  <2>1. command[c] \in conf
    BY <1>3, <1>6 DEF Passes, Commands
  <2>2. Verdict(c)' = "permitted"
    BY <1>2, <1>6 DEF Verdict, TypeInv
  <2> QED
    BY <1>2, <1>3, <1>6, <2>1, <2>2, Judged DEF Linked, IInv
<1> QED
  BY <1>4, <1>5, <1>6 DEF ReadRequest, Reject1

\* Open: the destination is there.
LEMMA OpenRefines ==
    ASSUME IInv, NEW c \in Clients, child[c] \in {"connecting", "accepting"}, Open(c)
    PROVE  Promised!Link(c)
<1>1. TypeInv /\ ClientInv(c) /\ \A e \in Clients \ {c} : Untouched(e)
  BY OpenInv DEF IInv
<1>2. /\ peer' = [peer EXCEPT ![c].destination = "open"]
      /\ child' = [child EXCEPT ![c] = "relaying"]
      /\ conf' = conf /\ command' = command /\ sent' = sent /\ got' = got
  BY DEF Open
<1>3. Verdict(c) = "permitted" /\ Verdict(c)' = "permitted" /\ Linked(c) = FALSE /\ Linked(c)' = TRUE
  BY <1>1, <1>2 DEF Verdict, Linked, TypeInv, ClientInv, Stages
<1>4. /\ Verdicts' = [Verdicts EXCEPT ![c] = Verdict(c)] /\ Verdicts[c] = Verdict(c)
      /\ Links' = [Links EXCEPT ![c] = TRUE] /\ Links[c] = FALSE
  BY <1>1, <1>3, OneVerdict DEF Verdicts, Links
<1>5. Verdicts' = Verdicts
  BY <1>4 DEF Verdicts
<1> QED
  BY <1>2, <1>3, <1>4, <1>5 DEF Promised!Link, Verdicts, Links, Linked

\* Send: who may send has a tunnel, or at least a request.
LEMMA SendRefines ==
    ASSUME IInv, NEW c \in Clients, NEW d \in Directions, Send(c, d)
    PROVE  Promised!Send(c, d)
<1>1. TypeInv /\ ClientInv(c) /\ \A e \in Clients \ {c} : Untouched(e)
  BY SendInv DEF IInv
<1>2. /\ peer[c][From(d)] = "open" /\ child[c] \in Running
      /\ d = "up" => command[c] # "none"
      /\ sent' = [sent EXCEPT ![c][d] = @ + 1]
      /\ conf' = conf /\ command' = command /\ child' = child /\ peer' = peer
      /\ leaving' = leaving /\ got' = got
  BY DEF Send
<1>3. Verdict(c)' = Verdict(c) /\ Linked(c)' = Linked(c) /\ Verdict(c) \in {"none", "permitted"}
  BY <1>2 DEF Verdict, Linked, Out, Running, Reply
<1>4. d # "up" => Linked(c)
  BY <1>2 DEF Linked, From
<1>5. Verdicts' = Verdicts /\ Links' = Links /\ Verdicts[c] = Verdict(c) /\ Links[c] = Linked(c)
  BY <1>1, <1>3, OneVerdict DEF Verdicts, Links
<1> QED
  BY <1>2, <1>3, <1>4, <1>5 DEF Promised!Send, Verdicts, Links, Linked

\* A peer that leaves forgets what it was not given.
LEMMA LeaveRefines ==
    ASSUME IInv, NEW c \in Clients, NEW d \in Directions, Leave(c, d)
    PROVE  [Promised!Next]_(Promised!vars)
<1>1. TypeInv /\ ClientInv(c) /\ \A e \in Clients \ {c} : Untouched(e)
  BY LeaveInv DEF IInv
<1>2. /\ peer[c][To(d)] \in {"open", "shut"}
      /\ peer' = [peer EXCEPT ![c][To(d)] = "gone"]
      /\ leaving' = [leaving EXCEPT ![c][d] = << >>]
      /\ conf' = conf /\ command' = command /\ child' = child /\ sent' = sent /\ got' = got
  BY DEF Leave
<1>3. "down" \in Directions /\ got[c]["down"] \in Seq(Byte) /\ got[c]["down"] \in Prefixes(Out(c, "down"))
  BY <1>1, StateTypes, GotFirst DEF Directions, Bytes
<1>4. Linked(c)' = Linked(c)
  BY <1>1, <1>2 DEF Linked, TypeInv, To
<1>5. Out(c, "down")' = Out(c, "down") \/ Out(c, "down")' = got[c]["down"]
  <2>1. CASE d = "down"
    <3>1. leaving'[c]["down"] = << >>
      BY <1>1, <1>2, <1>3, <2>1 DEF TypeInv
    <3> QED
      BY <1>2, <1>3, <3>1, ConcatEmptySeq DEF Out
  <2>2. CASE d # "down"
    <3>1. leaving'[c]["down"] = leaving[c]["down"]
      BY <1>1, <1>2, <1>3, <2>2 DEF TypeInv
    <3> QED
      BY <1>2, <3>1 DEF Out
  <2> QED
    BY <2>1, <2>2
<1>6. CASE Out(c, "down")' = Out(c, "down")
  <2>1. Verdict(c)' = Verdict(c)
    BY <1>2, <1>6 DEF Verdict, Reply
  <2> QED
    BY <1>1, <1>2, <1>4, <2>1, Judged
<1>7. CASE Out(c, "down")' = got[c]["down"] /\ got[c]["down"] # << >>
  <2>1. /\ Out(c, "down")' = Reject1 <=> Out(c, "down") = Reject1
        /\ Out(c, "down") # << >>
    BY <1>1, <1>3, <1>7, Rejection, PrefixFirst, StateTypes DEF Bytes
  <2>2. Verdict(c)' = Verdict(c)
    BY <1>2, <1>7, <2>1 DEF Verdict, Reject1, Reply
  <2> QED
    BY <1>1, <1>2, <1>4, <2>2, Judged
<1>8. CASE Out(c, "down")' = got[c]["down"] /\ got[c]["down"] = << >>
  <2>1. Verdict(c)' \in {Verdict(c), "closed"} /\ got[c]["down"] # Reject1
    BY <1>2, <1>8 DEF Verdict, Reject1
  <2> QED
    BY <1>1, <1>2, <1>4, <2>1, Judged
<1> QED
  BY <1>5, <1>6, <1>7, <1>8

\* What is added counts.
LEMMA JoinedLength ==
    ASSUME NEW S, NEW g \in Seq(S), NEW s \in Seq(S), s # << >>
    PROVE  /\ Len(g) \in Nat /\ Len(s) \in Nat \ {0} /\ Len(g \o s) = Len(g) + Len(s)
           /\ g \o s # << >>
           /\ Len(g \o s) = 1 => g = << >>
           /\ Append(g, Head(s)) \o Tail(s) = g \o s
<1>1. /\ Len(g) \in Nat /\ Len(s) \in Nat \ {0} /\ Len(g \o s) = Len(g) + Len(s)
      /\ g \o s \in Seq(S)
  BY EmptySeq, LenProperties, ConcatProperties
<1>2. Len(g \o s) # 0
  BY <1>1
<1>3. Len(g \o s) = 1 => Len(g) = 0
  BY <1>1
<1>4. Append(g, Head(s)) = g \o <<Head(s)>> /\ (g \o <<Head(s)>>) \o Tail(s) = g \o s
  BY MoveOne
<1> QED
  BY <1>1, <1>2, <1>3, <1>4, EmptySeq

\* The first of what is on its way is the next of what is to come out.
LEMMA NextUnit ==
    ASSUME NEW S, NEW g \in Seq(S), NEW s \in Seq(S), NEW w \in Seq(S), s # << >>,
           g \o s \in Prefixes(w)
    PROVE  Len(g) + 1 \in 1..Len(w) /\ Head(s) = w[Len(g) + 1]
<1>1. PICK t \in Seq(S) : t = g \o s
  BY ConcatProperties
<1>2. t \in Prefixes(w)
  BY <1>1
<1>3. PICK u \in Seq(S) : w = t \o u
  BY <1>2, PrefixSplit
<1>4. PICK n \in Nat, m \in Nat \ {0} : n = Len(g) /\ m = Len(s)
  BY JoinedLength
<1>5. Len(t) = n + m /\ \A i \in 1..n + m : t[i] = IF i <= n THEN g[i] ELSE s[i - n]
  BY <1>1, <1>4, ConcatProperties
<1>6. Len(w) = (n + m) + Len(u) /\ Len(u) \in Nat /\ \A i \in 1..n + m : w[i] = t[i]
  <2>1. /\ Len(t \o u) = Len(t) + Len(u)
        /\ \A i \in 1..Len(t) + Len(u) : (t \o u)[i] = IF i <= Len(t) THEN t[i] ELSE u[i - Len(t)]
    BY ConcatProperties, Zenon
  <2>2. Len(u) \in Nat /\ n + m \in Nat
    BY LenProperties
  <2> QED
    BY <1>3, <1>5, <2>1, <2>2
<1>7. n + 1 \in 1..n + m /\ ~(n + 1 <= n) /\ (n + 1) - n = 1
  OBVIOUS
<1>8. w[n + 1] = s[1] /\ n + 1 \in 1..Len(w)
  BY <1>5, <1>6, <1>7
<1>9. Head(s) = s[1]
  OBVIOUS
<1> QED
  BY <1>4, <1>8, <1>9

\* The stream of a tunnel is what is to come out.
LEMMA SameStream ==
    ASSUME NEW c \in Clients, NEW d \in Directions
    PROVE  /\ Promised!Stream(c, d) = Whole(c, d)
           /\ Promised!Preface(c, d) = IF d = "up" THEN NameOf(c) ELSE Replies(c)
BY DEF Promised!Stream, Promised!Preface, Promised!Token, Whole, NameOf, Replies, UserId, Reply, Data

\* Receive: a unit of the stream, or the reject, is delivered.
LEMMA ReceiveRefines ==
    ASSUME IInv, NEW c \in Clients, NEW d \in Directions, Receive(c, d)
    PROVE  Promised!Deliver(c, d) \/ Promised!TellReject(c)
<1>1. /\ TypeInv /\ ClientInv(c) /\ ClientInv(c)'
      /\ \A e \in Clients \ {c} : Untouched(e)
  BY ReceiveInv DEF IInv
<1>2. /\ peer[c][To(d)] \in {"open", "shut"} /\ leaving[c][d] # << >>
      /\ got' = [got EXCEPT ![c][d] = Append(@, Head(leaving[c][d]))]
      /\ leaving' = [leaving EXCEPT ![c][d] = Tail(@)]
      /\ conf' = conf /\ command' = command /\ child' = child
      /\ peer' = peer /\ sent' = sent
  BY DEF Receive
<1>3. /\ got[c][d] \in Seq(Byte) /\ leaving[c][d] \in Seq(Byte) /\ Whole(c, d) \in Seq(Byte)
      /\ Out(c, d) \in Seq(Byte) /\ Out(c, d) = got[c][d] \o leaving[c][d]
      /\ d \in {"up", "down"}
  BY <1>1, StateTypes DEF Bytes, Out, Directions
<1>4. Out(c, d) # << >> /\ (Len(Out(c, d)) = 1 => got[c][d] = << >>)
  <2>1. PICK g \in Seq(Byte), s \in Seq(Byte) : g = got[c][d] /\ s = leaving[c][d]
    BY <1>3
  <2>2. s # << >>
    BY <1>2, <2>1
  <2>3. g \o s # << >> /\ (Len(g \o s) = 1 => g = << >>)
    BY <2>2, JoinedLength, Zenon
  <2> QED
    BY <1>3, <2>1, <2>3, Zenon
<1>5. Out(c, "down")' = Out(c, "down")
  <2>1. CASE d = "down"
    <3>1. /\ got'[c]["down"] = Append(got[c]["down"], Head(leaving[c]["down"]))
          /\ leaving'[c]["down"] = Tail(leaving[c]["down"])
      BY <1>1, <1>2, <2>1 DEF TypeInv
    <3>2. PICK g \in Seq(Byte), s \in Seq(Byte) : g = got[c]["down"] /\ s = leaving[c]["down"]
      BY <1>3, <2>1
    <3>3. Append(g, Head(s)) \o Tail(s) = g \o s
      <4>1. s # << >>
        BY <1>2, <2>1, <3>2
      <4> QED
        BY <4>1, JoinedLength, Zenon
    <3> QED
      BY <3>1, <3>2, <3>3 DEF Out
  <2>2. CASE d = "up"
    <3>1. got'[c]["down"] = got[c]["down"] /\ leaving'[c]["down"] = leaving[c]["down"]
      BY <1>1, <1>2, <2>2 DEF TypeInv, Directions
    <3> QED
      BY <3>1 DEF Out
  <2> QED
    BY <1>3, <2>1, <2>2
<1>6. Verdict(c)' = Verdict(c) /\ Linked(c)' = Linked(c)
  BY <1>2, <1>5 DEF Verdict, Linked, Reply
<1>7. Verdicts' = Verdicts /\ Links' = Links /\ Verdicts[c] = Verdict(c) /\ Links[c] = Linked(c)
  BY <1>1, <1>6, OneVerdict DEF Verdicts, Links
<1>8. ASSUME NEW unit, unit = Head(leaving[c][d])
      PROVE  Promised!Receives(c, d, unit)
  BY <1>2, <1>7, <1>8 DEF Promised!Receives, Verdicts, Links, Linked
<1>9. CASE d = "down" /\ Out(c, d) = Reject1
  <2>1. Verdict(c) = "rejected"
    <3>1. child[c] = "ended"
      BY <1>3, <1>4, <1>9, PrefixEnds, Rejection
    <3> QED
      BY <1>4, <1>9, <3>1 DEF Verdict, Reject1
  <2>2. got[c]["down"] = << >> /\ Head(leaving[c]["down"]) = Reply("Reject")
    <3>1. Len(Reject1) = 1
      BY DEF Reject1
    <3>2. got[c]["down"] = << >>
      BY <1>4, <1>9, <3>1
    <3>3. leaving[c]["down"] = Reject1
      BY <1>3, <1>9, <3>2, ConcatEmptySeq
    <3> QED
      BY <3>2, <3>3 DEF Reject1
  <2>3. Promised!TellReject(c)
    BY <1>7, <1>8, <1>9, <2>1, <2>2 DEF Promised!TellReject, Promised!Token, Reply, Verdicts
  <2> QED
    BY <2>3
<1>10. CASE ~(d = "down" /\ Out(c, d) = Reject1)
  <2>1. Out(c, d) \in Prefixes(Whole(c, d))
    BY <1>1, <1>10 DEF ClientInv, Flow
  <2>2. Len(got[c][d]) + 1 \in 1..Len(Whole(c, d)) /\ Head(leaving[c][d]) = Whole(c, d)[Len(got[c][d]) + 1]
    BY <1>2, <1>3, <2>1, NextUnit
  <2>3. \/ Linked(c)
        \/ /\ Verdict(c) \in {"permitted", "over"} /\ d = "down"
           /\ Len(got[c][d]) + 1 < Len(Replies(c))
    <3>1. CASE d = "up"
      BY <1>2, <3>1 DEF Linked, To
    <3>2. CASE d = "down" /\ ~Linked(c)
      <4>1. command[c] = "bind" /\ Out(c, "down") = Accept1
        BY <1>1, <1>4, <1>10, <3>2 DEF ClientInv, Untold, Linked
      <4>2. Verdict(c) \in {"permitted", "over"}
        <5>1. child[c] \notin {"none", "waiting", "refused"}
          BY <1>1, <1>2 DEF ClientInv, Stages
        <5>2. child[c] # "reading"
          BY <1>1, <1>2, <3>2 DEF ClientInv, Stages
        <5>3. child[c] \in Running \cup {"ended"}
          BY <1>1, <5>1 DEF TypeInv, StageNames
        <5> QED
          BY <1>4, <1>10, <3>2, <5>2, <5>3 DEF Verdict, Running, Reject1
      <4>3. Len(got[c][d]) = 0
        <5>1. Len(Accept1) = 1
          BY DEF Accept1
        <5>2. got[c][d] = << >>
          BY <1>4, <3>2, <4>1, <5>1
        <5> QED
          BY <5>2
      <4>4. Len(Replies(c)) = 2
        BY <4>1 DEF Replies
      <4> QED
        BY <3>2, <4>2, <4>3, <4>4
    <3> QED
      BY <1>3, <3>1, <3>2
  <2>4. Promised!Receives(c, d, Promised!Stream(c, d)[Len(got[c][d]) + 1])
    BY <1>8, <2>2, SameStream
  <2>5. /\ Len(got[c][d]) + 1 <= Len(Promised!Stream(c, d))
        /\ d = "down" => Promised!Preface(c, d) = Replies(c)
    BY <1>3, <2>2, SameStream, LenProperties
  <2>6. Links[c] = Linked(c) /\ Verdicts[c] = Verdict(c)
    BY <1>7
  <2>7. Promised!Deliver(c, d)
    BY <2>3, <2>4, <2>5, <2>6 DEF Promised!Deliver, Verdicts, Links, Linked
  <2> QED
    BY <2>7
<1> QED
  BY <1>9, <1>10

LEMMA InitRefines == Init => Promised!Init
<1> SUFFICES ASSUME Init PROVE Promised!Init
  OBVIOUS
<1>1. \A c \in Clients : Verdict(c) = "none" /\ peer[c].destination = "away"
  BY DEF Init, Verdict
<1>2. /\ [c \in Clients |-> Verdict(c)] = [c \in Clients |-> "none"]
      /\ [c \in Clients |-> peer[c].destination # "away"] = [c \in Clients |-> FALSE]
  BY <1>1
<1> QED
  BY <1>2 DEF Init, EachWay, Directions, Promised!Init, Promised!Directions

\* Steps in which nobody's standing changes.
LEMMA QuietRefines ==
    ASSUME EditConf \/ UNCHANGED vars
    PROVE  [Promised!Next]_(Promised!vars)
<1>1. Verdicts' = Verdicts /\ Links' = Links /\ UNCHANGED <<command, sent, got>>
  <2>1. UNCHANGED <<command, child, peer, sent, leaving, got>>
    BY DEF EditConf, vars
  <2> QED
    BY <2>1 DEF Verdicts, Links, Verdict, Linked, Out, Reply
<1>2. CASE EditConf
  <2>1. Promised!EditConf
    BY <1>1, <1>2 DEF EditConf, Promised!EditConf, Verdicts, Links, Linked
  <2> QED
    BY <2>1 DEF Promised!Next
<1>3. CASE UNCHANGED vars
  BY <1>1, <1>3 DEF vars, Promised!vars, Verdicts, Links, Linked
<1> QED
  BY <1>2, <1>3

\* Connect, Accept and Shut.
LEMMA StartRefines ==
    ASSUME IInv, NEW c \in Clients, Connect(c) \/ Accept(c) \/ \E d \in Directions : Shut(c, d)
    PROVE  [Promised!Next]_(Promised!vars)
<1>1. TypeInv /\ ClientInv(c) /\ \A e \in Clients \ {c} : Untouched(e)
  BY ConnectInv, AcceptInv, ShutInv DEF IInv
<1>2. /\ conf' = conf /\ command' = command /\ sent' = sent /\ got' = got /\ leaving' = leaving
      /\ Linked(c)' = Linked(c)
  BY <1>1 DEF Connect, Accept, Shut, Linked, TypeInv, From
<1>3. Out(c, "down")' = Out(c, "down")
  BY <1>2 DEF Out
<1>4. CASE child'[c] # "refused"
  <2>1. Verdict(c)' = Verdict(c)
    BY <1>1, <1>3, <1>4 DEF Connect, Accept, Shut, Verdict, TypeInv, Reply
  <2> QED
    BY <1>1, <1>2, <2>1, Judged
<1>5. CASE child'[c] = "refused"
  <2>1. child[c] \in {"waiting", "refused"}
    BY <1>1, <1>5 DEF Connect, Accept, Shut, TypeInv
  <2>2. got[c]["down"] = << >> /\ leaving[c]["down"] = << >>
    BY <1>1, <2>1 DEF ClientInv, Stages, Directions
  <2>3. Out(c, "down")' = << >>
    BY <1>3, <2>2 DEF Out
  <2>4. Verdict(c)' = "closed" /\ got[c]["down"] # Reject1
    BY <1>5, <2>2, <2>3 DEF Verdict, Reject1
  <2> QED
    BY <1>1, <1>2, <2>4, Judged
<1> QED
  BY <1>4, <1>5

LEMMA AskRefines ==
    ASSUME IInv, NEW c \in Clients, NEW cmd \in Commands, Ask(c, cmd)
    PROVE  Promised!Ask(c)
<1>1. UNCHANGED <<conf, child, peer, sent, leaving, got>> /\ command' = [command EXCEPT ![c] = cmd]
      /\ child[c] = "reading" /\ command[c] = "none"
  BY DEF Ask
<1>2. Verdicts' = Verdicts /\ Links' = Links /\ Verdicts[c] = "none"
  BY <1>1 DEF Verdicts, Links, Verdict, Linked, Out, Reply
<1> QED
  BY <1>1, <1>2 DEF Promised!Ask, Commands, Verdicts, Links, Linked

\* Read and Write: the relay goes on.
LEMMA RelayRefines ==
    ASSUME IInv, NEW c \in Clients, NEW d \in Directions, Read(c, d) \/ Write(c, d)
    PROVE  [Promised!Next]_(Promised!vars)
<1>1. \A e \in Clients \ {c} : Untouched(e)
  BY ReadInv, WriteInv DEF IInv
<1>2. UNCHANGED <<conf, command, child, peer, sent, got>> /\ child[c] = "relaying"
  BY DEF Read, Write
<1>3. Verdict(c)' = Verdict(c) /\ Linked(c)' = Linked(c)
  BY <1>2 DEF Verdict, Linked
<1> QED
  BY <1>1, <1>2, <1>3, Judged

\* Every step of the processes and of their peers is a step of the tunnels.
LEMMA StepRefines == IInv /\ [Next]_vars => [Promised!Next]_(Promised!vars)
<1> SUFFICES ASSUME IInv, [Next]_vars PROVE [Promised!Next]_(Promised!vars)
  OBVIOUS
<1>1. CASE EditConf \/ UNCHANGED vars
  BY <1>1, QuietRefines
<1>2. ASSUME NEW c \in Clients, Connect(c) \/ Accept(c) \/ \E d \in Directions : Shut(c, d)
      PROVE  [Promised!Next]_(Promised!vars)
  BY <1>2, StartRefines
<1>3. ASSUME NEW c \in Clients, NEW cmd \in Commands, Ask(c, cmd)
      PROVE  Promised!Next
  BY <1>3, AskRefines DEF Promised!Next
<1>4. ASSUME NEW c \in Clients, Child(c) \/ Accepted(c) \/ AcceptedLate(c)
      PROVE  [Promised!Next]_(Promised!vars)
  <2>1. CASE ReadRequest(c)
    BY <2>1, ReadRequestRefines
  <2>2. CASE NoRequest(c) \/ ConnectFails(c) \/ ReplyFails(c) \/ AcceptedLate(c)
    <3>1. child[c] \in Running /\ Ends(c, <<"none", "none">>, arrived[c], << >>)
      BY <2>2 DEF NoRequest, ConnectFails, ReplyFails, AcceptedLate, Aborts, Running
    <3>2. <<"none", "none">> \in (Directions \cup {"none"}) \X {"none", "eof", "error"}
      OBVIOUS
    <3> QED
      BY <3>1, <3>2, EndsRefines
  <2>3. CASE Connected(c) \/ Accepted(c)
    <3>1. Promised!Link(c)
      BY <2>3, OpenRefines DEF Connected, Accepted
    <3> QED
      BY <3>1 DEF Promised!Next
  <2> QED
    BY <1>4, <2>1, <2>2, <2>3 DEF Child
<1>5. ASSUME NEW c \in Clients, NEW d \in Directions, Relay(c, d)
      PROVE  [Promised!Next]_(Promised!vars)
  <2>1. CASE Read(c, d) \/ Write(c, d)
    BY <2>1, RelayRefines
  <2>2. CASE EndOfFile(c, d) \/ WriteError(c, d)
    <3>1. PICK what \in {"eof", "error"} :
             child[c] \in Running /\ Ends(c, <<d, what>>, arrived[c], << >>)
      BY <2>2 DEF EndOfFile, WriteError, Running
    <3>2. <<d, what>> \in (Directions \cup {"none"}) \X {"none", "eof", "error"}
      OBVIOUS
    <3> QED
      BY <3>1, <3>2, EndsRefines
  <2> QED
    BY <1>5, <2>1, <2>2 DEF Relay
<1>6. ASSUME NEW c \in Clients, NEW d \in Directions, Peers(c, d)
      PROVE  [Promised!Next]_(Promised!vars)
  <2>1. d \in Promised!Directions
    BY DEF Directions, Promised!Directions
  <2>2. CASE Send(c, d)
    <3>1. Promised!Send(c, d)
      BY <2>2, SendRefines
    <3> QED
      BY <2>1, <3>1 DEF Promised!Next
  <2>3. CASE Receive(c, d)
    <3>1. Promised!Deliver(c, d) \/ Promised!TellReject(c)
      BY <2>3, ReceiveRefines
    <3> QED
      BY <2>1, <3>1 DEF Promised!Next
  <2>4. CASE Shut(c, d)
    BY <1>2, <2>4
  <2>5. CASE Leave(c, d)
    BY <2>5, LeaveRefines
  <2> QED
    BY <1>6, <2>2, <2>3, <2>4, <2>5 DEF Peers
<1> QED
  BY <1>1, <1>2, <1>3, <1>4, <1>5, <1>6 DEF Next

\* A child is a tunnel, for any number of clients and processes and whatever
\* socks.conf becomes: a destination is connected only for a command that
\* can_pass_firewall permitted, and what comes out at one end is what went in at
\* the other, after the replies.
THEOREM Refinement == Spec => Contract
<1>1. Init => Promised!Init
  BY InitRefines
<1>2. IInv /\ [Next]_vars => [Promised!Next]_(Promised!vars)
  BY StepRefines
<1> QED
  BY <1>1, <1>2, Invariance, PTL DEF Spec, Contract, Promised!Spec
============================================================================
