-------------------------- MODULE SharedMemoryProofs --------------------------
(***************************************************************************)
(* The shared memory of np_multi_proc, for any number of shells, any       *)
(* length of the table and of the mailboxes and any sequence of commands,  *)
(* disconnections included: a position that is not in doubt stays with the *)
(* shell that claimed it, and no message in its mailbox is left without a  *)
(* wake-up.                                                                *)
(***************************************************************************)
EXTENDS SharedMemory, FiniteSetTheorems, WellFoundedInduction, TLAPS

\* Loop variables stay within the table, whose element 0 nobody claims, and
\* a shell that looks for a position has none.
Placed ==
    /\ id[0] = 0
    /\ \A s \in Shells :
         /\ pc[s] \in {"fill", "number", "serve", "visit", "put", "tail", "kill"} => i[s] # MaxUsers
         /\ pc[s] \in {"scan", "fill", "number", "serve"} => serving_uid[s] = 0

\* Whose position p is, or will be, or was until its end.
Keeps(s, p) == (Seated(s) /\ serving_uid[s] = p) \/ Holds(s, p)

\* What the header of its position shows of it.
HasPid(s) == pc[s] \notin {"fill", "wiperest", "leave"}
HasId(s) == pc[s] \notin {"fill", "number", "wiperest", "leave"}

\* A position that is not in doubt has one keeper, whose header it is.
Lodged ==
    \A s \in Shells, p \in Positions \ {0} :
        p \notin contested /\ Keeps(s, p) =>
            /\ \A t \in Shells : Keeps(t, p) => t = s
            /\ HasPid(s) => pid[p] = s
            /\ HasId(s) => id[p] = p

SInv == TypeOK /\ Placed /\ Lodged

----------------------------------------------------------------------------
(* Every set of naturals has a least element: the intervals that end in S  *)
(* are ordered as their ends are, and inclusion of finite sets is          *)
(* well-founded.                                                           *)
LEMMA LeastElement ==
  ASSUME NEW S, S \subseteq Nat, S # {}
  PROVE  \E u \in S : \A v \in S : u <= v
<1> DEFINE Below == {0..u : u \in S}
<1> DEFINE R == StrictSubsetOrdering(Nat)
<1>1. Below \subseteq FiniteSubsetsOf(Nat)
  <2> SUFFICES ASSUME NEW u \in S PROVE 0..u \in FiniteSubsetsOf(Nat)
    OBVIOUS
  <2>1. IsFiniteSet(0..u)
    BY FS_Interval
  <2>2. QED
    BY <2>1 DEF FiniteSubsetsOf
<1>2. IsWellFoundedOn(R, FiniteSubsetsOf(Nat))
  BY FS_StrictSubsetOrderingWellFounded
<1>3. Below # {}
  OBVIOUS
<1> HIDE DEF R
<1>4. PICK X \in Below : \A Y \in Below : ~(<<Y, X>> \in R)
  <2> HIDE DEF Below
  <2> QED
    BY <1>1, <1>2, <1>3, WFMin
<1>5. PICK u \in S : X = 0..u
  OBVIOUS
<1>6. ASSUME NEW v \in S, v < u PROVE FALSE
  <2>1. 0..v \in Below /\ 0..v # X /\ 0..v \subseteq X /\ X \subseteq Nat
    BY <1>5, <1>6
  <2>2. <<0..v, X>> \in R
    BY <2>1, <1>1 DEF R, StrictSubsetOrdering, FiniteSubsetsOf
  <2>3. QED
    BY <1>4, <2>1, <2>2
<1>7. QED
  BY <1>6

----------------------------------------------------------------------------
(* Types                                                                   *)

LEMMA PositionFacts ==
  /\ 0 \in Positions /\ 1 \in Positions /\ 1 \in 1..MaxUsers /\ 1 # MaxUsers
  /\ Positions \subseteq Nat
  /\ \A n \in 1..MaxUsers : n # MaxUsers => n \in Positions /\ n # 0 /\ n + 1 \in 1..MaxUsers
  /\ \A n \in Positions : n # 0 => n \in 1..MaxUsers /\ n # MaxUsers
  /\ 1 \in Bufs /\ Bufs \subseteq Nat
  BY SharedMemoryAssumption DEF Positions, Bufs

LEMMA NoMailIsMail == NoMail \in [Positions -> [Bufs -> Mail]]
  BY DEF NoMail, Empty, Mail

\* The first buffer that is free.
LEMMA FirstIs ==
  ASSUME NEW S, S \subseteq Bufs, S # {} PROVE First(S) \in S
<1>1. S \subseteq Nat
  BY PositionFacts
<1>2. \E b \in S : \A c \in S : b <= c
  BY <1>1, LeastElement
<1>3. QED
  BY <1>2 DEF First

LEMMA OrderNat == ASSUME NEW c \in Cells PROVE Order(c) \in Nat
<1>1. c[1] \in Nat /\ c[2] \in Nat /\ MaxMsgs \in Nat
  BY PositionFacts, SharedMemoryAssumption DEF Cells
<1>2. c[1] * MaxMsgs \in Nat
  BY <1>1
<1>3. QED
  BY <1>1, <1>2 DEF Order

\* The first cell in the order in which the handler visits them.
LEMMA FirstCellIs ==
  ASSUME NEW S, S \subseteq Cells, S # {}
  PROVE  FirstCell(S) \in S /\ \A d \in S : Order(FirstCell(S)) <= Order(d)
<1> DEFINE O == {Order(c) : c \in S}
<1>1. O \subseteq Nat /\ O # {}
  BY OrderNat
<1>2. PICK u \in O : \A v \in O : u <= v
  BY <1>1, LeastElement
<1>3. \E c \in S : \A d \in S : Order(c) <= Order(d)
  BY <1>2
<1>4. QED
  BY <1>3 DEF FirstCell

\* Where the handler stands: at the first taken buffer from there on.
LEMMA HandlerIs ==
  ASSUME NEW s, NEW from
  PROVE  /\ HandlerAt(s, from) \in Cells \cup {Idle}
         /\ \A c \in Cells :
              msg[serving_uid[s]][c[1]][c[2]].head # Nobody /\ Order(c) >= from
                => HandlerAt(s, from) # Idle /\ Order(HandlerAt(s, from)) <= Order(c)
<1> DEFINE S == NextTaken(s, from)
<1>1. S \subseteq Cells
  BY DEF NextTaken
<1>2. Idle \notin Cells
  BY DEF Idle, Cells
<1>3. CASE S = {}
  BY <1>3 DEF HandlerAt, NextTaken
<1>4. CASE S # {}
  <2>1. HandlerAt(s, from) = FirstCell(S)
    BY <1>4 DEF HandlerAt
  <2>2. FirstCell(S) \in S /\ \A d \in S : Order(FirstCell(S)) <= Order(d)
    BY <1>1, <1>4, FirstCellIs
  <2>3. \A c \in Cells : msg[serving_uid[s]][c[1]][c[2]].head # Nobody /\ Order(c) >= from => c \in S
    BY DEF NextTaken
  <2>4. QED
    BY <1>1, <1>2, <2>1, <2>2, <2>3
<1>5. QED
  BY <1>3, <1>4

----------------------------------------------------------------------------
(* Seats: every step keeps the types and leaves positions to their owners. *)

LEMMA InitS == ASSUME Init PROVE SInv
<1>0. PICK logged \in SUBSET Residents : \E seat \in [logged -> 1..Cardinality(logged)] :
         /\ \A s, t \in logged : seat[s] = seat[t] => s = t
         /\ id = [p \in Positions |-> IF \E s \in logged : seat[s] = p THEN p ELSE 0]
         /\ pid = [p \in Positions |->
                     IF \E s \in logged : seat[s] = p
                     THEN CHOOSE s \in logged : seat[s] = p ELSE Nobody]
         /\ serving_uid = [s \in Shells |-> IF s \in logged THEN seat[s] ELSE 0]
         /\ pc = [s \in Shells |-> IF s \in logged THEN "prompt" ELSE "scan"]
  BY DEF Init
<1>1. PICK seat \in [logged -> 1..Cardinality(logged)] :
         /\ \A s, t \in logged : seat[s] = seat[t] => s = t
         /\ id = [p \in Positions |-> IF \E s \in logged : seat[s] = p THEN p ELSE 0]
         /\ pid = [p \in Positions |->
                     IF \E s \in logged : seat[s] = p
                     THEN CHOOSE s \in logged : seat[s] = p ELSE Nobody]
         /\ serving_uid = [s \in Shells |-> IF s \in logged THEN seat[s] ELSE 0]
         /\ pc = [s \in Shells |-> IF s \in logged THEN "prompt" ELSE "scan"]
  BY <1>0
<1>2. Cardinality(logged) \in Nat /\ Cardinality(logged) < MaxUsers
  <2>1. IsFiniteSet(Residents) /\ Cardinality(Residents) \in Nat /\ Cardinality(Residents) < MaxUsers
    BY SharedMemoryAssumption, FS_CardinalityType
  <2>2. Cardinality(logged) \in Nat /\ Cardinality(logged) <= Cardinality(Residents)
    BY <2>1, FS_Subset, FS_CardinalityType
  <2>3. QED
    BY <2>1, <2>2, SharedMemoryAssumption
<1>3. \A s \in logged : seat[s] \in Positions /\ seat[s] # 0
  BY <1>1, <1>2, SharedMemoryAssumption DEF Positions
<1>4. \A s \in logged : id[seat[s]] = seat[s] /\ pid[seat[s]] = s
  <2> SUFFICES ASSUME NEW s \in logged PROVE id[seat[s]] = seat[s] /\ pid[seat[s]] = s
    OBVIOUS
  <2>1. \A t \in logged : seat[t] = seat[s] => t = s
    BY <1>1
  <2>2. (CHOOSE t \in logged : seat[t] = seat[s]) = s
    BY <2>1
  <2>3. QED
    BY <1>1, <1>3, <2>2
<1>5. \A p \in Positions : id[p] \in Positions /\ pid[p] \in Shells \cup {Nobody}
  <2> SUFFICES ASSUME NEW p \in Positions PROVE id[p] \in Positions /\ pid[p] \in Shells \cup {Nobody}
    OBVIOUS
  <2>1. CASE \E s \in logged : seat[s] = p
    <3>1. PICK s \in logged : seat[s] = p
      BY <2>1
    <3>2. QED
      BY <1>4, <3>1, SharedMemoryAssumption
  <2>2. CASE ~\E s \in logged : seat[s] = p
    BY <1>1, <2>2, PositionFacts
  <2>3. QED
    BY <2>1, <2>2
<1>6. TypeOK
  <2>1. id \in [Positions -> Positions] /\ pid \in [Positions -> Shells \cup {Nobody}]
    BY <1>1, <1>5
  <2>2. serving_uid \in [Shells -> Positions]
    BY <1>1, <1>3, PositionFacts
  <2>3. name \in [Positions -> Names \cup {NoName}] /\ msg \in [Positions -> [Positions -> [Bufs -> Mail]]]
    BY NoMailIsMail DEF Init
  <2>4. /\ pc \in [Shells -> Names \cup Labels]
        /\ i \in [Shells -> 1..MaxUsers]
        /\ k \in [Shells -> Bufs]
        /\ after \in [Shells -> {"prompt", "wipe", "told"}]
        /\ pending \in [Shells -> BOOLEAN]
        /\ handler \in [Shells -> Cells \cup {Idle}]
        /\ shown \in [Shells -> BOOLEAN]
        /\ ops \in 0..MaxOps /\ dead \subseteq Shells /\ contested \subseteq Positions
    BY PositionFacts, SharedMemoryAssumption DEF Init, Labels
  <2>5. QED
    BY <2>1, <2>2, <2>3, <2>4 DEF TypeOK
<1>7. Placed
  <2>1. id[0] = 0
    BY <1>1, <1>3, PositionFacts
  <2>2. QED
    BY <1>1, <2>1 DEF Placed
<1>8. Lodged
  <2>1. \A s \in Shells, p \in Positions \ {0} : Keeps(s, p) => s \in logged /\ seat[s] = p
    BY <1>1 DEF Seated, Holds, Keeps
  <2>2. QED
    BY <1>1, <1>4, <2>1 DEF Lodged
<1>9. QED
  BY <1>6, <1>7, <1>8 DEF SInv

\* Where a shell goes next.
LEMMA LabelFacts ==
  /\ \A l \in Names : l \notin Labels
  /\ {"scan", "fill", "number", "serve", "greet", "visit", "put", "tail", "kill", "prompt",
      "wipe", "wiperest", "leave", "gone"} \subseteq Names \cup Labels
  BY SharedMemoryAssumption DEF Labels

\* A step that leaves the headers alone and gives nobody a position.
LEMMA QuietS ==
  ASSUME SInv, TypeOK', Placed', UNCHANGED <<id, pid>>, contested \subseteq contested',
         \A t \in Shells, p \in Positions \ {0} : Keeps(t, p)' =>
            Keeps(t, p) /\ (HasPid(t)' => HasPid(t)) /\ (HasId(t)' => HasId(t))
  PROVE  SInv'
<1>1. ASSUME NEW s \in Shells, NEW p \in Positions \ {0}, p \notin contested', Keeps(s, p)'
      PROVE  /\ \A t \in Shells : Keeps(t, p)' => t = s
             /\ HasPid(s)' => pid'[p] = s
             /\ HasId(s)' => id'[p] = p
  <2>1. Keeps(s, p) /\ p \notin contested
    BY <1>1
  <2>2. /\ \A t \in Shells : Keeps(t, p) => t = s
        /\ HasPid(s) => pid[p] = s
        /\ HasId(s) => id[p] = p
    BY <2>1 DEF SInv, Lodged
  <2>3. QED
    BY <1>1, <2>2
<1>2. QED
  BY <1>1 DEF SInv, Lodged

\* The main program of a shell that has been through insert_client, and has
\* not come to remove_client.
Inside == Names \cup {"greet", "visit", "put", "tail", "kill", "prompt", "wipe"}

LEMMA InsideS ==
  ASSUME SInv, TypeOK', UNCHANGED <<id, pid, serving_uid, dead, contested>>, NEW s \in Shells,
         \A t \in Shells \ {s} : pc'[t] = pc[t] /\ i'[t] = i[t],
         pc[s] \in Inside, pc'[s] \in Inside,
         pc'[s] \in {"visit", "put", "tail", "kill"} => i'[s] # MaxUsers
  PROVE  SInv'
<1>1. /\ pc[s] \notin {"scan", "fill", "number", "serve", "wiperest", "leave", "gone"}
      /\ pc'[s] \notin {"scan", "fill", "number", "serve", "wiperest", "leave", "gone"}
  BY LabelFacts DEF Inside, Labels
<1>2. Placed'
  BY <1>1 DEF SInv, Placed
<1>3. \A t \in Shells, p \in Positions \ {0} : Keeps(t, p)' =>
         Keeps(t, p) /\ (HasPid(t)' => HasPid(t)) /\ (HasId(t)' => HasId(t))
  <2> SUFFICES ASSUME NEW t \in Shells, NEW p \in Positions \ {0}, Keeps(t, p)'
               PROVE  Keeps(t, p) /\ (HasPid(t)' => HasPid(t)) /\ (HasId(t)' => HasId(t))
    OBVIOUS
  <2>1. CASE t = s
    BY <1>1, <2>1 DEF Keeps, Seated, Holds, Alive, HasPid, HasId
  <2>2. CASE t # s
    BY <2>2 DEF Keeps, Seated, Holds, Alive, HasPid, HasId
  <2>3. QED
    BY <2>1, <2>2
<1>4. QED
  BY <1>2, <1>3, QuietS

LEMMA SeatsAre == SInv => SeatsOwned
<1> SUFFICES ASSUME SInv PROVE SeatsOwned
  OBVIOUS
<1>1. ASSUME NEW s \in Shells, Certain(s)
      PROVE  /\ id[serving_uid[s]] = serving_uid[s] /\ pid[serving_uid[s]] = s
             /\ \A t \in Shells : Seated(t) /\ serving_uid[t] = serving_uid[s] => t = s
  <2>1. serving_uid[s] \in Positions \ {0} /\ serving_uid[s] \notin contested
    BY <1>1 DEF Certain, Seated, SInv, TypeOK
  <2>2. HasPid(s) /\ HasId(s) /\ Keeps(s, serving_uid[s])
    BY <1>1 DEF Certain, Seated, HasPid, HasId, Keeps
  <2>3. QED
    BY <2>1, <2>2 DEF SInv, Lodged, Keeps
<1>2. QED
  BY <1>1 DEF SeatsOwned

LEMMA ScanS == ASSUME SInv, NEW s \in Shells, Scan(s) PROVE SInv'
<1>1. /\ pc[s] = "scan" /\ serving_uid[s] = 0 /\ i[s] \in 1..MaxUsers
      /\ UNCHANGED <<id, pid, name, msg, serving_uid, k, after, ops, pending, handler, shown, dead>>
  BY DEF Scan, Runs, SInv, TypeOK, Placed, regVars, sigVars
<1>2. CASE i[s] = MaxUsers
  <2>1. pc' = [pc EXCEPT ![s] = "greet"] /\ UNCHANGED <<i, contested>>
    BY <1>2 DEF Scan, Goto
  <2>2. TypeOK'
    BY <1>1, <2>1, LabelFacts DEF SInv, TypeOK
  <2>3. Placed'
    BY <1>1, <2>1 DEF SInv, Placed, TypeOK
  <2>4. \A t \in Shells, p \in Positions \ {0} : Keeps(t, p)' =>
           Keeps(t, p) /\ (HasPid(t)' => HasPid(t)) /\ (HasId(t)' => HasId(t))
    BY <1>1, <2>1 DEF Keeps, Seated, Holds, Alive, HasPid, HasId, SInv, TypeOK
  <2>5. QED
    BY <1>1, <2>1, <2>2, <2>3, <2>4, QuietS
<1>3. CASE i[s] # MaxUsers /\ id[i[s]] # 0
  <2>1. i' = [i EXCEPT ![s] = i[s] + 1] /\ UNCHANGED <<pc, contested>>
    BY <1>3 DEF Scan
  <2>2. TypeOK'
    BY <1>1, <1>3, <2>1, PositionFacts DEF SInv, TypeOK
  <2>3. Placed'
    BY <1>1, <2>1 DEF SInv, Placed, TypeOK
  <2>4. \A t \in Shells, p \in Positions \ {0} : Keeps(t, p)' =>
           Keeps(t, p) /\ (HasPid(t)' => HasPid(t)) /\ (HasId(t)' => HasId(t))
    BY <1>1, <2>1 DEF Keeps, Seated, Holds, Alive, HasPid, HasId, SInv, TypeOK
  <2>5. QED
    BY <1>1, <2>1, <2>2, <2>3, <2>4, QuietS
<1>4. CASE i[s] # MaxUsers /\ id[i[s]] = 0
  <2> DEFINE p == i[s]
  <2>1. /\ pc' = [pc EXCEPT ![s] = "fill"] /\ UNCHANGED i
        /\ contested' = contested \cup {q \in {p} : \E t \in Shells : Holds(t, q)}
    BY <1>4 DEF Scan, Goto
  <2>2. p \in Positions /\ p # 0 /\ id[p] = 0
    BY <1>1, <1>4, PositionFacts
  <2> HIDE DEF p
  <2>3. TypeOK'
    BY <1>1, <2>1, <2>2, LabelFacts DEF SInv, TypeOK
  <2>4. Placed'
    BY <1>1, <1>4, <2>1 DEF SInv, Placed, TypeOK
  <2>5. /\ pc'[s] = "fill"
        /\ \A t \in Shells \ {s} : pc'[t] = pc[t] /\ i'[t] = i[t]
    BY <2>1 DEF SInv, TypeOK
  <2>6. ASSUME NEW t \in Shells, t # s, NEW q \in Positions \ {0}
        PROVE  /\ Keeps(t, q)' <=> Keeps(t, q)
               /\ (HasPid(t)' <=> HasPid(t)) /\ (HasId(t)' <=> HasId(t))
    BY <1>1, <2>5, <2>6 DEF Keeps, Seated, Holds, Alive, HasPid, HasId
  <2>7. \A q \in Positions \ {0} : Keeps(s, q)' => q = p
    BY <1>1, <2>1, <2>5 DEF Keeps, Seated, Holds, p
  <2>8. p \notin contested' => \A t \in Shells : t # s => ~Keeps(t, p)
    <3> SUFFICES ASSUME p \notin contested', NEW t \in Shells, t # s, Keeps(t, p) PROVE FALSE
      OBVIOUS
    <3>1. ~Holds(t, p) /\ p \notin contested
      BY <2>1
    <3>2. Seated(t) /\ serving_uid[t] = p
      BY <3>1 DEF Keeps
    <3>3. HasId(t)
      BY <3>2 DEF Seated, HasId
    <3>4. QED
      BY <2>2, <3>1, <3>3 DEF SInv, Lodged
  <2>9. Lodged'
    <3> SUFFICES ASSUME NEW t \in Shells, NEW q \in Positions \ {0}, q \notin contested', Keeps(t, q)'
                 PROVE  /\ \A u \in Shells : Keeps(u, q)' => u = t
                        /\ HasPid(t)' => pid'[q] = t
                        /\ HasId(t)' => id'[q] = q
      BY DEF Lodged
    <3>1. CASE q = p
      <4>1. t = s /\ \A u \in Shells : Keeps(u, q)' => u = s
        BY <2>2, <2>6, <2>8, <3>1
      <4>2. QED
        BY <2>5, <4>1 DEF HasPid, HasId
    <3>2. CASE q # p
      <4>1. t # s /\ ~Keeps(s, q)' /\ q \notin contested
        BY <2>1, <2>7, <3>2
      <4>2. /\ \A u \in Shells : Keeps(u, q) => u = t
            /\ HasPid(t) => pid[q] = t
            /\ HasId(t) => id[q] = q
        BY <2>6, <4>1 DEF SInv, Lodged
      <4>3. QED
        BY <1>1, <2>6, <4>1, <4>2
    <3>3. QED
      BY <3>1, <3>2
  <2>10. QED
    BY <2>3, <2>4, <2>9 DEF SInv
<1>5. QED
  BY <1>2, <1>3, <1>4

\* A step of the keeper s of position p that writes to p's header only.
LEMMA HeaderS ==
  ASSUME SInv, TypeOK', Placed', NEW s \in Shells, NEW p \in Positions,
         UNCHANGED <<serving_uid, i, dead, contested>>,
         \A t \in Shells \ {s} : pc'[t] = pc[t],
         p # 0 => Keeps(s, p),
         \A q \in Positions \ {0} : Keeps(s, q)' => q = p,
         \A q \in Positions : q # p => id'[q] = id[q] /\ pid'[q] = pid[q],
         p # 0 /\ p \notin contested => (HasPid(s)' => pid'[p] = s) /\ (HasId(s)' => id'[p] = p)
  PROVE  SInv'
<1>1. ASSUME NEW t \in Shells, t # s, NEW q \in Positions \ {0}
      PROVE  /\ Keeps(t, q)' <=> Keeps(t, q)
             /\ (HasPid(t)' <=> HasPid(t)) /\ (HasId(t)' <=> HasId(t))
  BY <1>1 DEF Keeps, Seated, Holds, Alive, HasPid, HasId
<1>2. Lodged'
  <2> SUFFICES ASSUME NEW t \in Shells, NEW q \in Positions \ {0}, q \notin contested', Keeps(t, q)'
               PROVE  /\ \A u \in Shells : Keeps(u, q)' => u = t
                      /\ HasPid(t)' => pid'[q] = t
                      /\ HasId(t)' => id'[q] = q
    BY DEF Lodged
  <2>1. CASE q = p
    <3>1. \A u \in Shells : Keeps(u, p) => u = s
      BY <2>1 DEF SInv, Lodged
    <3>2. t = s /\ \A u \in Shells : Keeps(u, q)' => u = s
      BY <1>1, <2>1, <3>1
    <3>3. QED
      BY <2>1, <3>2
  <2>2. CASE q # p
    <3>1. t # s /\ ~Keeps(s, q)'
      BY <2>2
    <3>2. /\ \A u \in Shells : Keeps(u, q) => u = t
          /\ HasPid(t) => pid[q] = t
          /\ HasId(t) => id[q] = q
      BY <1>1, <3>1 DEF SInv, Lodged
    <3>3. QED
      BY <1>1, <2>2, <3>1, <3>2
  <2>3. QED
    BY <2>1, <2>2
<1>3. QED
  BY <1>2 DEF SInv

LEMMA FillS == ASSUME SInv, NEW s \in Shells, Fill(s) PROVE SInv'
<1> DEFINE p == i[s]
<1>1. /\ pc[s] = "fill" /\ s \notin dead /\ serving_uid[s] = 0
      /\ p \in Positions /\ p # 0
      /\ name' = [name EXCEPT ![p] = NoName] /\ pid' = [pid EXCEPT ![p] = s]
      /\ pc' = [pc EXCEPT ![s] = "number"]
      /\ UNCHANGED <<id, msg, serving_uid, i, k, after, ops, contested, pending, handler, shown, dead>>
  BY PositionFacts DEF Fill, Runs, Goto, sigVars, SInv, Placed, TypeOK
<1>2. pc'[s] = "number" /\ \A t \in Shells \ {s} : pc'[t] = pc[t]
  BY <1>1 DEF SInv, TypeOK
<1>3. Keeps(s, p) /\ \A q \in Positions \ {0} : Keeps(s, q)' => q = p
  BY <1>1, <1>2 DEF Keeps, Seated, Holds, Alive
<1> HIDE DEF p
<1>4. TypeOK'
  BY <1>1, LabelFacts DEF SInv, TypeOK
<1>5. Placed'
  BY <1>1, <1>2 DEF SInv, Placed
<1>6. \A q \in Positions : pid'[q] = IF q = p THEN s ELSE pid[q]
  BY <1>1 DEF SInv, TypeOK
<1>7. ~HasId(s)'
  BY <1>2 DEF HasId
<1>8. QED
  BY <1>1, <1>2, <1>3, <1>4, <1>5, <1>6, <1>7, HeaderS

LEMMA NumberS == ASSUME SInv, NEW s \in Shells, Number(s) PROVE SInv'
<1> DEFINE p == i[s]
<1>1. /\ pc[s] = "number" /\ s \notin dead /\ serving_uid[s] = 0
      /\ p \in Positions /\ p # 0
      /\ id' = [id EXCEPT ![p] = p] /\ pc' = [pc EXCEPT ![s] = "serve"]
      /\ UNCHANGED <<pid, name, msg, serving_uid, i, k, after, ops, contested, pending, handler, shown, dead>>
  BY PositionFacts DEF Number, Runs, Goto, sigVars, SInv, Placed, TypeOK
<1>2. pc'[s] = "serve" /\ \A t \in Shells \ {s} : pc'[t] = pc[t]
  BY <1>1 DEF SInv, TypeOK
<1>3. Keeps(s, p) /\ (\A q \in Positions \ {0} : Keeps(s, q)' => q = p)
  BY <1>1, <1>2 DEF Keeps, Seated, Holds, Alive
<1> HIDE DEF p
<1>4. TypeOK'
  BY <1>1, LabelFacts DEF SInv, TypeOK
<1>5. \A q \in Positions : id'[q] = IF q = p THEN p ELSE id[q]
  BY <1>1 DEF SInv, TypeOK
<1>6. Placed'
  BY <1>1, <1>2, <1>5, PositionFacts DEF SInv, Placed
<1>7. p \notin contested => pid[p] = s
  BY <1>1, <1>3 DEF SInv, Lodged, HasPid
<1>8. QED
  BY <1>1, <1>2, <1>3, <1>4, <1>5, <1>6, <1>7, HeaderS

LEMMA ServeS == ASSUME SInv, NEW s \in Shells, Serve(s) PROVE SInv'
<1> DEFINE p == i[s]
<1>1. /\ pc[s] = "serve" /\ s \notin dead /\ p \in Positions /\ p # 0
      /\ serving_uid' = [serving_uid EXCEPT ![s] = p] /\ pc' = [pc EXCEPT ![s] = "greet"]
      /\ UNCHANGED <<id, pid, name, msg, i, k, after, ops, contested, pending, handler, shown, dead>>
  BY PositionFacts DEF Serve, Runs, Goto, regVars, sigVars, SInv, Placed, TypeOK
<1>2. /\ pc'[s] = "greet" /\ serving_uid'[s] = p
      /\ \A t \in Shells \ {s} : pc'[t] = pc[t] /\ serving_uid'[t] = serving_uid[t]
  BY <1>1 DEF SInv, TypeOK
<1>3. TypeOK'
  BY <1>1, LabelFacts DEF SInv, TypeOK
<1>4. Placed'
  BY <1>1, <1>2 DEF SInv, Placed
<1>5. ASSUME NEW t \in Shells, NEW q \in Positions \ {0}, Keeps(t, q)'
      PROVE  Keeps(t, q) /\ (HasPid(t)' => HasPid(t)) /\ (HasId(t)' => HasId(t))
  <2>1. CASE t = s
    BY <1>1, <1>2, <1>5, <2>1 DEF Keeps, Seated, Holds, Alive, HasPid, HasId
  <2>2. CASE t # s
    BY <1>1, <1>2, <1>5, <2>2 DEF Keeps, Seated, Holds, Alive, HasPid, HasId
  <2>3. QED
    BY <2>1, <2>2
<1>6. QED
  BY <1>1, <1>3, <1>4, <1>5, QuietS

LEMMA GreetS == ASSUME SInv, NEW s \in Shells, Greet(s) PROVE SInv'
<1>1. /\ pc[s] = "greet"
      /\ pc' = [pc EXCEPT ![s] = "visit"] /\ i' = [i EXCEPT ![s] = 1]
      /\ after' = [after EXCEPT ![s] = "prompt"]
      /\ UNCHANGED <<id, pid, name, msg, serving_uid, k, ops, contested, pending, handler, shown, dead>>
  BY DEF Greet, Runs, StartBroadcast, Goto, regVars, sigVars
<1>2. TypeOK'
  BY <1>1, LabelFacts, PositionFacts DEF SInv, TypeOK
<1>3. QED
  BY <1>1, <1>2, InsideS, PositionFacts DEF SInv, TypeOK, Inside

\* The step to the next client, or out of the loop.
LEMMA OnwardIs ==
  ASSUME SInv, NEW s \in Shells, pc[s] \in {"visit", "put", "kill"}, Onward(s)
  PROVE  \E l \in {"visit", "prompt", "wipe"}, n \in 1..MaxUsers :
           /\ n # MaxUsers
           /\ pc' = [pc EXCEPT ![s] = l] /\ i' = [i EXCEPT ![s] = n]
           /\ l # "visit" => after[s] = "told" \/ i[s] + 1 = MaxUsers
           /\ l = "visit" => n = i[s] + 1 /\ after[s] # "told"
<1>1. i[s] \in 1..MaxUsers /\ i[s] # MaxUsers /\ after[s] \in {"prompt", "wipe", "told"}
  BY DEF SInv, TypeOK, Placed
<1>2. CASE after[s] = "told" \/ i[s] + 1 = MaxUsers
  <2>1. /\ pc' = [pc EXCEPT ![s] = IF after[s] = "told" THEN "prompt" ELSE after[s]]
        /\ i' = [i EXCEPT ![s] = 1]
    BY <1>2 DEF Onward, Goto
  <2>2. (IF after[s] = "told" THEN "prompt" ELSE after[s]) \in {"prompt", "wipe"}
    BY <1>1
  <2>3. QED
    BY <1>2, <2>1, <2>2, PositionFacts
<1>3. CASE ~(after[s] = "told" \/ i[s] + 1 = MaxUsers)
  <2>1. pc' = [pc EXCEPT ![s] = "visit"] /\ i' = [i EXCEPT ![s] = i[s] + 1]
    BY <1>3 DEF Onward, Goto
  <2>2. i[s] + 1 \in 1..MaxUsers /\ i[s] + 1 # MaxUsers
    BY <1>1, <1>3, PositionFacts
  <2>3. QED
    BY <1>3, <2>1, <2>2
<1>4. QED
  BY <1>2, <1>3

LEMMA VisitS == ASSUME SInv, NEW s \in Shells, Visit(s) PROVE SInv'
<1>1. /\ pc[s] = "visit" /\ i[s] # MaxUsers
      /\ UNCHANGED <<id, pid, name, msg, serving_uid, k, after, ops, pending, handler, shown, dead, contested>>
  BY DEF Visit, Runs, SInv, Placed, regVars, sigVars
<1>2. PICK l \in {"visit", "prompt", "wipe", "put"}, n \in 1..MaxUsers :
        n # MaxUsers /\ pc' = [pc EXCEPT ![s] = l] /\ i' = [i EXCEPT ![s] = n]
  <2>1. CASE id[i[s]] > 0
    <3>1. pc' = [pc EXCEPT ![s] = "put"] /\ i' = [i EXCEPT ![s] = i[s]]
      BY <2>1 DEF Visit, Goto, SInv, TypeOK
    <3>2. i[s] \in 1..MaxUsers
      BY DEF SInv, TypeOK
    <3>3. QED
      BY <1>1, <3>1, <3>2
  <2>2. CASE ~(id[i[s]] > 0)
    <3>1. Onward(s)
      BY <2>2 DEF Visit
    <3>2. QED
      BY <1>1, <3>1, OnwardIs
  <2>3. QED
    BY <2>1, <2>2
<1>3. TypeOK'
  BY <1>1, <1>2, LabelFacts DEF SInv, TypeOK
<1>4. QED
  BY <1>1, <1>2, <1>3, InsideS DEF SInv, TypeOK, Inside

\* Writing to one buffer.
With(p, j, b, m) == [msg EXCEPT ![p] = [msg[p] EXCEPT ![j] = [msg[p][j] EXCEPT ![b] = m]]]

\* A table of mailboxes that differs from the present one in one buffer.
Differs(M, p, j, b, m) ==
    /\ M \in [Positions -> [Positions -> [Bufs -> Mail]]]
    /\ \A q, l \in Positions, c \in Bufs :
         M[q][l][c] = IF q = p /\ l = j /\ c = b THEN m ELSE msg[q][l][c]

LEMMA CellWritten ==
  ASSUME TypeOK, NEW p \in Positions, NEW j \in Positions, NEW b \in Bufs, NEW m \in Mail
  PROVE  Differs(With(p, j, b, m), p, j, b, m)
<1> DEFINE cells == [msg[p][j] EXCEPT ![b] = m]
           row == [msg[p] EXCEPT ![j] = cells]
<1>1. /\ msg \in [Positions -> [Positions -> [Bufs -> Mail]]]
      /\ msg[p] \in [Positions -> [Bufs -> Mail]] /\ msg[p][j] \in [Bufs -> Mail]
  BY DEF TypeOK
<1>2. /\ cells \in [Bufs -> Mail]
      /\ \A c \in Bufs : cells[c] = IF c = b THEN m ELSE msg[p][j][c]
  BY <1>1
<1> HIDE DEF cells
<1>3. /\ row \in [Positions -> [Bufs -> Mail]]
      /\ \A l \in Positions : row[l] = IF l = j THEN cells ELSE msg[p][l]
  BY <1>1, <1>2
<1>4. With(p, j, b, m) = [msg EXCEPT ![p] = row]
  BY DEF With, cells
<1> HIDE DEF row
<1>5. /\ With(p, j, b, m) \in [Positions -> [Positions -> [Bufs -> Mail]]]
      /\ \A q \in Positions : With(p, j, b, m)[q] = IF q = p THEN row ELSE msg[q]
  BY <1>1, <1>3, <1>4
<1> DEFINE M == With(p, j, b, m)
<1> HIDE DEF M
<1>6. /\ M \in [Positions -> [Positions -> [Bufs -> Mail]]]
      /\ \A q, l \in Positions, c \in Bufs :
           M[q][l][c] = IF q = p /\ l = j /\ c = b THEN m ELSE msg[q][l][c]
  BY <1>2, <1>3, <1>5 DEF M
<1>7. QED
  BY <1>6 DEF Differs, M

\* Writing its first byte.
WithHead(p, j, b, s) == With(p, j, b, [msg[p][j][b] EXCEPT !.head = s])

\* The heads are as they are now, but for one.
Heads(M, p, j, b, h) ==
    \A q, l \in Positions, c \in Bufs :
      M[q][l][c].head = IF q = p /\ l = j /\ c = b THEN h ELSE msg[q][l][c].head

LEMMA HeadWritten ==
  ASSUME TypeOK, NEW s \in Shells, NEW p \in Positions, NEW j \in Positions, NEW b \in Bufs
  PROVE  /\ WithHead(p, j, b, s) \in [Positions -> [Positions -> [Bufs -> Mail]]]
         /\ Heads(WithHead(p, j, b, s), p, j, b, s)
<1> DEFINE m == [msg[p][j][b] EXCEPT !.head = s]
<1>1. m \in Mail /\ m.head = s
  <2>1. msg[p][j][b] \in Mail
    BY DEF TypeOK
  <2>2. QED
    BY <2>1 DEF Mail, Empty
<1> HIDE DEF m
<1>2. Differs(With(p, j, b, m), p, j, b, m)
  BY <1>1, CellWritten
<1>3. WithHead(p, j, b, s) = With(p, j, b, m)
  BY DEF WithHead, m
<1>4. QED
  BY <1>1, <1>2, <1>3 DEF Differs, Heads

\* Writing the rest of it.
WithTail(p, j, b, s) == With(p, j, b, [msg[p][j][b] EXCEPT !.tail = s])

LEMMA TailWritten ==
  ASSUME TypeOK, NEW s \in Shells, NEW p \in Positions, NEW j \in Positions, NEW b \in Bufs
  PROVE  /\ WithTail(p, j, b, s) \in [Positions -> [Positions -> [Bufs -> Mail]]]
         /\ Heads(WithTail(p, j, b, s), p, j, b, msg[p][j][b].head)
<1> DEFINE m == [msg[p][j][b] EXCEPT !.tail = s]
<1>1. m \in Mail /\ m.head = msg[p][j][b].head
  <2>1. msg[p][j][b] \in Mail
    BY DEF TypeOK
  <2>2. QED
    BY <2>1 DEF Mail, Empty
<1> HIDE DEF m
<1>2. Differs(With(p, j, b, m), p, j, b, m)
  BY <1>1, CellWritten
<1>3. WithTail(p, j, b, s) = With(p, j, b, m)
  BY DEF WithTail, m
<1>4. QED
  BY <1>1, <1>2, <1>3 DEF Differs, Heads

\* Clearing it.
Without(p, j, b) == With(p, j, b, Empty)

LEMMA BufferCleared ==
  ASSUME TypeOK, NEW p \in Positions, NEW j \in Positions, NEW b \in Bufs
  PROVE  /\ Without(p, j, b) \in [Positions -> [Positions -> [Bufs -> Mail]]]
         /\ Heads(Without(p, j, b), p, j, b, Nobody)
<1> DEFINE m == Empty
<1>1. m \in Mail /\ m.head = Nobody
  <2>1. msg[p][j][b] \in Mail
    BY DEF TypeOK
  <2>2. QED
    BY <2>1 DEF Mail, Empty
<1> HIDE DEF m
<1>2. Differs(With(p, j, b, m), p, j, b, m)
  BY <1>1, CellWritten
<1>3. Without(p, j, b) = With(p, j, b, m)
  BY DEF Without, m
<1>4. QED
  BY <1>1, <1>2, <1>3 DEF Differs, Heads

\* What Put does: it takes a free buffer, or goes on.
LEMMA PutIs ==
  ASSUME SInv, NEW s \in Shells, Put(s)
  PROVE  /\ pc[s] = "put" /\ handler[s] = Idle
         /\ i[s] \in 1..MaxUsers /\ i[s] # MaxUsers /\ i[s] \in Positions /\ serving_uid[s] \in Positions
         /\ UNCHANGED <<id, pid, name, serving_uid, after, ops, pending, handler, shown, dead, contested>>
         /\ \/ \E b \in Free(i[s], s) :
                 /\ b \in Bufs
                 /\ msg' = WithHead(i[s], serving_uid[s], b, s)
                 /\ k' = [k EXCEPT ![s] = b]
                 /\ pc' = [pc EXCEPT ![s] = "tail"]
                 /\ UNCHANGED i
            \/ Free(i[s], s) = {} /\ Onward(s) /\ UNCHANGED <<msg, k>>
<1>1. First(Free(i[s], s)) \in Free(i[s], s) \/ Free(i[s], s) = {}
  <2>1. Free(i[s], s) \subseteq Bufs
    BY DEF Free
  <2>2. QED
    BY <2>1, FirstIs
<1>2. /\ pc[s] = "put" /\ handler[s] = Idle
      /\ i[s] \in 1..MaxUsers /\ i[s] # MaxUsers /\ i[s] \in Positions /\ serving_uid[s] \in Positions
      /\ UNCHANGED <<id, pid, name, serving_uid, after, ops, pending, handler, shown, dead, contested>>
  BY PositionFacts DEF Put, Runs, SInv, TypeOK, Placed, regVars, sigVars
<1>3. CASE Free(i[s], s) # {}
  <2>1. First(Free(i[s], s)) \in Bufs
    BY <1>1, <1>3 DEF Free
  <2>2. QED
    BY <1>1, <1>2, <1>3, <2>1 DEF Put, Goto, WithHead, With
<1>4. CASE Free(i[s], s) = {}
  BY <1>2, <1>4 DEF Put
<1>5. QED
  BY <1>3, <1>4

LEMMA PutS == ASSUME SInv, NEW s \in Shells, Put(s) PROVE SInv'
<1>1. /\ pc[s] = "put" /\ i[s] \in 1..MaxUsers /\ i[s] # MaxUsers
      /\ i[s] \in Positions /\ serving_uid[s] \in Positions
      /\ UNCHANGED <<id, pid, name, serving_uid, after, ops, pending, handler, shown, dead, contested>>
  BY PutIs
<1>2. CASE \E b \in Free(i[s], s) :
             /\ b \in Bufs
             /\ msg' = WithHead(i[s], serving_uid[s], b, s)
             /\ k' = [k EXCEPT ![s] = b]
             /\ pc' = [pc EXCEPT ![s] = "tail"]
             /\ UNCHANGED i
  <2>1. PICK b \in Bufs : /\ msg' = WithHead(i[s], serving_uid[s], b, s)
                          /\ k' = [k EXCEPT ![s] = b]
                          /\ pc' = [pc EXCEPT ![s] = "tail"]
                          /\ UNCHANGED i
    BY <1>2
  <2>2. msg' \in [Positions -> [Positions -> [Bufs -> Mail]]]
    BY <1>1, <2>1, HeadWritten DEF SInv
  <2>3. TypeOK'
    BY <1>1, <2>1, <2>2, LabelFacts DEF SInv, TypeOK
  <2>4. QED
    BY <1>1, <2>1, <2>3, InsideS DEF SInv, TypeOK, Inside
<1>3. CASE Onward(s) /\ UNCHANGED <<msg, k>>
  <2>1. PICK l \in {"visit", "prompt", "wipe"}, n \in 1..MaxUsers :
          n # MaxUsers /\ pc' = [pc EXCEPT ![s] = l] /\ i' = [i EXCEPT ![s] = n]
    BY <1>1, <1>3, OnwardIs
  <2>2. TypeOK'
    BY <1>1, <1>3, <2>1, LabelFacts DEF SInv, TypeOK
  <2>3. QED
    BY <1>1, <2>1, <2>2, InsideS DEF SInv, TypeOK, Inside
<1>4. QED
  BY <1>2, <1>3, PutIs

LEMMA WriteTailS == ASSUME SInv, NEW s \in Shells, WriteTail(s) PROVE SInv'
<1>1. /\ pc[s] = "tail" /\ i[s] # MaxUsers
      /\ pc' = [pc EXCEPT ![s] = "kill"]
      /\ UNCHANGED <<id, pid, name, serving_uid, i, k, after, ops, pending, handler, shown, dead, contested>>
  BY DEF WriteTail, Runs, Goto, SInv, Placed, regVars, sigVars
<1>2. i[s] \in Positions /\ serving_uid[s] \in Positions /\ k[s] \in Bufs
  BY <1>1, PositionFacts DEF SInv, TypeOK
<1>3. msg' \in [Positions -> [Positions -> [Bufs -> Mail]]]
  <2>1. msg' = WithTail(i[s], serving_uid[s], k[s], s)
    BY DEF WriteTail, WithTail, With
  <2>2. QED
    BY <1>2, <2>1, TailWritten DEF SInv
<1>4. TypeOK'
  BY <1>1, <1>3, LabelFacts DEF SInv, TypeOK
<1>5. QED
  BY <1>1, <1>4, InsideS DEF SInv, TypeOK, Inside

LEMMA KillS == ASSUME SInv, NEW s \in Shells, Kill(s) PROVE SInv'
<1>1. /\ pc[s] = "kill"
      /\ Onward(s)
      /\ pending' \in [Shells -> BOOLEAN]
      /\ UNCHANGED <<id, pid, name, msg, serving_uid, k, after, ops, shown, dead, contested>>
  BY DEF Kill, Runs, SInv, TypeOK, regVars
<1>2. handler' \in [Shells -> Cells \cup {Idle}]
  BY HandlerIs DEF Kill, SInv, TypeOK
<1>3. PICK l \in {"visit", "prompt", "wipe"}, n \in 1..MaxUsers :
        n # MaxUsers /\ pc' = [pc EXCEPT ![s] = l] /\ i' = [i EXCEPT ![s] = n]
  BY <1>1, OnwardIs
<1>4. TypeOK'
  BY <1>1, <1>2, <1>3, LabelFacts DEF SInv, TypeOK
<1>5. QED
  BY <1>1, <1>3, <1>4, InsideS DEF SInv, TypeOK, Inside

LEMMA CommandS ==
  ASSUME SInv, NEW s \in Shells,
         Yell(s) \/ NameScan(s) \/ Exit(s) \/ (\E who \in Positions : Tell(s, who))
  PROVE  SInv'
<1>1. /\ pc[s] = "prompt"
      /\ UNCHANGED <<id, pid, name, msg, serving_uid, k, pending, handler, shown, dead, contested>>
      /\ ops' \in 0..MaxOps
  <2>1. MayCommand(s) /\ Count => ops' \in 0..MaxOps
    BY SharedMemoryAssumption DEF MayCommand, Count, SInv, TypeOK
  <2>2. ops' \in 0..MaxOps
    BY <2>1 DEF Yell, NameScan, Exit, Tell, SInv, TypeOK
  <2>3. QED
    BY <2>2 DEF Yell, NameScan, Exit, Tell, MayCommand, Runs, regVars, sigVars
<1>2. \E l \in Names \cup {"visit", "put"}, n \in 1..MaxUsers :
        /\ n # MaxUsers \/ l \in Names
        /\ pc' = [pc EXCEPT ![s] = l] /\ i' = [i EXCEPT ![s] = n]
        /\ after' \in [Shells -> {"prompt", "wipe", "told"}]
  <2>1. CASE Yell(s) \/ Exit(s)
    BY <2>1, PositionFacts DEF Yell, Exit, StartBroadcast, Goto, SInv, TypeOK
  <2>2. ASSUME NEW who \in Positions, Tell(s, who)
        PROVE  /\ who \in 1..MaxUsers /\ who # MaxUsers
               /\ pc' = [pc EXCEPT ![s] = "put"] /\ i' = [i EXCEPT ![s] = who]
               /\ after' \in [Shells -> {"prompt", "wipe", "told"}]
    BY <2>2, PositionFacts DEF Tell, Goto, SInv, TypeOK, Placed
  <2>3. CASE NameScan(s)
    <3>1. i' = [i EXCEPT ![s] = i[s]] /\ i[s] \in 1..MaxUsers /\ UNCHANGED after
      BY <2>3 DEF NameScan, SInv, TypeOK
    <3>2. QED
      BY <2>3, <3>1 DEF NameScan, Goto, SInv, TypeOK
  <2>4. QED
    BY <2>1, <2>2, <2>3
<1>3. PICK l \in Names \cup {"visit", "put"}, n \in 1..MaxUsers :
        /\ n # MaxUsers \/ l \in Names
        /\ pc' = [pc EXCEPT ![s] = l] /\ i' = [i EXCEPT ![s] = n]
        /\ after' \in [Shells -> {"prompt", "wipe", "told"}]
  BY <1>2
<1>4. TypeOK'
  BY <1>1, <1>3, LabelFacts DEF SInv, TypeOK
<1>5. l \in {"visit", "put", "tail", "kill"} => n # MaxUsers
  BY <1>3, LabelFacts DEF Labels
<1>6. QED
  BY <1>1, <1>3, <1>4, <1>5, InsideS DEF SInv, TypeOK, Inside

LEMMA NameCopyS == ASSUME SInv, NEW s \in Shells, NameCopy(s) PROVE SInv'
<1>1. /\ pc[s] \in Names
      /\ pc' = [pc EXCEPT ![s] = "visit"] /\ i' = [i EXCEPT ![s] = 1]
      /\ after' = [after EXCEPT ![s] = "prompt"]
      /\ name' = [name EXCEPT ![serving_uid[s]] = pc[s]]
      /\ UNCHANGED <<id, pid, msg, serving_uid, k, ops, pending, handler, shown, dead, contested>>
  BY DEF NameCopy, StartBroadcast, Goto, sigVars
<1>2. TypeOK'
  BY <1>1, LabelFacts, PositionFacts DEF SInv, TypeOK
<1>3. QED
  BY <1>1, <1>2, InsideS, PositionFacts DEF SInv, TypeOK, Inside

\* The header of the position that is given up is nobody else's.
LEMMA WipeIdS == ASSUME SInv, NEW s \in Shells, WipeId(s) PROVE SInv'
<1> DEFINE me == serving_uid[s]
<1>1. /\ pc[s] = "wipe" /\ s \notin dead /\ me \in Positions
      /\ id' = [id EXCEPT ![me] = 0] /\ pc' = [pc EXCEPT ![s] = "wiperest"]
      /\ UNCHANGED <<pid, name, msg, serving_uid, i, k, after, ops, pending, handler, shown, dead, contested>>
  BY DEF WipeId, Runs, Goto, sigVars, SInv, TypeOK
<1>2. pc'[s] = "wiperest" /\ \A t \in Shells \ {s} : pc'[t] = pc[t]
  BY <1>1 DEF SInv, TypeOK
<1>3. Keeps(s, me) /\ (\A q \in Positions \ {0} : Keeps(s, q)' => q = me)
  BY <1>1, <1>2 DEF Keeps, Seated, Holds, Alive
<1> HIDE DEF me
<1>4. TypeOK'
  BY <1>1, LabelFacts, PositionFacts DEF SInv, TypeOK
<1>5. \A q \in Positions : id'[q] = IF q = me THEN 0 ELSE id[q]
  BY <1>1 DEF SInv, TypeOK
<1>6. Placed'
  BY <1>1, <1>2, <1>5, PositionFacts DEF SInv, Placed
<1>7. ~HasPid(s)' /\ ~HasId(s)'
  BY <1>2 DEF HasPid, HasId
<1>8. QED
  BY <1>1, <1>2, <1>3, <1>4, <1>5, <1>6, <1>7, HeaderS

LEMMA WipeRestS == ASSUME SInv, NEW s \in Shells, WipeRest(s) PROVE SInv'
<1> DEFINE me == serving_uid[s]
<1>1. /\ pc[s] = "wiperest" /\ s \notin dead /\ me \in Positions
      /\ pid' = [pid EXCEPT ![me] = Nobody] /\ name' = [name EXCEPT ![me] = NoName]
      /\ msg' = [msg EXCEPT ![me] = NoMail]
      /\ pc' = [pc EXCEPT ![s] = "leave"]
      /\ UNCHANGED <<id, serving_uid, i, k, after, ops, pending, handler, shown, dead, contested>>
  BY DEF WipeRest, Runs, Goto, sigVars, SInv, TypeOK
<1>2. pc'[s] = "leave" /\ \A t \in Shells \ {s} : pc'[t] = pc[t]
  BY <1>1 DEF SInv, TypeOK
<1>3. Keeps(s, me) /\ (\A q \in Positions \ {0} : Keeps(s, q)' => q = me)
  BY <1>1, <1>2 DEF Keeps, Seated, Holds, Alive
<1> HIDE DEF me
<1>4. TypeOK'
  BY <1>1, LabelFacts, NoMailIsMail DEF SInv, TypeOK
<1>5. \A q \in Positions : pid'[q] = IF q = me THEN Nobody ELSE pid[q]
  BY <1>1 DEF SInv, TypeOK
<1>6. Placed'
  BY <1>1, <1>2 DEF SInv, Placed
<1>7. ~HasPid(s)' /\ ~HasId(s)'
  BY <1>2 DEF HasPid, HasId
<1>8. QED
  BY <1>1, <1>2, <1>3, <1>4, <1>5, <1>6, <1>7, HeaderS

\* Its end, or its death, gives nobody a position.
LEMMA LeaveS == ASSUME SInv, NEW s \in Shells, Leave(s) PROVE SInv'
<1>1. /\ pc[s] = "leave" /\ pc' = [pc EXCEPT ![s] = "gone"]
      /\ pending' = [pending EXCEPT ![s] = FALSE]
      /\ UNCHANGED <<id, pid, name, msg, serving_uid, i, k, after, ops, handler, shown, dead, contested>>
  BY DEF Leave, Runs, Goto, regVars
<1>2. pc'[s] = "gone" /\ \A t \in Shells \ {s} : pc'[t] = pc[t]
  BY <1>1 DEF SInv, TypeOK
<1>3. TypeOK'
  BY <1>1, LabelFacts DEF SInv, TypeOK
<1>4. Placed'
  BY <1>1, <1>2 DEF SInv, Placed
<1>5. ASSUME NEW t \in Shells, NEW q \in Positions \ {0}, Keeps(t, q)'
      PROVE  Keeps(t, q) /\ (HasPid(t)' => HasPid(t)) /\ (HasId(t)' => HasId(t))
  <2>1. t # s
    BY <1>2, <1>5 DEF Keeps, Seated, Holds, Alive
  <2>2. QED
    BY <1>1, <1>2, <1>5, <2>1 DEF Keeps, Seated, Holds, Alive, HasPid, HasId
<1>6. QED
  BY <1>1, <1>3, <1>4, <1>5, QuietS

LEMMA DisconnectS == ASSUME SInv, NEW s \in Shells, Disconnect(s) PROVE SInv'
<1>1. /\ dead' = dead \cup {s} /\ pending' = [pending EXCEPT ![s] = FALSE]
      /\ handler' = [handler EXCEPT ![s] = Idle]
      /\ UNCHANGED <<id, pid, name, msg, serving_uid, pc, i, k, after, ops, shown, contested>>
  BY DEF Disconnect, regVars, mainVars
<1>2. TypeOK'
  BY <1>1 DEF SInv, TypeOK
<1>3. Placed'
  BY <1>1 DEF SInv, Placed
<1>4. ASSUME NEW t \in Shells, NEW q \in Positions \ {0}, Keeps(t, q)'
      PROVE  Keeps(t, q) /\ (HasPid(t)' => HasPid(t)) /\ (HasId(t)' => HasId(t))
  BY <1>1, <1>4 DEF Keeps, Seated, Holds, Alive, HasPid, HasId
<1>5. QED
  BY <1>1, <1>2, <1>3, <1>4, QuietS

LEMMA HandleS == ASSUME SInv, NEW s \in Shells, Handle(s) PROVE SInv'
<1>1. UNCHANGED <<regVars, mainVars, dead>>
  BY DEF Handle, Deliver, Show, Clear
<1>2. pending' \in [Shells -> BOOLEAN] /\ shown' \in [Shells -> BOOLEAN]
  BY DEF Handle, Deliver, Show, Clear, SInv, TypeOK
<1>3. handler' \in [Shells -> Cells \cup {Idle}]
  <2>1. CASE Show(s)
    BY <2>1 DEF Show, SInv, TypeOK
  <2>2. CASE \E from : Advance(s, from)
    BY <2>2, HandlerIs DEF Advance, SInv, TypeOK
  <2>3. QED
    BY <2>1, <2>2 DEF Handle, Deliver, Clear
<1>4. msg' \in [Positions -> [Positions -> [Bufs -> Mail]]]
  <2>1. CASE Clear(s)
    <3>1. handler[s] \in Cells /\ serving_uid[s] \in Positions
      BY <2>1 DEF Clear, SInv, TypeOK
    <3>2. handler[s][1] \in Positions /\ handler[s][2] \in Bufs
      BY <3>1 DEF Cells
    <3>3. msg' = Without(serving_uid[s], handler[s][1], handler[s][2])
      BY <2>1 DEF Clear, Without, With
    <3>4. QED
      BY <3>1, <3>2, <3>3, BufferCleared DEF SInv
  <2>2. CASE Deliver(s) \/ Show(s)
    BY <2>2 DEF Deliver, Show, SInv, TypeOK
  <2>3. QED
    BY <2>1, <2>2 DEF Handle
<1>5. TypeOK'
  BY <1>1, <1>2, <1>3, <1>4 DEF SInv, TypeOK, regVars, mainVars
<1>6. Placed' /\ Lodged'
  BY <1>1 DEF SInv, Placed, Lodged, Keeps, Holds, Alive, Seated, HasPid, HasId, regVars, mainVars
<1>7. QED
  BY <1>5, <1>6 DEF SInv

LEMMA NextS == SInv /\ [Next]_vars => SInv'
<1> SUFFICES ASSUME SInv, [Next]_vars PROVE SInv'
  OBVIOUS
<1>1. CASE UNCHANGED vars
  BY <1>1 DEF SInv, TypeOK, Placed, Lodged, Keeps, Holds, Alive, Seated, HasPid, HasId,
     vars, regVars, mainVars, sigVars
<1>2. QED
  BY <1>1, ScanS, FillS, NumberS, ServeS, GreetS, VisitS, PutS, WriteTailS, KillS, CommandS,
     NameCopyS, WipeIdS, WipeRestS, LeaveS, DisconnectS, HandleS
  DEF Next, Main, User, Done

----------------------------------------------------------------------------
(* Mail: every step keeps a wake-up for every message.                     *)

Mailed(p, j, b) == msg[p][j][b].head # Nobody

\* What a shell has put into its own mailbox it reads before its kill returns,
\* unless it dies: otherwise its buffers might be full, and it would not signal
\* itself.
OwnComing(s, b) ==
    \/ s \in dead
    \/ pc[s] \in {"tail", "kill"} /\ i[s] = serving_uid[s] /\ k[s] = b
    \/ handler[s] # Idle /\ Order(handler[s]) <= Order(<<serving_uid[s], b>>)

OwnMailRead ==
    \A p \in Positions, b \in Bufs :
        p # 0 /\ p \notin contested /\ Mailed(p, p, b) =>
            \E s \in Shells : Seated(s) /\ serving_uid[s] = p /\ OwnComing(s, b)

\* Why a message in cell c of the mailbox of s will be read.
WakeUp(s, c) ==
    \/ pending[s]
    \/ handler[s] # Idle /\ Order(handler[s]) <= Order(c)
    \/ \E t \in Shells : Putting(t, serving_uid[s], c[1], c[2])
    \/ WillSignalItself(s)

NoneLost ==
    \A s \in Shells, c \in Cells :
        Certain(s) /\ Alive(s) /\ Mailed(serving_uid[s], c[1], c[2]) => WakeUp(s, c)

MInv == OwnMailRead /\ NoneLost

IInv == SInv /\ MInv

LEMMA NoneLostIs == NoneLost <=> NoLostWakeup
  BY DEF NoneLost, NoLostWakeup, WakeUp, Mailed

\* No two cells come at the same place of the handler's order.
LEMMA OrderInjective ==
  ASSUME NEW c \in Cells, NEW d \in Cells, Order(c) = Order(d) PROVE c = d
<1> DEFINE M == MaxMsgs
<1>1. /\ M \in Nat /\ c[1] \in Nat /\ d[1] \in Nat
      /\ c[2] \in Nat /\ d[2] \in Nat /\ 1 <= c[2] /\ c[2] <= M /\ 1 <= d[2] /\ d[2] <= M
  <2>1. c[1] \in Positions /\ d[1] \in Positions /\ c[2] \in Bufs /\ d[2] \in Bufs
    BY DEF Cells
  <2>2. c[1] \in Nat /\ d[1] \in Nat
    BY <2>1, PositionFacts
  <2>3. QED
    BY <2>1, <2>2, SharedMemoryAssumption DEF Bufs
<1>2. c[1] * M + c[2] = d[1] * M + d[2]
  BY DEF Order
<1> HIDE DEF M
<1>3. ASSUME NEW x \in Nat, NEW y \in Nat, x < y PROVE x * M + M <= y * M
  <2>1. PICK e \in Nat : y = x + 1 + e
    <3>1. y - x - 1 \in Nat /\ y = x + 1 + (y - x - 1)
      BY <1>3
    <3>2. QED
      BY <3>1
  <2>2. y * M = x * M + M + e * M
    BY <1>1, <2>1
  <2>3. e * M \in Nat /\ x * M \in Nat
    BY <1>1, <2>1
  <2>4. QED
    BY <1>1, <2>2, <2>3
<1>4. c[1] * M \in Nat /\ d[1] * M \in Nat
  BY <1>1
<1>5. ~(c[1] < d[1])
  BY <1>1, <1>2, <1>3, <1>4
<1>6. ~(d[1] < c[1])
  BY <1>1, <1>2, <1>3, <1>4
<1>7. c[1] = d[1]
  BY <1>1, <1>5, <1>6
<1>8. c[2] = d[2]
  BY <1>1, <1>2, <1>4, <1>7
<1>9. QED
  BY <1>7, <1>8 DEF Cells

LEMMA InitM == ASSUME Init PROVE MInv
<1>1. \A p, j \in Positions, b \in Bufs : ~Mailed(p, j, b)
  BY DEF Init, NoMail, Empty, Mailed
<1>2. \A s \in Shells : serving_uid[s] \in Positions
  BY InitS DEF SInv, TypeOK
<1>3. QED
  BY <1>1, <1>2 DEF MInv, OwnMailRead, NoneLost, Cells

\* A step of one shell that puts no mail anywhere and leaves its handler alone.
LEMMA QuietM ==
  ASSUME SInv, MInv, NEW s \in Shells, Alive(s),
         UNCHANGED <<serving_uid, k, handler, dead>>, contested \subseteq contested',
         \A p, j \in Positions, b \in Bufs : Mailed(p, j, b)' => Mailed(p, j, b),
         \A t \in Shells \ {s} : pc'[t] = pc[t] /\ i'[t] = i[t] /\ after'[t] = after[t]
                                 /\ pending'[t] = pending[t],
         Seated(s)' => Seated(s),
         Seated(s)' => pending'[s] = pending[s],
         Certain(s)' /\ WillSignalItself(s) => WillSignalItself(s)',
         Seated(s) /\ ~Seated(s)' => handler[s] = Idle,
         pc[s] \notin {"tail", "kill"} \/ (pc[s] = "tail" /\ pc'[s] = "kill" /\ i'[s] = i[s])
  PROVE  MInv'
<1>1. \A t \in Shells : serving_uid[t] \in Positions
  BY DEF SInv, TypeOK
<1>2. OwnMailRead'
  <2> SUFFICES ASSUME NEW p \in Positions, NEW b \in Bufs, p # 0, p \notin contested', Mailed(p, p, b)'
               PROVE  \E t \in Shells : Seated(t)' /\ serving_uid'[t] = p /\ OwnComing(t, b)'
    BY DEF OwnMailRead
  <2>1. PICK t \in Shells : Seated(t) /\ serving_uid[t] = p /\ OwnComing(t, b)
    BY DEF MInv, OwnMailRead
  <2>2. CASE t # s
    BY <2>1, <2>2 DEF Seated, OwnComing
  <2>3. CASE t = s
    <3>1. Seated(s)'
      BY <2>1, <2>3 DEF OwnComing, Seated, Alive
    <3>2. OwnComing(s, b)'
      BY <2>1, <2>3 DEF OwnComing
    <3>3. QED
      BY <2>1, <2>3, <3>1, <3>2
  <2>4. QED
    BY <2>2, <2>3
<1>3. NoneLost'
  <2> SUFFICES ASSUME NEW t \in Shells, NEW c \in Cells,
                      Certain(t)', Alive(t)', Mailed(serving_uid[t], c[1], c[2])'
               PROVE  WakeUp(t, c)'
    BY DEF NoneLost
  <2>1. Certain(t) /\ Alive(t)
    BY DEF Certain, Seated, Alive
  <2>2. Mailed(serving_uid[t], c[1], c[2])
    BY <1>1 DEF Cells
  <2>3. WakeUp(t, c)
    BY <2>1, <2>2 DEF MInv, NoneLost
  <2>4. pending'[t] = pending[t]
    BY DEF Certain
  <2>5. (\E u \in Shells : Putting(u, serving_uid[t], c[1], c[2]))
         => (\E u \in Shells : Putting(u, serving_uid[t], c[1], c[2]))'
    BY DEF Putting
  <2>6. WillSignalItself(t) => WillSignalItself(t)'
    BY DEF WillSignalItself
  <2>7. QED
    BY <2>3, <2>4, <2>5, <2>6 DEF WakeUp
<1>4. QED
  BY <1>2, <1>3 DEF MInv

\* The steps of insert_client before the shell has its position.
LEMMA ClaimM == ASSUME IInv, NEW s \in Shells, Scan(s) \/ Fill(s) \/ Number(s) PROVE MInv'
<1>1. /\ pc[s] \in {"scan", "fill", "number"} /\ serving_uid[s] = 0 /\ s \notin dead
      /\ UNCHANGED <<msg, serving_uid, k, after, pending, handler, dead>>
      /\ contested \subseteq contested'
      /\ \A t \in Shells \ {s} : pc'[t] = pc[t] /\ i'[t] = i[t]
  BY DEF Scan, Fill, Number, Runs, Goto, IInv, SInv, TypeOK, Placed, sigVars
<1>2. Alive(s) /\ ~Seated(s) /\ ~Seated(s)' /\ ~Certain(s)'
  BY <1>1 DEF Alive, Seated, Certain
<1>3. QED
  BY <1>1, <1>2, QuietM DEF IInv, Mailed

\* The newcomer's own login message will wake it up.
LEMMA ServeM == ASSUME IInv, NEW s \in Shells, Serve(s) PROVE MInv'
<1>1. /\ pc[s] = "serve" /\ s \notin dead
      /\ serving_uid' = [serving_uid EXCEPT ![s] = i[s]]
      /\ pc' = [pc EXCEPT ![s] = "greet"]
      /\ UNCHANGED <<msg, i, k, after, pending, handler, dead, contested>>
  BY DEF Serve, Runs, Goto, sigVars
<1>2. \A t \in Shells \ {s} : pc'[t] = pc[t] /\ serving_uid'[t] = serving_uid[t]
  BY <1>1 DEF IInv, SInv, TypeOK
<1>3. pc'[s] = "greet"
  BY <1>1 DEF IInv, SInv, TypeOK
<1>4. OwnMailRead'
  <2> SUFFICES ASSUME NEW p \in Positions, NEW b \in Bufs, p # 0, p \notin contested', Mailed(p, p, b)'
               PROVE  \E t \in Shells : Seated(t)' /\ serving_uid'[t] = p /\ OwnComing(t, b)'
    BY DEF OwnMailRead
  <2>1. PICK t \in Shells : Seated(t) /\ serving_uid[t] = p /\ OwnComing(t, b)
    BY <1>1 DEF IInv, MInv, OwnMailRead, Mailed
  <2>2. t # s
    BY <1>1, <2>1 DEF Seated
  <2>3. QED
    BY <1>1, <1>2, <2>1, <2>2 DEF Seated, OwnComing, Order
<1>5. NoneLost'
  <2> SUFFICES ASSUME NEW t \in Shells, NEW c \in Cells,
                      Certain(t)', Alive(t)', Mailed(serving_uid[t], c[1], c[2])'
               PROVE  WakeUp(t, c)'
    BY DEF NoneLost
  <2>1. CASE t = s
    BY <1>3, <2>1 DEF WakeUp, WillSignalItself
  <2>2. CASE t # s
    <3>1. /\ pc'[t] = pc[t] /\ serving_uid'[t] = serving_uid[t]
          /\ pending'[t] = pending[t] /\ handler'[t] = handler[t]
      BY <1>1, <1>2, <2>2
    <3>2. Certain(t) /\ Alive(t) /\ Mailed(serving_uid[t], c[1], c[2])
      BY <1>1, <3>1 DEF Certain, Seated, Alive, Mailed
    <3>3. WakeUp(t, c)
      BY <3>2 DEF IInv, MInv, NoneLost
    <3>4. ASSUME NEW u \in Shells, Putting(u, serving_uid[t], c[1], c[2])
          PROVE  Putting(u, serving_uid[t], c[1], c[2])'
      <4>1. u # s
        BY <1>1, <3>4 DEF Putting
      <4>2. QED
        BY <1>1, <1>2, <3>1, <3>4, <4>1 DEF Putting
    <3>5. WillSignalItself(t) => WillSignalItself(t)'
      BY <1>1, <3>1 DEF WillSignalItself
    <3>6. QED
      BY <3>1, <3>3, <3>4, <3>5 DEF WakeUp, Order
  <2>3. QED
    BY <2>1, <2>2
<1>6. QED
  BY <1>4, <1>5 DEF MInv

LEMMA GreetM == ASSUME IInv, NEW s \in Shells, Greet(s) PROVE MInv'
<1>1. /\ pc[s] = "greet" /\ s \notin dead
      /\ pc' = [pc EXCEPT ![s] = "visit"] /\ i' = [i EXCEPT ![s] = 1]
      /\ after' = [after EXCEPT ![s] = "prompt"]
      /\ UNCHANGED <<msg, serving_uid, k, pending, handler, dead, contested>>
  BY DEF Greet, Runs, StartBroadcast, Goto, sigVars
<1>2. /\ pc'[s] = "visit" /\ i'[s] = 1 /\ after'[s] = "prompt"
      /\ \A t \in Shells \ {s} : pc'[t] = pc[t] /\ i'[t] = i[t] /\ after'[t] = after[t]
  BY <1>1 DEF IInv, SInv, TypeOK
<1>3. Alive(s) /\ (Seated(s)' <=> Seated(s))
  BY <1>1, <1>2 DEF Alive, Seated
<1>4. Certain(s)' => WillSignalItself(s)'
  <2> SUFFICES ASSUME Certain(s)' PROVE WillSignalItself(s)'
    OBVIOUS
  <2>1. serving_uid[s] \in Nat /\ serving_uid[s] # 0
    BY <1>1, PositionFacts DEF Certain, Seated, IInv, SInv, TypeOK
  <2>2. i'[s] <= serving_uid'[s]
    BY <1>1, <1>2, <2>1
  <2>3. QED
    BY <1>2, <2>2 DEF WillSignalItself
<1>5. QED
  BY <1>1, <1>2, <1>3, <1>4, QuietM DEF IInv, Mailed

\* A shell that has yet to come by itself does so, when it goes on.
LEMMA WillSignalOn ==
  ASSUME SInv, NEW s \in Shells, i[s] # serving_uid[s], WillSignalItself(s), pc[s] # "greet",
         NEW l, NEW n, pc'[s] = l, i'[s] = n, UNCHANGED <<serving_uid, after>>,
         l # "visit" => after[s] = "told" \/ i[s] + 1 = MaxUsers,
         l = "visit" => n = i[s] + 1
  PROVE  WillSignalItself(s)'
<1>1. i[s] < serving_uid[s] /\ i[s] \in Nat /\ serving_uid[s] \in Positions
  <2>1. i[s] \in 1..MaxUsers /\ serving_uid[s] \in Positions
    BY DEF SInv, TypeOK
  <2>2. i[s] \in Nat /\ serving_uid[s] \in Nat
    BY <2>1, PositionFacts, SharedMemoryAssumption
  <2>3. i[s] <= serving_uid[s]
    BY DEF WillSignalItself
  <2>4. QED
    BY <2>1, <2>2, <2>3
<1>2. i[s] + 1 <= serving_uid[s] /\ i[s] + 1 # MaxUsers
  BY <1>1, SharedMemoryAssumption DEF Positions
<1>3. l = "visit" /\ n = i[s] + 1
  BY <1>2 DEF WillSignalItself
<1>4. QED
  BY <1>2, <1>3 DEF WillSignalItself

\* Going on to the next client, a shell does not leave itself out.
LEMMA OnwardM ==
  ASSUME IInv, NEW s \in Shells, pc[s] \in {"visit", "put"}, s \notin dead, Onward(s),
         UNCHANGED <<msg, serving_uid, k, after, pending, handler, dead, contested>>,
         Certain(s) => i[s] # serving_uid[s]
  PROVE  MInv'
<1>1. PICK l \in {"visit", "prompt", "wipe"}, n \in 1..MaxUsers :
         /\ pc' = [pc EXCEPT ![s] = l] /\ i' = [i EXCEPT ![s] = n]
         /\ l # "visit" => after[s] = "told" \/ i[s] + 1 = MaxUsers
         /\ l = "visit" => n = i[s] + 1 /\ after[s] # "told"
  BY OnwardIs DEF IInv
<1>2. /\ pc'[s] = l /\ i'[s] = n
      /\ \A t \in Shells \ {s} : pc'[t] = pc[t] /\ i'[t] = i[t]
  BY <1>1 DEF IInv, SInv, TypeOK
<1>3. ASSUME Certain(s), WillSignalItself(s) PROVE WillSignalItself(s)'
  BY <1>1, <1>2, <1>3, WillSignalOn DEF IInv
<1>4. (Seated(s) <=> Seated(s)') /\ (Certain(s) <=> Certain(s)')
  BY <1>2 DEF Seated, Certain
<1>5. Alive(s)
  BY DEF Alive
<1>6. QED
  BY <1>2, <1>3, <1>4, <1>5, QuietM DEF IInv, Mailed

LEMMA VisitM == ASSUME IInv, NEW s \in Shells, Visit(s) PROVE MInv'
<1>1. /\ pc[s] = "visit" /\ s \notin dead
      /\ UNCHANGED <<msg, serving_uid, k, after, pending, handler, dead, contested>>
  BY DEF Visit, Runs, sigVars
<1>2. CASE id[i[s]] > 0
  <2>1. /\ pc' = [pc EXCEPT ![s] = "put"] /\ UNCHANGED i
    BY <1>2 DEF Visit, Goto
  <2>2. pc'[s] = "put" /\ \A t \in Shells \ {s} : pc'[t] = pc[t]
    BY <2>1 DEF IInv, SInv, TypeOK
  <2>3. /\ Alive(s) /\ (Seated(s) <=> Seated(s)')
        /\ WillSignalItself(s) => WillSignalItself(s)'
    BY <1>1, <2>1, <2>2 DEF Alive, Seated, WillSignalItself
  <2>4. QED
    BY <1>1, <2>1, <2>2, <2>3, QuietM DEF IInv, Mailed
<1>3. CASE ~(id[i[s]] > 0)
  <2>1. Onward(s)
    BY <1>3 DEF Visit
  <2>2. Certain(s) => serving_uid[s] \in Nat /\ serving_uid[s] # 0 /\ id[serving_uid[s]] = serving_uid[s]
    BY PositionFacts, SeatsAre DEF IInv, SInv, SeatsOwned, Certain, Seated, TypeOK
  <2>3. Certain(s) => i[s] # serving_uid[s]
    BY <1>3, <2>2
  <2>4. QED
    BY <1>1, <2>1, <2>3, OnwardM
<1>4. QED
  BY <1>2, <1>3

\* A message is on its way from the moment it is in the mailbox.
LEMMA PutM == ASSUME IInv, NEW s \in Shells, Put(s) PROVE MInv'
<1> DEFINE p == i[s]
           j == serving_uid[s]
<1>1. /\ pc[s] = "put" /\ handler[s] = Idle /\ s \notin dead
      /\ p \in Positions /\ p # 0 /\ j \in Positions
      /\ UNCHANGED <<serving_uid, after, pending, handler, dead, contested>>
  BY PutIs, PositionFacts DEF IInv, Put, Runs
<1>2. CASE \E b \in Free(i[s], s) :
             /\ b \in Bufs
             /\ msg' = WithHead(i[s], serving_uid[s], b, s)
             /\ k' = [k EXCEPT ![s] = b]
             /\ pc' = [pc EXCEPT ![s] = "tail"]
             /\ UNCHANGED i
  <2>1. PICK b \in Bufs : /\ msg' = WithHead(p, j, b, s)
                          /\ k' = [k EXCEPT ![s] = b]
                          /\ pc' = [pc EXCEPT ![s] = "tail"]
                          /\ UNCHANGED i
    BY <1>2
  <2>2. \A q, l \in Positions, c \in Bufs :
          Mailed(q, l, c)' => Mailed(q, l, c) \/ (q = p /\ l = j /\ c = b)
    <3>1. Heads(msg', p, j, b, s)
      BY <1>1, <2>1, HeadWritten DEF IInv, SInv
    <3>2. QED
      BY <3>1 DEF Mailed, Heads
  <2>3. /\ pc'[s] = "tail" /\ k'[s] = b
        /\ \A t \in Shells \ {s} : pc'[t] = pc[t] /\ k'[t] = k[t]
    BY <2>1 DEF IInv, SInv, TypeOK
  <2>4. OwnMailRead'
    <3> SUFFICES ASSUME NEW q \in Positions, NEW c \in Bufs, q # 0, q \notin contested', Mailed(q, q, c)'
                 PROVE  \E t \in Shells : Seated(t)' /\ serving_uid'[t] = q /\ OwnComing(t, c)'
      BY DEF OwnMailRead
    <3>1. CASE q = p /\ q = j /\ c = b
      <4>1. Seated(s)'
        BY <1>1, <2>3, <3>1 DEF Seated
      <4>2. OwnComing(s, c)'
        BY <1>1, <2>1, <2>3, <3>1 DEF OwnComing
      <4>3. QED
        BY <1>1, <3>1, <4>1, <4>2
    <3>2. CASE ~(q = p /\ q = j /\ c = b)
      <4>1. PICK t \in Shells : Seated(t) /\ serving_uid[t] = q /\ OwnComing(t, c)
        BY <1>1, <2>2, <3>2 DEF IInv, MInv, OwnMailRead
      <4>2. t # s
        BY <1>1, <4>1 DEF OwnComing
      <4>3. QED
        BY <1>1, <2>1, <2>3, <4>1, <4>2 DEF Seated, OwnComing, Order
    <3>3. QED
      BY <3>1, <3>2
  <2>5. NoneLost'
    <3> SUFFICES ASSUME NEW t \in Shells, NEW c \in Cells,
                        Certain(t)', Alive(t)', Mailed(serving_uid[t], c[1], c[2])'
                 PROVE  WakeUp(t, c)'
      BY DEF NoneLost
    <3>1. serving_uid[t] \in Positions /\ serving_uid'[t] = serving_uid[t]
          /\ c[1] \in Positions /\ c[2] \in Bufs
      BY <1>1 DEF IInv, SInv, TypeOK, Cells
    <3>2. CASE serving_uid[t] = p /\ c[1] = j /\ c[2] = b
      <4>1. Putting(s, serving_uid[t], c[1], c[2])'
        BY <1>1, <2>1, <2>3, <3>1, <3>2 DEF Putting
      <4>2. QED
        BY <4>1 DEF WakeUp
    <3>3. CASE ~(serving_uid[t] = p /\ c[1] = j /\ c[2] = b)
      <4>1. Mailed(serving_uid[t], c[1], c[2])
        BY <2>2, <3>1, <3>3
      <4>2. Certain(t) /\ Alive(t)
        BY <1>1, <2>3 DEF Certain, Seated, Alive
      <4>3. WakeUp(t, c)
        BY <4>1, <4>2 DEF IInv, MInv, NoneLost
      <4>4. (\E u \in Shells : Putting(u, serving_uid[t], c[1], c[2]))
         => (\E u \in Shells : Putting(u, serving_uid[t], c[1], c[2]))'
        BY <1>1, <2>1, <2>3 DEF Putting
      <4>5. WillSignalItself(t) => WillSignalItself(t)'
        BY <1>1, <2>1, <2>3 DEF WillSignalItself
      <4>6. QED
        BY <1>1, <3>1, <4>3, <4>4, <4>5 DEF WakeUp
    <3>4. QED
      BY <3>2, <3>3
  <2>6. QED
    BY <2>4, <2>5 DEF MInv
<1>3. CASE Free(i[s], s) = {} /\ Onward(s) /\ UNCHANGED <<msg, k>>
  <2>1. ASSUME Certain(s), p = j PROVE FALSE
    <3>1. Mailed(p, p, 1)
      BY <1>3, <2>1, PositionFacts DEF Free, Mailed
    <3>2. PICK t \in Shells : Seated(t) /\ serving_uid[t] = p /\ OwnComing(t, 1)
      BY <1>1, <2>1, <3>1, PositionFacts DEF IInv, MInv, OwnMailRead, Certain
    <3>3. t = s
      BY <2>1, <3>2, SeatsAre DEF IInv, SeatsOwned
    <3>4. QED
      BY <1>1, <3>2, <3>3 DEF OwnComing
  <2>2. QED
    BY <1>1, <1>3, <2>1, OnwardM
<1>4. QED
  BY <1>2, <1>3, PutIs DEF IInv

LEMMA WriteTailM == ASSUME IInv, NEW s \in Shells, WriteTail(s) PROVE MInv'
<1>1. /\ pc[s] = "tail" /\ s \notin dead /\ i[s] \in Positions /\ serving_uid[s] \in Positions /\ k[s] \in Bufs
      /\ pc' = [pc EXCEPT ![s] = "kill"]
      /\ UNCHANGED <<serving_uid, i, k, after, pending, handler, dead, contested>>
  BY PositionFacts DEF WriteTail, Runs, Goto, IInv, SInv, Placed, TypeOK, sigVars
<1>2. \A p, j \in Positions, b \in Bufs : Mailed(p, j, b)' => Mailed(p, j, b)
  <2>1. msg' = WithTail(i[s], serving_uid[s], k[s], s)
    BY DEF WriteTail, WithTail, With
  <2>2. Heads(msg', i[s], serving_uid[s], k[s], msg[i[s]][serving_uid[s]][k[s]].head)
    BY <1>1, <2>1, TailWritten DEF IInv, SInv
  <2>3. QED
    BY <2>2 DEF Heads, Mailed
<1>3. pc'[s] = "kill" /\ \A t \in Shells \ {s} : pc'[t] = pc[t]
  BY <1>1 DEF IInv, SInv, TypeOK
<1>4. /\ Alive(s) /\ (Seated(s) <=> Seated(s)')
      /\ WillSignalItself(s) => WillSignalItself(s)'
  BY <1>1, <1>3 DEF Alive, Seated, WillSignalItself
<1>5. QED
  BY <1>1, <1>2, <1>3, <1>4, QuietM DEF IInv

\* The signal reaches the shell whose mailbox the message is in: the position
\* is that shell's.
LEMMA KillM == ASSUME IInv, NEW s \in Shells, Kill(s) PROVE MInv'
<1> DEFINE S == Signalled(i[s])
<1>1. /\ pc[s] = "kill" /\ handler[s] = Idle /\ Alive(s) /\ Onward(s)
      /\ pending' = [t \in Shells |-> IF t = s /\ s \in S THEN FALSE ELSE pending[t] \/ t \in S]
      /\ handler' = [handler EXCEPT ![s] = IF s \in S THEN HandlerAt(s, 0) ELSE Idle]
      /\ UNCHANGED <<id, pid, msg, serving_uid, k, after, dead, contested>>
  BY DEF Kill, Runs, Alive, regVars
<1>2. PICK l \in {"visit", "prompt", "wipe"}, n \in 1..MaxUsers :
         /\ pc' = [pc EXCEPT ![s] = l] /\ i' = [i EXCEPT ![s] = n]
         /\ l # "visit" => after[s] = "told" \/ i[s] + 1 = MaxUsers
         /\ l = "visit" => n = i[s] + 1 /\ after[s] # "told"
  BY <1>1, OnwardIs DEF IInv
<1>3. /\ pc'[s] = l /\ i'[s] = n
      /\ \A t \in Shells \ {s} : pc'[t] = pc[t] /\ i'[t] = i[t]
  BY <1>2 DEF IInv, SInv, TypeOK
<1>4. \A t \in Shells : Certain(t) /\ Alive(t) /\ serving_uid[t] = i[s] => t \in S
  BY SeatsAre DEF IInv, SeatsOwned, Signalled
<1>5. \A t \in Shells : /\ (Seated(t) <=> Seated(t)') /\ (Alive(t) <=> Alive(t)')
                         /\ (Certain(t) <=> Certain(t)')
  BY <1>1, <1>3 DEF Certain, Seated, Alive
<1>6. /\ \A t \in Shells \ {s} : handler'[t] = handler[t] /\ (pending[t] => pending'[t])
                                 /\ (t \in S => pending'[t])
      /\ s \in S => handler'[s] = HandlerAt(s, 0)
      /\ s \notin S => handler'[s] = Idle /\ (pending[s] => pending'[s])
  BY <1>1 DEF IInv, SInv, TypeOK
<1>7. ASSUME s \in S, NEW c \in Cells, Mailed(serving_uid[s], c[1], c[2])
      PROVE  handler'[s] # Idle /\ Order(handler'[s]) <= Order(c)
  <2>1. Order(c) >= 0
    BY OrderNat
  <2>2. QED
    BY <1>6, <1>7, <2>1, HandlerIs DEF Mailed
<1> HIDE DEF S
<1>8. OwnMailRead'
  <2> SUFFICES ASSUME NEW p \in Positions, NEW b \in Bufs, p # 0, p \notin contested', Mailed(p, p, b)'
               PROVE  \E t \in Shells : Seated(t)' /\ serving_uid'[t] = p /\ OwnComing(t, b)'
    BY DEF OwnMailRead
  <2>1. Mailed(p, p, b)
    BY <1>1 DEF Mailed
  <2>2. PICK t \in Shells : Seated(t) /\ serving_uid[t] = p /\ OwnComing(t, b)
    BY <1>1, <2>1 DEF IInv, MInv, OwnMailRead
  <2>3. CASE t # s
    <3>1. OwnComing(t, b)'
      BY <1>1, <1>3, <1>6, <2>2, <2>3 DEF OwnComing, Order
    <3>2. QED
      BY <1>1, <1>5, <2>2, <3>1
  <2>4. CASE t = s
    <3>1. s \in S
      BY <1>1, <1>4, <2>2, <2>4 DEF OwnComing, Certain, Alive
    <3>2. <<p, b>> \in Cells /\ <<p, b>>[1] = p /\ <<p, b>>[2] = b
      BY DEF Cells
    <3>3. handler'[s] # Idle /\ Order(handler'[s]) <= Order(<<p, b>>)
      BY <1>7, <2>1, <2>2, <2>4, <3>1, <3>2
    <3>4. OwnComing(s, b)'
      BY <1>1, <2>2, <2>4, <3>3 DEF OwnComing, Order
    <3>5. QED
      BY <1>1, <1>5, <2>2, <2>4, <3>4
  <2>5. QED
    BY <2>3, <2>4
<1>9. NoneLost'
  <2> SUFFICES ASSUME NEW t \in Shells, NEW c \in Cells,
                      Certain(t)', Alive(t)', Mailed(serving_uid[t], c[1], c[2])'
               PROVE  WakeUp(t, c)'
    BY DEF NoneLost
  <2>1. Certain(t) /\ Alive(t) /\ Mailed(serving_uid[t], c[1], c[2])
    BY <1>1, <1>5 DEF Mailed
  <2>2. WakeUp(t, c)
    BY <2>1 DEF IInv, MInv, NoneLost
  <2>3. CASE t = s /\ s \in S
    <3>1. handler'[t] # Idle /\ Order(handler'[t]) <= Order(c)
      BY <1>7, <2>1, <2>3
    <3>2. QED
      BY <3>1 DEF WakeUp, Order
  <2>4. CASE t # s /\ t \in S
    BY <1>6, <2>4 DEF WakeUp
  <2>5. CASE t \notin S
    <3>1. serving_uid[t] # i[s]
      BY <1>4, <2>1, <2>5
    <3>2. (\E u \in Shells : Putting(u, serving_uid[t], c[1], c[2]))
         => (\E u \in Shells : Putting(u, serving_uid[t], c[1], c[2]))'
      BY <1>1, <1>3, <3>1 DEF Putting
    <3>3. WillSignalItself(t) => WillSignalItself(t)'
      <4>1. CASE t # s
        BY <1>1, <1>3, <4>1 DEF WillSignalItself
      <4>2. CASE t = s
        BY <1>1, <1>2, <1>3, <3>1, <4>2, WillSignalOn DEF IInv
      <4>3. QED
        BY <4>1, <4>2
    <3>4. /\ pending[t] => pending'[t]
          /\ handler[t] # Idle => handler'[t] = handler[t]
      BY <1>1, <1>6, <2>5
    <3>5. QED
      BY <2>2, <3>2, <3>3, <3>4 DEF WakeUp, Order
  <2>6. QED
    BY <2>3, <2>4, <2>5
<1>10. QED
  BY <1>8, <1>9 DEF MInv

\* A step that puts no mail anywhere, by a shell that is at its prompt or is
\* to write its name: it goes on to its broadcast, to tell or to take a name.
LEMMA FromPromptM ==
  ASSUME IInv, NEW s \in Shells, s \notin dead, pc[s] \in Names \cup {"prompt"},
         NEW l \in Names \cup {"visit", "put"}, pc' = [pc EXCEPT ![s] = l],
         \A t \in Shells \ {s} : i'[t] = i[t] /\ after'[t] = after[t],
         UNCHANGED <<msg, serving_uid, k, pending, handler, dead, contested>>
  PROVE  MInv'
<1>1. /\ pc'[s] = l
      /\ \A t \in Shells \ {s} : pc'[t] = pc[t]
  BY DEF IInv, SInv, TypeOK
<1>2. /\ pc[s] \notin {"scan", "fill", "number", "serve", "greet", "visit", "put", "tail", "kill",
                       "wiperest", "leave", "gone"}
      /\ l \notin {"scan", "fill", "number", "serve", "wiperest", "leave", "gone"}
  BY LabelFacts DEF Labels
<1>3. Alive(s) /\ ~WillSignalItself(s) /\ (Seated(s) <=> Seated(s)')
  BY <1>1, <1>2 DEF Alive, Seated, WillSignalItself
<1>4. QED
  BY <1>1, <1>2, <1>3, QuietM DEF IInv, Mailed

LEMMA CommandM ==
  ASSUME IInv, NEW s \in Shells,
         Yell(s) \/ NameScan(s) \/ Exit(s) \/ NameCopy(s) \/ (\E who \in Positions : Tell(s, who))
  PROVE  MInv'
<1>1. /\ pc[s] \in Names \cup {"prompt"} /\ s \notin dead
      /\ UNCHANGED <<msg, serving_uid, k, pending, handler, dead, contested>>
  BY DEF Yell, NameScan, Exit, NameCopy, Tell, MayCommand, Runs, sigVars
<1>2. \A t \in Shells \ {s} : i'[t] = i[t] /\ after'[t] = after[t]
  BY DEF Yell, NameScan, Exit, NameCopy, Tell, StartBroadcast, IInv, SInv, TypeOK
<1>3. PICK l \in Names \cup {"visit", "put"} : pc' = [pc EXCEPT ![s] = l]
  BY DEF Yell, NameScan, Exit, NameCopy, Tell, StartBroadcast, Goto
<1>4. QED
  BY <1>1, <1>2, <1>3, FromPromptM

\* A step of remove_client.
LEMMA WipeM ==
  ASSUME IInv, NEW s \in Shells, WipeId(s) \/ WipeRest(s) \/ Leave(s) PROVE MInv'
<1>1. /\ pc[s] \in {"wipe", "wiperest", "leave"} /\ handler[s] = Idle /\ s \notin dead
      /\ UNCHANGED <<serving_uid, i, k, after, handler, dead, contested>>
      /\ pc'[s] \in {"wiperest", "leave", "gone"}
      /\ \A t \in Shells \ {s} : pc'[t] = pc[t] /\ pending'[t] = pending[t]
  BY DEF WipeId, WipeRest, Leave, Runs, Goto, sigVars, IInv, SInv, TypeOK
<1>2. Alive(s) /\ ~Seated(s)' /\ ~Certain(s)'
  BY <1>1 DEF Alive, Seated, Certain
<1>3. \A p, j \in Positions, b \in Bufs : Mailed(p, j, b)' => Mailed(p, j, b)
  <2>1. CASE WipeRest(s)
    <3>1. \A p \in Positions : msg'[p] = IF p = serving_uid[s] THEN NoMail ELSE msg[p]
      BY <2>1 DEF WipeRest, IInv, SInv, TypeOK
    <3>2. \A j \in Positions, b \in Bufs : NoMail[j][b].head = Nobody
      BY DEF NoMail, Empty
    <3>3. QED
      BY <3>1, <3>2 DEF Mailed
  <2>2. CASE WipeId(s) \/ Leave(s)
    BY <2>2 DEF WipeId, Leave, Mailed
  <2>3. QED
    BY <2>1, <2>2
<1>4. QED
  BY <1>1, <1>2, <1>3, QuietM DEF IInv

\* A death takes no message that another shell has begun to put.
LEMMA DisconnectM == ASSUME IInv, NEW s \in Shells, Disconnect(s) PROVE MInv'
<1>1. /\ dead' = dead \cup {s}
      /\ \A t \in Shells \ {s} : pending'[t] = pending[t] /\ handler'[t] = handler[t]
      /\ UNCHANGED <<msg, serving_uid, pc, i, k, after, contested>>
  BY DEF Disconnect, mainVars, IInv, SInv, TypeOK
<1>2. OwnMailRead'
  <2> SUFFICES ASSUME NEW p \in Positions, NEW b \in Bufs, p # 0, p \notin contested', Mailed(p, p, b)'
               PROVE  \E t \in Shells : Seated(t)' /\ serving_uid'[t] = p /\ OwnComing(t, b)'
    BY DEF OwnMailRead
  <2>1. PICK t \in Shells : Seated(t) /\ serving_uid[t] = p /\ OwnComing(t, b)
    BY <1>1 DEF IInv, MInv, OwnMailRead, Mailed
  <2>2. Seated(t)' /\ serving_uid'[t] = p
    BY <1>1, <2>1 DEF Seated
  <2>3. OwnComing(t, b)'
    BY <1>1, <2>1 DEF OwnComing, Order
  <2>4. QED
    BY <2>2, <2>3
<1>3. NoneLost'
  <2> SUFFICES ASSUME NEW t \in Shells, NEW c \in Cells,
                      Certain(t)', Alive(t)', Mailed(serving_uid[t], c[1], c[2])'
               PROVE  WakeUp(t, c)'
    BY DEF NoneLost
  <2>1. t # s /\ Certain(t) /\ Alive(t) /\ Mailed(serving_uid[t], c[1], c[2])
    BY <1>1 DEF Certain, Seated, Alive, Mailed
  <2>2. WakeUp(t, c)
    BY <2>1 DEF IInv, MInv, NoneLost
  <2>3. /\ (\E u \in Shells : Putting(u, serving_uid[t], c[1], c[2]))
         => (\E u \in Shells : Putting(u, serving_uid[t], c[1], c[2]))'
        /\ WillSignalItself(t) => WillSignalItself(t)'
    BY <1>1 DEF Putting, WillSignalItself
  <2>4. QED
    BY <1>1, <2>1, <2>2, <2>3 DEF WakeUp, Order
<1>4. QED
  BY <1>2, <1>3 DEF MInv

----------------------------------------------------------------------------
(* The handler                                                             *)

\* The handler of s goes on from the buffer "from", and the buffers before
\* that one are empty or it has been there already.
LEMMA HandlerM ==
  ASSUME IInv, NEW s \in Shells, NEW from \in Nat,
         UNCHANGED <<serving_uid, pc, i, k, after, dead, contested>>,
         \A t \in Shells \ {s} : handler'[t] = handler[t] /\ pending'[t] = pending[t],
         \A p, j \in Positions, b \in Bufs : Mailed(p, j, b)' => Mailed(p, j, b),
         handler'[s] = HandlerAt(s, from),
         \A c \in Cells : Mailed(serving_uid[s], c[1], c[2])' /\ Order(c) < from
           => (handler[s] = Idle \/ ~(Order(handler[s]) <= Order(c))) /\ pending'[s] = pending[s]
  PROVE  MInv'
<1>1. \A t \in Shells : serving_uid[t] \in Positions
  BY DEF IInv, SInv, TypeOK
<1>2. ASSUME NEW c \in Cells, Mailed(serving_uid[s], c[1], c[2]), Order(c) >= from
      PROVE  handler'[s] # Idle /\ Order(handler'[s]) <= Order(c)
  BY <1>2, HandlerIs DEF Mailed
<1>3. OwnMailRead'
  <2> SUFFICES ASSUME NEW p \in Positions, NEW b \in Bufs, p # 0, p \notin contested', Mailed(p, p, b)'
               PROVE  \E t \in Shells : Seated(t)' /\ serving_uid'[t] = p /\ OwnComing(t, b)'
    BY DEF OwnMailRead
  <2>1. PICK t \in Shells : Seated(t) /\ serving_uid[t] = p /\ OwnComing(t, b)
    BY DEF IInv, MInv, OwnMailRead
  <2>2. Seated(t)' /\ serving_uid'[t] = p
    BY <2>1 DEF Seated
  <2>3. CASE t # s \/ s \in dead \/ (pc[t] \in {"tail", "kill"} /\ i[t] = serving_uid[t] /\ k[t] = b)
    <3>1. OwnComing(t, b)'
      BY <2>1, <2>3 DEF OwnComing, Order
    <3>2. QED
      BY <2>2, <3>1
  <2>4. CASE t = s /\ handler[s] # Idle /\ Order(handler[s]) <= Order(<<p, b>>)
    <3> DEFINE c == <<p, b>>
    <3>1. c \in Cells /\ c[1] = p /\ c[2] = b
      BY DEF Cells
    <3> HIDE DEF c
    <3>2. Mailed(serving_uid[s], c[1], c[2]) /\ Mailed(serving_uid[s], c[1], c[2])'
      BY <2>1, <2>4, <3>1
    <3>3. Order(c) >= from
      <4>1. ~(Order(c) < from)
        BY <2>4, <3>1, <3>2 DEF c
      <4>2. QED
        BY <3>1, <4>1, OrderNat
    <3>4. handler'[s] # Idle /\ Order(handler'[s]) <= Order(c)
      BY <1>2, <3>1, <3>2, <3>3
    <3>5. OwnComing(s, b)'
      BY <2>1, <2>4, <3>4 DEF OwnComing, Order, c
    <3>6. QED
      BY <2>2, <2>4, <3>5
  <2>5. QED
    BY <2>1, <2>3, <2>4 DEF OwnComing
<1>4. NoneLost'
  <2> SUFFICES ASSUME NEW t \in Shells, NEW c \in Cells,
                      Certain(t)', Alive(t)', Mailed(serving_uid[t], c[1], c[2])'
               PROVE  WakeUp(t, c)'
    BY DEF NoneLost
  <2>1. Certain(t) /\ Alive(t)
    BY DEF Certain, Seated, Alive
  <2>2. Mailed(serving_uid[t], c[1], c[2])
    BY <1>1 DEF Cells
  <2>3. WakeUp(t, c)
    BY <2>1, <2>2 DEF IInv, MInv, NoneLost
  <2>4. /\ (\E u \in Shells : Putting(u, serving_uid[t], c[1], c[2]))
         => (\E u \in Shells : Putting(u, serving_uid[t], c[1], c[2]))'
        /\ WillSignalItself(t) => WillSignalItself(t)'
    BY DEF Putting, WillSignalItself
  <2>5. CASE t # s
    BY <2>3, <2>4, <2>5 DEF WakeUp, Order
  <2>6. CASE t = s /\ Order(c) >= from
    <3>1. handler'[t] # Idle /\ Order(handler'[t]) <= Order(c)
      BY <1>2, <2>2, <2>6
    <3>2. QED
      BY <3>1 DEF WakeUp, Order
  <2>7. CASE t = s /\ Order(c) < from
    BY <2>3, <2>4, <2>7 DEF WakeUp
  <2>8. QED
    BY <2>5, <2>6, <2>7, OrderNat
<1>5. QED
  BY <1>3, <1>4 DEF MInv

LEMMA DeliverM == ASSUME IInv, NEW s \in Shells, Deliver(s) PROVE MInv'
<1>1. /\ UNCHANGED <<msg, serving_uid, pc, i, k, after, dead, contested>>
      /\ handler'[s] = HandlerAt(s, 0)
      /\ \A t \in Shells \ {s} : handler'[t] = handler[t] /\ pending'[t] = pending[t]
  BY DEF Deliver, Advance, mainVars, IInv, SInv, TypeOK
<1>2. \A c \in Cells : ~(Order(c) < 0)
  BY OrderNat
<1>3. QED
  BY <1>1, <1>2, HandlerM DEF Mailed

LEMMA ShowM == ASSUME IInv, NEW s \in Shells, Show(s) PROVE MInv'
  BY DEF Show, mainVars, IInv, MInv, OwnMailRead, NoneLost, OwnComing, WakeUp, Mailed, Certain, Seated,
     Alive, Putting, WillSignalItself, Order

\* Only the buffer that is cleared lies before the next one and not behind.
LEMMA ClearM == ASSUME IInv, NEW s \in Shells, Clear(s) PROVE MInv'
<1> DEFINE h == handler[s]
<1>1. /\ h \in Cells /\ serving_uid[s] \in Positions
      /\ msg' = Without(serving_uid[s], h[1], h[2])
      /\ handler'[s] = HandlerAt(s, Order(h) + 1)
      /\ \A t \in Shells \ {s} : handler'[t] = handler[t]
      /\ UNCHANGED <<serving_uid, pc, i, k, after, pending, dead, contested>>
  BY DEF Clear, Advance, Without, With, mainVars, IInv, SInv, TypeOK
<1>2. h[1] \in Positions /\ h[2] \in Bufs /\ Order(h) \in Nat /\ h # Idle
  BY <1>1, OrderNat DEF Cells, Clear
<1> HIDE DEF h
<1>3. Heads(msg', serving_uid[s], h[1], h[2], Nobody)
  BY <1>1, <1>2, BufferCleared DEF IInv, SInv
<1>4. \A p, j \in Positions, b \in Bufs : Mailed(p, j, b)' => Mailed(p, j, b)
  BY <1>3 DEF Heads, Mailed
<1>5. \A c \in Cells : Mailed(serving_uid[s], c[1], c[2])' => ~(c[1] = h[1] /\ c[2] = h[2])
  BY <1>1, <1>2, <1>3 DEF Heads, Mailed, Cells
<1>6. ASSUME NEW c \in Cells, Mailed(serving_uid[s], c[1], c[2])', Order(c) < Order(h) + 1
      PROVE  ~(Order(h) <= Order(c))
  <2>1. Order(c) # Order(h)
    BY <1>1, <1>5, <1>6, OrderInjective
  <2>2. QED
    BY <1>2, <1>6, <2>1, OrderNat
<1>7. Order(h) + 1 \in Nat
  BY <1>2
<1>8. QED
  BY <1>1, <1>4, <1>6, <1>7, HandlerM DEF h

LEMMA NextM == IInv /\ [Next]_vars => MInv'
<1> SUFFICES ASSUME IInv, [Next]_vars PROVE MInv'
  OBVIOUS
<1>1. CASE UNCHANGED vars
  BY <1>1 DEF vars, regVars, mainVars, sigVars, IInv, MInv, OwnMailRead, NoneLost, OwnComing,
     WakeUp, Mailed, Certain, Seated, Alive, Putting, WillSignalItself, Order
<1>2. QED
  BY <1>1, ClaimM, ServeM, GreetM, VisitM, PutM, WriteTailM, KillM, CommandM, WipeM,
     DisconnectM, DeliverM, ShowM, ClearM
  DEF Next, Main, User, Handle, Done

----------------------------------------------------------------------------
(* Theorems                                                                *)

\* The inductive invariant: types and places, one keeper for each position
\* that is not in doubt, and a wake-up for all mail in it.
THEOREM Invariance == Spec => []IInv
<1>1. Init => IInv
  BY InitS, InitM DEF IInv
<1>2. IInv /\ [Next]_vars => IInv'
  BY NextS, NextM DEF IInv
<1>3. QED
  BY <1>1, <1>2, PTL DEF Spec

\* Every variable keeps its type (insert_client, broadcast, remove_client).
THEOREM TypeCorrect == Spec => []TypeOK
<1>1. IInv => TypeOK
  BY DEF IInv, SInv
<1>2. QED
  BY <1>1, Invariance, PTL

\* A position belongs to the shell that claimed it until it is given up, as
\* long as no newcomer found it free while another shell was claiming it or
\* wiping it (insert_client and remove_client take no lock).
THEOREM PositionsOwned == Spec => []SeatsOwned
<1>1. IInv => SeatsOwned
  BY SeatsAre DEF IInv
<1>2. QED
  BY <1>1, Invariance, PTL

\* No message is left in a mailbox without a signal to come for it, unless
\* its sender died before it could send it (broadcast, tell and the SIGUSR1
\* handler, which misses signals while it runs).
THEOREM MailWakes == Spec => []NoLostWakeup
<1>1. IInv => NoLostWakeup
  BY NoneLostIs DEF IInv, MInv
<1>2. QED
  BY <1>1, Invariance, PTL
===============================================================================
