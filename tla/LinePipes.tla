------------------------------ MODULE LinePipes ------------------------------
(***************************************************************************)
(* What a numbered pipe promises its user, with no pipe, descriptor or     *)
(* process in sight: the output of a line that ends in |N is read by the   *)
(* N-th line after it, together with the output of every other line that   *)
(* was directed there, and by no other line.  A builtin line counts, reads *)
(* nothing, and what was directed at it is lost.  What a line is to do is  *)
(* what the user has typed; only a line of very many commands may lose its *)
(* output, and must not send it anywhere else.                             *)
(***************************************************************************)
EXTENDS Naturals, Sequences

CONSTANTS
    Horizon,       \* how many lines ahead output can be directed
    CommandLines,  \* what may be typed: [n, dest, ...], n = 0 for a builtin
    Sure           \* with so many commands a line does not lose its output

VARIABLES
    typed,     \* the lines typed so far
    launched,  \* how many of them have been launched
    due,       \* due[k]: the lines whose output awaits line launched + 1 + k
    delivered  \* <<l, m>>: line m was given the output of line l

vars == <<typed, launched, due, delivered>>

Init ==
    /\ typed = << >>
    /\ launched = 0
    /\ due = [k \in 0..(Horizon - 1) |-> {}]
    /\ delivered = {}

Later(k) == IF k + 1 < Horizon THEN due[k + 1] ELSE {}

\* How far ahead the output of a line may go, 0 for nowhere.
Reaches(l) == IF l.n <= Sure THEN {l.dest} ELSE {l.dest, 0}

Type(l) ==
    /\ l.n > 0
    /\ launched = Len(typed)
    /\ typed' = Append(typed, l)
    /\ UNCHANGED <<launched, due, delivered>>

\* The line typed is launched: it reads what is due and its own output becomes
\* due N lines later.
Launch(N) ==
    /\ launched < Len(typed)
    /\ N \in Reaches(typed[launched + 1])
    /\ launched' = launched + 1
    /\ delivered' = delivered \cup {<<l, launched + 1>> : l \in due[0]}
    /\ due' = [k \in 0..(Horizon - 1) |->
                 IF N # 0 /\ k + 1 = N
                 THEN Later(k) \cup {launched + 1}
                 ELSE Later(k)]
    /\ UNCHANGED typed

Builtin(l) ==
    /\ l.n = 0
    /\ launched = Len(typed)
    /\ typed' = Append(typed, l)
    /\ launched' = launched + 1
    /\ due' = [k \in 0..(Horizon - 1) |-> Later(k)]
    /\ UNCHANGED delivered

Next ==
    \/ \E l \in CommandLines : Type(l) \/ Builtin(l)
    \/ \E N \in 0..Horizon : Launch(N)

Spec == Init /\ [][Next]_vars
==============================================================================
