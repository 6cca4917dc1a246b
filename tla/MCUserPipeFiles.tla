-------------------------- MODULE MCUserPipeFiles --------------------------
(***************************************************************************)
(* Instances of UserPipeFiles for TLC: users who pipe to each other and    *)
(* read each other's pipes.                                                *)
(***************************************************************************)
EXTENDS UserPipeFiles

TwoUsers == {1, 2}

\* cmd >1, cmd >2, cmd <1, cmd <2; cmd <2 >1 and cmd <2 | cmd >1, which may
\* fail after a pipe has been opened or a command started; cmd <2 | cmd <2.
SomeLines ==
    {<<[from |-> f, to |-> 0]>> : f \in {1, 2}}
    \cup {<<[from |-> 0, to |-> t]>> : t \in {1, 2}}
    \cup {<<[from |-> 2, to |-> 1]>>,
          <<[from |-> 2, to |-> 0], [from |-> 0, to |-> 1]>>,
          <<[from |-> 2, to |-> 0], [from |-> 2, to |-> 0]>>}
=============================================================================
