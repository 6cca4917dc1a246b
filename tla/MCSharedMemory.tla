--------------------------- MODULE MCSharedMemory ---------------------------
(***************************************************************************)
(* Instances of SharedMemory for TLC: two shells, three positions, one     *)
(* message buffer for each pair, and up to two newcomers.                  *)
(***************************************************************************)
EXTENDS SharedMemory

CONSTANTS u1, u2, alice

TwoShells == {u1, u2}
NoNames == {}
OneName == {alice}

\* Where the other client's mail is, whichever of the two positions u1 has.
Theirs == <<3 - serving_uid[u1], 1>>

\* Every message that the other client puts into a client's mailbox is shown to
\* it.  Nothing tells the two shells apart, so what holds of one holds of the
\* other.
MailRead == HasMail(u1, Theirs) ~> Settled(u1, Theirs)
=============================================================================
