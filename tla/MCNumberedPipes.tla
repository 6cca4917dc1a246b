-------------------------- MODULE MCNumberedPipes --------------------------
(***************************************************************************)
(* Instances of NumberedPipes for TLC.  SliceSize is 2 instead of 50 and   *)
(* lines have up to MaxCmds commands, so that lines of one, two and three  *)
(* slices occur; Depth is a little more than the largest N.                *)
(***************************************************************************)
EXTENDS NumberedPipes

NearDests == 0..2
PlainBangs == {FALSE}
AllBangs == BOOLEAN
============================================================================
