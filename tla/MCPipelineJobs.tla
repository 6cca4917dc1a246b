--------------------------- MODULE MCPipelineJobs ---------------------------
(***************************************************************************)
(* Instances of PipelineJobs for TLC: three lines of up to two commands,   *)
(* pipes of one or two units.                                              *)
(***************************************************************************)
EXTENDS PipelineJobs

NearDests == 0..2
PlainBangs == {FALSE}
OneUnit == {1}
OneOrTwo == {1, 2}
=============================================================================
