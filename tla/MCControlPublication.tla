------------------------ MODULE MCControlPublication ------------------------
(* Instances of ControlPublication for TLC.                                *)
EXTENDS ControlPublication

MCFaultCases == {{"death"}, {"bootout"}}
MCPruneCase == {{"prune"}}
=============================================================================
