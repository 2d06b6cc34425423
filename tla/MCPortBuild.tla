----------------------------- MODULE MCPortBuild -----------------------------
(* Instances of PortBuild for TLC.                                         *)
EXTENDS PortBuild

AllGoals == Stages
=============================================================================
