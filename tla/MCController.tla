---------------------------- MODULE MCController ----------------------------
(***************************************************************************)
(* Instances of Controller for TLC; see MCService for readings.          *)
(***************************************************************************)
EXTENDS Controller

MCGpuDuty == [p \in 1..ManualMax |-> p]
MCActivation == [s \in Sensors |-> 2]
MCRelease == [s \in Sensors |-> 0]

=============================================================================
