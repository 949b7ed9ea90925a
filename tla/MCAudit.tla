---------------------------- MODULE MCAudit ----------------------------
(***************************************************************************)
(* Instances of Audit for TLC; see MCService for the readings.          *)
(***************************************************************************)
EXTENDS Audit

MCGpuDuty == [p \in 1..ManualMax |-> p]
MCActivation == [s \in Sensors |-> 2]
MCRelease == [s \in Sensors |-> 0]

=============================================================================
