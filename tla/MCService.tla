----------------------------- MODULE MCService -----------------------------
(***************************************************************************)
(* Instances of Service for TLC: one fan channel and the CPU sensor, with  *)
(* readings 0 (cool enough for Auto), 1 (cool enough for a stop), 2 (needs *)
(* control) and 3 (critical).                                              *)
(***************************************************************************)
EXTENDS Service

MCGpuDuty == [p \in 1..ManualMax |-> p]
MCActivation == [s \in Sensors |-> 2]
MCRelease == [s \in Sensors |-> 0]

=============================================================================
