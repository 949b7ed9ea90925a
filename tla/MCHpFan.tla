------------------------------ MODULE MCHpFan ------------------------------
(***************************************************************************)
(* HpFan for TLC, with a history variable that counts the consecutive      *)
(* update_manual calls that found the fans back in Auto.                   *)
(***************************************************************************)
EXTENDS HpFan

VARIABLE losses

\* Gpu level table of the instances: the GPU channel runs one above the CPU.
MCGpuDuty == [p \in 1..2 |-> p + 1]

LossesBound == 2

MCInit == FanInit /\ losses = 0

CountLosses ==
  losses' = CASE at = "read" /\ mode = "auto" /\ at' # "read" ->
                   IF losses < LossesBound THEN losses + 1 ELSE losses
              [] at = "read" /\ mode \in {"manual", "max"} /\ at' # "read" -> 0
              [] Idle /\ op' \in {"set_manual", "set_maximum", "restore_auto"} -> 0
              [] OTHER -> losses

MCNext == FanNext /\ CountLosses

MCSpec == MCInit /\ [][MCNext]_<<fanVars, losses>>

\* Manual mode lost twice in a row, with no tick in between that found it in
\* place, is never recovered a second time: the second loss is an error the
\* controller sees (update_manual, _manual_recovery_pending).
RecoversAtMostOnce ==
  losses = LossesBound => Idle /\ result = "error"

=============================================================================
