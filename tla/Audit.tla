------------------------------- MODULE Audit -------------------------------
(***************************************************************************)
(* Controller with two history variables: how long the fans have been in   *)
(* Max, and which sensors called for control since the fans were last      *)
(* given back or left an emergency.                                        *)
(***************************************************************************)
EXTENDS Controller

VARIABLES
  maxHeld,   \* ticks the fans have been in Max without interruption, up to Hold
  everHot    \* sensors that reached their activation threshold in this cycle

auditVars == <<vars, maxHeld, everHot>>

AuditInit == Init /\ maxHeld = 0 /\ everHot = {}

HoldMaximum ==
  maxHeld' = IF mode # "max" \/ mode' # "max" THEN 0
             ELSE IF pc \in {"wait", "read"} /\ Tick THEN Least(maxHeld + 1, Hold)
             ELSE maxHeld

CycleEnds == (emergency /\ ~emergency') \/ (manualActive /\ ~manualActive')

RememberHeat ==
  everHot' = IF CycleEnds THEN {}
             ELSE IF pc' = "decide" THEN everHot \cup ActivationSources(snapshot')
             ELSE everHot

AuditNext == Next /\ HoldMaximum /\ RememberHeat

AuditSpec == AuditInit /\ [][AuditNext]_auditVars

\* The step that takes Manual control after a maximum the daemon selected.
MaximumEnds ==
  mode = "max" /\ modeBy = "daemon" /\ mode' = "manual" /\ modeBy' = "daemon"

\* Max selected by the daemon is left only after it has been held for the
\* configured time (README: Max has been held for at least 10 seconds).  A read
\* that takes time breaks it.
MaximumHeldLongEnough == [][ MaximumEnds => maxHeld >= Hold ]_auditVars

\* What the code keeps of it: Max is left early by no more than the time of one
\* sensor read, whatever early wakings, failed reads and repeated emergencies
\* come in between, because emergency_since is the clock sampled before the read
\* that asked for Max and is set once (run, _maximum).
MaximumHeldButForARead == [][ MaximumEnds => maxHeld + SlowRead >= Hold ]_auditVars

\* The fans are not given back to the firmware, by the loop or by a stop,
\* without a reading from each sensor that called for control in this cycle;
\* only a GPU in runtime suspend and a source that aged out are exempt
\* (missing_activated_sensors).
LostSensorBlocksAuto ==
  [][ at = "enable" /\ op = "restore_auto" /\ modeBy' = "daemon" /\ mode' = "auto"
        => \A s \in everHot \ Optional :
             s \in Present(snapshot) \/ (s = "gpu" /\ snapshot.asleep) ]_auditVars

=============================================================================
