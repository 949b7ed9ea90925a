---------------------------- MODULE AuditProofs ----------------------------
(***************************************************************************)
(* Proofs about the histories of Audit: the firmware gets the fans back    *)
(* only with a reading from every sensor that called for control, and Max  *)
(* is held for the configured time but for one sensor read.                *)
(***************************************************************************)
EXTENDS Audit, ControllerProofs

\* The histories change nothing of the controller.
LEMMA AuditIsController == AuditSpec => Spec
  <1>1. AuditInit => Init
    BY DEF AuditInit
  <1>2. [AuditNext]_auditVars => [Next]_vars
    BY DEF AuditNext, auditVars
  <1>3. QED
    BY <1>1, <1>2, PTL DEF AuditSpec, Spec

-----------------------------------------------------------------------------
(* Sensors that called for control.                                        *)

\* A decision to give the fans back has been taken.
Returning == {"restore.call", "handoff", "handoff.call"}

\* What called for control in this cycle is remembered by the policy, but for
\* the sources that may age out, and is there when the fans are given back.
HeatInv ==
  /\ everHot \ Optional \subseteq activated
  /\ pc = "decide" => ActivationSources(snapshot) \ Optional \subseteq activated
  /\ pc = "restore.call" => manualActive
  /\ pc \in Returning => MissingActivated(activated, snapshot) = {}

\* Observing a sample forgets none but the optional sources.
LEMMA Remembers ==
  ASSUME NEW a, NEW m, NEW s
  PROVE  (a \cup ActivationSources(s)) \ Optional \subseteq Activated(a, m, s)
  BY DEF Activated

\* Steps that keep sample and memory, and take no decision.
LEMMA HeatKept ==
  ASSUME HeatInv, RememberHeat, UNCHANGED <<activated, snapshot>>,
         pc' \in {"decide"} \cup Returning => pc' = pc /\ manualActive' = manualActive
  PROVE  HeatInv'
  <1>1. everHot' \ Optional \subseteq activated'
    BY DEF HeatInv, RememberHeat
  <1>2. QED
    BY <1>1 DEF HeatInv, Returning

\* Every step of the controller keeps it.
LEMMA HeatStep == HeatInv /\ [AuditNext]_auditVars => HeatInv'
  <1> SUFFICES ASSUME HeatInv, [AuditNext]_auditVars PROVE HeatInv'
    OBVIOUS
  <1> USE DEF memory, ownership, sampleVars, policyVars, Goto, Call, Returning
  <1>1. CASE UNCHANGED auditVars
    BY <1>1 DEF auditVars, vars, controllerVars, HeatInv
  <1>2. CASE AuditNext
    <2>0. RememberHeat
      BY <1>2 DEF AuditNext
    <2>1. CASE Adopt \/ OpenMonitor \/ LeaveLoop \/ TopOfLoop
      BY <2>0, <2>1, HeatKept DEF Adopt, OpenMonitor, LeaveLoop, TopOfLoop
    <2>2. CASE ReadFails
      <3>1. activated' = activated /\ pc' \in {"max", "wait"}
        BY <2>2 DEF ReadFails
      <3>2. everHot' \subseteq everHot
        BY <2>0, <3>1 DEF RememberHeat
      <3>3. QED
        BY <3>1, <3>2 DEF HeatInv
    <2>3. CASE ReadSucceeds
      <3>1. pc' = "decide" /\ activated' = Activated(activated, missed, snapshot')
        BY <2>3 DEF ReadSucceeds
      <3>2. everHot' \subseteq everHot \cup ActivationSources(snapshot')
        BY <2>0, <3>1 DEF RememberHeat
      <3>3. (activated \cup ActivationSources(snapshot')) \ Optional \subseteq activated'
        BY <3>1, Remembers
      <3>4. QED
        BY <3>1, <3>2, <3>3 DEF HeatInv
    <2>4. CASE SelectMaximum \/ StayAuto \/ Control
      BY <2>0, <2>4, HeatKept DEF SelectMaximum, StayAuto, Control
    <2>5. CASE LeaveEmergency
      <3>1. emergency /\ ~emergency' /\ pc' \in {"apply", "finally"}
        BY <2>5 DEF LeaveEmergency, MayLeaveEmergency, GiveUpEmergency
      <3>2. everHot' = {}
        BY <2>0, <3>1 DEF RememberHeat, CycleEnds
      <3>3. QED
        BY <3>1, <3>2 DEF HeatInv
    <2>6. CASE Maximum \/ MaximumReturns \/ MaximumSelected
      BY <2>0, <2>6, HeatKept DEF Maximum, MaximumReturns, MaximumSelected
    <2>7. CASE Restore
      <3>1. /\ pc' = "restore.call" /\ UNCHANGED <<activated, snapshot, manualActive>>
            /\ manualActive /\ MissingActivated(activated, snapshot) = {}
        BY <2>7 DEF Restore, CoolHandoff, CoolEnough
      <3>2. everHot' \subseteq everHot
        BY <2>0, <3>1 DEF RememberHeat
      <3>3. QED
        BY <3>1, <3>2 DEF HeatInv
    <2>8. CASE RestoreReturns
      <3>1. manualActive /\ ~manualActive' /\ pc' \in {"wait", "finally"}
        BY <2>8 DEF RestoreReturns, HeatInv
      <3>2. everHot' = {}
        BY <2>0, <3>1 DEF RememberHeat, CycleEnds
      <3>3. QED
        BY <3>1, <3>2 DEF HeatInv
    <2>9. CASE RestoreFails \/ ApplyDry \/ TakeManual \/ KeepManual \/ ManualTaken \/ ManualKept
               \/ ApplyFails
      BY <2>0, <2>9, HeatKept DEF RestoreFails, ApplyDry, TakeManual, KeepManual, ManualTaken,
         ManualKept, ApplyFails
    <2>10. CASE Wait \/ SlowSensors \/ Suspend \/ RequestStop
      BY <2>0, <2>10, HeatKept DEF Wait, SlowSensors, Suspend, RequestStop
    <2>11. CASE Finally
      <3>1. CASE MayHandOff /\ pc' = "handoff"
        <4>1. /\ UNCHANGED <<activated, snapshot>>
              /\ MissingActivated(activated, snapshot) = {}
          BY <2>11, <3>1 DEF Finally, MayHandOff, CoolEnoughToStop
        <4>2. everHot' \subseteq everHot
          BY <2>0, <3>1 DEF RememberHeat
        <4>3. QED
          BY <3>1, <4>1, <4>2 DEF HeatInv
      <3>2. CASE pc' = "failsafe"
        BY <2>0, <2>11, <3>2, HeatKept DEF Finally
      <3>3. QED
        BY <2>11, <3>1, <3>2 DEF Finally
    <2>12. CASE Handoff
      <3>1. /\ pc = "handoff" /\ pc' \in {"handoff.clear", "handoff.call", "failsafe"}
            /\ UNCHANGED <<activated, snapshot>>
        BY <2>12 DEF Handoff
      <3>2. everHot' \subseteq everHot
        BY <2>0, <3>1 DEF RememberHeat
      <3>3. QED
        BY <3>1, <3>2 DEF HeatInv
    <2>13. CASE FinallyQuiet \/ HandoffReturns \/ HandoffClears \/ FailsafeReturns
                \/ FailsafeClears
      BY <2>0, <2>13, HeatKept DEF FinallyQuiet, HandoffReturns, HandoffClears,
         FailsafeReturns, FailsafeClears
    <2>14. CASE AdapterStep \/ (FanEnvironment /\ UNCHANGED controllerVars)
      BY <2>0, <2>14, HeatKept DEF AdapterStep, controllerVars
    <2>15. QED
      BY <1>2, <2>1, <2>2, <2>3, <2>4, <2>5, <2>6, <2>7, <2>8, <2>9, <2>10, <2>11, <2>12,
         <2>13, <2>14
      DEF AuditNext, Next, ProcessStep, LoopStep, StopStep, Environment
  <1>3. QED
    BY <1>1, <1>2

\* Whatever fails, is missed or is interrupted in between, neither the loop nor a
\* stop gives the fans back on a sample that lacks a sensor which called for
\* control in this cycle (missing_activated_sensors, observe_activations).
THEOREM AutoNeedsEverySensor == AuditSpec => LostSensorBlocksAuto
  <1> DEFINE Gives == at = "enable" /\ op = "restore_auto"
             Seen == \A s \in everHot \ Optional :
                       s \in Present(snapshot) \/ (s = "gpu" /\ snapshot.asleep)
  <1>1. FullInv /\ HeatInv => (Gives => Seen)
    <2> SUFFICES ASSUME FullInv, HeatInv, Gives PROVE Seen
      OBVIOUS
    <2>1. pc \in Returning
      BY DEF FullInv, BaseInv, Waiting, CallPoints, WritingPoints, Returning, Idle
    <2>2. QED
      BY <2>1 DEF HeatInv, MissingActivated
  <1>2. AuditInit => HeatInv
    BY DEF AuditInit, Init, ControllerInit, HeatInv, Returning
  <1>3. (Gives => Seen) => (Gives /\ modeBy' = "daemon" /\ mode' = "auto" => Seen)
    OBVIOUS
  <1>4. AuditSpec => []FullInv
    BY AuditIsController, FullInvariant, PTL
  <1> HIDE DEF Seen
  <1>5. AuditSpec => [][Gives /\ modeBy' = "daemon" /\ mode' = "auto" => Seen]_auditVars
    BY <1>1, <1>2, <1>3, <1>4, HeatStep, PTL DEF AuditSpec
  <1>6. QED
    BY <1>5 DEF Seen, LostSensorBlocksAuto

-----------------------------------------------------------------------------
(* How long Max is held.                                                   *)

\* The daemon has the fans in Max; it has held them for the configured time,
\* which counts from the clock sampled before the read that asked for Max.
DaemonMax == mode = "max" /\ modeBy = "daemon"
HeldEnough == maxHeld + SlowRead >= Hold

HoldShape ==
  /\ maxHeld \in 0..Hold
  /\ emergency <=> holdLeft # Never

\* What is left of the hold and what has passed of it make up the whole; an
\* expired hold is believed only until the next sample of the clock.
HoldInv ==
  /\ HoldShape
  /\ Apply =>
       /\ DaemonMax /\ emergency /\ Unbroken => holdLeft + maxHeld + SlowRead >= Hold
       /\ DaemonMax /\ emergency /\ held /\ pc \in {"read", "decide"} => HeldEnough
       /\ DaemonMax /\ pc \in {"apply", "apply.set"} => HeldEnough
       /\ pc = "max.call" => ~emergency /\ (result = "ok" => modeBy = "daemon")
       /\ modeBy = "other" /\ emergency => mode = "max"
       /\ modeBy = "other" /\ pc = "max.clear" => mode = "max"

\* The count never falls while Max lasts, and a tick of the clock raises it.
LEMMA HoldMaximumShape ==
  ASSUME maxHeld \in 0..Hold, HoldMaximum \/ UNCHANGED auditVars
  PROVE  /\ maxHeld' \in 0..Hold
         /\ mode = "max" /\ mode' = "max" => maxHeld' >= maxHeld
         /\ mode = "max" /\ mode' = "max" /\ HoldMaximum /\ pc \in {"wait", "read"} /\ Tick
              => maxHeld' >= maxHeld + 1 \/ maxHeld' = Hold
  <1>1. CASE UNCHANGED auditVars
    <2>1. maxHeld' = maxHeld
      BY <1>1 DEF auditVars
    <2>2. HoldMaximum /\ mode = "max" /\ mode' = "max" /\ pc \in {"wait", "read"} /\ Tick
            => maxHeld' = Least(maxHeld + 1, Hold)
      BY DEF HoldMaximum
    <2>3. QED
      BY <2>1, <2>2, ControllerAssumption DEF ControllerAssumption, Least
  <1>2. CASE HoldMaximum
    <2>1. 0 \in 0..Hold /\ Least(maxHeld + 1, Hold) \in 0..Hold
          /\ Least(maxHeld + 1, Hold) >= maxHeld
          /\ (Least(maxHeld + 1, Hold) >= maxHeld + 1 \/ Least(maxHeld + 1, Hold) = Hold)
      BY ControllerAssumption DEF ControllerAssumption, Least
    <2>2. /\ maxHeld' \in {0, maxHeld, Least(maxHeld + 1, Hold)}
          /\ mode = "max" /\ mode' = "max" => maxHeld' \in {maxHeld, Least(maxHeld + 1, Hold)}
          /\ mode = "max" /\ mode' = "max" /\ pc \in {"wait", "read"} /\ Tick
               => maxHeld' = Least(maxHeld + 1, Hold)
      BY <1>2 DEF HoldMaximum
    <2>3. QED
      BY <2>1, <2>2
  <1>3. QED
    BY <1>1, <1>2

\* What has been held long enough stays so as the count grows.
LEMMA HeldLonger ==
  ASSUME NEW m \in Int, NEW n \in Int, NEW l \in Int, NEW s \in Int, NEW h \in Int, n >= m
  PROVE  /\ m + s >= h => n + s >= h
         /\ l + m + s >= h => l + n + s >= h
  OBVIOUS

\* Nothing is missing where all of the hold is left.
LEMMA WholeHold ==
  ASSUME NEW h \in Nat, NEW m \in Nat, NEW s \in Nat
  PROVE  h + m + s >= h
  OBVIOUS

\* Steps that leave mode and ownership leave what is counted.
LEMMA HoldCounts ==
  ASSUME HoldInv, TimesOK, HoldMaximum \/ UNCHANGED auditVars,
         UNCHANGED <<mode, modeBy, emergency, holdLeft>>, Unbroken' => Unbroken
  PROVE  /\ HoldShape'
         /\ DaemonMax' => DaemonMax /\ (HeldEnough => HeldEnough')
         /\ Apply =>
              /\ DaemonMax' /\ emergency' /\ Unbroken'
                   => holdLeft' + maxHeld' + SlowRead >= Hold
              /\ modeBy' = "other" /\ emergency' => mode' = "max"
  <1>1. /\ maxHeld \in 0..Hold /\ maxHeld' \in 0..Hold
        /\ DaemonMax' => DaemonMax /\ maxHeld' >= maxHeld
    BY HoldMaximumShape DEF HoldInv, HoldShape, DaemonMax
  <1>2. HoldShape'
    BY <1>1 DEF HoldInv, HoldShape, Never
  <1>3. /\ maxHeld \in Int /\ maxHeld' \in Int /\ SlowRead \in Int /\ Hold \in Int
        /\ holdLeft \in Int /\ holdLeft' = holdLeft
    BY <1>1, ControllerAssumption DEF ControllerAssumption, TimesOK, Never
  <1>4. DaemonMax' => (HeldEnough => HeldEnough')
    <2>1. DaemonMax' => (maxHeld + SlowRead >= Hold => maxHeld' + SlowRead >= Hold)
      BY <1>1, <1>3, HeldLonger
    <2>2. QED
      BY <2>1 DEF HeldEnough
  <1>5. DaemonMax' => (holdLeft + maxHeld + SlowRead >= Hold
                         => holdLeft' + maxHeld' + SlowRead >= Hold)
    BY <1>1, <1>3, HeldLonger
  <1>6. QED
    BY <1>1, <1>2, <1>4, <1>5 DEF HoldInv

\* So do those that come to no place of interest.
LEMMA HoldQuiet ==
  ASSUME HoldInv, TimesOK, HoldMaximum \/ UNCHANGED auditVars,
         UNCHANGED <<mode, modeBy, emergency, holdLeft>>, Unbroken' => Unbroken,
         pc' \in {"read", "decide"} => pc \in {"read", "decide"} /\ held' = held,
         pc' \in {"apply", "apply.set"} => pc \in {"apply", "apply.set"},
         pc' \in {"max.call", "max.clear"} => pc' = pc /\ UNCHANGED result
  PROVE  HoldInv'
  BY HoldCounts DEF HoldInv

\* A tick takes from the rest of the hold no more than it adds to the count.
LEMMA HoldTicks ==
  ASSUME HoldInv, TimesOK, HoldMaximum, Tick, UNCHANGED <<mode, modeBy, emergency>>,
         pc \in {"wait", "read"}, pc' \in {"top", "read"},
         pc' = "read" => pc = "read" /\ held' = held
  PROVE  HoldInv'
  <1>1. /\ maxHeld \in 0..Hold /\ maxHeld' \in 0..Hold
        /\ DaemonMax' => /\ DaemonMax /\ maxHeld' >= maxHeld
                         /\ maxHeld' >= maxHeld + 1 \/ maxHeld' = Hold
    BY HoldMaximumShape DEF HoldInv, HoldShape, DaemonMax
  <1>2. /\ holdLeft' = Never <=> holdLeft = Never
        /\ holdLeft # Never => holdLeft \in Nat /\ holdLeft' \in Nat /\ holdLeft' >= holdLeft - 1
    BY ControllerAssumption DEF ControllerAssumption, TimesOK, Tick, Left, Never
  <1>3. maxHeld \in Int /\ maxHeld' \in Int /\ SlowRead \in Nat /\ Hold \in Int
    BY <1>1, ControllerAssumption DEF ControllerAssumption
  <1>4. HoldShape'
    BY <1>1, <1>2 DEF HoldInv, HoldShape, Never
  <1>5. DaemonMax' => (HeldEnough => HeldEnough')
    <2>1. 0 \in Int /\ SlowRead \in Int
      BY <1>3
    <2>2. DaemonMax' => (maxHeld + SlowRead >= Hold => maxHeld' + SlowRead >= Hold)
      BY <1>1, <1>3, <2>1, HeldLonger
    <2>3. QED
      BY <2>2 DEF HeldEnough
  <1>6. DaemonMax' /\ holdLeft # Never => (holdLeft + maxHeld + SlowRead >= Hold
                         => holdLeft' + maxHeld' + SlowRead >= Hold)
    BY <1>1, <1>2, <1>3
  <1>7. emergency => holdLeft # Never
    BY DEF HoldInv, HoldShape
  <1>8. Apply /\ DaemonMax' /\ emergency' /\ Unbroken'
          => holdLeft' + maxHeld' + SlowRead >= Hold
    <2>1. Apply /\ DaemonMax /\ emergency => holdLeft + maxHeld + SlowRead >= Hold
      BY DEF HoldInv, Unbroken, LoopPoints
    <2>2. QED
      BY <1>1, <1>6, <1>7, <2>1
  <1>9. QED
    BY <1>1, <1>4, <1>5, <1>8 DEF HoldInv

\* The steps of the loop that neither take nor leave an emergency.
LEMMA HoldLoop ==
  ASSUME HoldInv, TimesOK, HoldMaximum,
         \/ OpenMonitor \/ LeaveLoop \/ ReadFails \/ ReadSucceeds \/ SelectMaximum \/ StayAuto
         \/ Restore \/ RestoreFails \/ ApplyDry \/ TakeManual \/ KeepManual
         \/ ManualTaken \/ ManualKept \/ ApplyFails \/ Suspend \/ RequestStop \/ StopStep
  PROVE  HoldInv'
  <1> USE HoldQuiet DEF Unbroken, LoopPoints, memory, ownership, localVars, fanVars, hw, Goto, Call
  <1>1. CASE OpenMonitor \/ LeaveLoop \/ ReadFails \/ ReadSucceeds
    BY <1>1 DEF OpenMonitor, LeaveLoop, ReadFails, ReadSucceeds
  <1>2. CASE SelectMaximum \/ StayAuto \/ RestoreFails \/ ApplyDry
    BY <1>2 DEF SelectMaximum, StayAuto, RestoreFails, ApplyDry
  <1>3. CASE Restore
    BY <1>3 DEF Restore, RestoreCall, RestoreAuto, Begin
  <1>4. CASE TakeManual
    BY <1>4 DEF TakeManual, SetManual, Begin, Refuse
  <1>5. CASE KeepManual
    BY <1>5 DEF KeepManual, UpdateManual, Begin, Refuse
  <1>6. CASE ManualTaken \/ ManualKept \/ ApplyFails
    BY <1>6 DEF ManualTaken, ManualKept, ApplyFails
  <1>7. CASE Suspend \/ RequestStop
    BY <1>7 DEF Suspend, RequestStop, call
  <1>8. CASE StopStep
    BY <1>8 DEF StopStep, Finally, FinallyQuiet, Handoff, HandoffReturns, HandoffClears,
       FailsafeReturns, FailsafeClears, SetMaximum, RestoreAuto, Begin
  <1>9. QED
    BY <1>1, <1>2, <1>3, <1>4, <1>5, <1>6, <1>7, <1>8

\* The hold begins with the adoption of Max or with the clock of the loop's top.
LEMMA HoldBegins ==
  ASSUME FullInv, HoldInv, HoldMaximum, Adopt \/ MaximumSelected
  PROVE  HoldInv'
  <1>1. UNCHANGED <<mode, modeBy>>
    BY DEF Adopt, MaximumSelected, fanVars, hw
  <1>2. /\ maxHeld \in 0..Hold /\ maxHeld' \in 0..Hold
        /\ DaemonMax' => DaemonMax /\ maxHeld' >= maxHeld
    BY <1>1, HoldMaximumShape DEF HoldInv, HoldShape, DaemonMax
  <1>3. /\ Hold \in Nat /\ SlowRead \in Nat /\ lag \in 0..SlowRead
        /\ holdLeft \in {Never} \cup 0..Hold
    BY ControllerAssumption DEF ControllerAssumption, FullInv, BaseInv, ControlOK, TimesOK
  <1>4. CASE Adopt
    <2>1. CASE mode = "max" /\ emergency' = TRUE /\ holdLeft' = Hold /\ pc' = "monitor"
      <3>1. HoldShape'
        BY <1>2, <1>3, <2>1 DEF HoldShape, Never
      <3>2. maxHeld' \in Nat
        BY <1>2
      <3>3. Hold + maxHeld' + SlowRead >= Hold
        BY <1>3, <3>2, WholeHold
      <3>4. QED
        BY <1>1, <2>1, <3>1, <3>3 DEF HoldInv
    <2>2. CASE UNCHANGED <<emergency, holdLeft>> /\ pc' \in {"monitor", "exit"}
      BY <1>1, <1>4, <2>2, HoldQuiet DEF Adopt, Unbroken, FullInv, BaseInv, ControlOK
    <2>3. QED
      BY <1>4, <2>1, <2>2 DEF Adopt, ownership, Goto
  <1>5. CASE MaximumSelected
    <2>1. CASE emergency' = TRUE /\ holdLeft' = HoldDeadline /\ pc' = "wait"
      <3>1. holdLeft = Never => holdLeft' \in Nat /\ holdLeft' + SlowRead >= Hold
        BY <1>3, <2>1 DEF HoldDeadline, Greatest
      <3>2. holdLeft # Never => holdLeft' = holdLeft /\ holdLeft \in Nat
        BY <1>3, <2>1 DEF HoldDeadline
      <3>3. HoldShape'
        BY <1>2, <2>1, <3>1, <3>2 DEF HoldShape, Never
      <3>4. pc = "max.clear"
        BY <1>5 DEF MaximumSelected
      <3>5. ASSUME Apply, DaemonMax'
            PROVE  holdLeft' + maxHeld' + SlowRead >= Hold
        <4>1. CASE holdLeft = Never
          BY <1>2, <1>3, <3>1, <4>1
        <4>2. CASE holdLeft # Never
          <5>1. holdLeft + maxHeld + SlowRead >= Hold
            BY <1>2, <3>4, <3>5, <4>2 DEF HoldInv, HoldShape, Unbroken, LoopPoints
          <5>2. QED
            BY <1>2, <1>3, <3>2, <3>5, <4>2, <5>1
        <4>3. QED
          BY <4>1, <4>2
      <3>6. Apply /\ modeBy' = "other" => mode' = "max"
        BY <1>1, <3>4 DEF HoldInv
      <3>7. QED
        BY <2>1, <3>3, <3>5, <3>6 DEF HoldInv
    <2>2. CASE UNCHANGED <<emergency, holdLeft>> /\ pc' = "finally"
      BY <1>1, <2>2, HoldQuiet DEF Unbroken, LoopPoints, FullInv, BaseInv, ControlOK
    <2>3. QED
      BY <1>5, <2>1, <2>2 DEF MaximumSelected, Goto
  <1>6. QED
    BY <1>4, <1>5

\* The hold is seen to be over, and the emergency is left.
LEMMA HoldEnds ==
  ASSUME FullInv, HoldInv, HoldMaximum,
         TopOfLoop \/ LeaveEmergency \/ RestoreReturns
  PROVE  HoldInv'
  <1>1. UNCHANGED <<mode, modeBy>>
    BY DEF TopOfLoop, LeaveEmergency, RestoreReturns, fanVars, hw
  <1>2. /\ maxHeld \in 0..Hold /\ maxHeld' \in 0..Hold
        /\ DaemonMax' => DaemonMax /\ maxHeld' >= maxHeld
    BY <1>1, HoldMaximumShape DEF HoldInv, HoldShape, DaemonMax
  <1>3. maxHeld \in Int /\ maxHeld' \in Int /\ SlowRead \in Int /\ Hold \in Int /\ 0 \in Int
    BY <1>2, ControllerAssumption DEF ControllerAssumption
  <1>4. DaemonMax' => (HeldEnough => HeldEnough')
    <2>1. DaemonMax' => (maxHeld + SlowRead >= Hold => maxHeld' + SlowRead >= Hold)
      BY <1>2, <1>3, HeldLonger
    <2>2. QED
      BY <2>1 DEF HeldEnough
  <1>5. CASE TopOfLoop
    <2>1. /\ pc = "top" /\ pc' \in {"finally", "wait", "read"} /\ held' = HoldOver
          /\ UNCHANGED <<emergency, holdLeft>>
      BY <1>5 DEF TopOfLoop, Goto, ownership
    <2>2. ASSUME Apply, DaemonMax, emergency PROVE holdLeft + maxHeld + SlowRead >= Hold
      BY <2>1, <2>2 DEF HoldInv, Unbroken, LoopPoints
    <2>3. ASSUME Apply, DaemonMax, emergency, HoldOver PROVE HeldEnough
      BY <1>3, <2>2, <2>3 DEF HoldOver, HeldEnough
    <2>4. holdLeft \in Int
      BY ControllerAssumption
      DEF ControllerAssumption, FullInv, BaseInv, ControlOK, TimesOK, Never
    <2>5. DaemonMax' => (holdLeft + maxHeld + SlowRead >= Hold
                           => holdLeft' + maxHeld' + SlowRead >= Hold)
      BY <1>2, <1>3, <2>1, <2>4, HeldLonger
    <2>6. HoldShape'
      BY <1>2, <2>1 DEF HoldInv, HoldShape, Never
    <2>7. Apply /\ modeBy' = "other" /\ emergency' => mode' = "max"
      BY <1>1, <2>1 DEF HoldInv
    <2>8. QED
      BY <1>2, <1>4, <2>1, <2>2, <2>3, <2>5, <2>6, <2>7 DEF HoldInv
  <1>6. CASE LeaveEmergency
    <2>1. /\ pc = "decide" /\ pc' \in {"apply", "finally"} /\ emergency /\ held
          /\ emergency' = FALSE /\ holdLeft' = Never
      BY <1>6 DEF LeaveEmergency, MayLeaveEmergency, GiveUpEmergency, Goto
    <2>2. Apply /\ DaemonMax => HeldEnough
      BY <2>1 DEF HoldInv
    <2>3. HoldShape'
      BY <1>2, <2>1 DEF HoldShape, Never
    <2>4. QED
      BY <1>2, <1>4, <2>1, <2>2, <2>3 DEF HoldInv
  <1>7. CASE RestoreReturns
    <2>1. emergency' = FALSE /\ holdLeft' = Never /\ pc' \in {"wait", "finally"}
      BY <1>7 DEF RestoreReturns, Goto
    <2>2. HoldShape'
      BY <1>2, <2>1 DEF HoldShape, Never
    <2>3. QED
      BY <2>1, <2>2 DEF HoldInv
  <1>8. QED
    BY <1>5, <1>6, <1>7

\* Max is asked for only where the fans are not in Max, and only its write
\* answers that it was selected.
LEMMA HoldAsked ==
  ASSUME FullInv, HoldInv, HoldMaximum, Control \/ Maximum \/ MaximumReturns
  PROVE  HoldInv'
  <1>1. UNCHANGED <<mode, modeBy, emergency, holdLeft>>
    BY DEF Control, Maximum, MaximumReturns, fanVars, hw, memory, ownership, Call, SetMaximum,
       Begin
  <1>2. /\ pc \in {"decide", "max", "max.call"}
        /\ pc' \in {"wait", "apply", "max.clear", "max.call", "finally"}
    BY DEF Control, Maximum, MaximumReturns, Goto, Call
  <1>3. /\ HoldShape'
        /\ Apply =>
             /\ DaemonMax' /\ emergency' /\ Unbroken'
                  => holdLeft' + maxHeld' + SlowRead >= Hold
             /\ modeBy' = "other" /\ emergency' => mode' = "max"
    BY <1>1, <1>2, HoldCounts DEF FullInv, BaseInv, ControlOK, Unbroken, LoopPoints
  <1>4. pc' = "apply" => (Apply => ~DaemonMax')
    <2>1. pc' = "apply" => pc = "decide" /\ ~emergency
      BY DEF Control, Maximum, MaximumReturns, Goto, Call
    <2>2. Apply /\ pc = "decide" /\ ~emergency => ~DaemonMax
      BY DEF DaemonMax, FullInv, OwnInv, ModeInv, Calm, Engaged, Running, LoopPoints
    <2>3. QED
      BY <1>1, <2>1, <2>2 DEF DaemonMax
  <1>5. Apply /\ pc' = "max.call" => ~emergency' /\ result' = "none"
    <2>1. Apply /\ pc' = "max.call" => pc = "max" /\ mode # "max" /\ SetMaximum
      BY DEF Control, Maximum, MaximumReturns, Goto, Call
    <2>2. Apply /\ pc = "max" /\ mode # "max" => ~emergency
      <3>1. modeBy \in {"daemon", "other"}
        BY DEF FullInv, BaseInv, CallsOK, FanDataOK
      <3>2. Apply /\ pc = "max" /\ modeBy = "daemon" /\ emergency => mode = "max"
        BY DEF FullInv, OwnInv, ModeInv, Calm, Engaged, Running, LoopPoints
      <3>3. Apply /\ modeBy = "other" /\ emergency => mode = "max"
        BY DEF HoldInv
      <3>4. QED
        BY <3>1, <3>2, <3>3
    <2>3. QED
      BY <1>1, <2>1, <2>2 DEF SetMaximum, Begin
  <1>6. Apply /\ pc' = "max.clear" /\ modeBy' = "other" => mode' = "max"
    <2>1. Apply /\ pc' = "max.clear" => mode = "max" \/ (pc = "max.call" /\ result = "ok")
      BY DEF Control, Maximum, MaximumReturns, Goto, Call
    <2>2. Apply /\ pc = "max.call" /\ result = "ok" => modeBy = "daemon"
      BY DEF HoldInv
    <2>3. QED
      BY <1>1, <2>1, <2>2
  <1>7. QED
    BY <1>2, <1>3, <1>4, <1>5, <1>6 DEF HoldInv

\* Of the accesses, only the write that was asked for brings Max.
LEMMA HoldAccess ==
  ASSUME FullInv, HoldInv, HoldMaximum, AdapterStep
  PROVE  HoldInv'
  <1>1. /\ UNCHANGED <<pc, emergency, holdLeft, held>> /\ FanStep /\ at # "idle"
        /\ TimesOK /\ CallShape /\ Waiting
    BY DEF AdapterStep, controllerVars, memory, ownership, localVars, FanStep, ReadMode,
       WriteEnable, WritePwm, Rollback, FullInv, BaseInv, ControlOK, CallsOK
  <1>2. maxHeld' \in 0..Hold
    BY HoldMaximumShape DEF HoldInv, HoldShape
  <1>3. HoldShape'
    BY <1>1, <1>2 DEF HoldInv, HoldShape, Never
  <1>4. pc # "max.clear"
    BY <1>1 DEF Waiting, CallPoints, Idle
  <1>5. Apply /\ pc = "max.call" => op = "set_maximum" /\ at = "enable"
    BY <1>1 DEF Waiting, CallShape, ManualCalls, ManualOps, FullInv, BaseInv, CallsOK, FanDataOK
  <1>6. \/ UNCHANGED <<mode, modeBy>>
        \/ modeBy' = "daemon" /\ mode' # "max"
        \/ modeBy' = "daemon" /\ at = "enable" /\ op = "set_maximum"
    BY <1>1 DEF FanStep, ReadMode, WriteEnable, WritePwm, WriteFails, Rollback, Switch, hw
  <1>7. Apply /\ pc = "max.call" => (result' = "ok" => modeBy' = "daemon")
    BY <1>1, <1>5 DEF FanStep, ReadMode, WriteEnable, WritePwm, Rollback, Switch, Return, ManualOps
  <1>8. CASE UNCHANGED <<mode, modeBy>>
    <2>1. /\ DaemonMax' => DaemonMax /\ (HeldEnough => HeldEnough')
          /\ Apply =>
               /\ DaemonMax' /\ emergency' /\ Unbroken'
                    => holdLeft' + maxHeld' + SlowRead >= Hold
               /\ modeBy' = "other" /\ emergency' => mode' = "max"
      BY <1>1, <1>8, HoldCounts DEF Unbroken
    <2>2. QED
      BY <1>1, <1>3, <1>4, <1>7, <2>1 DEF HoldInv
  <1>9. CASE modeBy' = "daemon" /\ mode' # "max"
    BY <1>1, <1>3, <1>4, <1>7, <1>9 DEF HoldInv, DaemonMax
  <1>10. CASE modeBy' = "daemon" /\ at = "enable" /\ op = "set_maximum"
    <2>1. Apply => pc \in {"max.call", "failsafe"}
      BY <1>1, <1>10 DEF Waiting, CallPoints, Idle
    <2>2. Apply /\ pc = "max.call" => ~emergency
      BY DEF HoldInv
    <2>3. QED
      BY <1>1, <1>3, <1>10, <2>1, <2>2 DEF HoldInv, Unbroken, LoopPoints
  <1>11. QED
    BY <1>6, <1>8, <1>9, <1>10

\* While nobody else touches the fans, the hold is kept.
LEMMA HoldStep ==
  ASSUME Meddling = {}, FullInv, HoldInv, [AuditNext]_auditVars
  PROVE  HoldInv'
  <1>1. TimesOK
    BY DEF FullInv, BaseInv, ControlOK
  <1>2. CASE UNCHANGED auditVars
    BY <1>1, <1>2, HoldQuiet
    DEF auditVars, vars, fanVars, hw, call, controllerVars, memory, ownership, localVars, Unbroken
  <1>3. CASE AuditNext
    <2>1. HoldMaximum /\ Next
      BY <1>3 DEF AuditNext
    <2>2. CASE Wait
      <3>1. /\ UNCHANGED <<mode, modeBy, emergency>> /\ pc = "wait" /\ pc' \in {"top", "finally"}
            /\ (Tick /\ pc' = "top") \/ holdLeft' = holdLeft
        BY <2>2 DEF Wait, Goto
      <3>2. CASE Tick /\ pc' = "top"
        BY <1>1, <2>1, <3>1, <3>2, HoldTicks
      <3>3. CASE holdLeft' = holdLeft
        BY <1>1, <2>1, <3>1, <3>3, HoldQuiet DEF Unbroken, LoopPoints
      <3>4. QED
        BY <3>1, <3>2, <3>3
    <2>3. CASE SlowSensors
      BY <1>1, <2>1, <2>3, HoldTicks DEF SlowSensors
    <2>4. CASE FanEnvironment /\ UNCHANGED controllerVars
      BY <1>1, <2>1, <2>4, HoldQuiet
      DEF FanEnvironment, FirmwareMoves, call, controllerVars, memory, ownership, localVars,
          Unbroken
    <2>5. CASE Adopt \/ MaximumSelected
      BY <2>1, <2>5, HoldBegins
    <2>6. CASE TopOfLoop \/ LeaveEmergency \/ RestoreReturns
      BY <2>1, <2>6, HoldEnds
    <2>7. CASE Control \/ Maximum \/ MaximumReturns
      BY <2>1, <2>7, HoldAsked
    <2>8. CASE AdapterStep
      BY <2>1, <2>8, HoldAccess
    <2>9. CASE \/ OpenMonitor \/ LeaveLoop \/ ReadFails \/ ReadSucceeds \/ SelectMaximum
               \/ StayAuto \/ Restore \/ RestoreFails \/ ApplyDry \/ TakeManual \/ KeepManual
               \/ ManualTaken \/ ManualKept \/ ApplyFails \/ Suspend \/ RequestStop \/ StopStep
      BY <1>1, <2>1, <2>9, HoldLoop
    <2>10. QED
      BY <2>1, <2>2, <2>3, <2>4, <2>5, <2>6, <2>7, <2>8, <2>9
      DEF Next, ProcessStep, LoopStep, Environment
  <1>4. QED
    BY <1>2, <1>3

\* While nobody else touches the fans, Max that the daemon selected is left
\* only after it has been held for the configured time but for the length of
\* one sensor read: emergency_since is the clock sampled before the read that
\* asked for Max (run, _maximum).
THEOREM HeldButForOneRead ==
  ASSUME Meddling = {}
  PROVE  AuditSpec => MaximumHeldButForARead
  <1>1. AuditInit => HoldInv
    <2> SUFFICES ASSUME AuditInit PROVE HoldInv
      OBVIOUS
    <2>1. /\ maxHeld = 0 /\ emergency = FALSE /\ holdLeft = Never /\ pc = "start"
      BY DEF AuditInit, Init, ControllerInit
    <2>2. 0 \in 0..Hold
      BY ControllerAssumption DEF ControllerAssumption
    <2>3. QED
      BY <2>1, <2>2 DEF HoldInv, HoldShape
  <1>2. FullInv /\ HoldInv /\ [AuditNext]_auditVars => HoldInv'
    BY HoldStep
  <1>3. FullInv /\ HoldInv /\ [AuditNext]_auditVars => (MaximumEnds => HeldEnough)
    <2> SUFFICES ASSUME FullInv, HoldInv, [AuditNext]_auditVars, MaximumEnds
                 PROVE  HeldEnough
      OBVIOUS
    <2>1. [Next]_vars
      BY DEF AuditNext, auditVars
    <2>2. Apply /\ pc = "apply.set"
      BY <2>1, LeavesMaximumByManual DEF MaximumEnds
    <2>3. QED
      BY <2>2 DEF HoldInv, DaemonMax, MaximumEnds
  <1>4. AuditSpec => []FullInv
    BY AuditIsController, FullInvariant, PTL
  <1>5. AuditSpec => [][MaximumEnds => HeldEnough]_auditVars
    BY <1>1, <1>2, <1>3, <1>4, PTL DEF AuditSpec
  <1>6. QED
    BY <1>5 DEF MaximumHeldButForARead, HeldEnough

=============================================================================
