-------------------------- MODULE ControllerProofs --------------------------
(***************************************************************************)
(* Proofs about the control loop together with the fan adapter, for every  *)
(* configuration: the marker file agrees with the guard deadline, a dry    *)
(* run touches nothing, both components are well typed, the loop calls the *)
(* adapter as the adapter's own specification allows, and what the loop    *)
(* remembers of the fans agrees with them.                                 *)
(***************************************************************************)
EXTENDS HpFanProofs, Controller

\* Before the finally block an error has not interrupted the guard.
Unbroken == pc \in LoopPoints \cup {"start", "monitor"}

\* The deadlines, whose arithmetic decides between a guard and none.
GuardTimes == guardLeft \in {Never} \cup Nat /\ lag \in 0..SlowRead

\* The marker and the deadline come and go together.
MarkerInv == Unbroken /\ Apply => (guardFile <=> guardLeft # Never)

GuardInv == GuardTimes /\ MarkerInv

-----------------------------------------------------------------------------
(* Most steps leave the guard alone, and so do the adapter and the EC.     *)

\* A step that keeps the guard and does not return to the loop keeps GuardInv.
LEMMA GuardUntouched ==
  ASSUME GuardInv, UNCHANGED <<guardVars, lag>>, Unbroken' => Unbroken
  PROVE  GuardInv'
  BY DEF GuardInv, GuardTimes, MarkerInv, guardVars, Never

\* Clearing the guard removes deadline and marker, and a failure to remove the
\* marker leaves the loop.
LEMMA GuardCleared ==
  ASSUME GuardInv, lag' \in 0..SlowRead, guardLeft' = Never,
         Unbroken' /\ Apply => guardFile' = FALSE
  PROVE  GuardInv'
  BY DEF GuardInv, GuardTimes, MarkerInv, Never

\* The steps of the loop that touch neither the guard nor the clock.
LEMMA QuietSteps ==
  ASSUME \/ Adopt \/ OpenMonitor \/ LeaveLoop \/ ReadFails \/ ReadSucceeds
         \/ SelectMaximum \/ StayAuto \/ Control \/ Maximum \/ MaximumReturns
         \/ Restore \/ RestoreFails \/ TakeManual \/ KeepManual \/ ManualKept
         \/ ApplyFails \/ Suspend \/ RequestStop
  PROVE  UNCHANGED <<guardVars, lag>> /\ (Unbroken' => Unbroken)
  BY DEF Adopt, OpenMonitor, LeaveLoop, ReadFails, ReadSucceeds, SelectMaximum,
         StayAuto, Control, Maximum, MaximumReturns, Restore, RestoreFails,
         TakeManual, KeepManual, ManualKept, ApplyFails, Suspend, RequestStop,
         Unbroken, LoopPoints, Goto, Call, memory, guardVars, localVars

\* So do the adapter and the environment.
LEMMA OutsideSteps ==
  ASSUME AdapterStep \/ (FanEnvironment /\ UNCHANGED controllerVars) \/ UNCHANGED vars
  PROVE  UNCHANGED <<guardVars, lag>> /\ (Unbroken' => Unbroken)
  BY DEF AdapterStep, vars, controllerVars, memory, guardVars, localVars, Unbroken

\* Time shortens a deadline, and never turns one into none.
LEMMA TicksKeepGuard ==
  ASSUME GuardInv, Wait \/ SlowSensors
  PROVE  GuardInv'
  <1> USE DEF GuardInv, GuardTimes, Never
  <1>1. /\ guardLeft' = guardLeft \/ guardLeft' = Left(guardLeft)
        /\ lag' = lag \/ (lag < SlowRead /\ lag' = lag + 1)
        /\ guardFile' = guardFile /\ (Unbroken' => Unbroken)
    BY DEF Wait, SlowSensors, Tick, Unbroken, LoopPoints, Goto, localVars
  <1>2. guardLeft' \in {Never} \cup Nat /\ (guardLeft' = Never <=> guardLeft = Never)
    BY <1>1 DEF Left
  <1>3. lag' \in 0..SlowRead
    BY <1>1, ControllerAssumption DEF ControllerAssumption
  <1>4. QED
    BY <1>1, <1>2, <1>3 DEF MarkerInv

\* The finally block only removes.
LEMMA StopStepsKeepGuard ==
  ASSUME GuardInv, StopStep
  PROVE  GuardInv'
  <1>1. ~Unbroken' /\ lag' = lag
        /\ (guardLeft' = guardLeft \/ guardLeft' = Never)
    BY DEF StopStep, Finally, FinallyQuiet, Handoff, HandoffReturns, HandoffClears,
           FailsafeReturns, FailsafeClears, Unbroken, LoopPoints, Goto, Call, memory,
           guardVars, localVars, ClearGuard, ClearGuardFails
  <1>2. QED
    BY <1>1 DEF GuardInv, GuardTimes, MarkerInv

\* The steps of the loop that clear the guard.
LEMMA ClearingStepsKeepGuard ==
  ASSUME GuardInv, TopOfLoop \/ LeaveEmergency \/ MaximumSelected \/ ApplyDry \/ ManualTaken
  PROVE  GuardInv'
  <1> USE ControllerAssumption DEF ControllerAssumption, Goto, ClearGuard, ClearGuardFails,
          Unbroken, LoopPoints, localVars
  <1>1. CASE TopOfLoop
    <2>1. lag' = 0 /\ 0 \in 0..SlowRead
      BY <1>1 DEF TopOfLoop
    <2>2. CASE guardLeft' = Never /\ (guardFile' = FALSE \/ pc' = "finally")
      BY <2>1, <2>2, GuardCleared
    <2>3. CASE UNCHANGED <<guardLeft, guardFile>> /\ pc = "top"
      BY <2>1, <2>3 DEF GuardInv, GuardTimes, MarkerInv
    <2>4. QED
      BY <1>1, <2>2, <2>3 DEF TopOfLoop, guardVars
  <1>2. CASE LeaveEmergency
    BY <1>2, GuardCleared DEF LeaveEmergency, GuardInv, GuardTimes
  <1>3. CASE MaximumSelected
    BY <1>3, GuardCleared DEF MaximumSelected, GuardInv, GuardTimes
  <1>4. CASE ApplyDry
    BY <1>4, GuardCleared DEF ApplyDry, GuardInv, GuardTimes
  <1>5. CASE ManualTaken
    BY <1>5, GuardCleared DEF ManualTaken, GuardInv, GuardTimes
  <1>6. QED
    BY <1>1, <1>2, <1>3, <1>4, <1>5

\* A return to Auto sets the deadline, a real one because a read of the sensors
\* is shorter than the guard, and writes the marker or leaves the loop.
LEMMA RestoreStartsGuard ==
  ASSUME GuardInv, RestoreReturns
  PROVE  GuardInv'
  <1>1. guardLeft' = Guard - lag /\ lag' = lag /\ pc = "restore.call"
    BY DEF RestoreReturns, GuardDeadline, localVars
  <1>2. guardLeft' \in Nat
    BY <1>1, ControllerAssumption DEF ControllerAssumption, GuardInv, GuardTimes
  <1>3. Unbroken' /\ Apply => guardFile' = TRUE
    BY DEF RestoreReturns, Goto, Unbroken, LoopPoints
  <1>4. QED
    BY <1>1, <1>2, <1>3 DEF GuardInv, GuardTimes, MarkerInv, Never

\* Marker, deadline and clock stay as described through every step.
THEOREM GuardInvariant == Spec => []GuardInv
  <1>1. Init => GuardInv
    BY ControllerAssumption DEF ControllerAssumption, Init, ControllerInit, GuardInv,
       GuardTimes, MarkerInv, Never
  <1>2. GuardInv /\ [Next]_vars => GuardInv'
    <2> SUFFICES ASSUME GuardInv, [Next]_vars PROVE GuardInv'
      OBVIOUS
    <2>1. CASE StopStep
      BY <2>1, StopStepsKeepGuard
    <2>2. CASE LoopStep
      BY <2>2, QuietSteps, GuardUntouched, ClearingStepsKeepGuard, RestoreStartsGuard,
         TicksKeepGuard DEF LoopStep
    <2>3. CASE AdapterStep \/ UNCHANGED vars
      BY <2>3, OutsideSteps, GuardUntouched
    <2>4. CASE Environment
      BY <2>4, OutsideSteps, QuietSteps, GuardUntouched, TicksKeepGuard DEF Environment
    <2>5. QED
      BY <2>1, <2>2, <2>3, <2>4 DEF Next, ProcessStep
  <1>3. QED
    BY <1>1, <1>2, PTL DEF Spec

\* Whatever fails and whoever interferes, a running controller has a marker
\* exactly while it has a guard deadline, so that ExecStopPost judges by what
\* the controller would have judged by (_start_auto_guard, _clear_auto_guard).
THEOREM MarkerAgrees == Spec => []MarkerFollowsGuard
  <1>1. GuardInv => MarkerFollowsGuard
    BY DEF GuardInv, MarkerInv, MarkerFollowsGuard, Settled, Unbroken, LoopPoints
  <1>2. QED
    BY <1>1, GuardInvariant, PTL

-----------------------------------------------------------------------------
(* A dry run.                                                              *)

WritingPoints == {"max.call", "apply.set", "apply.update", "handoff", "handoff.call",
                  "handoff.clear", "failsafe", "failsafe.clear"}

\* A dry run never gets to a place where it waits for the adapter.
DryInv == DryRunTouchesNothing /\ (~Apply => pc \notin WritingPoints)

\* The loop goes through a dry run without a call.
LEMMA DryLoop ==
  ASSUME DryInv, LoopStep, ~Apply
  PROVE  DryInv'
  <1> USE DEF DryInv, DryRunTouchesNothing, WritingPoints, Goto, ClearGuard,
          ClearGuardFails, fanVars, hw, call, memory, guardVars, vars, controllerVars
  <1>1. CASE Adopt \/ OpenMonitor \/ LeaveLoop \/ TopOfLoop \/ ReadFails \/ ReadSucceeds
    BY <1>1 DEF Adopt, OpenMonitor, LeaveLoop, TopOfLoop, ReadFails, ReadSucceeds
  <1>2. CASE SelectMaximum \/ LeaveEmergency \/ StayAuto \/ Control
    BY <1>2 DEF SelectMaximum, LeaveEmergency, StayAuto, Control
  <1>3. CASE Maximum \/ MaximumReturns \/ MaximumSelected
    BY <1>3 DEF Maximum, MaximumReturns, MaximumSelected
  <1>4. CASE Restore \/ RestoreReturns \/ RestoreFails
    <2>1. CASE Restore \/ RestoreFails
      BY <2>1 DEF Restore, RestoreCall, RestoreFails
    <2>2. CASE RestoreReturns
      <3>1. UNCHANGED <<modeBy, at>>
        BY <2>2 DEF RestoreReturns
      <3>2. Apply \/ (guardFile' = Apply /\ pc' = "wait")
        BY <2>2 DEF RestoreReturns
      <3>3. (guardFile' = Apply) => ~guardFile'
        OBVIOUS
      <3>4. QED
        BY <3>1, <3>2, <3>3
    <2>3. QED
      BY <1>4, <2>1, <2>2
  <1>5. CASE ApplyDry \/ TakeManual \/ KeepManual \/ ManualTaken \/ ManualKept
             \/ ApplyFails
    BY <1>5 DEF ApplyDry, TakeManual, KeepManual, ManualTaken, ManualKept, ApplyFails
  <1>6. CASE Wait
    BY <1>6 DEF Wait, Tick
  <1>7. QED
    BY <1>1, <1>2, <1>3, <1>4, <1>5, <1>6 DEF LoopStep

\* So does the way out.
LEMMA DryStop ==
  ASSUME DryInv, StopStep, ~Apply
  PROVE  DryInv'
  BY DEF DryInv, DryRunTouchesNothing, WritingPoints, StopStep, Finally, FinallyQuiet,
         Handoff, HandoffReturns, HandoffClears, FailsafeReturns, FailsafeClears,
         MustFailSafe, ClearGuard, ClearGuardFails, Goto, guardVars, fanVars, hw, call

\* Nothing is under way for the adapter, and the environment calls nothing.
LEMMA DryOutside ==
  ASSUME DryInv, AdapterStep \/ Environment \/ UNCHANGED vars, ~Apply
  PROVE  DryInv'
  <1> USE DEF DryInv, DryRunTouchesNothing, WritingPoints, fanVars, hw, call, vars,
          controllerVars, memory, guardVars
  <1>1. CASE AdapterStep
    BY <1>1 DEF AdapterStep, FanStep, ReadMode, WriteEnable, WritePwm, Rollback
  <1>2. CASE FanEnvironment /\ UNCHANGED controllerVars
    BY <1>2 DEF FanEnvironment, FirmwareMoves, Meddle
  <1>3. CASE SlowSensors \/ Suspend \/ RequestStop
    BY <1>3 DEF SlowSensors, Suspend, RequestStop, Tick
  <1>4. QED
    BY <1>1, <1>2, <1>3 DEF Environment

\* Without --apply no path through the loop or the finally block writes the fan
\* interface or leaves a marker for ExecStopPost.
THEOREM DryRunIsDry == Spec => []DryRunTouchesNothing
  <1>1. Init => DryInv
    BY DEF Init, ControllerInit, FanInit, DryInv, DryRunTouchesNothing, WritingPoints
  <1>2. DryInv /\ [Next]_vars => DryInv'
    <2>1. CASE Apply
      BY <2>1 DEF DryInv, DryRunTouchesNothing
    <2>2. CASE ~Apply
      BY <2>2, DryLoop, DryStop, DryOutside DEF Next, ProcessStep
    <2>3. QED
      BY <2>1, <2>2
  <1>3. DryInv => DryRunTouchesNothing
    BY DEF DryInv
  <1>4. QED
    BY <1>1, <1>2, <1>3, PTL DEF Spec

-----------------------------------------------------------------------------
(* The operators of the policy.                                            *)

\* The counters of missing samples stay within their limit.
LEMMA MissedTyped ==
  ASSUME NEW a, NEW m \in [Optional -> 0..MissingLimit], NEW s
  PROVE  Missed(a, m, s) \in [Optional -> 0..MissingLimit]
  BY PolicyAssumption DEF PolicyAssumption, Missed

\* No counter starts beyond it.
LEMMA NoneMissedTyped == NoneMissed \in [Optional -> 0..MissingLimit]
  BY PolicyAssumption DEF PolicyAssumption, NoneMissed

\* Only configured sensors activate control.
LEMMA ActivatedTyped ==
  ASSUME NEW a, a \subseteq Sensors, NEW m, NEW s
  PROVE  Activated(a, m, s) \subseteq Sensors /\ ActivationSources(s) \subseteq Sensors
  BY DEF Activated, ActivationSources, Present

\* A smoothed reading is cool or hot.
LEMMA FilteredTyped ==
  ASSUME NEW f, NEW s, NEW g \in Filtered(f, s)
  PROVE  g \in FilterStates
  BY DEF Filtered, FilterStates

\* A snapshot always carries the CPU.
LEMMA SnapshotIsOne == NoSnapshot \notin Snapshots
  <1>1. NoSnapshot.temp["cpu"] = Gone
    BY PolicyAssumption DEF PolicyAssumption, NoSnapshot
  <1>2. QED
    BY <1>1 DEF Snapshots

\* The policy asks for a duty between 1 and full speed, however far the rate
\* limits let it move.
LEMMA DutiesWithinRange ==
  ASSUME NEW c \in {NoDuty} \cup 1..FullDuty, NEW p \in DesiredDuties(c)
  PROVE  p \in 1..FullDuty
  <1>1. PICK q \in MinDuty..TopDuty : p = Limited(q, c)
    BY DEF DesiredDuties
  <1>2. QED
    BY <1>1, PolicyAssumption, ControllerAssumption
    DEF PolicyAssumption, ControllerAssumption, Limited, Greatest, Least, NoDuty

\* What is written lies within the ceiling of the interface.
LEMMA CeilingWithinRange ==
  ASSUME NEW p \in 1..FullDuty
  PROVE  Ceiling(p) \in 1..ManualMax /\ AtLeastOne(Ceiling(p)) = Ceiling(p)
  BY FanAssumption DEF FanAssumption, Ceiling, Least, AtLeastOne

-----------------------------------------------------------------------------
(* Types.                                                                  *)

ControlFlagsOK ==
  /\ stopRequested \in BOOLEAN /\ manualActive \in BOOLEAN /\ emergency \in BOOLEAN
  /\ guardFile \in BOOLEAN /\ guardActive \in BOOLEAN /\ held \in BOOLEAN
  /\ outside \in BOOLEAN

TimesOK ==
  /\ holdLeft \in {Never} \cup 0..Hold /\ guardLeft \in {Never} \cup 0..Guard
  /\ lag \in 0..SlowRead /\ age \in 0..AgeLimit + 1

PolicyOK ==
  /\ snapshot \in Snapshots \cup {NoSnapshot} /\ filter \in FilterStates
  /\ activated \subseteq Sensors /\ missed \in [Optional -> 0..MissingLimit]
  /\ commanded \in {NoDuty} \cup 1..FullDuty

\* The places where the process waits for a call of the adapter.
CallPoints == {"max.call", "restore.call", "apply.set", "apply.update",
               "handoff.call", "failsafe"}

\* A call is under way only where the process waits for it, and it is the one
\* the process made.
Waiting ==
  /\ pc \notin CallPoints => Idle
  /\ Apply =>
       /\ pc \in {"max.call", "failsafe"} => op = "set_maximum"
       /\ pc \in {"restore.call", "handoff.call"} => op = "restore_auto"
       /\ pc = "apply.set" => op = "set_manual"
       /\ pc = "apply.update" => op \in {"update_manual", "recover"}
  /\ ~Apply => Idle /\ pc \notin WritingPoints

PcOK == pc \in Running \cup {"exit"}

ControlOK == ControlFlagsOK /\ TimesOK /\ PolicyOK

BaseInv == FanFlagsOK /\ CallsOK /\ Waiting /\ ControlOK /\ PcOK

\* The flags are set from conditions.
LEMMA FlagsStay ==
  ASSUME ControlFlagsOK, [Next]_vars
  PROVE  ControlFlagsOK'
  <1> USE DEF ControlFlagsOK, memory, ownership, guardVars, localVars, ClearGuard,
          ClearGuardFails
  <1>1. CASE Adopt \/ OpenMonitor \/ LeaveLoop \/ ReadFails \/ ReadSucceeds
    BY <1>1 DEF Adopt, OpenMonitor, LeaveLoop, ReadFails, ReadSucceeds
  <1>2. CASE TopOfLoop
    <2>1. guardActive' \in BOOLEAN /\ held' \in BOOLEAN
      BY <1>2 DEF TopOfLoop, GuardRuns, HoldOver
    <2>2. QED
      BY <1>2, <2>1 DEF TopOfLoop
  <1>3. CASE SelectMaximum \/ LeaveEmergency \/ StayAuto \/ Control
    BY <1>3 DEF SelectMaximum, LeaveEmergency, StayAuto, Control, GiveUpEmergency
  <1>4. CASE Maximum \/ MaximumReturns \/ MaximumSelected
    BY <1>4 DEF Maximum, MaximumReturns, MaximumSelected
  <1>5. CASE Restore \/ RestoreReturns \/ RestoreFails
    BY <1>5, ControllerAssumption DEF ControllerAssumption, Restore, RestoreReturns,
       RestoreFails
  <1>6. CASE ApplyDry \/ TakeManual \/ KeepManual \/ ManualTaken \/ ManualKept
             \/ ApplyFails
    BY <1>6 DEF ApplyDry, TakeManual, KeepManual, ManualTaken, ManualKept, ApplyFails
  <1>7. CASE Wait
    BY <1>7 DEF Wait
  <1>8. CASE StopStep
    BY <1>8 DEF StopStep, Finally, FinallyQuiet, Handoff, HandoffReturns, HandoffClears,
       FailsafeReturns, FailsafeClears
  <1>9. CASE AdapterStep \/ Environment \/ UNCHANGED vars
    BY <1>9 DEF AdapterStep, Environment, SlowSensors, Suspend, RequestStop, vars,
       controllerVars
  <1>10. QED
    BY <1>1, <1>2, <1>3, <1>4, <1>5, <1>6, <1>7, <1>8, <1>9 DEF Next, ProcessStep, LoopStep

\* Deadlines are set within their bounds and only run down.
LEMMA TimesStay ==
  ASSUME TimesOK, [Next]_vars
  PROVE  TimesOK'
  <1> USE ControllerAssumption
      DEF ControllerAssumption, TimesOK, memory, ownership, guardVars, localVars,
          sampleVars, ClearGuard, ClearGuardFails, Never
  <1>1. CASE Adopt \/ OpenMonitor \/ LeaveLoop \/ ReadFails \/ ReadSucceeds
    BY <1>1 DEF Adopt, OpenMonitor, LeaveLoop, ReadFails, ReadSucceeds
  <1>2. CASE TopOfLoop
    BY <1>2 DEF TopOfLoop
  <1>3. CASE SelectMaximum \/ LeaveEmergency \/ StayAuto \/ Control
    BY <1>3 DEF SelectMaximum, LeaveEmergency, StayAuto, Control, GiveUpEmergency
  <1>4. CASE Maximum \/ MaximumReturns \/ MaximumSelected
    <2>1. HoldDeadline \in {Never} \cup 0..Hold
      BY DEF HoldDeadline, Greatest
    <2>2. QED
      BY <1>4, <2>1 DEF Maximum, MaximumReturns, MaximumSelected
  <1>5. CASE Restore \/ RestoreReturns \/ RestoreFails
    <2>1. CASE Restore \/ RestoreFails
      BY <2>1 DEF Restore, RestoreFails
    <2>2. CASE RestoreReturns
      <3>1. /\ holdLeft' = Never /\ guardLeft' = Guard - lag
            /\ UNCHANGED <<lag, age>>
        BY <2>2 DEF RestoreReturns, GuardDeadline
      <3>2. QED
        BY <3>1
    <2>3. QED
      BY <1>5, <2>1, <2>2
  <1>6. CASE ApplyDry \/ TakeManual \/ KeepManual \/ ManualTaken \/ ManualKept
             \/ ApplyFails
    BY <1>6 DEF ApplyDry, TakeManual, KeepManual, ManualTaken, ManualKept, ApplyFails
  <1>7. CASE Wait
    BY <1>7 DEF Wait, Tick, Left
  <1>8. CASE StopStep
    BY <1>8 DEF StopStep, Finally, FinallyQuiet, Handoff, HandoffReturns, HandoffClears,
       FailsafeReturns, FailsafeClears
  <1>9. CASE SlowSensors
    BY <1>9 DEF SlowSensors, Tick, Left
  <1>10. CASE Suspend \/ RequestStop
    BY <1>10 DEF Suspend, RequestStop
  <1>11. CASE AdapterStep \/ (FanEnvironment /\ UNCHANGED controllerVars) \/ UNCHANGED vars
    BY <1>11 DEF AdapterStep, vars, controllerVars
  <1>12. QED
    BY <1>1, <1>2, <1>3, <1>4, <1>5, <1>6, <1>7, <1>8, <1>9, <1>10, <1>11
    DEF Next, ProcessStep, LoopStep, Environment

\* The memory of the policy keeps its ranges; a duty it takes over from the
\* adapter is one the adapter accepted.
LEMMA PolicyStays ==
  ASSUME PolicyOK, CallsOK, Waiting, [Next]_vars
  PROVE  PolicyOK'
  <1> USE DEF PolicyOK, memory, sampleVars, policyVars
  <1>1. CASE Adopt \/ OpenMonitor \/ LeaveLoop
    BY <1>1, FanAssumption DEF FanAssumption, Adopt, OpenMonitor, LeaveLoop
  <1>2. CASE ReadFails \/ TopOfLoop
    BY <1>2 DEF ReadFails, TopOfLoop, FilterStates
  <1>3. CASE ReadSucceeds
    <2>1. PICK s \in Snapshots :
            /\ snapshot' = s /\ filter' \in Filtered(filter, s)
            /\ activated' = Activated(activated, missed, s)
            /\ missed' = Missed(activated, missed, s)
      BY <1>3 DEF ReadSucceeds
    <2>2. UNCHANGED commanded
      BY <1>3 DEF ReadSucceeds
    <2>3. QED
      BY <2>1, <2>2, MissedTyped, ActivatedTyped, FilteredTyped
  <1>4. CASE SelectMaximum \/ StayAuto \/ Control \/ Maximum \/ MaximumReturns
    BY <1>4 DEF SelectMaximum, StayAuto, Control, Maximum, MaximumReturns
  <1>5. CASE LeaveEmergency
    BY <1>5, ActivatedTyped, NoneMissedTyped DEF LeaveEmergency
  <1>6. CASE MaximumSelected
    BY <1>6, FanAssumption DEF FanAssumption, MaximumSelected
  <1>7. CASE Restore \/ RestoreReturns \/ RestoreFails
    BY <1>7, NoneMissedTyped DEF Restore, RestoreReturns, RestoreFails
  <1>8. CASE ApplyDry
    <2>1. PICK p \in DesiredDuties(commanded) : commanded' = Ceiling(p)
      BY <1>8 DEF ApplyDry
    <2>2. commanded' \in 1..FullDuty
      BY <2>1, DutiesWithinRange, CeilingWithinRange, FanAssumption DEF FanAssumption
    <2>3. QED
      BY <1>8, <2>2 DEF ApplyDry
  <1>9. CASE ManualTaken \/ ManualKept
    <2>1. target \in 1..ManualMax
      BY <1>9 DEF ManualTaken, ManualKept, CallsOK, Waiting, WritingPoints, ManualCalls,
         ManualOps, CallFails
    <2>2. target \in 1..FullDuty
      BY <2>1, FanAssumption DEF FanAssumption
    <2>3. QED
      BY <1>9, <2>2 DEF ManualTaken, ManualKept
  <1>10. CASE TakeManual \/ KeepManual \/ ApplyFails \/ Wait
    BY <1>10 DEF TakeManual, KeepManual, ApplyFails, Wait
  <1>11. CASE StopStep
    BY <1>11 DEF StopStep, Finally, FinallyQuiet, Handoff, HandoffReturns, HandoffClears,
       FailsafeReturns, FailsafeClears
  <1>12. CASE AdapterStep \/ Environment \/ UNCHANGED vars
    BY <1>12 DEF AdapterStep, Environment, SlowSensors, Suspend, RequestStop, vars,
       controllerVars
  <1>13. QED
    BY <1>1, <1>2, <1>3, <1>4, <1>5, <1>6, <1>7, <1>8, <1>9, <1>10, <1>11, <1>12
    DEF Next, ProcessStep, LoopStep

-----------------------------------------------------------------------------
(* What a step of the controller does to the fans.                         *)

\* The loop takes Manual only while it does not hold it and updates it only
\* while it does; all its duties are duties.
ManualCallOf ==
  /\ pc = "apply" /\ Apply
  /\ \/ ~manualActive /\ \E p \in 0..FullDuty : SetManual(p)
     \/ manualActive /\ \E p \in 0..FullDuty, w \in BOOLEAN : UpdateManual(p, w)

QuietForFans == FanEnvironment \/ WindowPasses \/ UNCHANGED fanVars

FanEffect == ManualCallOf \/ SetMaximum \/ RestoreAuto \/ AdapterStep \/ QuietForFans

\* Taking Manual starts from the running duty or more.
LEMMA TakeManualCalls ==
  ASSUME PolicyOK, CallsOK, TakeManual
  PROVE  ManualCallOf \/ UNCHANGED fanVars
  <1>1. CASE UNCHANGED fanVars
    BY <1>1
  <1>2. ASSUME NEW p \in DesiredDuties(commanded),
               SetManual(Ceiling(Greatest(Ceiling(p), duty[1])))
        PROVE  ManualCallOf
    <2>1. p \in 1..FullDuty
      BY <1>2, DutiesWithinRange DEF PolicyOK
    <2>2. duty[1] \in 0..FullDuty
      BY FanAssumption DEF FanAssumption, CallsOK, FanDataOK, Duties
    <2>3. Ceiling(p) \in 1..ManualMax
      BY <2>1, CeilingWithinRange
    <2>4. Ceiling(Greatest(Ceiling(p), duty[1])) \in 0..FullDuty
      BY <2>2, <2>3, FanAssumption DEF FanAssumption, Ceiling, Least, Greatest
    <2>5. QED
      BY <1>2, <2>4 DEF TakeManual, ManualCallOf
  <1>3. QED
    BY <1>1, <1>2 DEF TakeManual, Call

\* Keeping Manual asks for a duty within the ceiling.
LEMMA KeepManualCalls ==
  ASSUME PolicyOK, KeepManual
  PROVE  ManualCallOf
  <1>1. PICK p \in DesiredDuties(commanded) :
          UpdateManual(Ceiling(p), MustWrite(Ceiling(p)))
    BY DEF KeepManual, Call
  <1>2. p \in 1..FullDuty
    BY <1>1, DutiesWithinRange DEF PolicyOK
  <1>3. Ceiling(p) \in 0..FullDuty
    BY <1>2, CeilingWithinRange, FanAssumption DEF FanAssumption
  <1>4. MustWrite(Ceiling(p)) \in BOOLEAN
    BY DEF MustWrite
  <1>5. pc = "apply" /\ Apply /\ manualActive
    BY DEF KeepManual
  <1>6. QED
    BY <1>1, <1>3, <1>4, <1>5 DEF ManualCallOf

\* Time shortens the fan-stop window.
LEMMA TickPassesWindow ==
  ASSUME fanStop \in Nat, fanStop' = Left(fanStop),
         UNCHANGED <<mode, duty, modeBy, recoveryPending, call>>
  PROVE  QuietForFans
  BY DEF QuietForFans, WindowPasses, Left, fanVars, hw

\* Every step of the controller is a call, an access, or one the fans do not
\* notice.
LEMMA StepsOnFans ==
  ASSUME PolicyOK, CallsOK, [Next]_vars
  PROVE  FanEffect
  <1> USE DEF FanEffect, QuietForFans
  <1>1. fanStop \in Nat
    BY FanAssumption DEF FanAssumption, CallsOK, FanDataOK
  <1>2. CASE Adopt \/ OpenMonitor \/ LeaveLoop \/ TopOfLoop \/ ReadFails \/ ReadSucceeds
    BY <1>2 DEF Adopt, OpenMonitor, LeaveLoop, TopOfLoop, ReadFails, ReadSucceeds
  <1>3. CASE SelectMaximum \/ LeaveEmergency \/ StayAuto \/ Control
    BY <1>3 DEF SelectMaximum, LeaveEmergency, StayAuto, Control
  <1>4. CASE Maximum \/ MaximumReturns \/ MaximumSelected
    BY <1>4 DEF Maximum, MaximumReturns, MaximumSelected, Call
  <1>5. CASE Restore \/ RestoreReturns \/ RestoreFails
    BY <1>5 DEF Restore, RestoreCall, RestoreReturns, RestoreFails
  <1>6. CASE ApplyDry \/ ManualTaken \/ ManualKept \/ ApplyFails
    BY <1>6 DEF ApplyDry, ManualTaken, ManualKept, ApplyFails
  <1>7. CASE TakeManual \/ KeepManual
    BY <1>7, TakeManualCalls, KeepManualCalls
  <1>8. CASE Wait
    <2>1. /\ fanStop' = Left(fanStop) \/ fanStop' = fanStop
          /\ UNCHANGED <<mode, duty, modeBy, recoveryPending, call>>
      BY <1>8 DEF Wait, Tick
    <2>2. QED
      BY <1>1, <2>1, TickPassesWindow DEF fanVars, hw
  <1>9. CASE SlowSensors
    BY <1>1, <1>9, TickPassesWindow DEF SlowSensors, Tick
  <1>10. CASE StopStep
    <2>1. CASE Finally \/ FinallyQuiet \/ Handoff \/ HandoffReturns
      BY <2>1 DEF Finally, FinallyQuiet, Handoff, HandoffReturns, Call
    <2>2. CASE FailsafeReturns \/ FailsafeClears
      BY <2>2 DEF FailsafeReturns, FailsafeClears
    <2>3. CASE HandoffClears
      <3>1. CASE SetMaximum
        BY <3>1
      <3>2. CASE fanStop' = 0 /\ UNCHANGED <<mode, duty, modeBy, recoveryPending, call>>
        BY <1>1, <3>2 DEF WindowPasses, fanVars, hw
      <3>3. QED
        BY <2>3, <3>1, <3>2 DEF HandoffClears, Call
    <2>4. QED
      BY <1>10, <2>1, <2>2, <2>3 DEF StopStep
  <1>11. CASE Suspend \/ RequestStop \/ AdapterStep \/ UNCHANGED vars
    BY <1>11 DEF Suspend, RequestStop, AdapterStep, vars
  <1>12. CASE FanEnvironment /\ UNCHANGED controllerVars
    BY <1>12
  <1>13. QED
    BY <1>2, <1>3, <1>4, <1>5, <1>6, <1>7, <1>8, <1>9, <1>10, <1>11, <1>12
    DEF Next, ProcessStep, LoopStep, Environment

\* So the calls stay well formed, and so do the adapter's flags.
LEMMA CallsStay ==
  ASSUME PolicyOK, CallsOK, [Next]_vars
  PROVE  CallsOK'
  <1>1. ManualCallOf \/ SetMaximum \/ RestoreAuto => AnyCall
    BY DEF ManualCallOf, AnyCall
  <1>2. QED
    BY <1>1, StepsOnFans, AnyCallKeepsCalls, FanStepKeepsCalls, FanEnvironmentKeepsCalls
    DEF FanEffect, QuietForFans, AdapterStep

\* The flags of the adapter are set from conditions as well.
LEMMA FanFlagsStay ==
  ASSUME PolicyOK, CallsOK, FanFlagsOK, [Next]_vars
  PROVE  FanFlagsOK'
  <1>1. CASE ManualCallOf \/ SetMaximum \/ RestoreAuto
    BY <1>1 DEF ManualCallOf, SetManual, UpdateManual, SetMaximum, RestoreAuto, Begin,
       Refuse, FanFlagsOK
  <1>2. CASE AdapterStep \/ QuietForFans
    BY <1>2, FanNextFlags DEF QuietForFans, FanNext, AdapterStep
  <1>3. QED
    BY <1>1, <1>2, StepsOnFans DEF FanEffect

\* An access of the adapter keeps the call it belongs to.
LEMMA AccessKeepsCall ==
  ASSUME CallsOK, FanStep
  PROVE  /\ ~Idle
         /\ op' = op \/ (op = "update_manual" /\ op' = "recover")
  BY DEF CallsOK, CallShape, FanStep, ReadMode, WriteEnable, WritePwm, WriteFails, Rollback,
         Return, Idle

\* Every step leads to a place the process has.
LEMMA PcStays ==
  ASSUME PcOK, [Next]_vars
  PROVE  PcOK'
  <1> USE DEF PcOK, Running, LoopPoints, StopPoints, Goto, Call
  <1>1. CASE LoopStep
    BY <1>1 DEF LoopStep, Adopt, OpenMonitor, LeaveLoop, TopOfLoop, ReadFails,
       ReadSucceeds, SelectMaximum, LeaveEmergency, StayAuto, Control, Maximum,
       MaximumReturns, MaximumSelected, Restore, RestoreReturns, RestoreFails, ApplyDry,
       TakeManual, KeepManual, ManualTaken, ManualKept, ApplyFails, Wait
  <1>2. CASE StopStep
    BY <1>2 DEF StopStep, Finally, FinallyQuiet, Handoff, HandoffReturns, HandoffClears,
       FailsafeReturns, FailsafeClears
  <1>3. CASE AdapterStep \/ Environment \/ UNCHANGED vars
    BY <1>3 DEF AdapterStep, Environment, SlowSensors, Suspend, RequestStop, vars,
       controllerVars
  <1>4. QED
    BY <1>1, <1>2, <1>3 DEF Next, ProcessStep

\* The process waits for each call it makes, and for nothing else.
LEMMA WaitingStays ==
  ASSUME Waiting, CallsOK, [Next]_vars
  PROVE  Waiting'
  <1> USE DEF Waiting, CallPoints, WritingPoints, Goto, Call, Idle
  <1>1. CASE Adopt \/ OpenMonitor \/ LeaveLoop \/ TopOfLoop \/ ReadFails \/ ReadSucceeds
    BY <1>1 DEF Adopt, OpenMonitor, LeaveLoop, TopOfLoop, ReadFails, ReadSucceeds, fanVars,
       call
  <1>2. CASE SelectMaximum \/ LeaveEmergency \/ StayAuto \/ Control
    BY <1>2 DEF SelectMaximum, LeaveEmergency, StayAuto, Control, fanVars, call
  <1>3. CASE Maximum \/ MaximumReturns \/ MaximumSelected
    BY <1>3 DEF Maximum, MaximumReturns, MaximumSelected, SetMaximum, Begin, fanVars, call
  <1>4. CASE Restore \/ RestoreReturns \/ RestoreFails
    BY <1>4 DEF Restore, RestoreCall, RestoreReturns, RestoreFails, RestoreAuto, Begin,
       fanVars, call
  <1>5. CASE ApplyDry \/ ManualTaken \/ ManualKept \/ ApplyFails
    BY <1>5 DEF ApplyDry, ManualTaken, ManualKept, ApplyFails, fanVars, call
  <1>6. CASE TakeManual \/ KeepManual
    BY <1>6 DEF TakeManual, KeepManual, SetManual, UpdateManual, Begin, Refuse, fanVars,
       call
  <1>7. CASE Wait \/ SlowSensors \/ Suspend \/ RequestStop
    BY <1>7 DEF Wait, SlowSensors, Suspend, RequestStop, fanVars, call
  <1>8. CASE Finally \/ FinallyQuiet \/ Handoff
    BY <1>8 DEF Finally, FinallyQuiet, Handoff, MustFailSafe, SetMaximum, RestoreAuto,
       Begin, fanVars, call
  <1>9. CASE HandoffReturns \/ HandoffClears \/ FailsafeReturns \/ FailsafeClears
    BY <1>9 DEF HandoffReturns, HandoffClears, FailsafeReturns, FailsafeClears, SetMaximum,
       Begin, fanVars, call
  <1>10. CASE AdapterStep
    <2>1. UNCHANGED pc
      BY <1>10 DEF AdapterStep, controllerVars
    <2>2. QED
      BY <1>10, <2>1, AccessKeepsCall DEF AdapterStep
  <1>11. CASE (FanEnvironment /\ UNCHANGED controllerVars) \/ UNCHANGED vars
    BY <1>11 DEF FanEnvironment, FirmwareMoves, Meddle, vars, controllerVars, fanVars, call
  <1>12. QED
    BY <1>1, <1>2, <1>3, <1>4, <1>5, <1>6, <1>7, <1>8, <1>9, <1>10, <1>11
    DEF Next, ProcessStep, LoopStep, StopStep, Environment

\* The initial states are well typed.
LEMMA BaseInit == Init => BaseInv
  <1> SUFFICES ASSUME Init PROVE BaseInv
    OBVIOUS
  <1> USE DEF Init, ControllerInit
  <1>1. FanFlagsOK /\ CallsOK
    BY FanInitFlags, CallsInit
  <1>2. Waiting /\ PcOK
    BY DEF FanInit, Waiting, CallPoints, WritingPoints, PcOK, Running, Idle
  <1>3. ControlFlagsOK
    BY DEF ControlFlagsOK
  <1>4. TimesOK
    BY ControllerAssumption DEF ControllerAssumption, TimesOK, Never
  <1>5. PolicyOK
    BY NoneMissedTyped DEF PolicyOK, FilterStates
  <1>6. QED
    BY <1>1, <1>2, <1>3, <1>4, <1>5 DEF BaseInv, ControlOK

\* Every step keeps them so.
LEMMA BaseStep == BaseInv /\ [Next]_vars => BaseInv'
  BY FlagsStay, TimesStay, PolicyStays, CallsStay, FanFlagsStay, WaitingStays, PcStays
  DEF BaseInv, ControlOK

\* Every variable of the controller and the adapter keeps its range, through
\* failures, foreign modes and all orders of their steps.
THEOREM TypeCorrect == Spec => []TypeOK
  <1>1. BaseInv => TypeOK
    BY DEF BaseInv, ControlOK, ControlFlagsOK, TimesOK, PolicyOK, PcOK, CallsOK, TypeOK,
       FanTypeOK, ControllerTypeOK
  <1>2. QED
    BY <1>1, BaseInit, BaseStep, PTL DEF Spec

-----------------------------------------------------------------------------
(* Ownership: what the loop remembers of the fans, at each place.          *)

\* The places of the loop outside a transition.
Calm == {"monitor", "top", "wait", "read", "decide", "max", "apply"}

\* A sample is at hand that allows to leave Max.
Released == snapshot # NoSnapshot /\ ~IsCritical /\ filter = "cool"

\* No failed call is behind the loop, and a call that took Manual is behind it
\* while it controls.
CallsInv ==
  /\ pc \in Calm \cup {"max.clear"} => ~CallFails
  /\ pc \in {"apply", "apply.set", "apply.update"} => ~emergency
  /\ pc = "apply.set" => ~manualActive
  /\ pc = "apply.update" => manualActive
  /\ pc \in Calm /\ manualActive /\ ~emergency => Controlling
  /\ pc = "decide" => snapshot # NoSnapshot

\* The mode of the fans, unless somebody else chose it.
ModeInv == modeBy = "daemon" =>
  /\ pc \in Calm \ {"apply"} =>
       mode = IF emergency THEN "max" ELSE IF manualActive THEN "manual" ELSE "auto"
  /\ pc = "apply" => (manualActive <=> mode = "manual")
  /\ pc = "apply" /\ mode = "max" => Released
  /\ pc = "apply.set" /\ at = "enable" /\ mode = "max" => Released
  /\ pc = "max.clear" => mode = "max"
  /\ pc \in {"restore.call", "handoff.call"} /\ at = "enable" => mode = "manual"

\* The duty in the daemon's Manual mode, also through an update_manual that
\* leaves it unwritten.
DutyInv == DaemonManual =>
  /\ pc \in Calm => duty[1] = commanded
  /\ at = "read" /\ ~rewrite => duty[1] = target
  /\ Idle /\ result = "ok" /\ op \in ManualCalls => duty[1] = target

OwnInv == CallsInv /\ ModeInv /\ DutyInv

\* A new process knows nothing of the fans; it has no call behind it.
StartInv ==
  pc = "start" => op = "none" /\ result = "none" /\ ~manualActive /\ ~emergency

\* Once a process with --apply has looked at the mode, its memory and the fans
\* belong together.  Nothing is assumed of the fans before that: in Service a
\* process starts on what the previous one left.
Engaged == Apply /\ pc \in Running \ {"start"}

FullInv == BaseInv /\ ModeShape /\ StartInv /\ (Engaged => FanShape /\ OwnInv)

\* Under the invariant every step is one the adapter's specification allows.
LEMMA StepIsDisciplined ==
  ASSUME FullInv, [Next]_vars
  PROVE  [FanNext]_fanVars
  <1>1. FanEffect
    BY StepsOnFans DEF FullInv, BaseInv, ControlOK
  <1>2. CASE ManualCallOf
    <2>1. CallsInv /\ ModeInv /\ pc = "apply"
      BY <1>2 DEF ManualCallOf, FullInv, OwnInv, Engaged, Running, LoopPoints
    <2>2. CASE ~manualActive
      <3>1. ~CallFails /\ ~DaemonManual
        BY <2>1, <2>2 DEF CallsInv, ModeInv, Calm, DaemonManual
      <3>2. QED
        BY <1>2, <2>2, <3>1 DEF ManualCallOf, FanNext, OwnerCalls
    <2>3. CASE manualActive
      <3>1. Controlling
        BY <2>1, <2>3 DEF CallsInv, Calm
      <3>2. QED
        BY <1>2, <2>3, <3>1 DEF ManualCallOf, FanNext, OwnerCalls
    <2>4. QED
      BY <2>2, <2>3
  <1>3. CASE SetMaximum \/ RestoreAuto \/ AdapterStep \/ QuietForFans
    BY <1>3 DEF FanNext, OwnerCalls, QuietForFans, AdapterStep
  <1>4. QED
    BY <1>1, <1>2, <1>3 DEF FanEffect

\* The shape of the adapter's state follows.
LEMMA ShapeStays ==
  ASSUME FullInv, [Next]_vars
  PROVE  ModeShape' /\ (Engaged => FanShape')
  <1>1. [FanNext]_fanVars
    BY StepIsDisciplined
  <1>2. ModeShape'
    BY <1>1, FanNextKeepsModes DEF FullInv, BaseInv
  <1>3. ASSUME Engaged PROVE FanShape'
    BY <1>1, <1>3, OwnerCallsKeepShape, FanStepKeepsShape, FanEnvironmentKeepsShape,
       FanStutterKeepsShape
    DEF FullInv, FanNext
  <1>4. QED
    BY <1>2, <1>3

\* The process goes on from a mode it has adopted, Auto or Max.
LEMMA OwnAdopt ==
  ASSUME FullInv, Adopt, Engaged'
  PROVE  FanShape' /\ OwnInv'
  <1>1. /\ Apply /\ UNCHANGED fanVars /\ pc' = "monitor" /\ mode \in {"max", "auto"}
        /\ IF mode = "max" THEN manualActive' /\ emergency'
           ELSE UNCHANGED <<manualActive, emergency>>
    BY DEF Adopt, Goto, Engaged, Running, LoopPoints, StopPoints, ownership
  <1>2. /\ op = "none" /\ result = "none" /\ Idle /\ ~manualActive /\ ~emergency
        /\ CallsOK
    BY DEF FullInv, StartInv, BaseInv, Waiting, CallPoints, Adopt
  <1>3. FanShape
    BY <1>1, <1>2 DEF FanShape, CallsOK, ManualShape, DaemonManual, Idle, ManualCalls,
       ManualOps
  <1>4. OwnInv'
    BY <1>1, <1>2 DEF OwnInv, CallsInv, ModeInv, DutyInv, Calm, Controlling, DaemonManual,
       CallFails, Idle, fanVars, hw, call
  <1>5. QED
    BY <1>1, <1>3, <1>4, FanStutterKeepsShape

\* Steps of the loop that call nothing and wait for nothing.
LEMMA OwnLoopSteps ==
  ASSUME FullInv, Engaged,
         \/ OpenMonitor \/ LeaveLoop \/ TopOfLoop \/ ReadFails \/ ReadSucceeds
         \/ SelectMaximum \/ LeaveEmergency \/ StayAuto \/ Control \/ Wait
  PROVE  OwnInv'
  <1> USE DEF FullInv, BaseInv, ControlOK, ControlFlagsOK, OwnInv, CallsInv, ModeInv,
          DutyInv, Calm, Controlling, DaemonManual, CallFails, Idle, ClearGuard,
          ClearGuardFails, Goto
  <1>0. Waiting /\ CallsInv /\ ModeInv /\ DutyInv
    OBVIOUS
  <1>2. CASE OpenMonitor \/ LeaveLoop \/ TopOfLoop
    BY <1>2 DEF OpenMonitor, LeaveLoop, TopOfLoop, fanVars, hw, call, ownership, memory,
       policyVars
  <1>3. CASE ReadFails
    BY <1>3 DEF ReadFails, fanVars, hw, call, ownership, policyVars
  <1>4. CASE ReadSucceeds
    <2>1. snapshot' # NoSnapshot
      BY <1>4, SnapshotIsOne DEF ReadSucceeds
    <2>2. QED
      BY <1>4, <2>1 DEF ReadSucceeds, fanVars, hw, call, ownership
  <1>5. CASE SelectMaximum \/ StayAuto
    BY <1>5 DEF SelectMaximum, StayAuto, fanVars, hw, call, ownership, memory, policyVars
  <1>6. CASE LeaveEmergency
    BY <1>6 DEF LeaveEmergency, MayLeaveEmergency, GiveUpEmergency, Released, IsCritical,
       fanVars, hw, call, ownership, sampleVars
  <1>7. CASE Control
    BY <1>7 DEF Control, fanVars, hw, call, ownership, memory, policyVars
  <1>8. CASE Wait
    BY <1>8 DEF Wait, call, policyVars
  <1>9. QED
    BY <1>2, <1>3, <1>4, <1>5, <1>6, <1>7, <1>8

\* Selecting and restoring: the call that succeeded has left its mode.
LEMMA OwnTransitions ==
  ASSUME FullInv, Engaged,
         \/ Maximum \/ MaximumReturns \/ MaximumSelected
         \/ Restore \/ RestoreReturns \/ RestoreFails
  PROVE  OwnInv'
  <1> USE DEF Engaged, FullInv, BaseInv, ControlOK, ControlFlagsOK, Waiting, CallPoints, OwnInv,
          CallsInv, ModeInv, DutyInv, Calm, Controlling, DaemonManual, CallFails, Idle,
          ClearGuard, ClearGuardFails, Goto
  <1>1. CASE Maximum
    <2>1. CASE UNCHANGED fanVars /\ pc' \in {"max.clear", "finally"}
      BY <1>1, <2>1 DEF Maximum, SetMaximum, Begin, Call, fanVars, hw, call, memory, ownership,
         sampleVars, policyVars
    <2>2. CASE SetMaximum /\ pc' = "max.call"
      BY <1>1, <2>2 DEF Maximum, SetMaximum, Begin, hw, memory, ownership, sampleVars,
         policyVars
    <2>3. QED
      BY <1>1, <2>1, <2>2 DEF Maximum, Call
  <1>2. CASE MaximumReturns
    BY <1>2 DEF MaximumReturns, ModeShape, fanVars, hw, call, memory, ownership, sampleVars,
       policyVars
  <1>3. CASE MaximumSelected
    BY <1>3 DEF MaximumSelected, fanVars, hw, call, sampleVars
  <1>4. CASE Restore
    BY <1>4 DEF Restore, RestoreCall, RestoreAuto, Begin, CoolHandoff, hw, memory,
       ownership, sampleVars, policyVars
  <1>5. CASE RestoreReturns
    BY <1>5 DEF RestoreReturns, ModeShape, fanVars, hw, call, sampleVars
  <1>6. CASE RestoreFails
    BY <1>6 DEF RestoreFails, fanVars, hw, call, memory, ownership, sampleVars, policyVars
  <1>7. QED
    BY <1>1, <1>2, <1>3, <1>4, <1>5, <1>6

\* An update of Manual that writes nothing is asked for only if the duty in
\* Manual is the one commanded, and that is the duty it names.
LEMMA SkippedWriteIsRight ==
  ASSUME FullInv, Engaged, KeepManual, at' = "read", ~rewrite', DaemonManual'
  PROVE  duty'[1] = target'
  <1>1. PICK p \in DesiredDuties(commanded) :
          UpdateManual(Ceiling(p), MustWrite(Ceiling(p)))
    BY DEF KeepManual, Call
  <1>2. Ceiling(p) \in 1..ManualMax /\ AtLeastOne(Ceiling(p)) = Ceiling(p)
    BY <1>1, DutiesWithinRange, CeilingWithinRange
    DEF FullInv, BaseInv, ControlOK, PolicyOK
  <1>3. /\ UNCHANGED <<mode, duty, modeBy>> /\ pc = "apply"
        /\ target' = Ceiling(p) /\ rewrite' = MustWrite(Ceiling(p))
    BY <1>1, <1>2 DEF UpdateManual, Begin, Refuse, hw, Idle, KeepManual
  <1>4. commanded = Ceiling(p)
    BY <1>3 DEF MustWrite
  <1>5. duty[1] = commanded
    BY <1>3 DEF FullInv, OwnInv, DutyInv, Calm, DaemonManual
  <1>6. QED
    BY <1>3, <1>4, <1>5

\* Taking and keeping Manual.
LEMMA OwnApply ==
  ASSUME FullInv, Engaged,
         TakeManual \/ KeepManual \/ ManualTaken \/ ManualKept \/ ApplyFails
  PROVE  OwnInv'
  <1> USE DEF Engaged, FullInv, BaseInv, Waiting, CallPoints, OwnInv,
          CallsInv, ModeInv, DutyInv, Calm, Controlling, DaemonManual, CallFails, Idle,
          ClearGuard, ClearGuardFails, Goto
  <1>1. CASE TakeManual
    <2>1. CASE UNCHANGED fanVars /\ pc' = "finally"
      BY <1>1, <2>1 DEF TakeManual, fanVars, hw, call, memory, ownership, sampleVars,
         policyVars
    <2>2. ASSUME NEW p, SetManual(p), pc' = "apply.set" PROVE OwnInv'
      <3>1. /\ pc = "apply" /\ ~manualActive
            /\ UNCHANGED <<manualActive, emergency, snapshot, filter>>
        BY <1>1 DEF TakeManual, memory, ownership, sampleVars
      <3>2. /\ UNCHANGED hw /\ op' = "set_manual"
            /\ (at' = "enable" /\ result' = "none") \/ (at' = "idle" /\ result' = "error")
        BY <2>2 DEF SetManual, Begin, Refuse
      <3>3. QED
        BY <2>2, <3>1, <3>2 DEF hw, Released, IsCritical
    <2>3. QED
      BY <1>1, <2>1, <2>2 DEF TakeManual, Call
  <1>2. CASE KeepManual
    <2>1. PICK p \in DesiredDuties(commanded) :
            UpdateManual(Ceiling(p), MustWrite(Ceiling(p)))
      BY <1>2 DEF KeepManual, Call
    <2>2. /\ pc = "apply" /\ pc' = "apply.update"
          /\ UNCHANGED <<manualActive, emergency, snapshot, filter>> /\ manualActive
      BY <1>2 DEF KeepManual, Call, memory, ownership, sampleVars
    <2>3. /\ UNCHANGED hw /\ op' = "update_manual"
          /\ (at' = "read" /\ result' = "none") \/ (at' = "idle" /\ result' = "error")
      BY <2>1 DEF UpdateManual, Begin, Refuse
    <2>4. CallsInv' /\ ModeInv'
      BY <2>2, <2>3 DEF hw
    <2>5. DutyInv'
      BY <1>2, <2>2, <2>3, SkippedWriteIsRight DEF hw
    <2>6. QED
      BY <2>4, <2>5
  <1>3. CASE ManualTaken
    BY <1>3 DEF ManualTaken, ModeShape, ManualCalls, ManualOps, fanVars, hw, call,
       sampleVars
  <1>4. CASE ManualKept
    BY <1>4 DEF ManualKept, ModeShape, ManualCalls, ManualOps, fanVars, hw, call,
       ownership, sampleVars
  <1>5. CASE ApplyFails
    BY <1>5 DEF ApplyFails, fanVars, hw, call, memory, ownership, sampleVars, policyVars
  <1>6. QED
    BY <1>1, <1>2, <1>3, <1>4, <1>5

\* The finally block: Manual is given back only from Manual.
LEMMA OwnStop ==
  ASSUME FullInv, Engaged, StopStep
  PROVE  OwnInv'
  <1> USE DEF FullInv, BaseInv, Waiting, CallPoints, OwnInv,
          CallsInv, ModeInv, DutyInv, Calm, DaemonManual, Idle,
          ClearGuard, ClearGuardFails, Goto, SetMaximum, RestoreAuto, Begin, Call
  <1>1. CASE Finally \/ FinallyQuiet
    BY <1>1 DEF Finally, FinallyQuiet, fanVars, hw, call
  <1>2. CASE Handoff
    BY <1>2 DEF Handoff, fanVars, hw, call
  <1>3. CASE HandoffReturns \/ HandoffClears
    BY <1>3 DEF HandoffReturns, HandoffClears, fanVars, hw, call
  <1>4. CASE FailsafeReturns \/ FailsafeClears
    BY <1>4 DEF FailsafeReturns, FailsafeClears, fanVars, hw, call
  <1>5. QED
    BY <1>1, <1>2, <1>3, <1>4 DEF StopStep

\* The accesses of a running call.
LEMMA OwnAccess ==
  ASSUME FullInv, Engaged, AdapterStep
  PROVE  OwnInv'
  <1> USE DEF FullInv, BaseInv
  <1>1. /\ UNCHANGED <<pc, manualActive, emergency, snapshot, filter, commanded>>
        /\ FanStep
    BY DEF AdapterStep, controllerVars, memory, ownership, sampleVars, policyVars
  <1>2. pc \notin Calm \cup {"max.clear", "decide"}
    BY <1>1, AccessKeepsCall DEF Waiting, CallPoints, Calm
  <1>3. CallsInv'
    BY <1>1, <1>2 DEF CallsInv, OwnInv, Calm
  <1>4. at' = "enable" => op' = "recover"
    BY <1>1 DEF FanStep, ReadMode, WriteEnable, WritePwm, WriteFails, Rollback, Return
  <1>5. ModeInv'
    <2>1. ModeShape'
      BY ShapeStays DEF Next, ProcessStep
    <2>2. pc' \notin {"apply.set", "restore.call", "handoff.call"} \/ at' # "enable"
      BY <1>1, <1>4, AccessKeepsCall DEF Waiting
    <2>3. QED
      BY <1>1, <1>2, <2>2 DEF ModeInv, Calm
  <1>6. DutyInv'
    <2>1. FanShape /\ FanShape'
      BY ShapeStays DEF Next, ProcessStep
    <2>2. at' # "read"
      BY <1>1 DEF FanStep, ReadMode, WriteEnable, WritePwm, WriteFails, Rollback, Return
    <2>3. ASSUME DaemonManual', at' = "idle", result' = "ok", op' \in ManualCalls
          PROVE  duty'[1] = target'
      <3> USE DEF DaemonManual, Idle, Return, hw
      <3>1. CASE ReadMode
        <4>1. at = "read" /\ ~rewrite /\ DaemonManual /\ UNCHANGED <<duty, target>>
          BY <2>3, <3>1 DEF ReadMode
        <4>2. QED
          BY <4>1 DEF OwnInv, DutyInv
      <3>2. CASE WriteEnable
        BY <2>3, <3>2 DEF WriteEnable, ManualCalls, ManualOps
      <3>3. CASE WritePwm
        <4>1. /\ at = "pwm" /\ DaemonManual /\ LastChannel
              /\ duty' = [duty EXCEPT ![chan] = PwmTarget(chan, target)]
              /\ target' = target
          BY <2>3, <3>3 DEF WritePwm, WriteFails
        <4>2. duty \in Duties /\ chan \in 1..Channels
          BY <2>1 DEF FanShape, FanDataOK
        <4>3. CASE chan = 1
          BY <4>1, <4>2, <4>3 DEF Duties, PwmTarget
        <4>4. CASE chan # 1
          <5>1. duty[1] = target
            BY <2>1, <4>1, <4>4 DEF FanShape, ManualShape
          <5>2. QED
            BY <4>1, <4>2, <4>4, <5>1 DEF Duties
        <4>5. QED
          BY <4>3, <4>4
      <3>4. CASE Rollback
        BY <2>3, <3>4 DEF Rollback
      <3>5. QED
        BY <1>1, <3>1, <3>2, <3>3, <3>4 DEF FanStep
    <2>4. QED
      BY <1>1, <1>2, <2>2, <2>3 DEF DutyInv, Idle
  <1>7. QED
    BY <1>3, <1>5, <1>6 DEF OwnInv

\* What the EC, a user, the firmware, slow sensors and signals do.
LEMMA OwnEnvironment ==
  ASSUME FullInv, Engaged, Environment \/ UNCHANGED vars
  PROVE  OwnInv'
  <1> USE DEF FullInv, OwnInv, CallsInv, ModeInv, DutyInv, Controlling, CallFails, Idle,
          DaemonManual, Released, IsCritical, memory, ownership, policyVars, sampleVars,
          fanVars, hw, call
  <1>1. CASE FanEnvironment /\ UNCHANGED controllerVars
    BY <1>1 DEF FanEnvironment, FirmwareMoves, Meddle, controllerVars
  <1>2. CASE SlowSensors
    BY <1>2 DEF SlowSensors
  <1>3. CASE Suspend \/ RequestStop
    BY <1>3 DEF Suspend, RequestStop
  <1>4. CASE UNCHANGED vars
    BY <1>4 DEF vars, controllerVars
  <1>5. QED
    BY <1>1, <1>2, <1>3, <1>4 DEF Environment

-----------------------------------------------------------------------------
(* The theorems about ownership.                                           *)

\* At the start nothing has been called and nothing is owned.
LEMMA FullInit == Init => FullInv
  <1> SUFFICES ASSUME Init PROVE FullInv
    OBVIOUS
  <1>1. BaseInv /\ ~Engaged
    BY BaseInit DEF Init, ControllerInit, Engaged
  <1>2. ModeShape /\ StartInv
    BY DEF Init, FanInit, ControllerInit, ModeShape, StartInv
  <1>3. QED
    BY <1>1, <1>2 DEF FullInv

\* No step of the controller leads back to its start, and none but those of
\* others is taken while the process has only begun.
LEMMA StartStays ==
  ASSUME FullInv, [Next]_vars
  PROVE  StartInv'
  <1> USE DEF StartInv
  <1>1. CASE pc' # "start"
    BY <1>1
  <1>2. CASE pc' = "start"
    <2>1. \/ FanEnvironment /\ UNCHANGED controllerVars
          \/ RequestStop \/ Suspend \/ SlowSensors \/ UNCHANGED vars \/ AdapterStep
      <3>1. ~LoopStep
        BY <1>2 DEF LoopStep, Adopt, OpenMonitor, LeaveLoop, TopOfLoop, ReadFails,
           ReadSucceeds, SelectMaximum, LeaveEmergency, StayAuto, Control, Maximum,
           MaximumReturns, MaximumSelected, Restore, RestoreReturns, RestoreFails, ApplyDry,
           TakeManual, KeepManual, ManualTaken, ManualKept, ApplyFails, Wait, Goto, Call
      <3>2. ~StopStep
        BY <1>2 DEF StopStep, Finally, FinallyQuiet, Handoff, HandoffReturns, HandoffClears,
           FailsafeReturns, FailsafeClears, Goto, Call
      <3>3. QED
        BY <3>1, <3>2 DEF Next, ProcessStep, Environment
    <2>2. pc = "start" /\ UNCHANGED <<manualActive, emergency>>
      BY <1>2, <2>1 DEF RequestStop, Suspend, SlowSensors, AdapterStep, vars, controllerVars,
         memory, ownership
    <2>3. ~AdapterStep
      BY <2>2, AccessKeepsCall
      DEF FullInv, BaseInv, Waiting, CallPoints, AdapterStep
    <2>4. UNCHANGED call
      BY <2>1, <2>3 DEF FanEnvironment, FirmwareMoves, Meddle, RequestStop, Suspend,
         SlowSensors, vars, fanVars
    <2>5. QED
      BY <2>2, <2>4 DEF FullInv, call
  <1>3. QED
    BY <1>1, <1>2

\* All steps of a process that has adopted a mode.
LEMMA OwnStep ==
  ASSUME FullInv, Engaged, [Next]_vars
  PROVE  OwnInv'
  <1>1. ~ApplyDry /\ ~Adopt
    BY DEF ApplyDry, Adopt, Engaged
  <1>2. QED
    BY <1>1, OwnLoopSteps, OwnTransitions, OwnApply, OwnStop, OwnAccess, OwnEnvironment
    DEF Next, ProcessStep, LoopStep

\* A process engages by adopting the mode it finds.
LEMMA AdoptEngages ==
  ASSUME FullInv, [Next]_vars, Engaged', ~Engaged
  PROVE  Adopt
  <1>1. pc \in {"start", "exit"} /\ pc' \notin {"start", "exit"}
    BY DEF FullInv, BaseInv, PcOK, Engaged, Running, LoopPoints, StopPoints
  <1>2. ~StopStep /\ ~AdapterStep
    BY <1>1 DEF StopStep, Finally, FinallyQuiet, Handoff, HandoffReturns, HandoffClears,
       FailsafeReturns, FailsafeClears, AdapterStep, controllerVars
  <1>3. ~Environment /\ ~UNCHANGED vars
    BY <1>1 DEF Environment, SlowSensors, Suspend, RequestStop, vars, controllerVars
  <1>4. QED
    BY <1>1, <1>2, <1>3 DEF Next, ProcessStep, LoopStep, OpenMonitor, LeaveLoop, TopOfLoop,
       ReadFails, ReadSucceeds, SelectMaximum, LeaveEmergency, StayAuto, Control, Maximum,
       MaximumReturns, MaximumSelected, Restore, RestoreReturns, RestoreFails, ApplyDry,
       TakeManual, KeepManual, ManualTaken, ManualKept, ApplyFails, Wait

\* Every step keeps the whole of it.
LEMMA FullStep == FullInv /\ [Next]_vars => FullInv'
  <1> SUFFICES ASSUME FullInv, [Next]_vars PROVE FullInv'
    OBVIOUS
  <1>1. BaseInv' /\ StartInv' /\ ModeShape'
    BY BaseStep, StartStays, ShapeStays DEF FullInv
  <1>2. ASSUME Engaged' PROVE FanShape' /\ OwnInv'
    BY <1>2, AdoptEngages, OwnAdopt, OwnStep, ShapeStays
  <1>3. QED
    BY <1>1, <1>2 DEF FullInv

\* The inductive invariant of the control loop and the adapter together.
THEOREM FullInvariant == Spec => []FullInv
  BY FullInit, FullStep, PTL DEF Spec

\* The controller implements the environment the adapter's specification
\* assumes, so every theorem about FanSpec holds of the controller: set_manual
\* is called only out of Auto or Max, update_manual only after a call that took
\* or kept Manual, and nothing but a way out after a failed call.
THEOREM ControllerIsDisciplined == Spec => CallsAreDisciplined
  <1>1. Init => FanInit
    BY DEF Init
  <1>2. FullInv /\ [Next]_vars => [FanNext]_fanVars
    BY StepIsDisciplined
  <1>3. QED
    BY <1>1, <1>2, FullInvariant, PTL DEF Spec, CallsAreDisciplined, FanSpec

\* Between transitions manual_active and emergency name the mode the daemon
\* selected, whatever failed, was interrupted or was changed from outside
\* before (Controller.run, _maximum, _apply_manual, _restore_auto).
THEOREM OwnershipAgrees == Spec => []OwnershipMatchesFans
  <1>1. FullInv => OwnershipMatchesFans
    BY DEF FullInv, OwnInv, ModeInv, OwnershipMatchesFans, Settled, Calm, Engaged,
           Running, LoopPoints
  <1>2. QED
    BY <1>1, FullInvariant, PTL

\* The duty the policy limits its next change by is the duty in the fans, also
\* after writes that were skipped because nothing seemed to change
\* (_apply_manual, update_manual with write_pwm false).
THEOREM DutyIsCommanded == Spec => []ManualCarriesCommandedDuty
  <1>1. FullInv => ManualCarriesCommandedDuty
    BY DEF FullInv, OwnInv, DutyInv, ManualCarriesCommandedDuty, Settled, Calm,
       DaemonManual, Engaged, Running, LoopPoints
  <1>2. QED
    BY <1>1, FullInvariant, PTL

\* An access that takes the fans out of a maximum the daemon selected is the
\* first write of set_manual.
LEMMA LeavesMaximumByManual ==
  ASSUME FullInv, [Next]_vars,
         mode = "max", modeBy = "daemon", mode' # "max", modeBy' = "daemon"
  PROVE  Apply /\ pc = "apply.set" /\ at = "enable" /\ mode' = "manual"
  <1>1. AdapterStep
    <2>1. FanEffect
      BY StepsOnFans DEF FullInv, BaseInv, ControlOK
    <2>2. ~(ManualCallOf \/ SetMaximum \/ RestoreAuto \/ QuietForFans)
      BY DEF ManualCallOf, SetManual, UpdateManual, SetMaximum, RestoreAuto, Begin, Refuse,
         QuietForFans, FanEnvironment, FirmwareMoves, Meddle, WindowPasses, fanVars, hw
    <2>3. QED
      BY <2>1, <2>2 DEF FanEffect
  <1>2. at = "enable" /\ op \in {"set_manual", "restore_auto"}
    <2>1. ~ReadMode /\ ~WritePwm /\ ~Rollback
      BY DEF FullInv, ModeShape, ReadMode, WritePwm, WriteFails, Rollback, hw
    <2>2. WriteEnable
      BY <1>1, <2>1 DEF AdapterStep, FanStep
    <2>3. QED
      BY <2>2 DEF WriteEnable, Switch, hw, ManualOps, FullInv, ModeShape
  <1>3. CASE op = "set_manual"
    <2>1. Apply /\ pc = "apply.set"
      BY <1>2, <1>3 DEF FullInv, BaseInv, Waiting, CallPoints, Idle
    <2>2. mode' = "manual"
      BY <1>1, <1>2, <1>3 DEF AdapterStep, FanStep, ReadMode, WriteEnable, WritePwm,
         Rollback, Switch, hw
    <2>3. QED
      BY <1>2, <2>1, <2>2
  <1>4. CASE op = "restore_auto"
    <2>1. Apply /\ pc \in {"restore.call", "handoff.call"}
      BY <1>2, <1>4 DEF FullInv, BaseInv, Waiting, CallPoints, Idle
    <2>2. mode = "manual"
      BY <1>2, <2>1 DEF FullInv, OwnInv, ModeInv, Engaged, Running, LoopPoints, StopPoints
    <2>3. QED
      BY <2>2
  <1>5. QED
    BY <1>2, <1>3, <1>4

\* It is made for a sample that released the maximum.
LEMMA LeavesMaximumReleased ==
  ASSUME FullInv, [Next]_vars,
         mode = "max", modeBy = "daemon", mode' # "max", modeBy' = "daemon"
  PROVE  mode' = "manual" /\ ~emergency /\ Released
  <1>1. Apply /\ pc = "apply.set" /\ at = "enable" /\ mode' = "manual"
    BY LeavesMaximumByManual
  <1>2. QED
    BY <1>1 DEF FullInv, OwnInv, CallsInv, ModeInv, Engaged, Running, LoopPoints

\* A maximum the daemon selected is never handed to Auto and never left blind:
\* only Manual control follows it, on a sample at hand that is below critical
\* and smoothed down to the release temperature (the emergency branch of run,
\* _restore_auto and the finally block).
THEOREM MaximumIsLeftCool == Spec => MaximumLeftOnlyWhenCool
  <1>1. FullInv /\ [Next]_vars =>
          [ mode = "max" /\ modeBy = "daemon" /\ mode' # "max" /\ modeBy' = "daemon"
              => /\ mode' = "manual" /\ ~emergency
                 /\ snapshot # NoSnapshot /\ ~IsCritical /\ filter = "cool" ]_vars
    BY LeavesMaximumReleased DEF Released
  <1>2. QED
    BY <1>1, FullInvariant, PTL DEF Spec, MaximumLeftOnlyWhenCool

-----------------------------------------------------------------------------
(* The fan-stop window.                                                    *)

\* What the time of a sensor read may eat of the guard beyond its slack: zero
\* when auto_guard_s exceeds the fan-stop window by the time of a read.
Slip == IF FanStop + SlowRead > Guard THEN FanStop + SlowRead - Guard ELSE 0

\* The guard outlasts the window but for the slip.
WindowCovered ==
  IF guardLeft = Never THEN fanStop <= Slip ELSE fanStop <= guardLeft + Slip

GuardedPoints == Calm \cup {"start"}

WindowInv == Apply /\ pc \in GuardedPoints => WindowCovered

\* The slip is a time.
LEMMA SlipIsNat == Slip \in Nat
  BY FanAssumption, ControllerAssumption DEF FanAssumption, ControllerAssumption, Slip

\* Without a window there is nothing to cover.
LEMMA NoWindow ==
  ASSUME fanStop' = 0, guardLeft' \in {Never} \cup Nat
  PROVE  WindowInv'
  <1>1. 0 <= Slip /\ (guardLeft' \in Nat => 0 <= guardLeft' + Slip)
    <2>1. Slip \in Nat
      BY SlipIsNat
    <2> HIDE DEF Slip
    <2>2. QED
      BY <2>1
  <1>2. QED
    BY <1>1 DEF WindowInv, WindowCovered, Never, Slip

\* Neither the window nor the guard changes, and no place is entered where the
\* window must be covered.
LEMMA WindowUntouched ==
  ASSUME WindowInv, UNCHANGED <<fanStop, guardLeft>>, pc' \in GuardedPoints => pc \in GuardedPoints
  PROVE  WindowInv'
  BY DEF WindowInv, WindowCovered, Slip

\* Time runs for both.
LEMMA WindowTicks ==
  ASSUME WindowInv, TimesOK, fanStop \in Nat, pc \in GuardedPoints,
         fanStop' = Left(fanStop), guardLeft' = Left(guardLeft)
  PROVE  WindowInv'
  <1>1. CASE ~Apply
    BY <1>1 DEF WindowInv
  <1>2. CASE Apply /\ guardLeft = Never
    <2>1. guardLeft' = Never /\ fanStop' \in Nat /\ fanStop' <= fanStop
      BY <1>2 DEF Left, Never
    <2>2. fanStop <= Slip /\ Slip \in Nat
      BY <1>2, SlipIsNat DEF WindowInv, WindowCovered
    <2>3. fanStop' <= Slip
      <3> HIDE DEF Slip
      <3> QED
        BY <2>1, <2>2
    <2>4. QED
      BY <2>1, <2>3 DEF WindowInv, WindowCovered, Slip
  <1>3. CASE Apply /\ guardLeft \in Nat
    <2>1. fanStop <= guardLeft + Slip /\ Slip \in Nat
      BY <1>3, SlipIsNat DEF WindowInv, WindowCovered, Never
    <2>2. guardLeft' \in Nat /\ fanStop' <= guardLeft' + Slip
      <3> HIDE DEF Slip
      <3> QED
        BY <1>3, <2>1 DEF Left
    <2>3. QED
      BY <2>2 DEF WindowInv, WindowCovered, Never, Slip
  <1>4. QED
    BY <1>1, <1>2, <1>3, ControllerAssumption DEF TimesOK, ControllerAssumption

\* A new guard covers the window a restore has just opened but for the slip.
LEMMA NewGuardCovers ==
  ASSUME fanStop \in 0..FanStop, lag \in 0..SlowRead, UNCHANGED fanStop,
         guardLeft' = Guard - lag
  PROVE  WindowInv'
  <1>1. guardLeft' \in Nat /\ fanStop' <= guardLeft' + Slip
    BY FanAssumption, ControllerAssumption DEF FanAssumption, ControllerAssumption, Slip
  <1>2. QED
    BY <1>1 DEF WindowInv, WindowCovered, Never, Slip

\* A mode of the daemon other than Auto, or somebody else's, has no window.
LEMMA OnlyAutoHasWindow ==
  ASSUME CallsOK, ModeShape, modeBy = "daemon" => mode # "auto"
  PROVE  fanStop = 0
  BY FanAssumption DEF FanAssumption, CallsOK, FanDataOK, ModeShape

\* Guard and window run down together; a restore sets the one for the other.
LEMMA WindowStep ==
  ASSUME FullInv, WindowInv, [Next]_vars
  PROVE  WindowInv'
  <1>1. /\ CallsOK /\ ModeShape /\ TimesOK /\ TimesOK'
        /\ fanStop \in 0..FanStop /\ fanStop \in Nat /\ lag \in 0..SlowRead
    BY FullStep, FanAssumption
    DEF FanAssumption, FullInv, BaseInv, ControlOK, TimesOK, CallsOK, FanDataOK
  <1>2. guardLeft' \in {Never} \cup Nat
    BY <1>1, ControllerAssumption DEF TimesOK, ControllerAssumption
  <1>3. Apply /\ pc \in {"decide", "max.clear"} => ModeInv
    BY DEF FullInv, OwnInv, Engaged, Running, LoopPoints
  <1>4. CASE ~Apply
    BY <1>4 DEF WindowInv
  <1>5. CASE pc' \notin GuardedPoints
    BY <1>5 DEF WindowInv
  <1>6. CASE \/ Adopt \/ OpenMonitor \/ ReadFails \/ ReadSucceeds
             \/ SelectMaximum \/ StayAuto \/ Control \/ Suspend \/ RequestStop
             \/ UNCHANGED vars
    <2>1. UNCHANGED <<fanStop, guardLeft>> /\ (pc' \in GuardedPoints => pc \in GuardedPoints)
      BY <1>6 DEF Adopt, OpenMonitor, ReadFails, ReadSucceeds, SelectMaximum,
         StayAuto, Control, Suspend, RequestStop, Calm, GuardedPoints, Goto, memory, guardVars,
         fanVars, hw, vars, controllerVars
    <2>2. QED
      BY <2>1, WindowUntouched
  <1>7. CASE TopOfLoop
    <2>1. UNCHANGED fanStop /\ pc \in GuardedPoints
          /\ (UNCHANGED guardLeft \/ (guardLeft = 0 /\ guardLeft' = Never))
      BY <1>7 DEF TopOfLoop, ClearGuard, ClearGuardFails, GuardExpired, guardVars, fanVars,
         hw, Calm, GuardedPoints
    <2>2. CASE UNCHANGED guardLeft
      BY <2>1, <2>2, WindowUntouched
    <2>3. CASE Apply /\ guardLeft = 0 /\ guardLeft' = Never
      <3>1. fanStop <= 0 + Slip
        BY <2>1, <2>3 DEF WindowInv, WindowCovered, Never
      <3>2. fanStop <= Slip
        BY <3>1, SlipIsNat
      <3>3. QED
        BY <2>1, <2>3, <3>2 DEF WindowInv, WindowCovered, Slip
    <2>4. QED
      BY <1>4, <2>1, <2>2, <2>3
  <1>8. CASE Apply /\ LeaveEmergency
    <2>1. UNCHANGED fanStop /\ emergency /\ pc = "decide"
      BY <1>8 DEF LeaveEmergency, MayLeaveEmergency, fanVars, hw
    <2>2. fanStop = 0
      BY <1>1, <1>3, <1>8, <2>1, OnlyAutoHasWindow DEF ModeInv, Calm, GuardedPoints
    <2>3. QED
      BY <1>2, <2>1, <2>2, NoWindow
  <1>9. CASE Apply /\ MaximumSelected
    <2>1. UNCHANGED fanStop /\ pc = "max.clear"
      BY <1>9 DEF MaximumSelected, fanVars, hw
    <2>2. fanStop = 0
      BY <1>1, <1>3, <1>9, <2>1, OnlyAutoHasWindow DEF ModeInv, Calm, GuardedPoints
    <2>3. QED
      BY <1>2, <2>1, <2>2, NoWindow
  <1>10. CASE Apply /\ (ManualTaken \/ ManualKept)
    <2>1. /\ UNCHANGED fanStop /\ Idle /\ result = "ok"
          /\ pc \in {"apply.set", "apply.update"}
      BY <1>10 DEF ManualTaken, ManualKept, fanVars, hw
    <2>2. modeBy = "daemon" => mode = "manual"
      BY <1>1, <1>10, <2>1
      DEF ModeShape, FullInv, BaseInv, Waiting, ManualCalls, ManualOps
    <2>3. fanStop = 0
      BY <1>1, <2>2, OnlyAutoHasWindow
    <2>4. QED
      BY <1>2, <2>1, <2>3, NoWindow
  <1>11. CASE RestoreReturns
    <2>1. UNCHANGED fanStop /\ guardLeft' = Guard - lag
      BY <1>11 DEF RestoreReturns, GuardDeadline, fanVars, hw
    <2>2. QED
      BY <1>1, <2>1, NewGuardCovers
  <1>12. CASE Wait \/ SlowSensors
    <2>1. /\ pc \in GuardedPoints
          /\ \/ fanStop' = Left(fanStop) /\ guardLeft' = Left(guardLeft)
             \/ UNCHANGED <<fanStop, guardLeft>>
      BY <1>12 DEF Wait, SlowSensors, Tick, Calm, GuardedPoints
    <2>2. QED
      BY <1>1, <2>1, WindowTicks, WindowUntouched
  <1>13. CASE FanEnvironment /\ UNCHANGED controllerVars
    <2>1. /\ fanStop' = 0 \/ UNCHANGED fanStop
          /\ UNCHANGED <<guardLeft, pc>>
      BY <1>13 DEF FanEnvironment, FirmwareMoves, Meddle, controllerVars, memory
    <2>2. QED
      BY <1>2, <2>1, NoWindow, WindowUntouched
  <1>14. CASE \/ LeaveLoop \/ Maximum \/ MaximumReturns \/ Restore \/ RestoreFails
              \/ TakeManual \/ KeepManual \/ ApplyFails
    <2>1. pc' \notin GuardedPoints
      BY <1>14 DEF LeaveLoop, Maximum, MaximumReturns, Restore, RestoreFails, TakeManual,
         KeepManual, ApplyFails, Goto, Call, Calm, GuardedPoints
    <2>2. QED
      BY <1>5, <2>1
  <1>15. CASE StopStep
    <2>1. pc' \notin GuardedPoints
      BY <1>15 DEF StopStep, Finally, FinallyQuiet, Handoff, HandoffReturns,
         HandoffClears, FailsafeReturns, FailsafeClears, Goto, Call, Calm, GuardedPoints
    <2>2. QED
      BY <1>5, <2>1
  <1>16. CASE AdapterStep
    <2>1. pc' = pc /\ ~Idle
      BY <1>1, <1>16, AccessKeepsCall DEF AdapterStep, controllerVars
    <2>2. pc' \notin GuardedPoints
      BY <2>1 DEF FullInv, BaseInv, Waiting, CallPoints, Calm, GuardedPoints
    <2>3. QED
      BY <1>5, <2>2
  <1>17. CASE ApplyDry
    BY <1>4, <1>17 DEF ApplyDry
  <1>18. QED
    BY <1>4, <1>6, <1>7, <1>8, <1>9, <1>10, <1>11, <1>12, <1>13, <1>14, <1>15, <1>16,
       <1>17
    DEF Next, ProcessStep, LoopStep, Environment

\* The window is covered throughout.
LEMMA WindowInvariant == Spec => []WindowInv
  <1>1. Init => WindowInv
    BY SlipIsNat DEF Init, FanInit, ControllerInit, WindowInv, WindowCovered
  <1>2. QED
    BY <1>1, WindowStep, FullInvariant, PTL DEF Spec

\* Whatever auto_guard_s the configuration allows, the part of the fan-stop
\* window beyond the slip is guarded, with its marker in place: at worst the
\* last Slip ticks of it are not.
THEOREM WindowGuardedButForSlip ==
  Spec => [](Settled /\ Apply /\ fanStop > Slip => guardLeft > 0 /\ guardFile)
  <1>1. FullInv /\ WindowInv /\ GuardInv =>
          (Settled /\ Apply /\ fanStop > Slip => guardLeft > 0 /\ guardFile)
    <2> SUFFICES ASSUME FullInv, WindowInv, GuardInv, Settled, Apply, fanStop > Slip
                 PROVE  guardLeft > 0 /\ guardFile
      OBVIOUS
    <2>1. pc \in Calm /\ WindowCovered /\ (guardFile <=> guardLeft # Never)
      BY DEF Settled, Calm, GuardedPoints, WindowInv, GuardInv, MarkerInv, Unbroken, LoopPoints
    <2>2. fanStop \in Nat /\ guardLeft \in {Never} \cup Nat /\ Slip \in Nat
      BY SlipIsNat, FanAssumption
      DEF FanAssumption, GuardInv, GuardTimes, FullInv, BaseInv, CallsOK, FanDataOK
    <2>3. guardLeft # Never
      <3> HIDE DEF Slip
      <3> QED
        BY <2>1, <2>2 DEF WindowCovered
    <2>4. fanStop <= guardLeft + Slip
      BY <2>1, <2>3 DEF WindowCovered
    <2>5. guardLeft > 0
      <3> HIDE DEF Slip
      <3> QED
        BY <2>2, <2>3, <2>4
    <2>6. QED
      BY <2>1, <2>3, <2>5
  <1>2. QED
    BY <1>1, FullInvariant, WindowInvariant, GuardInvariant, PTL

\* With a guard that exceeds the window by the time of a sensor read, as the
\* default of 180 s does, no tick of the window is left without guard and
\* marker (_start_auto_guard, _auto_guard_active).
THEOREM WindowGuarded ==
  ASSUME FanStop + SlowRead <= Guard
  PROVE  Spec => []FanStopWindowGuarded
  <1>1. Slip = 0
    BY FanAssumption, ControllerAssumption DEF FanAssumption, ControllerAssumption, Slip
  <1>2. (Settled /\ Apply /\ fanStop > Slip => guardLeft > 0 /\ guardFile)
          => FanStopWindowGuarded
    BY <1>1 DEF FanStopWindowGuarded
  <1>3. QED
    BY <1>2, WindowGuardedButForSlip, PTL

-----------------------------------------------------------------------------
(* The window at the end of the process.                                   *)

\* A window that is open has a guard that has not expired.
Watched == fanStop > 0 => guardLeft > 0

\* The first write of Manual has failed, with a rollback to Auto.
ManualFailed == op = "set_manual" /\ CallFails

EndPoints == {"start", "monitor", "max.call", "restore.call", "finally", "failsafe",
              "failsafe.clear", "exit"}

\* What is known of the window on the ways to the end of the process.
EndInv == Apply =>
  /\ pc \in {"start", "monitor", "failsafe.clear"} => fanStop = 0
  /\ pc = "max.call" => Watched
  /\ pc = "restore.call" => manualActive
  /\ pc = "finally" /\ ~Owning => Watched \/ ManualFailed
  /\ pc = "failsafe" /\ Idle => result # "none"
  /\ pc = "exit" => fanStop = 0 \/ (CallFails /\ op \in {"set_maximum", "set_manual"})

\* In the loop the guard outlasts the window.
LEMMA CalmIsWatched ==
  ASSUME FanStop + SlowRead <= Guard, FullInv, WindowInv, Apply, pc \in Calm
  PROVE  Watched
  <1>1. Slip = 0
    BY FanAssumption, ControllerAssumption DEF FanAssumption, ControllerAssumption, Slip
  <1>2. WindowCovered
    BY DEF WindowInv, GuardedPoints
  <1>3. fanStop \in Nat /\ guardLeft \in {Never} \cup Nat
    BY FanAssumption, ControllerAssumption
    DEF FanAssumption, ControllerAssumption, FullInv, BaseInv, ControlOK, TimesOK, CallsOK,
        FanDataOK
  <1>4. IF guardLeft = Never THEN fanStop <= 0 ELSE fanStop <= guardLeft
    BY <1>1, <1>2, <1>3 DEF WindowCovered, Never
  <1>5. QED
    BY <1>3, <1>4 DEF Watched, Never

\* The process stays where it is, and the window at most closes.
LEMMA EndStays ==
  ASSUME EndInv, UNCHANGED <<pc, guardLeft, manualActive, emergency, call>>,
         fanStop' = fanStop \/ fanStop' = 0
  PROVE  EndInv'
  <1>1. Watched => Watched'
    BY DEF Watched
  <1>2. UNCHANGED <<at, op, result>>
    BY DEF call
  <1>3. QED
    BY <1>1, <1>2 DEF EndInv, ManualFailed, CallFails, Idle, Owning

\* The loop is left with a window that is watched, or with fans that are owned.
LEMMA EndsLoop ==
  ASSUME FanStop + SlowRead <= Guard, FullInv, WindowInv, EndInv, LoopStep
  PROVE  EndInv'
  <1> USE DEF Goto, Call, EndPoints
  <1>1. CASE ~Apply \/ pc' \notin EndPoints
    BY <1>1 DEF EndInv
  <1>2. Apply /\ pc \in Calm => Watched
    BY CalmIsWatched
  <1>3. CASE Apply /\ (Adopt \/ OpenMonitor)
    <2>1. pc \in {"start", "monitor"} /\ UNCHANGED fanStop
          /\ pc' \in {"monitor", "top", "exit"}
      BY <1>3 DEF Adopt, OpenMonitor, fanVars, hw
    <2>2. QED
      BY <1>3, <2>1 DEF EndInv
  <1>4. CASE Apply /\ pc' = "finally" /\ UNCHANGED <<fanStop, guardLeft>> /\ pc \in Calm
    BY <1>2, <1>4 DEF EndInv, Watched
  <1>5. CASE Apply /\ pc' = "finally" /\ Owning'
    BY <1>5 DEF EndInv
  <1>6. CASE Apply /\ pc' = "finally" /\ fanStop' = 0
    BY <1>6 DEF EndInv, Watched
  <1>7. CASE Apply /\ pc' = "finally" /\ (LeaveLoop \/ TopOfLoop \/ Wait)
    <2>1. CASE UNCHANGED <<fanStop, guardLeft>> /\ pc \in Calm
      BY <1>4, <1>7, <2>1
    <2>2. CASE guardLeft = 0 /\ UNCHANGED fanStop /\ pc = "top"
      <3>1. fanStop \in Nat /\ ~(fanStop > 0)
        BY <1>2, <1>7, <2>2, FanAssumption
        DEF Watched, Calm, FanAssumption, FullInv, BaseInv, CallsOK, FanDataOK
      <3>2. QED
        BY <1>6, <1>7, <2>2, <3>1
    <2>3. QED
      BY <1>7, <2>1, <2>2 DEF LeaveLoop, TopOfLoop, Wait, GuardExpired, Calm, fanVars, hw, memory
  <1>8. CASE Apply /\ pc' = "finally" /\ LeaveEmergency
    <2>1. UNCHANGED fanStop /\ emergency /\ pc = "decide"
      BY <1>8 DEF LeaveEmergency, MayLeaveEmergency, fanVars, hw
    <2>2. modeBy = "daemon" => mode # "auto"
      BY <1>8, <2>1 DEF FullInv, OwnInv, Engaged, Running, LoopPoints, ModeInv, Calm
    <2>3. fanStop = 0
      BY <2>2, OnlyAutoHasWindow DEF FullInv, BaseInv
    <2>4. QED
      BY <1>6, <1>8, <2>1, <2>3
  <1>9. CASE Apply /\ Maximum
    <2>1. CASE pc' = "finally"
      BY <1>4, <1>9, <2>1 DEF Maximum, Calm, fanVars, hw, memory
    <2>2. CASE pc' = "max.call"
      BY <1>2, <1>9, <2>2 DEF Maximum, Calm, SetMaximum, Begin, hw, memory, EndInv, Watched
    <2>3. QED
      BY <1>1, <2>1, <2>2, <1>9 DEF Maximum
  <1>10. CASE Apply /\ pc' = "finally" /\ MaximumReturns
    <2>1. Watched /\ UNCHANGED <<fanStop, guardLeft>>
      BY <1>10 DEF MaximumReturns, EndInv, fanVars, hw, memory
    <2>2. QED
      BY <1>10, <2>1 DEF EndInv, Watched
  <1>11. CASE Apply /\ pc' = "finally" /\ (MaximumSelected \/ ManualTaken)
    BY <1>5, <1>11 DEF MaximumSelected, ManualTaken, Owning
  <1>12. CASE Apply /\ pc' = "finally" /\ RestoreReturns
    <2>1. UNCHANGED fanStop /\ guardLeft' = Guard - lag
      BY <1>12 DEF RestoreReturns, GuardDeadline, fanVars, hw
    <2>2. fanStop \in 0..FanStop /\ lag \in 0..SlowRead
      BY DEF FullInv, BaseInv, ControlOK, TimesOK, CallsOK, FanDataOK
    <2>3. Watched'
      BY <2>1, <2>2, FanAssumption, ControllerAssumption
      DEF FanAssumption, ControllerAssumption, Watched
    <2>4. QED
      BY <1>12, <2>3 DEF EndInv
  <1>13. CASE Apply /\ pc' = "finally" /\ RestoreFails
    <2>1. manualActive
      BY <1>13 DEF RestoreFails, EndInv
    <2>2. QED
      BY <1>5, <1>13, <2>1 DEF RestoreFails, Owning, memory, ownership
  <1>14. CASE Apply /\ pc' = "finally" /\ TakeManual
    BY <1>4, <1>14 DEF TakeManual, SetManual, Begin, Refuse, Calm, hw, memory, fanVars
  <1>15. CASE Apply /\ pc' = "finally" /\ ApplyFails
    <2>1. pc \in {"apply.set", "apply.update"} /\ CallFails /\ UNCHANGED <<fanVars, memory>>
      BY <1>15 DEF ApplyFails
    <2>2. CASE pc = "apply.set"
      <3>1. op = "set_manual"
        BY <1>15, <2>2 DEF FullInv, BaseInv, Waiting
      <3>2. ManualFailed'
        BY <2>1, <3>1 DEF ManualFailed, CallFails, fanVars, call
      <3>3. QED
        BY <1>15, <3>2 DEF EndInv
    <2>3. CASE pc = "apply.update"
      <3>1. manualActive
        BY <1>15, <2>3 DEF FullInv, OwnInv, CallsInv, Engaged, Running, LoopPoints
      <3>2. QED
        BY <1>5, <1>15, <2>1, <3>1 DEF Owning, memory, ownership
    <2>4. QED
      BY <2>1, <2>2, <2>3
  <1>16. CASE \/ ReadFails \/ ReadSucceeds \/ SelectMaximum \/ StayAuto \/ Control
              \/ ApplyDry \/ KeepManual \/ ManualKept
    <2>1. pc' \notin EndPoints
      BY <1>16 DEF ReadFails, ReadSucceeds, SelectMaximum, StayAuto, Control, ApplyDry,
         KeepManual, ManualKept
    <2>2. QED
      BY <1>1, <2>1
  <1>17. CASE Apply /\ Restore
    BY <1>17 DEF Restore, CoolHandoff, EndInv, memory, ownership
  <1>18. \/ Adopt \/ OpenMonitor \/ Maximum \/ Restore
         \/ pc' \in {"finally"} \/ pc' \notin EndPoints
    BY DEF LoopStep, LeaveLoop, TopOfLoop, ReadFails, ReadSucceeds, SelectMaximum,
       LeaveEmergency, StayAuto, Control, MaximumReturns, MaximumSelected, Restore,
       RestoreReturns, RestoreFails, ApplyDry, TakeManual, KeepManual, ManualTaken, ManualKept,
       ApplyFails, Wait
  <1>19. QED
    BY <1>1, <1>3, <1>7, <1>8, <1>9, <1>10, <1>11, <1>12, <1>13, <1>14, <1>15, <1>16, <1>17, <1>18
    DEF LoopStep

\* On the way out the window is handed over, replaced by Max, or left where the
\* write of Max or the first write of Manual failed.
LEMMA EndsStop ==
  ASSUME FullInv, EndInv, StopStep
  PROVE  EndInv'
  <1> USE DEF Goto, Call, EndPoints
  <1>1. CASE ~Apply \/ pc' \notin EndPoints
    BY <1>1 DEF EndInv
  <1>2. CASE Apply /\ pc' = "failsafe" /\ SetMaximum
    BY <1>2 DEF EndInv, SetMaximum, Begin, Idle
  <1>3. CASE Apply /\ Finally
    BY <1>1, <1>2, <1>3 DEF Finally
  <1>4. CASE Apply /\ FinallyQuiet
    <2>1. pc = "finally" /\ ~Owning /\ ~(guardLeft > 0) /\ pc' = "exit" /\ UNCHANGED fanVars
      BY <1>4 DEF FinallyQuiet, MustFailSafe, GuardRuns
    <2>2. ~(fanStop > 0) \/ ManualFailed
      BY <1>4, <2>1 DEF EndInv, Watched
    <2>3. fanStop \in Nat
      BY FanAssumption DEF FanAssumption, FullInv, BaseInv, CallsOK, FanDataOK
    <2>4. fanStop = 0 \/ ManualFailed
      BY <2>2, <2>3
    <2>5. fanStop' = 0 \/ (CallFails' /\ op' = "set_manual")
      BY <2>1, <2>4 DEF ManualFailed, CallFails, fanVars, hw, call
    <2>6. QED
      BY <2>1, <2>5 DEF EndInv
  <1>5. CASE Apply /\ (Handoff \/ HandoffReturns)
    BY <1>1, <1>2, <1>5 DEF Handoff, HandoffReturns
  <1>6. CASE Apply /\ HandoffClears
    <2>1. CASE pc' = "exit" /\ fanStop' = 0
      BY <2>1 DEF EndInv
    <2>2. QED
      BY <1>2, <1>6, <2>1 DEF HandoffClears
  <1>7. CASE Apply /\ FailsafeReturns
    <2>1. /\ pc = "failsafe" /\ Idle /\ UNCHANGED fanVars /\ op = "set_maximum" /\ result # "none"
          /\ pc' = IF result = "ok" THEN "failsafe.clear" ELSE "exit"
      BY <1>7 DEF FailsafeReturns, EndInv, FullInv, BaseInv, Waiting
    <2>2. CASE result = "ok"
      <3>1. modeBy = "daemon" => mode # "auto"
        BY <2>1, <2>2 DEF FullInv, ModeShape
      <3>2. fanStop = 0
        BY <3>1, OnlyAutoHasWindow DEF FullInv, BaseInv
      <3>3. QED
        BY <2>1, <2>2, <3>2 DEF EndInv, fanVars, hw
    <2>3. CASE result # "ok"
      <3>1. CallFails
        BY <2>1, <2>3 DEF CallFails, FullInv, BaseInv, CallsOK, FanDataOK, Results
      <3>2. CallFails' /\ op' = "set_maximum" /\ pc' = "exit"
        BY <2>1, <2>3, <3>1 DEF CallFails, fanVars, call
      <3>3. QED
        BY <3>2 DEF EndInv
    <2>4. QED
      BY <2>2, <2>3
  <1>8. CASE Apply /\ FailsafeClears
    BY <1>8 DEF FailsafeClears, EndInv, fanVars, hw
  <1>9. QED
    BY <1>1, <1>3, <1>4, <1>5, <1>6, <1>7, <1>8 DEF StopStep

\* Accesses, the EC, time and signals.
LEMMA EndsElse ==
  ASSUME FullInv, EndInv, AdapterStep \/ Environment \/ UNCHANGED vars
  PROVE  EndInv'
  <1>1. CASE SlowSensors
    BY <1>1 DEF SlowSensors, EndInv
  <1>2. CASE Suspend \/ RequestStop \/ UNCHANGED vars
    BY <1>2, EndStays
    DEF Suspend, RequestStop, vars, fanVars, hw, call, controllerVars, memory, ownership, guardVars
  <1>3. CASE FanEnvironment /\ UNCHANGED controllerVars
    BY <1>3, EndStays
    DEF FanEnvironment, FirmwareMoves, Meddle, controllerVars, memory, ownership
  <1>4. CASE AdapterStep
    <2>1. /\ UNCHANGED <<pc, guardLeft, manualActive, emergency>> /\ FanStep /\ at # "idle"
      BY <1>4 DEF AdapterStep, controllerVars, memory, ownership, FanStep, ReadMode, WriteEnable,
         WritePwm, Rollback
    <2>2. pc \in CallPoints /\ (Apply /\ pc \in {"max.call", "failsafe"} => op = "set_maximum")
          /\ CallShape
      BY <2>1 DEF FullInv, BaseInv, CallsOK, Waiting, Idle
    <2>3. CASE Apply /\ pc = "restore.call"
      BY <2>1, <2>3 DEF EndInv
    <2>4. CASE Apply /\ pc \in {"max.call", "failsafe"}
      <3>1. WriteEnable /\ op = "set_maximum"
        BY <2>1, <2>2, <2>4
        DEF FanStep, ReadMode, WritePwm, Rollback, CallShape, ManualCalls, ManualOps
      <3>2. (fanStop' = 0 \/ fanStop' = fanStop) /\ result' # "none"
        BY <3>1 DEF WriteEnable, Switch, Return, hw, ManualOps
      <3>3. Watched => Watched'
        BY <2>1, <3>2 DEF Watched
      <3>4. QED
        BY <2>1, <2>4, <3>2, <3>3 DEF EndInv
    <2>5. CASE ~Apply \/ pc \notin {"restore.call", "max.call", "failsafe"}
      BY <2>1, <2>2, <2>5 DEF EndInv, CallPoints
    <2>6. QED
      BY <2>3, <2>4, <2>5
  <1>5. QED
    BY <1>1, <1>2, <1>3, <1>4 DEF Environment

\* With a guard that exceeds the window by the time of a sensor read, no signal,
\* exception, failing marker or failed handoff ends the process on an open
\* window, but for a failed write of Max and for the rollback of a failed first
\* write of Manual (_failsafe_on_stop, _stop_handoff_to_auto).
THEOREM WindowLeftByRollbackOnly ==
  ASSUME FanStop + SlowRead <= Guard
  PROVE  Spec => []OnlyRollbackAbandonsWindow
  <1>1. Init => EndInv
    BY DEF Init, FanInit, ControllerInit, EndInv
  <1>2. FullInv /\ WindowInv /\ EndInv /\ [Next]_vars => EndInv'
    BY EndsLoop, EndsStop, EndsElse DEF Next, ProcessStep
  <1>3. FullInv /\ EndInv => OnlyRollbackAbandonsWindow
    BY FanAssumption DEF FanAssumption, EndInv, OnlyRollbackAbandonsWindow
  <1>4. QED
    BY <1>1, <1>2, <1>3, FullInvariant, WindowInvariant, PTL DEF Spec

=============================================================================
