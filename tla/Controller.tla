---------------------------- MODULE Controller ----------------------------
(***************************************************************************)
(* Controller.run and everything it calls: the control loop, its           *)
(* transitions between firmware Auto, Manual and firmware Max, the Auto    *)
(* guard with its marker file, and the decision taken when the process     *)
(* ends.  Every access to sysfs or to /run is a step of its own (the calls *)
(* of the fan adapter are those of HpFan), so that signals, failures, the  *)
(* EC and, in Service, crashes come between any two of them.               *)
(*                                                                         *)
(* Time is counted in sample intervals and passes while the loop waits or  *)
(* reads the sensors.                                                      *)
(***************************************************************************)
EXTENDS HpFan, Policy

CONSTANTS
  Apply,      \* --apply; FALSE is a dry run
  Timed,      \* whether --duration may end the run
  Hold,       \* emergency_hold_s in ticks
  Guard,      \* auto_guard_s in ticks
  AgeLimit,   \* STOP_HANDOFF_MAX_TEMPERATURE_AGE_S in ticks
  SlowRead    \* ticks a sensor read may take

ASSUME ControllerAssumption ==
  /\ Apply \in BOOLEAN /\ Timed \in BOOLEAN
  /\ Hold \in Nat /\ Guard \in Nat /\ AgeLimit \in Nat /\ SlowRead \in Nat
  /\ TopDuty = FullDuty
  /\ FanStop <= Guard    \* validate: auto_guard_s >= 120
  /\ SlowRead <= Guard   \* the sensors' timeouts are seconds

VARIABLES
  pc,             \* where the process is
  stopRequested,  \* stop_requested, set by SIGTERM or SIGINT
  manualActive,   \* manual_active
  emergency,      \* emergency
  holdLeft,       \* ticks until emergency_since + emergency_hold_s
  guardLeft,      \* ticks until auto_guard_until
  guardFile,      \* the marker in /run/omen-fanctl exists
  guardActive,    \* auto_guard_active, sampled at the top of the loop
  held,           \* held_long_enough, which uses the same sampled clock
  lag,            \* ticks since the loop sampled the clock
  outside,        \* the profile last seen is not the required one
  snapshot,       \* last_snapshot, NoSnapshot when None
  age,            \* its age on CLOCK_BOOTTIME, up to AgeLimit + 1
  activated,      \* ControlPolicy._activated_sensors
  missed,         \* ControlPolicy._optional_missing_samples
  filter,         \* the EWMA filters, see Policy
  commanded       \* ControlPolicy._commanded_pwm

guardVars == <<guardLeft, guardFile>>
ownership == <<manualActive, emergency, holdLeft>>
policyVars == <<activated, missed, commanded>>
sampleVars == <<snapshot, age, filter>>
localVars == <<guardActive, held, lag, outside>>
memory == <<stopRequested, ownership, guardLeft, localVars, sampleVars, policyVars>>
controllerVars == <<pc, memory, guardFile>>
vars == <<fanVars, controllerVars>>

Never == -1     \* emergency_since or auto_guard_until is None

LoopPoints == {"top", "wait", "read", "decide", "max", "max.call", "max.clear",
               "restore.call", "apply", "apply.set", "apply.update"}
StopPoints == {"finally", "handoff", "handoff.call", "handoff.clear",
               "failsafe", "failsafe.clear"}
Running == LoopPoints \cup StopPoints \cup {"start", "monitor"}

ControllerTypeOK ==
  /\ stopRequested \in BOOLEAN /\ manualActive \in BOOLEAN /\ emergency \in BOOLEAN
  /\ holdLeft \in {Never} \cup 0..Hold /\ guardLeft \in {Never} \cup 0..Guard
  /\ guardFile \in BOOLEAN /\ guardActive \in BOOLEAN /\ held \in BOOLEAN
  /\ lag \in 0..SlowRead /\ outside \in BOOLEAN
  /\ snapshot \in Snapshots \cup {NoSnapshot} /\ age \in 0..AgeLimit + 1
  /\ activated \subseteq Sensors /\ missed \in [Optional -> 0..MissingLimit]
  /\ filter \in FilterStates /\ commanded \in {NoDuty} \cup 1..FullDuty

TypeOK == FanTypeOK /\ ControllerTypeOK /\ pc \in Running \cup {"exit"}

\* The memory of a process that has just been created.
FreshMemory ==
  /\ stopRequested' = FALSE /\ manualActive' = FALSE /\ emergency' = FALSE
  /\ holdLeft' = Never /\ guardLeft' = Never
  /\ guardActive' = FALSE /\ held' = FALSE /\ lag' = 0 /\ outside' = FALSE
  /\ snapshot' = NoSnapshot /\ age' = 0 /\ filter' = "unset"
  /\ activated' = {} /\ missed' = NoneMissed /\ commanded' = NoDuty

ControllerInit ==
  /\ pc = "start" /\ stopRequested = FALSE
  /\ manualActive = FALSE /\ emergency = FALSE /\ holdLeft = Never
  /\ guardLeft = Never /\ guardFile = FALSE
  /\ guardActive = FALSE /\ held = FALSE /\ lag = 0 /\ outside = FALSE
  /\ snapshot = NoSnapshot /\ age = 0 /\ filter = "unset"
  /\ activated = {} /\ missed = NoneMissed /\ commanded = NoDuty

Init == FanInit /\ ControllerInit

-----------------------------------------------------------------------------
(* Helpers of several handlers.                                            *)

\* Mutant of ClearGuard.
DeadlineForgotten == guardLeft' = Never /\ UNCHANGED guardFile

\* _clear_auto_guard forgets the deadline before it unlinks the marker.
ClearGuard == guardLeft' = Never /\ guardFile' = FALSE
ClearGuardFails == Apply /\ MayFail /\ guardLeft' = Never /\ UNCHANGED guardFile

Goto(label) == pc' = label

\* A call of the adapter, after which the process continues at label.
Call(invocation, label) == invocation /\ Goto(label)

Owning == manualActive \/ emergency

\* _auto_guard_active
GuardExpired == guardLeft = 0
GuardRuns == guardLeft > 0

\* Mutant of LoopGoesOn.
LoopGoesOnWhileOwning == ~stopRequested \/ Owning

LoopGoesOn == ~stopRequested

\* Mutant of HoldOver.
HoldOverEarly == holdLeft <= 1

\* now - emergency_since >= emergency_hold_s
HoldOver == holdLeft = 0

-----------------------------------------------------------------------------
(* The start of run.                                                       *)

\* Max is adopted as an emergency; any mode but Auto and Max is refused, and
\* nothing is restored on the way out because the try block has not begun.
Adopt ==
  /\ pc = "start"
  /\ \/ /\ Apply /\ mode = "max"
        /\ manualActive' = TRUE /\ emergency' = TRUE /\ holdLeft' = Hold
        /\ commanded' = FullDuty /\ Goto("monitor")
     \/ /\ Apply => mode = "auto"
        /\ Goto("monitor") /\ UNCHANGED <<ownership, commanded>>
     \/ /\ Apply /\ (mode \notin {"auto", "max"} \/ MayFail)
        /\ Goto("exit") /\ UNCHANGED <<ownership, commanded>>
  /\ UNCHANGED <<fanVars, stopRequested, guardVars, localVars, sampleVars,
                 activated, missed>>

\* PlatformProfileMonitor opens and reads the profile.
OpenMonitor ==
  /\ pc = "monitor"
  /\ \/ Goto("top") /\ outside' \in BOOLEAN
     \/ MayFail /\ Goto("exit") /\ UNCHANGED outside
  /\ UNCHANGED <<fanVars, stopRequested, ownership, guardVars, guardActive, held,
                 lag, sampleVars, policyVars>>

-----------------------------------------------------------------------------
(* The control loop.                                                       *)

\* The loop condition and the configured duration.
LeaveLoop ==
  /\ pc = "top" /\ (~LoopGoesOn \/ Timed)
  /\ Goto("finally")
  /\ UNCHANGED <<fanVars, memory, guardFile>>

\* The clock is sampled, an expired guard is cleared, and the loop sleeps when
\* the profile does not ask for control and nothing is left to protect.
TopOfLoop ==
  /\ pc = "top" /\ LoopGoesOn
  /\ lag' = 0 /\ guardActive' = GuardRuns /\ held' = HoldOver
  /\ \/ GuardExpired /\ ClearGuardFails /\ Goto("finally") /\ UNCHANGED filter
     \/ /\ IF GuardExpired THEN ClearGuard ELSE UNCHANGED guardVars
        /\ IF outside /\ ~(Owning \/ GuardRuns)
           THEN filter' = "unset" /\ Goto("wait")
           ELSE UNCHANGED filter /\ Goto("read")
  /\ UNCHANGED <<fanVars, stopRequested, ownership, outside, snapshot, age,
                 policyVars>>

\* Sensors.read raised: the last sample is dropped, and Max is selected if the
\* fans are not the firmware's alone.
ReadFails ==
  /\ pc = "read"
  /\ filter' = "unset" /\ snapshot' = NoSnapshot /\ age' = 0
  /\ Goto(IF Owning \/ guardActive THEN "max" ELSE "wait")
  /\ UNCHANGED <<fanVars, stopRequested, ownership, guardVars, localVars,
                 policyVars>>

ReadSucceeds ==
  /\ pc = "read"
  /\ \E s \in Snapshots :
       /\ snapshot' = s /\ age' = 0
       /\ filter' \in Filtered(filter, s)
       /\ activated' = Activated(activated, missed, s)
       /\ missed' = Missed(activated, missed, s)
  /\ Goto("decide")
  /\ UNCHANGED <<fanVars, stopRequested, ownership, guardVars, localVars,
                 commanded>>

\* The branches of the decision, in the order of the code.
IsCritical == ReachesCritical(snapshot)

\* Mutant of MayLeaveEmergency.
MayLeaveWhenHeld == emergency /\ ~IsCritical /\ held

MayLeaveEmergency == emergency /\ ~IsCritical /\ filter = "cool" /\ held

\* Mutant of StaysAuto.
StaysAutoWhileGuarded ==
  ~emergency /\ ~manualActive /\ (guardActive \/ ~ShouldActivate(snapshot))

StaysAuto == ~emergency /\ ~manualActive /\ ~ShouldActivate(snapshot)
CoolHandoff == ~emergency /\ manualActive /\ CoolEnough(activated, snapshot)

SelectMaximum ==
  /\ pc = "decide"
  /\ IsCritical \/ (emergency /\ ~MayLeaveEmergency)
  /\ Goto("max")
  /\ UNCHANGED <<fanVars, memory, guardFile>>

\* Mutant of GiveUpEmergency.
KeepOwnership == emergency' = FALSE /\ UNCHANGED manualActive /\ holdLeft' = Never

GiveUpEmergency == emergency' = FALSE /\ manualActive' = FALSE /\ holdLeft' = Never

\* The emergency and the ownership of the fans are given up before Manual
\* control is taken again in apply.
LeaveEmergency ==
  /\ pc = "decide" /\ ~IsCritical /\ MayLeaveEmergency
  /\ GiveUpEmergency
  /\ commanded' = NoDuty /\ activated' = ActivationSources(snapshot)
  /\ missed' = NoneMissed
  /\ \/ ClearGuard /\ Goto("apply")
     \/ ClearGuardFails /\ Goto("finally")
  /\ UNCHANGED <<fanVars, stopRequested, localVars, sampleVars>>

StayAuto ==
  /\ pc = "decide" /\ ~IsCritical /\ StaysAuto
  /\ Goto("wait")
  /\ UNCHANGED <<fanVars, memory, guardFile>>

\* A decrease before the next control tick is skipped; nothing commanded yet
\* is never skipped.
Control ==
  /\ pc = "decide" /\ ~IsCritical /\ ~emergency /\ ~StaysAuto /\ ~CoolHandoff
  /\ Goto("apply") \/ (commanded # NoDuty /\ Goto("wait"))
  /\ UNCHANGED <<fanVars, memory, guardFile>>

-----------------------------------------------------------------------------
(* _maximum, followed by the emergency flags its callers in run set.       *)

Maximum ==
  /\ pc = "max"
  /\ \/ ~Apply /\ Goto("max.clear") /\ UNCHANGED fanVars
     \/ Apply /\ mode = "max" /\ Goto("max.clear") /\ UNCHANGED fanVars
     \/ Apply /\ mode # "max" /\ Call(SetMaximum, "max.call")
     \/ Apply /\ MayFail /\ Goto("finally") /\ UNCHANGED fanVars
  /\ UNCHANGED <<memory, guardFile>>

MaximumReturns ==
  /\ pc = "max.call" /\ Idle
  /\ Goto(IF result = "ok" THEN "max.clear" ELSE "finally")
  /\ UNCHANGED <<fanVars, memory, guardFile>>

\* emergency_since is set once, to the clock of the top of the loop.
HoldDeadline == IF holdLeft = Never THEN Greatest(Hold - lag, 0) ELSE holdLeft

MaximumSelected ==
  /\ pc = "max.clear"
  /\ manualActive' = TRUE /\ commanded' = FullDuty
  /\ \/ /\ ClearGuard /\ Goto("wait")
        /\ emergency' = TRUE
        /\ holdLeft' = HoldDeadline
     \/ ClearGuardFails /\ Goto("finally") /\ UNCHANGED <<emergency, holdLeft>>
  /\ UNCHANGED <<fanVars, stopRequested, localVars, sampleVars, activated, missed>>

-----------------------------------------------------------------------------
(* _restore_auto and _start_auto_guard.                                    *)

\* Mutant of RestoreCall.
RestoreEvenDry == RestoreAuto

RestoreCall == IF Apply THEN RestoreAuto ELSE UNCHANGED fanVars

Restore ==
  /\ pc = "decide" /\ ~IsCritical /\ CoolHandoff
  /\ RestoreCall
  /\ Goto("restore.call")
  /\ UNCHANGED <<memory, guardFile>>

\* Mutants of GuardDeadline.
DeadlineTooShort == FanStop - lag
DeadlineTooLate == Guard + lag

\* The guard deadline counts from the clock sampled at the top of the loop.  A
\* marker that cannot be written may have been created all the same.
GuardDeadline == Guard - lag

RestoreReturns ==
  /\ pc = "restore.call" /\ Idle /\ (Apply => result = "ok")
  /\ manualActive' = FALSE /\ emergency' = FALSE /\ holdLeft' = Never
  /\ activated' = {} /\ missed' = NoneMissed /\ commanded' = NoDuty
  /\ guardLeft' = GuardDeadline
  /\ \/ guardFile' = Apply /\ Goto("wait")
     \/ Apply /\ MayFail /\ guardFile' \in {guardFile, TRUE} /\ Goto("finally")
  /\ UNCHANGED <<fanVars, stopRequested, localVars, sampleVars>>

RestoreFails ==
  /\ pc = "restore.call" /\ Idle /\ Apply /\ result # "ok"
  /\ Goto("finally")
  /\ UNCHANGED <<fanVars, memory, guardFile>>

-----------------------------------------------------------------------------
(* _apply_manual.  Only its first call of a cycle reads the running duty;  *)
(* later ones go through update_manual, which checks the mode.             *)

Ceiling(p) == Least(p, ManualMax)

\* Mutant of MustWrite.
MustRaise(p) == p > commanded

MustWrite(p) == p # commanded

ApplyDry ==
  /\ pc = "apply" /\ ~Apply
  /\ manualActive' = TRUE
  /\ \E p \in DesiredDuties(commanded) : commanded' = Ceiling(p)
  /\ ClearGuard /\ Goto("wait")
  /\ UNCHANGED <<fanVars, stopRequested, emergency, holdLeft, localVars, sampleVars,
                 activated, missed>>

TakeManual ==
  /\ pc = "apply" /\ Apply /\ ~manualActive
  /\ \/ \E p \in DesiredDuties(commanded) :
          Call(SetManual(Ceiling(Greatest(Ceiling(p), duty[1]))), "apply.set")
     \/ MayFail /\ Goto("finally") /\ UNCHANGED fanVars
  /\ UNCHANGED <<memory, guardFile>>

KeepManual ==
  /\ pc = "apply" /\ Apply /\ manualActive
  /\ \E p \in DesiredDuties(commanded) :
       Call(UpdateManual(Ceiling(p), MustWrite(Ceiling(p))), "apply.update")
  /\ UNCHANGED <<memory, guardFile>>

ManualTaken ==
  /\ pc = "apply.set" /\ Idle /\ result = "ok"
  /\ manualActive' = TRUE
  /\ \/ ClearGuard /\ commanded' = target /\ Goto("wait")
     \/ ClearGuardFails /\ UNCHANGED commanded /\ Goto("finally")
  /\ UNCHANGED <<fanVars, stopRequested, emergency, holdLeft, localVars, sampleVars,
                 activated, missed>>

ManualKept ==
  /\ pc = "apply.update" /\ Idle /\ result = "ok"
  /\ commanded' = target /\ Goto("wait")
  /\ UNCHANGED <<fanVars, stopRequested, ownership, guardVars, localVars, sampleVars,
                 activated, missed>>

ApplyFails ==
  /\ pc \in {"apply.set", "apply.update"} /\ Idle /\ CallFails
  /\ Goto("finally")
  /\ UNCHANGED <<fanVars, memory, guardFile>>

-----------------------------------------------------------------------------
(* Waiting, time and signals.                                              *)

Left(t) == IF t > 0 THEN t - 1 ELSE t

Tick ==
  /\ holdLeft' = Left(holdLeft) /\ guardLeft' = Left(guardLeft)
  /\ fanStop' = Left(fanStop)
  /\ age' = IF snapshot # NoSnapshot /\ age <= AgeLimit THEN age + 1 ELSE age

\* _wait_for_profile_change ends at its timeout, early on a profile change, or
\* with an error of poll or of the profile file.
Wait ==
  /\ pc = "wait"
  /\ \/ /\ Goto("top")
        /\ \/ Tick /\ outside' \in BOOLEAN
           \/ outside' = ~outside /\ UNCHANGED <<holdLeft, guardLeft, fanStop, age>>
           \/ stopRequested /\ UNCHANGED <<outside, holdLeft, guardLeft, fanStop, age>>
     \/ /\ MayFail /\ Goto("finally")
        /\ UNCHANGED <<outside, holdLeft, guardLeft, fanStop, age>>
  /\ UNCHANGED <<mode, duty, modeBy, recoveryPending, call, stopRequested,
                 manualActive, emergency, guardFile, guardActive, held, lag,
                 snapshot, filter, policyVars>>

\* A sensor read takes time.
SlowSensors ==
  /\ pc = "read" /\ lag < SlowRead
  /\ lag' = lag + 1 /\ Tick
  /\ UNCHANGED <<mode, duty, modeBy, recoveryPending, call, pc, stopRequested,
                 manualActive, emergency, guardFile, guardActive, held, outside,
                 snapshot, filter, policyVars>>

\* A system suspend ages the sample but not the monotonic deadlines.
Suspend ==
  /\ pc \in LoopPoints \cup {"finally"} /\ snapshot # NoSnapshot /\ age <= AgeLimit
  /\ age' = AgeLimit + 1
  /\ UNCHANGED <<fanVars, pc, stopRequested, ownership, guardVars, localVars,
                 snapshot, filter, policyVars>>

RequestStop ==
  /\ pc \in Running /\ ~stopRequested
  /\ stopRequested' = TRUE
  /\ UNCHANGED <<fanVars, pc, ownership, guardVars, localVars, sampleVars,
                 policyVars>>

-----------------------------------------------------------------------------
(* _failsafe_on_stop and _stop_handoff_to_auto.                            *)

\* Mutant of MustFailSafe.
MustFailSafeOwning == Apply /\ Owning

MustFailSafe == Apply /\ (Owning \/ GuardRuns)

MayHandOff ==
  /\ stopRequested /\ ~emergency
  /\ snapshot # NoSnapshot /\ age <= AgeLimit
  /\ CoolEnoughToStop(activated, snapshot)

Finally ==
  /\ pc = "finally" /\ MustFailSafe
  /\ IF MayHandOff
     THEN Goto("handoff") /\ UNCHANGED fanVars
     ELSE Call(SetMaximum, "failsafe")
  /\ UNCHANGED <<memory, guardFile>>

FinallyQuiet ==
  /\ pc = "finally" /\ ~MustFailSafe
  /\ \/ guardLeft = Never /\ UNCHANGED guardVars
     \/ guardLeft # Never /\ (ClearGuard \/ ClearGuardFails)
  /\ Goto("exit")
  /\ UNCHANGED <<fanVars, stopRequested, ownership, localVars, sampleVars,
                 policyVars>>

\* The mode is read once: Auto is kept, Manual is given back, and Max, an
\* unknown mode or an unreadable one leads to the fail-safe.
Handoff ==
  /\ pc = "handoff"
  /\ \/ mode = "auto" /\ Goto("handoff.clear") /\ UNCHANGED fanVars
     \/ mode = "manual" /\ Call(RestoreAuto, "handoff.call")
     \/ (mode \in {"max", "other"} \/ MayFail) /\ Call(SetMaximum, "failsafe")
  /\ UNCHANGED <<memory, guardFile>>

HandoffReturns ==
  /\ pc = "handoff.call" /\ Idle
  /\ IF result = "ok"
     THEN Goto("handoff.clear") /\ UNCHANGED fanVars
     ELSE Call(SetMaximum, "failsafe")
  /\ UNCHANGED <<memory, guardFile>>

\* A completed handoff leaves the fan-stop window to the firmware, unwatched.
HandoffClears ==
  /\ pc = "handoff.clear"
  /\ manualActive' = FALSE
  /\ \/ /\ ClearGuard /\ Goto("exit") /\ fanStop' = 0
        /\ UNCHANGED <<mode, duty, modeBy, recoveryPending, call>>
     \/ ClearGuardFails /\ Call(SetMaximum, "failsafe")
  /\ UNCHANGED <<stopRequested, emergency, holdLeft, localVars, sampleVars, policyVars>>

FailsafeReturns ==
  /\ pc = "failsafe" /\ Idle
  /\ Goto(IF result = "ok" THEN "failsafe.clear" ELSE "exit")
  /\ UNCHANGED <<fanVars, memory, guardFile>>

FailsafeClears ==
  /\ pc = "failsafe.clear"
  /\ ClearGuard \/ ClearGuardFails
  /\ Goto("exit")
  /\ UNCHANGED <<fanVars, stopRequested, ownership, localVars, sampleVars,
                 policyVars>>

-----------------------------------------------------------------------------
StopStep ==
  \/ Finally \/ FinallyQuiet \/ Handoff \/ HandoffReturns \/ HandoffClears
  \/ FailsafeReturns \/ FailsafeClears

LoopStep ==
  \/ Adopt \/ OpenMonitor \/ LeaveLoop \/ TopOfLoop \/ ReadFails \/ ReadSucceeds
  \/ SelectMaximum \/ LeaveEmergency \/ StayAuto \/ Control
  \/ Maximum \/ MaximumReturns \/ MaximumSelected
  \/ Restore \/ RestoreReturns \/ RestoreFails
  \/ ApplyDry \/ TakeManual \/ KeepManual \/ ManualTaken \/ ManualKept \/ ApplyFails
  \/ Wait

AdapterStep == FanStep /\ UNCHANGED controllerVars

ProcessStep == LoopStep \/ StopStep \/ AdapterStep

Environment ==
  \/ FanEnvironment /\ UNCHANGED controllerVars
  \/ SlowSensors \/ Suspend \/ RequestStop

Next == ProcessStep \/ Environment

Spec == Init /\ [][Next]_vars

-----------------------------------------------------------------------------
\* No adapter call is under way and no branch of the loop is being carried out.
Settled == pc \in {"top", "wait", "read", "decide"}

\* What the controller remembers agrees with the fans whenever the daemon
\* wrote the mode last: an emergency holds Max, Manual control holds Manual,
\* and without either the firmware has Auto (_maximum, _apply_manual,
\* _restore_auto and the exceptions that cut them short).
OwnershipMatchesFans ==
  Settled /\ Apply /\ modeBy = "daemon"
    => mode = IF emergency THEN "max" ELSE IF manualActive THEN "manual" ELSE "auto"

\* A Manual mode the daemon wrote carries the duty the policy believes it
\* commanded, so that skipping an unchanged write is harmless there (write_pwm in
\* _apply_manual, with recoveries, rollbacks and duties captured on the way in).
ManualCarriesCommandedDuty ==
  Settled /\ Apply /\ mode = "manual" /\ modeBy = "daemon"
    => duty[1] = commanded

\* While the controller runs, the window in which the firmware may stop the
\* fans after a return to Auto is never left without the guard and its marker,
\* whatever the loop does and however long its sensor reads take
\* (_start_auto_guard, _clear_auto_guard, _auto_guard_active).
FanStopWindowGuarded ==
  Settled /\ Apply /\ mode = "auto" /\ modeBy = "daemon" /\ fanStop > 0
    => guardLeft > 0 /\ guardFile

\* The marker ExecStopPost judges by is there exactly while the running
\* controller has a guard deadline; a marker left behind or lost by a failed
\* unlink or write ends the loop.
MarkerFollowsGuard ==
  Settled /\ Apply => (guardFile <=> guardLeft # Never)

\* The process never ends on an open fan-stop window that the firmware was not
\* knowingly left with, unless the write of Max failed (README, operating modes:
\* after selecting Auto, auto-guard monitors the complete window; refused
\* handoffs in _stop_handoff_to_auto).  The rollback of a failed first set_manual
\* breaks it.
WindowNotAbandoned ==
  pc = "exit" /\ Apply /\ mode = "auto" /\ modeBy = "daemon" /\ fanStop > 0
    => CallFails /\ op = "set_maximum"

\* What the code keeps of it: the one other way out leads through the rollback
\* of a failed first write of Manual, which the controller does not yet own.
\* No signal, exception, failing marker or failed handoff leaves a window
\* behind (_failsafe_on_stop, _stop_handoff_to_auto, _clear_auto_guard).
OnlyRollbackAbandonsWindow ==
  pc = "exit" /\ Apply /\ mode = "auto" /\ modeBy = "daemon" /\ fanStop > 0
    => CallFails /\ op \in {"set_maximum", "set_manual"}

\* A maximum the daemon selected is left only for Manual control, and only
\* with a sample at hand that is below critical and smoothed down to
\* critical_release_temp_c: no stop, restart, failure or restore hands it to
\* Auto or leaves it blind.
MaximumLeftOnlyWhenCool ==
  [][ mode = "max" /\ modeBy = "daemon" /\ mode' # "max" /\ modeBy' = "daemon"
        => /\ mode' = "manual" /\ ~emergency
           /\ snapshot # NoSnapshot /\ ~IsCritical /\ filter = "cool" ]_vars

\* The controller keeps to the calling discipline of the fan adapter, so that
\* what is proved of the adapter on its own holds of it in the controller:
\* no set_manual while it holds Manual, no update_manual before it took
\* Manual, nothing but set_maximum and restore_auto after a failed call.
CallsAreDisciplined == FanSpec

\* The controller never decides to restore Auto while a maximum asserted by the
\* EC or a user is in place: that would cancel a decision it never made
\* (comments in update_manual and in _stop_handoff_to_auto).
RestoreRespectsExternalMaximum ==
  [][ pc = "decide" /\ pc' = "restore.call" => ~(mode = "max" /\ modeBy = "other") ]_vars

\* A dry run never writes the fans nor leaves a marker.
DryRunTouchesNothing ==
  ~Apply => modeBy = "other" /\ ~guardFile /\ at = "idle"

=============================================================================
