------------------------------- MODULE HpFan -------------------------------
(***************************************************************************)
(* The fan interface: the hp-wmi hwmon attributes (external to the         *)
(* repository) and HpFanHwmon, the adapter every owner of the fans goes    *)
(* through.  A call of the adapter is a sequence of sysfs accesses; each   *)
(* access is one step here, so that the embedded controller (EC), a user   *)
(* or a crash can come between two of them, and each may fail.             *)
(*                                                                         *)
(* A definition under "Mutant of D" states D with a plausible bug.  No     *)
(* behaviour uses it: the runs show that their properties would notice it. *)
(***************************************************************************)
EXTENDS Integers

CONSTANTS
  Channels,    \* number of pwm attributes: 1 (single ABI) or 2 (dual ABI)
  FullDuty,    \* the pwm reading of firmware Max (PWM_MAX)
  ManualMax,   \* manual_pwm_max: the highest duty Manual may carry
  GpuDuty,     \* captured CPU/GPU table: duty of pwm2 for each duty of pwm1
  FanStop,     \* ticks for which firmware may stop the fans after -> Auto
  Meddling,    \* modes the EC or a user may select behind the daemon's back
  MayFail      \* whether accesses to sysfs and to /run may fail

ASSUME FanAssumption ==
  /\ Channels \in {1, 2}
  /\ FullDuty \in Nat /\ ManualMax \in 1..FullDuty
  /\ GpuDuty \in [1..ManualMax -> 0..FullDuty]
  /\ FanStop \in Nat
  /\ Meddling \subseteq {"auto", "manual", "max", "other"}
  /\ MayFail \in BOOLEAN

VARIABLES
  mode,             \* pwm1_enable, as hp-wmi reports it
  duty,             \* pwm1 (and pwm2), as hp-wmi reports them
  modeBy,           \* who selected the mode last: "daemon" or "other"
  fanStop,          \* ticks left of the fan-stop window the daemon opened
  recoveryPending,  \* HpFanHwmon._manual_recovery_pending
  at,               \* the next access of the running call, "idle" if none
  op,               \* the running call, or the last one
  target,           \* its pwm argument
  rewrite,          \* its write_pwm argument
  chan,             \* the channel to write next
  result            \* how the last call ended

hw == <<mode, duty, modeBy, fanStop>>
call == <<at, op, target, rewrite, chan, result>>
fanVars == <<hw, recoveryPending, call>>

Modes == {"auto", "manual", "max", "other"}
ManualOps == {"set_manual", "recover"}
Ops == ManualOps \cup {"none", "update_manual", "set_maximum", "restore_auto"}
Results == {"none", "ok", "error", "stuck"}
Duties == [1..Channels -> 0..FullDuty]

FanFlagsOK == recoveryPending \in BOOLEAN /\ rewrite \in BOOLEAN

FanDataOK ==
  /\ mode \in Modes /\ duty \in Duties
  /\ modeBy \in {"daemon", "other"} /\ fanStop \in 0..FanStop
  /\ at \in {"idle", "read", "enable", "pwm", "rollback"}
  /\ op \in Ops /\ target \in 0..ManualMax
  /\ chan \in 1..Channels /\ result \in Results

FanTypeOK == FanFlagsOK /\ FanDataOK

FanInit ==
  /\ mode \in {"auto", "max"} /\ modeBy = "other"
  /\ duty \in Duties /\ (mode = "max" => duty = [c \in 1..Channels |-> FullDuty])
  /\ fanStop = 0 /\ recoveryPending = FALSE
  /\ at = "idle" /\ op = "none" /\ target = 0 /\ rewrite = FALSE
  /\ chan = 1 /\ result = "none"

-----------------------------------------------------------------------------
(* hp-wmi and the firmware behind it.                                      *)

\* A write of pwm1_enable that hp-wmi accepts.  Manual captures the running
\* speed, Max reads back as full duty, and Auto opens the window in which the
\* firmware may stop the fans; where Auto was in place already it may do so.
Switch(m) ==
  /\ mode' = m /\ modeBy' = "daemon"
  /\ duty' = IF m = "max" THEN [c \in 1..Channels |-> FullDuty] ELSE duty
  /\ fanStop' \in IF m # "auto" THEN {0}
                  ELSE IF mode = "auto" THEN {fanStop, FanStop} ELSE {FanStop}

\* The EC or a user selects a mode; the daemon is not told.
Meddle(m) ==
  /\ m # mode
  /\ mode' = m /\ modeBy' = "other" /\ fanStop' = 0
  /\ duty' = IF m = "max" THEN [c \in 1..Channels |-> FullDuty] ELSE duty
  /\ UNCHANGED <<recoveryPending, call>>

\* In Auto the firmware moves the fans by itself.
FirmwareMoves ==
  /\ mode = "auto"
  /\ \E d \in 0..FullDuty : duty' = [c \in 1..Channels |-> d]
  /\ UNCHANGED <<mode, modeBy, fanStop, recoveryPending, call>>

\* The pwm value written to channel c for CPU duty p.
PwmTarget(c, p) == IF c = 1 THEN p ELSE GpuDuty[p]

-----------------------------------------------------------------------------
(* The calls of HpFanHwmon.                                                *)

Idle == at = "idle"

Return(r) ==
  /\ at' = "idle" /\ result' = r /\ chan' = 1
  /\ UNCHANGED <<op, target, rewrite>>

Begin(o, p, w, first) ==
  /\ Idle
  /\ at' = first /\ op' = o /\ target' = p /\ rewrite' = w
  /\ chan' = 1 /\ result' = "none"
  /\ UNCHANGED <<hw, recoveryPending>>

\* A pwm above the ceiling is refused before any access.
Refuse(o) ==
  /\ Idle
  /\ op' = o /\ result' = "error" /\ target' = 0 /\ rewrite' = FALSE
  /\ UNCHANGED <<hw, recoveryPending, at, chan>>

AtLeastOne(p) == IF p < 1 THEN 1 ELSE p

SetManual(p) ==
  IF AtLeastOne(p) > ManualMax
  THEN Refuse("set_manual")
  ELSE Begin("set_manual", AtLeastOne(p), TRUE, "enable")

UpdateManual(p, w) ==
  IF AtLeastOne(p) > ManualMax
  THEN Refuse("update_manual")
  ELSE Begin("update_manual", AtLeastOne(p), w, "read")

SetMaximum == Begin("set_maximum", 0, FALSE, "enable")
RestoreAuto == Begin("restore_auto", 0, FALSE, "enable")

\* update_manual reads the mode it is about to rely on.
ReadMode ==
  /\ at = "read"
  /\ \/ /\ mode = "max"          \* asserted by the EC or a user: preserved
        /\ recoveryPending' = FALSE
        /\ Return("ok")
     \/ /\ mode = "auto" /\ recoveryPending
        /\ Return("error") /\ UNCHANGED recoveryPending
     \/ /\ mode = "auto" /\ ~recoveryPending
        /\ at' = "enable" /\ op' = "recover"
        /\ UNCHANGED <<recoveryPending, target, rewrite, chan, result>>
     \/ /\ mode = "other"
        /\ Return("error") /\ UNCHANGED recoveryPending
     \/ /\ mode = "manual"
        /\ recoveryPending' = FALSE
        /\ IF rewrite
           THEN at' = "pwm" /\ UNCHANGED <<op, target, rewrite, chan, result>>
           ELSE Return("ok")
     \/ /\ MayFail
        /\ Return("error") /\ UNCHANGED recoveryPending
  /\ UNCHANGED hw

WriteEnable ==
  /\ at = "enable"
  /\ \/ /\ op \in ManualOps
        /\ Switch("manual") /\ at' = "pwm"
        /\ UNCHANGED <<recoveryPending, op, target, rewrite, chan, result>>
     \/ /\ op = "set_maximum"
        /\ Switch("max") /\ recoveryPending' = FALSE /\ Return("ok")
     \/ /\ op = "restore_auto"
        /\ Switch("auto") /\ recoveryPending' = FALSE /\ Return("ok")
     \/ /\ MayFail
        /\ Return("error") /\ UNCHANGED <<hw, recoveryPending>>

\* Mutant of LastChannel.
LastChannelLate == chan > Channels

LastChannel == chan = Channels

\* Mutant of Recovering.
NeverRecovering == FALSE

\* The write of set_manual, called by update_manual, is a recovery.
Recovering == op = "recover"

\* Mutant of WriteFails.
FailureIgnored == Return("ok") /\ UNCHANGED <<hw, recoveryPending>>

WriteFails ==
  at' = "rollback" /\ UNCHANGED <<hw, recoveryPending, op, target, rewrite, chan, result>>

\* Channels are written in order; hp-wmi rejects a pwm write outside Manual.
WritePwm ==
  /\ at = "pwm"
  /\ \/ /\ mode = "manual"
        /\ duty' = [duty EXCEPT ![chan] = PwmTarget(chan, target)]
        /\ IF LastChannel
           THEN Return("ok") /\ recoveryPending' = Recovering
           ELSE /\ chan' = chan + 1
                /\ UNCHANGED <<recoveryPending, at, op, target, rewrite, result>>
        /\ UNCHANGED <<mode, modeBy, fanStop>>
     \/ (mode # "manual" \/ MayFail) /\ WriteFails

\* Mutant of Rollback.
RollbackSkipped ==
  at = "rollback" /\ Return("error") /\ UNCHANGED <<hw, recoveryPending>>

\* After a failed channel write the adapter falls back to Auto; the call
\* fails either way, and "stuck" says that the rollback failed as well.
Rollback ==
  /\ at = "rollback"
  /\ \/ Switch("auto") /\ recoveryPending' = FALSE /\ Return("error")
     \/ MayFail /\ Return("stuck") /\ UNCHANGED <<hw, recoveryPending>>

FanStep == ReadMode \/ WriteEnable \/ WritePwm \/ Rollback

FanEnvironment == FirmwareMoves \/ \E m \in Meddling : Meddle(m)

-----------------------------------------------------------------------------
(* The adapter on its own.  Its owner calls set_manual only while it does   *)
(* not hold Manual, update_manual only after a call that took or kept it,  *)
(* and after a failed call nothing but set_maximum or restore_auto;        *)
(* Controller is checked to keep to this.                                  *)

CallFails == result \in {"error", "stuck"}
Controlling == op \in {"set_manual", "update_manual", "recover"} /\ result = "ok"
DaemonManual == mode = "manual" /\ modeBy = "daemon"

OwnerCalls ==
  \/ \E p \in 0..FullDuty : ~CallFails /\ ~DaemonManual /\ SetManual(p)
  \/ \E p \in 0..FullDuty, w \in BOOLEAN : Controlling /\ UpdateManual(p, w)
  \/ SetMaximum
  \/ RestoreAuto

\* Time passes, or the window is knowingly left to the firmware.
WindowPasses ==
  /\ fanStop > 0 /\ fanStop' \in 0..fanStop - 1
  /\ UNCHANGED <<mode, duty, modeBy, recoveryPending, call>>

FanNext == OwnerCalls \/ FanStep \/ FanEnvironment \/ WindowPasses

FanSpec == FanInit /\ [][FanNext]_fanVars

-----------------------------------------------------------------------------
\* A pair of channels is never left half updated in Manual by a call that
\* could still fall back to Auto: whichever channel write failed, a CPU duty of
\* the captured table has its GPU duty next to it in the daemon's Manual mode
\* (_write_pwm_targets_or_restore_auto).
NoHalfUpdatedPair ==
  Idle /\ op \in ManualOps \cup {"update_manual"} /\ result # "stuck"
       /\ DaemonManual /\ duty[1] \in 1..ManualMax
    => \A c \in 1..Channels : duty[c] = PwmTarget(c, duty[1])

\* The full duty that firmware Max reports is never carried into Manual: once
\* the call that left Max or Auto is over, the daemon's Manual mode holds a
\* duty between 1 and the ceiling of the detected interface (set_manual,
\* update_manual, _validate_manual_pwm).
ManualCeiling ==
  Idle /\ DaemonManual /\ result = "ok"
    => duty[1] \in 1..ManualMax

=============================================================================
