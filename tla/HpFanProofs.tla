---------------------------- MODULE HpFanProofs ----------------------------
(***************************************************************************)
(* Proofs about the fan adapter, for every number of channels, duty range, *)
(* GPU table, set of external modes and failure setting.                   *)
(***************************************************************************)
EXTENDS HpFan, TLAPS

ManualCalls == ManualOps \cup {"update_manual"}

\* A CPU duty within the ceiling, and the table's GPU duty next to it.
Paired == /\ duty[1] \in 1..ManualMax
          /\ \A c \in 1..Channels : duty[c] = PwmTarget(c, duty[1])

\* Which call can be at which access, and with which argument.
CallShape ==
  /\ at = "read" => op = "update_manual"
  /\ at = "enable" => op \in ManualOps \cup {"set_maximum", "restore_auto"}
  /\ at \in {"pwm", "rollback"} => op \in ManualCalls
  /\ at # "idle" /\ op \in ManualCalls => target \in 1..ManualMax
  /\ Idle /\ op \in ManualCalls => result # "none"
  /\ at \in {"idle", "read", "enable"} => chan = 1

\* What a call that has not failed leaves of the daemon's Manual mode, and
\* what each access can rely on.
ManualShape ==
  /\ Idle /\ op \in ManualCalls /\ result # "stuck" /\ DaemonManual => Paired
  /\ Idle /\ op \notin ManualCalls /\ ~CallFails => ~DaemonManual
  /\ at = "read" /\ DaemonManual => Paired
  /\ at = "enable" /\ op \in ManualOps => ~DaemonManual
  /\ at = "pwm" /\ chan # 1 /\ DaemonManual => duty[1] = target

\* The provers treat Boolean values and arithmetic apart: FanFlagsOK is proved
\* next to the rest.
FanShape == FanDataOK /\ CallShape /\ ManualShape

FanInv == FanFlagsOK /\ FanShape

-----------------------------------------------------------------------------
(* The flags.                                                              *)

\* The adapter starts with Boolean flags.
LEMMA FanInitFlags == FanInit => FanFlagsOK
  BY DEF FanInit, FanFlagsOK

\* Every step keeps them so.
LEMMA FanNextFlags == FanFlagsOK /\ [FanNext]_fanVars => FanFlagsOK'
  <1> SUFFICES ASSUME FanFlagsOK, [FanNext]_fanVars PROVE FanFlagsOK'
    OBVIOUS
  <1> USE DEF FanFlagsOK, hw, call, Return, Begin, Refuse
  <1>1. CASE OwnerCalls
    BY <1>1 DEF OwnerCalls, SetManual, UpdateManual, SetMaximum, RestoreAuto
  <1>2. CASE FanStep
    BY <1>2 DEF FanStep, ReadMode, WriteEnable, WritePwm, WriteFails, Recovering,
           Rollback
  <1>3. CASE FanEnvironment \/ WindowPasses
    BY <1>3 DEF FanEnvironment, FirmwareMoves, Meddle, WindowPasses
  <1>4. CASE UNCHANGED fanVars
    BY <1>4 DEF fanVars
  <1>5. QED
    BY <1>1, <1>2, <1>3, <1>4 DEF FanNext

-----------------------------------------------------------------------------
(* The calls and the daemon's Manual mode.                                 *)

\* The adapter starts with no call and the fans not in the daemon's Manual.
LEMMA FanInitShape == FanInit => FanShape
  BY FanAssumption
  DEF FanAssumption, FanInit, FanShape, FanDataOK, CallShape, ManualShape, Modes,
      Ops, ManualOps, Results, ManualCalls, DaemonManual, Idle, CallFails, Duties

\* A call of set_manual is refused without an access, or begins.
LEMMA SetManualCases ==
  ASSUME NEW p, SetManual(p)
  PROVE  \/ /\ Idle /\ at' = at /\ op' = "set_manual" /\ result' = "error"
            /\ target' = 0 /\ UNCHANGED <<hw, chan>>
         \/ /\ ~(AtLeastOne(p) > ManualMax)
            /\ Begin("set_manual", AtLeastOne(p), TRUE, "enable")
  BY DEF SetManual, Refuse

\* Starting a call changes no attribute, and the call that is started can rely
\* on what the previous one left.
LEMMA OwnerCallsKeepShape == FanShape /\ OwnerCalls => FanShape'
  <1> SUFFICES ASSUME FanShape, OwnerCalls PROVE FanShape'
    OBVIOUS
  <1>1. UNCHANGED hw
    BY DEF OwnerCalls, SetManual, UpdateManual, SetMaximum, RestoreAuto, Begin, Refuse
  <1>2. Paired <=> Paired'
    BY <1>1 DEF Paired, PwmTarget, hw
  <1> USE FanAssumption, <1>2
      DEF FanAssumption, FanShape, FanDataOK, CallShape, ManualShape, Modes, Ops,
          ManualOps, Results, ManualCalls, DaemonManual, Idle, CallFails, Controlling,
          hw, Begin, Refuse, AtLeastOne, Duties
  <1>3. ASSUME NEW p \in 0..FullDuty, ~CallFails, ~DaemonManual, SetManual(p)
        PROVE  FanShape'
    <2>1. CASE /\ Idle /\ at' = at /\ op' = "set_manual" /\ result' = "error"
               /\ target' = 0 /\ UNCHANGED <<hw, chan>>
      <3>1. FanDataOK' /\ CallShape'
        BY <2>1
      <3>2. ManualShape'
        BY <1>3, <2>1
      <3>3. QED
        BY <3>1, <3>2
    <2>2. CASE /\ ~(AtLeastOne(p) > ManualMax)
               /\ Begin("set_manual", AtLeastOne(p), TRUE, "enable")
      BY <1>3, <2>2
    <2>3. QED
      BY <1>3, <2>1, <2>2, SetManualCases
  <1>4. ASSUME NEW p \in 0..FullDuty, NEW w \in BOOLEAN, Controlling, UpdateManual(p, w)
        PROVE  FanShape'
    <2>1. CASE AtLeastOne(p) > ManualMax
      BY <1>4, <2>1 DEF UpdateManual
    <2>2. CASE ~(AtLeastOne(p) > ManualMax)
      BY <1>4, <2>2 DEF UpdateManual
    <2>3. QED
      BY <2>1, <2>2
  <1>5. CASE SetMaximum
    BY <1>5 DEF SetMaximum
  <1>6. CASE RestoreAuto
    BY <1>6 DEF RestoreAuto
  <1>7. QED
    BY <1>3, <1>4, <1>5, <1>6 DEF OwnerCalls

\* A mode that hp-wmi switches to leaves the attributes in range.
LEMMA SwitchData ==
  ASSUME FanDataOK, NEW m \in Modes, Switch(m)
  PROVE  /\ mode' \in Modes /\ duty' \in Duties /\ modeBy' = "daemon"
         /\ fanStop' \in 0..FanStop /\ mode' = m
         /\ m # "max" => duty' = duty
  BY FanAssumption DEF FanAssumption, FanDataOK, Switch, Duties

\* A read of the mode that lets update_manual go on to the write found Manual.
LEMMA ReadGoesOn ==
  ASSUME ReadMode, at' = "pwm"
  PROVE  mode = "manual" /\ op' = op /\ target' = target /\ chan' = chan
         /\ result' = result
  BY DEF ReadMode, Return

\* Every access of a running call keeps the shape, failed or not.
LEMMA FanStepKeepsShape == FanShape /\ FanStep => FanShape'
  <1> SUFFICES ASSUME FanShape, FanStep PROVE FanShape'
    OBVIOUS
  <1> USE FanAssumption
      DEF FanAssumption, FanShape, FanDataOK, CallShape, ManualShape, Modes, Ops,
          ManualOps, Results, ManualCalls, DaemonManual, Idle, CallFails, Return, hw,
          Duties
  <1>1. CASE ReadMode
    <2>1. UNCHANGED hw /\ at = "read" /\ op = "update_manual"
      BY <1>1 DEF ReadMode
    <2>2. Paired <=> Paired'
      BY <2>1 DEF Paired, PwmTarget
    <2>3. FanDataOK' /\ CallShape'
      BY <1>1 DEF ReadMode
    <2>4. CASE at' = "idle"
      BY <1>1, <2>1, <2>2, <2>3, <2>4 DEF ReadMode
    <2>5. CASE at' = "enable"
      BY <1>1, <2>1, <2>2, <2>3, <2>5 DEF ReadMode
    <2>6. CASE at' = "pwm"
      <3>1. mode = "manual" /\ UNCHANGED <<op, target, chan, result>>
        BY <1>1, <2>6, ReadGoesOn
      <3>2. QED
        BY <2>1, <2>2, <2>3, <2>6, <3>1
    <2>7. QED
      BY <1>1, <2>4, <2>5, <2>6 DEF ReadMode
  <1>2. CASE WriteEnable
    <2>1. CASE op \in ManualOps /\ Switch("manual") /\ at' = "pwm"
               /\ UNCHANGED <<op, target, chan, result>>
      <3>1. /\ mode' = "manual" /\ duty' \in Duties /\ modeBy' = "daemon"
            /\ fanStop' \in 0..FanStop
        BY <2>1, SwitchData
      <3>2. at = "enable"
        BY <1>2 DEF WriteEnable
      <3>3. QED
        BY <2>1, <3>1, <3>2
    <2>2. CASE op = "set_maximum" /\ Switch("max") /\ Return("ok")
      BY <2>2, SwitchData
    <2>3. CASE op = "restore_auto" /\ Switch("auto") /\ Return("ok")
      BY <2>3, SwitchData
    <2>4. CASE Return("error") /\ UNCHANGED hw
      <3>1. Paired <=> Paired'
        BY <2>4 DEF Paired, PwmTarget
      <3>2. QED
        BY <1>2, <2>4, <3>1 DEF WriteEnable
    <2>5. QED
      BY <1>2, <2>1, <2>2, <2>3, <2>4 DEF WriteEnable
  <1>3. CASE WritePwm
    <2>1. PwmTarget(chan, target) \in 0..FullDuty
      BY <1>3 DEF WritePwm, LastChannel, WriteFails, Paired, PwmTarget
    <2>2. CASE at' = "rollback"
      BY <1>3, <2>2 DEF WritePwm, LastChannel, WriteFails, Paired, PwmTarget
    <2>3. CASE at' # "rollback"
      <3>1. /\ mode = "manual" /\ UNCHANGED <<mode, modeBy, fanStop>>
            /\ duty' = [duty EXCEPT ![chan] = PwmTarget(chan, target)]
        BY <1>3, <2>3 DEF WritePwm, LastChannel, WriteFails
      <3>2. duty' \in Duties
        BY <2>1, <3>1
      <3>3. CASE chan < Channels
        BY <1>3, <2>3, <3>1, <3>2, <3>3 DEF WritePwm, LastChannel, WriteFails, Paired, PwmTarget
      <3>4. CASE ~(chan < Channels)
        BY <1>3, <2>3, <3>1, <3>2, <3>4 DEF WritePwm, LastChannel, WriteFails, Paired, PwmTarget
      <3>5. QED
        BY <3>3, <3>4
    <2>4. QED
      BY <2>2, <2>3
  <1>4. CASE Rollback
    BY <1>4 DEF Rollback, Switch
  <1>5. QED
    BY <1>1, <1>2, <1>3, <1>4 DEF FanStep

\* The EC, a user and the firmware keep it too: a mode they select is theirs,
\* and the firmware moves the duties in Auto only.
LEMMA FanEnvironmentKeepsShape ==
        FanShape /\ (FanEnvironment \/ WindowPasses) => FanShape'
  <1> SUFFICES ASSUME FanShape, FanEnvironment \/ WindowPasses PROVE FanShape'
    OBVIOUS
  <1> USE FanAssumption
      DEF FanAssumption, FanShape, FanDataOK, CallShape, ManualShape, Modes, Ops,
          ManualOps, Results, ManualCalls, DaemonManual, Idle, CallFails, call, Duties
  <1>0. CASE WindowPasses
    <2>1. Paired <=> Paired'
      BY <1>0 DEF WindowPasses, Paired, PwmTarget
    <2>2. fanStop' \in 0..FanStop
      BY <1>0 DEF WindowPasses
    <2>3. QED
      BY <1>0, <2>1, <2>2 DEF WindowPasses
  <1>1. CASE FirmwareMoves
    BY <1>1 DEF FirmwareMoves
  <1>2. ASSUME NEW m \in Meddling, Meddle(m) PROVE FanShape'
    BY <1>2 DEF Meddle
  <1>3. QED
    BY <1>0, <1>1, <1>2 DEF FanEnvironment

\* The shape depends on the fans only.
LEMMA FanStutterKeepsShape == FanShape /\ UNCHANGED fanVars => FanShape'
  BY DEF FanShape, FanDataOK, CallShape, ManualShape, fanVars, hw, call, Modes, Ops,
         ManualOps, Results, ManualCalls, DaemonManual, Idle, Paired, PwmTarget,
         CallFails, Duties

\* The inductive invariant of the adapter.
THEOREM FanInvariant == FanSpec => []FanInv
  <1>1. FanInit => FanInv
    BY FanInitFlags, FanInitShape DEF FanInv
  <1>2. FanInv /\ [FanNext]_fanVars => FanInv'
    BY FanNextFlags, OwnerCallsKeepShape, FanStepKeepsShape,
       FanEnvironmentKeepsShape, FanStutterKeepsShape
    DEF FanNext, FanInv
  <1>3. QED
    BY <1>1, <1>2, PTL DEF FanSpec

\* The adapter's state is well typed.
THEOREM FanTypeCorrect == FanSpec => []FanTypeOK
  <1>1. FanInv => FanTypeOK
    BY DEF FanInv, FanShape, FanTypeOK
  <1>2. QED
    BY <1>1, FanInvariant, PTL

\* A failed write never leaves half of a pair in the daemon's Manual mode,
\* unless the fall back to Auto failed as well.
THEOREM PairsStayWhole == FanSpec => []NoHalfUpdatedPair
  <1>1. FanInv => NoHalfUpdatedPair
    BY DEF FanInv, FanShape, ManualShape, NoHalfUpdatedPair, DaemonManual, Paired,
           ManualCalls
  <1>2. QED
    BY <1>1, FanInvariant, PTL

\* The duty of firmware Max is never carried into Manual.
THEOREM CeilingHolds == FanSpec => []ManualCeiling
  <1>1. FanInv => ManualCeiling
    BY DEF FanInv, FanShape, ManualShape, ManualCeiling, DaemonManual, Paired,
           CallFails, FanDataOK, Ops, ManualOps, ManualCalls
  <1>2. QED
    BY <1>1, FanInvariant, PTL

-----------------------------------------------------------------------------
(* What holds of any caller, disciplined or not.                           *)

\* The attributes and the calls are well formed, and a call that did not fail
\* has an argument the interface accepts.
CallsOK ==
  /\ FanDataOK /\ CallShape
  /\ Idle /\ op \in ManualCalls /\ ~CallFails => target \in 1..ManualMax

AnyCall ==
  \/ \E p \in 0..FullDuty : SetManual(p)
  \/ \E p \in 0..FullDuty, w \in BOOLEAN : UpdateManual(p, w)
  \/ SetMaximum
  \/ RestoreAuto

\* The adapter starts well formed.
LEMMA CallsInit == FanInit => CallsOK
  BY FanInitShape DEF FanShape, CallsOK, FanInit, ManualCalls, ManualOps

\* A call begins at its first access with a valid argument, or is refused.
LEMMA AnyCallKeepsCalls == CallsOK /\ AnyCall => CallsOK'
  <1> SUFFICES ASSUME CallsOK, AnyCall PROVE CallsOK'
    OBVIOUS
  <1> USE FanAssumption
      DEF FanAssumption, CallsOK, FanDataOK, CallShape, Modes, Ops, ManualOps, Results,
          ManualCalls, Idle, CallFails, hw, Begin, Refuse, AtLeastOne, Duties
  <1>1. ASSUME NEW p \in 0..FullDuty, SetManual(p) PROVE CallsOK'
    <2>1. CASE AtLeastOne(p) > ManualMax
      BY <1>1, <2>1 DEF SetManual
    <2>2. CASE ~(AtLeastOne(p) > ManualMax)
      BY <1>1, <2>2 DEF SetManual
    <2>3. QED
      BY <2>1, <2>2
  <1>2. ASSUME NEW p \in 0..FullDuty, NEW w \in BOOLEAN, UpdateManual(p, w)
        PROVE  CallsOK'
    <2>1. CASE AtLeastOne(p) > ManualMax
      BY <1>2, <2>1 DEF UpdateManual
    <2>2. CASE ~(AtLeastOne(p) > ManualMax)
      BY <1>2, <2>2 DEF UpdateManual
    <2>3. QED
      BY <2>1, <2>2
  <1>3. CASE SetMaximum
    BY <1>3 DEF SetMaximum
  <1>4. CASE RestoreAuto
    BY <1>4 DEF RestoreAuto
  <1>5. QED
    BY <1>1, <1>2, <1>3, <1>4 DEF AnyCall

\* Every access of a running call keeps the calls well formed.
LEMMA FanStepKeepsCalls == CallsOK /\ FanStep => CallsOK'
  <1> SUFFICES ASSUME CallsOK, FanStep PROVE CallsOK'
    OBVIOUS
  <1> USE FanAssumption
      DEF FanAssumption, CallsOK, FanDataOK, CallShape, Modes, Ops, ManualOps, Results,
          ManualCalls, Idle, CallFails, Return, hw, Duties
  <1>1. CASE ReadMode
    BY <1>1 DEF ReadMode
  <1>2. CASE WriteEnable
    <2>1. CASE op \in ManualOps /\ Switch("manual") /\ at' = "pwm"
               /\ UNCHANGED <<op, target, chan, result>>
      <3>1. /\ mode' = "manual" /\ duty' \in Duties /\ modeBy' = "daemon"
            /\ fanStop' \in 0..FanStop
        BY <2>1, SwitchData
      <3>2. at = "enable"
        BY <1>2 DEF WriteEnable
      <3>3. QED
        BY <2>1, <3>1, <3>2
    <2>2. CASE op = "set_maximum" /\ Switch("max") /\ Return("ok")
      BY <2>2, SwitchData
    <2>3. CASE op = "restore_auto" /\ Switch("auto") /\ Return("ok")
      BY <2>3, SwitchData
    <2>4. CASE Return("error") /\ UNCHANGED hw
      BY <1>2, <2>4 DEF WriteEnable
    <2>5. QED
      BY <1>2, <2>1, <2>2, <2>3, <2>4 DEF WriteEnable
  <1>3. CASE WritePwm
    <2>1. PwmTarget(chan, target) \in 0..FullDuty
      BY <1>3 DEF WritePwm, PwmTarget
    <2>2. CASE at' = "rollback"
      BY <1>3, <2>2 DEF WritePwm, LastChannel, WriteFails
    <2>3. CASE at' # "rollback"
      <3>1. /\ mode = "manual" /\ UNCHANGED <<mode, modeBy, fanStop>>
            /\ duty' = [duty EXCEPT ![chan] = PwmTarget(chan, target)]
        BY <1>3, <2>3 DEF WritePwm, LastChannel, WriteFails
      <3>2. duty' \in Duties
        BY <2>1, <3>1
      <3>3. CASE chan < Channels
        BY <1>3, <2>3, <3>1, <3>2, <3>3 DEF WritePwm, LastChannel, WriteFails
      <3>4. CASE ~(chan < Channels)
        BY <1>3, <2>3, <3>1, <3>2, <3>4 DEF WritePwm, LastChannel, WriteFails
      <3>5. QED
        BY <3>3, <3>4
    <2>4. QED
      BY <2>2, <2>3
  <1>4. CASE Rollback
    BY <1>4 DEF Rollback, Switch
  <1>5. QED
    BY <1>1, <1>2, <1>3, <1>4 DEF FanStep

\* So do the firmware, the EC, a user and time.
LEMMA FanEnvironmentKeepsCalls ==
        CallsOK /\ (FanEnvironment \/ WindowPasses \/ UNCHANGED fanVars) => CallsOK'
  <1> SUFFICES ASSUME CallsOK, FanEnvironment \/ WindowPasses \/ UNCHANGED fanVars
               PROVE  CallsOK'
    OBVIOUS
  <1> USE FanAssumption
      DEF FanAssumption, CallsOK, FanDataOK, CallShape, Modes, Ops, ManualOps, Results,
          ManualCalls, Idle, CallFails, call, Duties
  <1>1. CASE WindowPasses
    <2>1. fanStop' \in 0..FanStop
      BY <1>1 DEF WindowPasses
    <2>2. QED
      BY <1>1, <2>1 DEF WindowPasses
  <1>2. CASE FirmwareMoves
    BY <1>2 DEF FirmwareMoves
  <1>3. ASSUME NEW m \in Meddling, Meddle(m) PROVE CallsOK'
    BY <1>3 DEF Meddle
  <1>4. CASE UNCHANGED fanVars
    BY <1>4 DEF fanVars, hw
  <1>5. QED
    BY <1>1, <1>2, <1>3, <1>4 DEF FanEnvironment

-----------------------------------------------------------------------------
(* The mode a call leaves behind.                                          *)

\* Unless somebody else has chosen a mode since, a call that succeeded has left
\* the mode it is named for, a running call that is past its mode write is in
\* Manual, and only Auto has a fan-stop window.
ModeShape ==
  /\ fanStop > 0 => mode = "auto" /\ modeBy = "daemon"
  /\ at \in {"read", "pwm", "rollback"} /\ modeBy = "daemon" => mode = "manual"
  /\ at = "enable" /\ op = "recover" => modeBy = "other"
  /\ Idle /\ result = "ok" /\ modeBy = "daemon" =>
       /\ op = "set_maximum" => mode = "max"
       /\ op = "restore_auto" => mode = "auto"
       /\ op \in ManualCalls => mode = "manual"

\* Each step of the adapter, its caller and its environment keeps this.
LEMMA FanNextKeepsModes == CallsOK /\ ModeShape /\ [FanNext]_fanVars => ModeShape'
  <1> SUFFICES ASSUME CallsOK, ModeShape, [FanNext]_fanVars PROVE ModeShape'
    OBVIOUS
  <1> USE FanAssumption
      DEF FanAssumption, CallsOK, FanDataOK, CallShape, ModeShape, Modes, Ops, ManualOps,
          Results, ManualCalls, Idle, hw, call
  <1>1. CASE OwnerCalls
    <2>1. UNCHANGED <<mode, modeBy, fanStop>> /\ Idle
      BY <1>1 DEF OwnerCalls, SetManual, UpdateManual, SetMaximum, RestoreAuto, Begin,
             Refuse
    <2>2. CASE at' = "idle"
      BY <1>1, <2>1, <2>2 DEF OwnerCalls, SetManual, UpdateManual, SetMaximum,
         RestoreAuto, Begin, Refuse
    <2>3. CASE at' = "read"
      BY <1>1, <2>1, <2>3 DEF OwnerCalls, SetManual, UpdateManual, SetMaximum,
         RestoreAuto, Begin, Refuse, Controlling
    <2>4. CASE at' = "enable"
      BY <1>1, <2>1, <2>4 DEF OwnerCalls, SetManual, UpdateManual, SetMaximum,
         RestoreAuto, Begin, Refuse
    <2>5. QED
      BY <1>1, <2>1, <2>2, <2>3, <2>4 DEF OwnerCalls, SetManual, UpdateManual, SetMaximum,
         RestoreAuto, Begin, Refuse
  <1>2. CASE ReadMode
    BY <1>2 DEF ReadMode, Return
  <1>3. CASE WriteEnable
    BY <1>3 DEF WriteEnable, Return, Switch
  <1>4. CASE WritePwm
    BY <1>4 DEF WritePwm, Return, LastChannel, WriteFails
  <1>5. CASE Rollback
    BY <1>5 DEF Rollback, Return, Switch
  <1>6. CASE FanEnvironment
    BY <1>6 DEF FanEnvironment, FirmwareMoves, Meddle
  <1>7. CASE WindowPasses
    BY <1>7 DEF WindowPasses
  <1>8. CASE UNCHANGED fanVars
    BY <1>8 DEF fanVars
  <1>9. QED
    BY <1>1, <1>2, <1>3, <1>4, <1>5, <1>6, <1>7, <1>8 DEF FanNext, FanStep

\* The owner can rely on the mode of a call that succeeded until somebody else
\* changes it.
THEOREM SuccessKeepsItsMode == FanSpec => []ModeShape
  <1>1. FanInit => CallsOK /\ ModeShape
    BY CallsInit DEF FanInit, ModeShape, ManualCalls, ManualOps
  <1>2. CallsOK /\ [FanNext]_fanVars => CallsOK'
    <2>1. OwnerCalls => AnyCall
      BY DEF OwnerCalls, AnyCall
    <2>2. QED
      BY <2>1, AnyCallKeepsCalls, FanStepKeepsCalls, FanEnvironmentKeepsCalls DEF FanNext
  <1>3. QED
    BY <1>1, <1>2, FanNextKeepsModes, PTL DEF FanSpec

=============================================================================
