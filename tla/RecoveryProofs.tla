--------------------------- MODULE RecoveryProofs ---------------------------
(***************************************************************************)
(* Manual mode is recovered once, whatever the embedded controller takes   *)
(* away and whichever accesses fail, for either interface.                 *)
(***************************************************************************)
EXTENDS MCHpFan, HpFanProofs

\* One loss is being recovered from, is remembered, or was an error; a second
\* one was an error.
LossInv ==
  /\ losses \in 0..LossesBound
  /\ losses = 1 => \/ Idle /\ CallFails
                   \/ Idle /\ result = "ok" /\ recoveryPending
                   \/ at = "read" /\ recoveryPending
                   \/ at \in {"enable", "pwm", "rollback"} /\ op = "recover"
  /\ RecoversAtMostOnce

\* How the history variable changes.
LEMMA Counted ==
  ASSUME CountLosses, losses \in 0..LossesBound
  PROVE  /\ losses' \in 0..LossesBound
         /\ \/ losses' = losses
            \/ losses' = 0
            \/ at = "read" /\ mode = "auto" /\ at' # "read"
         /\ at = "read" /\ mode \in {"manual", "max"} /\ at' # "read" => losses' = 0
         /\ Idle /\ op' \in {"set_manual", "set_maximum", "restore_auto"} => losses' = 0
         /\ at = "read" /\ mode = "auto" /\ at' # "read" =>
              losses' = IF losses < LossesBound THEN losses + 1 ELSE losses
  <1> USE DEF CountLosses, LossesBound, Idle
  <1>1. CASE at = "read" /\ mode = "auto" /\ at' # "read"
    BY <1>1
  <1>2. CASE at = "read" /\ mode \in {"manual", "max"} /\ at' # "read"
    BY <1>2
  <1>3. CASE Idle /\ op' \in {"set_manual", "set_maximum", "restore_auto"}
    BY <1>3
  <1>4. CASE /\ ~(at = "read" /\ mode = "auto" /\ at' # "read")
             /\ ~(at = "read" /\ mode \in {"manual", "max"} /\ at' # "read")
             /\ ~(Idle /\ op' \in {"set_manual", "set_maximum", "restore_auto"})
    BY <1>4
  <1>5. QED
    BY <1>1, <1>2, <1>3, <1>4

\* A call that begins ends the history of losses, unless it updates Manual.
LEMMA LossCalls ==
  ASSUME LossInv, OwnerCalls, CountLosses
  PROVE  LossInv'
  <1> USE DEF LossInv, RecoversAtMostOnce, LossesBound, Idle, CallFails
  <1>0. Idle /\ losses' \in 0..LossesBound
    BY Counted DEF OwnerCalls, SetManual, UpdateManual, SetMaximum, RestoreAuto, Begin, Refuse
  <1>1. CASE op' \in {"set_manual", "set_maximum", "restore_auto"}
    BY <1>0, <1>1, Counted
  <1>2. CASE op' \notin {"set_manual", "set_maximum", "restore_auto"}
    <2>1. /\ Controlling /\ op' = "update_manual" /\ UNCHANGED recoveryPending
          /\ at' = "read" \/ (at' = at /\ result' = "error")
      BY <1>2 DEF OwnerCalls, SetManual, UpdateManual, SetMaximum, RestoreAuto, Begin, Refuse
    <2>2. losses' = losses \/ losses' = 0
      BY <1>0, Counted
    <2>3. losses # 2 /\ (losses = 1 => recoveryPending)
      BY <1>0, <2>1 DEF Controlling
    <2>4. QED
      BY <1>0, <2>1, <2>2, <2>3
  <1>3. QED
    BY <1>1, <1>2

\* Each access of a running call.
LEMMA LossAccesses ==
  ASSUME LossInv, FanStep, CountLosses
  PROVE  LossInv'
  <1> USE DEF LossInv, RecoversAtMostOnce, LossesBound, Idle, CallFails, Return
  <1>0. ~Idle /\ losses \in 0..1 /\ losses' \in 0..LossesBound
    BY Counted DEF FanStep, ReadMode, WriteEnable, WritePwm, Rollback
  <1>1. CASE ReadMode
    <2>1. at = "read" /\ at' # "read"
      BY <1>1 DEF ReadMode
    <2>2. CASE mode \in {"manual", "max"}
      BY <1>0, <2>1, <2>2, Counted
    <2>3. CASE mode = "auto"
      <3>1. losses' = losses + 1
        BY <1>0, <2>1, <2>3, Counted
      <3>2. \/ at' = "idle" /\ result' = "error"
            \/ ~recoveryPending /\ at' = "enable" /\ op' = "recover"
        BY <1>1, <2>3 DEF ReadMode
      <3>3. losses = 1 => recoveryPending
        BY <2>1
      <3>4. QED
        BY <1>0, <3>1, <3>2, <3>3
    <2>4. CASE mode \notin {"manual", "max", "auto"}
      <3>1. losses' = losses \/ losses' = 0
        BY <1>0, <2>4, Counted
      <3>2. at' = "idle" /\ result' = "error"
        BY <1>1, <2>4 DEF ReadMode
      <3>3. QED
        BY <1>0, <3>1, <3>2
    <2>5. QED
      BY <2>2, <2>3, <2>4
  <1>2. CASE WriteEnable \/ WritePwm \/ Rollback
    <2>1. /\ at \in {"enable", "pwm", "rollback"}
          /\ \/ at' \in {"enable", "pwm", "rollback"} /\ op' = op
             \/ at' = "idle" /\ result' \in {"error", "stuck"}
             \/ at' = "idle" /\ result' = "ok" /\ (op = "recover" => recoveryPending')
      BY <1>2 DEF WriteEnable, WritePwm, WriteFails, Rollback, ManualOps, Recovering
    <2>2. losses' = losses \/ losses' = 0
      BY <1>0, <2>1, Counted
    <2>3. losses = 1 => op = "recover"
      BY <2>1
    <2>4. QED
      BY <1>0, <2>1, <2>2, <2>3
  <1>3. QED
    BY <1>1, <1>2 DEF FanStep

\* Nobody else touches what the invariant speaks of.
LEMMA LossStep == LossInv /\ [MCNext]_<<fanVars, losses>> => LossInv'
  <1> SUFFICES ASSUME LossInv, [MCNext]_<<fanVars, losses>> PROVE LossInv'
    OBVIOUS
  <1>1. CASE (FanEnvironment \/ WindowPasses) /\ CountLosses
    <2>1. UNCHANGED <<at, op, result, recoveryPending>>
      BY <1>1 DEF FanEnvironment, FirmwareMoves, Meddle, WindowPasses, call
    <2>2. losses' \in 0..LossesBound /\ (losses' = losses \/ losses' = 0)
      BY <1>1, <2>1, Counted DEF LossInv
    <2>3. QED
      BY <2>1, <2>2 DEF LossInv, RecoversAtMostOnce, LossesBound, Idle, CallFails
  <1>2. CASE UNCHANGED <<fanVars, losses>>
    BY <1>2 DEF LossInv, RecoversAtMostOnce, Idle, CallFails, fanVars, call
  <1>3. QED
    BY <1>1, <1>2, LossCalls, LossAccesses DEF MCNext, FanNext

\* A Manual mode that is lost again before a tick has found it in place is an
\* error: the adapter never takes it twice, however the losses fall between its
\* accesses and whichever of them fail (update_manual).
THEOREM RecoveredOnce == MCSpec => []RecoversAtMostOnce
  <1>1. MCInit => LossInv
    BY DEF MCInit, LossInv, RecoversAtMostOnce, LossesBound
  <1>2. LossInv => RecoversAtMostOnce
    BY DEF LossInv
  <1>3. QED
    BY <1>1, <1>2, LossStep, PTL DEF MCSpec

=============================================================================
