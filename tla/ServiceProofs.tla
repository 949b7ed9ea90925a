--------------------------- MODULE ServiceProofs ---------------------------
(***************************************************************************)
(* Proofs about the service, for every configuration: kills at any step,   *)
(* failed recoveries and restarts keep the types, what the loop knows of   *)
(* the fans, and what a recovery that reports success promises.            *)
(***************************************************************************)
EXTENDS Service, ControllerProofs

\* The process of the controller exists.
InController == pc \in Running \cup {"exit"}

-----------------------------------------------------------------------------
(* Between two processes.                                                  *)

\* The fresh memory of the next process, and the only call ExecStopPost makes.
PostCalls ==
  /\ pc \in PostPoints \cup {"down"}
  /\ ~manualActive /\ ~emergency /\ guardLeft = Never
  /\ pc # "post.call" => Idle
  /\ pc = "post.call" => op = "set_maximum"
  /\ pc = "down" => op = "none" /\ result = "none" /\ ~guardFile

\* What is known of the fans on the way, unless somebody else chose their mode.
PostFans == modeBy = "daemon" =>
  /\ pc = "post" => (owed => mode \in {"manual", "max"} \/ guardFile)
  /\ pc = "post.unlink" => mode = "max"
  /\ pc = "post.verify" => (owed => mode = "max")
  /\ pc \in {"post.end", "down"} /\ recovery = "ok" =>
       mode \in {"auto", "max"} /\ (owed => mode = "max")

RecoveryTypeOK == recovery \in {"none", "ok", "failed"} /\ owed \in BOOLEAN

ServiceInv ==
  /\ FanFlagsOK /\ CallsOK /\ ControlOK /\ ModeShape /\ RecoveryTypeOK
  /\ InController \/ PostCalls
  /\ InController => FullInv
  /\ ~InController => PostFans

\* A controller step can be taken between two processes only by the adapter,
\* on behalf of ExecStopPost, and by the fans' environment.
LEMMA NextWhileDown ==
  ASSUME ~InController, [Next]_vars
  PROVE  /\ UNCHANGED controllerVars
         /\ FanStep \/ FanEnvironment \/ UNCHANGED fanVars
  <1> USE DEF InController, Running, LoopPoints, StopPoints
  <1>1. ~LoopStep
    BY DEF LoopStep, Adopt, OpenMonitor, LeaveLoop, TopOfLoop, ReadFails, ReadSucceeds,
       SelectMaximum, LeaveEmergency, StayAuto, Control, Maximum, MaximumReturns,
       MaximumSelected, Restore, RestoreReturns, RestoreFails, ApplyDry, TakeManual,
       KeepManual, ManualTaken, ManualKept, ApplyFails, Wait
  <1>2. ~StopStep
    BY DEF StopStep, Finally, FinallyQuiet, Handoff, HandoffReturns, HandoffClears,
       FailsafeReturns, FailsafeClears
  <1>3. ~SlowSensors /\ ~Suspend /\ ~RequestStop
    BY DEF SlowSensors, Suspend, RequestStop
  <1>4. QED
    BY <1>1, <1>2, <1>3 DEF Next, ProcessStep, AdapterStep, Environment, vars

\* A new process, a killed recovery and systemd leave no call behind.
LEMMA NewAdapterOK ==
  ASSUME NewAdapter, UNCHANGED hw, FanFlagsOK, CallsOK, ModeShape
  PROVE  FanFlagsOK' /\ CallsOK' /\ ModeShape' /\ Idle' /\ op' = "none" /\ result' = "none"
  <1> USE DEF NewAdapter, hw
  <1>1. FanFlagsOK' /\ Idle' /\ op' = "none" /\ result' = "none"
    BY DEF FanFlagsOK, Idle
  <1>2. CallsOK'
    BY FanAssumption DEF FanAssumption, CallsOK, FanDataOK, CallShape, Modes, Ops, ManualOps,
       Results, ManualCalls, Idle, CallFails, Duties
  <1>3. ModeShape'
    BY DEF ModeShape, Idle
  <1>4. QED
    BY <1>1, <1>2, <1>3

\* The memory of a new process is well typed.
LEMMA FreshMemoryOK ==
  ASSUME FreshMemory, guardFile' \in BOOLEAN
  PROVE  ControlOK' /\ ~manualActive' /\ ~emergency' /\ guardLeft' = Never
  <1> USE DEF FreshMemory
  <1>1. ControlFlagsOK'
    BY DEF ControlFlagsOK
  <1>2. TimesOK'
    BY ControllerAssumption DEF ControllerAssumption, TimesOK, Never
  <1>3. PolicyOK'
    BY NoneMissedTyped DEF PolicyOK, FilterStates, NoneMissed, NoDuty, NoSnapshot
  <1>4. QED
    BY <1>1, <1>2, <1>3 DEF ControlOK, Never

\* The end of a process leaves the fans and the marker for ExecStopPost.
LEMMA ProcessEndsOK ==
  ASSUME ServiceInv, ProcessEnds
  PROVE  ServiceInv'
  <1>1. FanFlagsOK' /\ CallsOK' /\ ModeShape' /\ Idle'
    BY NewAdapterOK DEF ServiceInv, ProcessEnds
  <1>2. ControlOK' /\ ~manualActive' /\ ~emergency' /\ guardLeft' = Never
    BY FreshMemoryOK DEF ServiceInv, ProcessEnds, ControlOK, ControlFlagsOK
  <1>3. RecoveryTypeOK' /\ pc' = "post"
    BY DEF ServiceInv, ProcessEnds, RecoveryTypeOK, Goto
  <1>4. PostCalls'
    BY <1>1, <1>2, <1>3 DEF PostCalls, PostPoints
  <1>5. PostFans'
    BY <1>3 DEF PostFans, ProcessEnds, hw
  <1>6. ~InController'
    BY <1>3 DEF InController, Running, LoopPoints, StopPoints
  <1>7. QED
    BY <1>1, <1>2, <1>3, <1>4, <1>5, <1>6 DEF ServiceInv

\* Nobody but the daemon keeps a promise about its mode.
LEMMA OthersBetweenProcesses ==
  ASSUME ServiceInv, ~InController, [Next]_vars, UNCHANGED <<recovery, owed>>
  PROVE  ServiceInv'
  <1>1. /\ UNCHANGED controllerVars
        /\ FanStep \/ FanEnvironment \/ UNCHANGED fanVars
    BY NextWhileDown
  <1>2. UNCHANGED <<pc, manualActive, emergency, guardLeft, guardFile>>
    BY <1>1 DEF controllerVars, memory, ownership
  <1>3. [FanNext]_fanVars
    BY <1>1 DEF FanNext
  <1>4. FanFlagsOK' /\ CallsOK' /\ ModeShape'
    BY <1>1, <1>3, FanNextFlags, FanStepKeepsCalls, FanEnvironmentKeepsCalls,
       FanNextKeepsModes
    DEF ServiceInv
  <1>5. ControlOK'
    BY <1>1 DEF ServiceInv, ControlOK, ControlFlagsOK, TimesOK, PolicyOK, controllerVars,
       memory, ownership, localVars, sampleVars, policyVars
  <1>6. PostCalls' /\ PostFans'
    <2>1. PostCalls /\ PostFans /\ CallsOK
      BY DEF ServiceInv
    <2>2. CASE FanStep
      <3>1. pc = "post.call" /\ op' = op
        BY <2>1, <2>2, AccessKeepsCall DEF PostCalls
      <3>2. QED
        BY <1>2, <2>1, <3>1 DEF PostCalls, PostFans, PostPoints
    <2>3. CASE FanEnvironment \/ UNCHANGED fanVars
      <3>1. UNCHANGED call /\ (modeBy' = "daemon" => UNCHANGED <<mode, modeBy>>)
        BY <2>3 DEF FanEnvironment, FirmwareMoves, Meddle, fanVars, hw
      <3>2. QED
        BY <1>2, <2>1, <3>1 DEF PostCalls, PostFans, call, Idle
    <2>4. QED
      BY <1>1, <2>2, <2>3
  <1>7. RecoveryTypeOK' /\ ~InController'
    BY <1>2 DEF ServiceInv, RecoveryTypeOK, InController
  <1>8. QED
    BY <1>4, <1>5, <1>6, <1>7 DEF ServiceInv

\* Each step of ExecStopPost and of systemd after it.
LEMMA RecoveryStepOK ==
  ASSUME ServiceInv, RecoveryStep
  PROVE  ServiceInv'
  <1>1. pc \in PostPoints /\ ~InController
    BY DEF RecoveryStep, PostFails, PostDecides, PostReturns, PostUnlinks, PostVerifies,
       PostKilled, RuntimeDirectoryRemoved, PostPoints, InController, Running, LoopPoints,
       StopPoints
  <1>2. PostCalls /\ PostFans /\ FanFlagsOK /\ CallsOK /\ ModeShape /\ ControlOK
        /\ RecoveryTypeOK
    BY <1>1 DEF ServiceInv
  <1>3. /\ UNCHANGED memory /\ UNCHANGED owed
        /\ guardFile' = guardFile \/ guardFile' = FALSE
    BY DEF RecoveryStep, PostFails, PostDecides, PostReturns, PostUnlinks, PostVerifies,
       PostKilled, RuntimeDirectoryRemoved
  <1>4. ControlOK'
    BY <1>2, <1>3 DEF ControlOK, ControlFlagsOK, TimesOK, PolicyOK, memory, ownership,
       localVars, sampleVars, policyVars
  <1>5. UNCHANGED <<manualActive, emergency, guardLeft>>
    BY <1>3 DEF memory, ownership
  <1>6. /\ FanFlagsOK' /\ CallsOK' /\ ModeShape' /\ PostCalls' /\ PostFans'
        /\ RecoveryTypeOK'
    <2> USE DEF Goto, Call
    <2>1. CASE PostFails \/ PostUnlinks \/ PostVerifies \/ PostReturns
      <3>1. UNCHANGED fanVars
        BY <2>1 DEF PostFails, PostUnlinks, PostVerifies, PostReturns
      <3>2. FanFlagsOK' /\ CallsOK' /\ ModeShape'
        BY <1>2, <3>1, FanNextFlags, FanEnvironmentKeepsCalls, FanNextKeepsModes
      <3>3. PostCalls'
        BY <1>2, <1>5, <2>1, <3>1
        DEF PostFails, PostUnlinks, PostVerifies, PostReturns, PostCalls, PostPoints,
            fanVars, call, Idle
      <3>4. PostFans' /\ RecoveryTypeOK'
        BY <1>2, <2>1, <3>1
        DEF PostFails, PostUnlinks, PostVerifies, PostReturns, PostCalls, PostFans,
            RecoveryTypeOK, ModeShape, fanVars, hw
      <3>5. QED
        BY <3>2, <3>3, <3>4
    <2>2. CASE PostDecides
      <3>1. CASE NeedsMaximum
        <4>1. SetMaximum /\ pc' = "post.call"
          BY <2>2, <3>1 DEF PostDecides
        <4>2. [FanNext]_fanVars /\ AnyCall
          BY <4>1 DEF FanNext, OwnerCalls, AnyCall
        <4>3. FanFlagsOK' /\ CallsOK' /\ ModeShape'
          BY <1>2, <4>2, FanNextFlags, AnyCallKeepsCalls, FanNextKeepsModes
        <4>4. PostCalls' /\ PostFans' /\ RecoveryTypeOK'
          BY <1>2, <1>5, <2>2, <4>1
          DEF PostDecides, SetMaximum, Begin, PostCalls, PostPoints, PostFans,
              RecoveryTypeOK
        <4>5. QED
          BY <4>3, <4>4
      <3>2. CASE ~NeedsMaximum
        <4>1. UNCHANGED fanVars /\ pc' = "post.verify" /\ UNCHANGED <<recovery, owed>>
          BY <2>2, <3>2 DEF PostDecides
        <4>2. FanFlagsOK' /\ CallsOK' /\ ModeShape'
          BY <1>2, <4>1, FanNextFlags, FanEnvironmentKeepsCalls, FanNextKeepsModes
        <4>3. PostCalls' /\ PostFans' /\ RecoveryTypeOK'
          BY <1>2, <1>5, <2>2, <3>2, <4>1
          DEF PostDecides, NeedsMaximum, PostCalls, PostPoints, PostFans, RecoveryTypeOK,
              fanVars, hw, call, Idle
        <4>4. QED
          BY <4>2, <4>3
      <3>3. QED
        BY <3>1, <3>2
    <2>3. CASE PostKilled \/ RuntimeDirectoryRemoved
      <3>1. NewAdapter /\ UNCHANGED hw
        BY <2>3 DEF PostKilled, RuntimeDirectoryRemoved
      <3>2. FanFlagsOK' /\ CallsOK' /\ ModeShape' /\ Idle' /\ op' = "none" /\ result' = "none"
        BY <1>2, <3>1, NewAdapterOK
      <3>3. PostCalls' /\ PostFans' /\ RecoveryTypeOK'
        BY <1>2, <1>5, <2>3, <3>1, <3>2
        DEF PostKilled, RuntimeDirectoryRemoved, PostCalls, PostPoints, PostFans,
            RecoveryTypeOK, hw
      <3>4. QED
        BY <3>2, <3>3
    <2>4. QED
      BY <2>1, <2>2, <2>3 DEF RecoveryStep
  <1>7. ~InController'
    BY <1>6 DEF PostCalls, PostPoints, InController, Running, LoopPoints, StopPoints
  <1>8. QED
    BY <1>4, <1>6, <1>7 DEF ServiceInv

\* A restart begins with fresh memory and the fans as they are.
LEMMA StartOK ==
  ASSUME ServiceInv, Start
  PROVE  ServiceInv'
  <1>1. /\ pc = "down" /\ pc' = "start" /\ UNCHANGED <<fanVars, memory, guardFile>>
        /\ recovery' = "none" /\ owed' = FALSE
    BY DEF Start, Goto
  <1>2. ~InController
    BY <1>1 DEF InController, Running, LoopPoints, StopPoints
  <1>3. PostCalls
    BY <1>2 DEF ServiceInv
  <1>4. FanFlagsOK' /\ CallsOK' /\ ModeShape'
    BY <1>1, FanNextFlags, FanEnvironmentKeepsCalls, FanNextKeepsModes DEF ServiceInv
  <1>5. ControlOK'
    BY <1>1 DEF ServiceInv, ControlOK, ControlFlagsOK, TimesOK, PolicyOK, memory, ownership,
       localVars, sampleVars, policyVars
  <1>6. Waiting' /\ StartInv' /\ PcOK' /\ ~Engaged'
    BY <1>1, <1>3
    DEF PostCalls, Waiting, CallPoints, WritingPoints, StartInv, PcOK, Running, Engaged,
        Idle, fanVars, call, memory, ownership
  <1>7. FullInv'
    BY <1>4, <1>5, <1>6 DEF FullInv, BaseInv
  <1>8. InController' /\ RecoveryTypeOK'
    BY <1>1 DEF InController, Running, RecoveryTypeOK
  <1>9. QED
    BY <1>4, <1>5, <1>7, <1>8 DEF ServiceInv

\* Time while the service is down.
LEMMA DownTickOK ==
  ASSUME ServiceInv, DownTick
  PROVE  ServiceInv'
  <1>1. ~InController
    BY DEF DownTick, InController, Running, LoopPoints, StopPoints
  <1>2. WindowPasses /\ UNCHANGED <<controllerVars, recovery, owed, mode, modeBy, call>>
    <2>1. fanStop \in Nat /\ fanStop > 0
      BY FanAssumption DEF FanAssumption, ServiceInv, CallsOK, FanDataOK, DownTick
    <2>2. fanStop' \in 0..fanStop - 1
      BY <2>1 DEF DownTick, Left
    <2>3. QED
      BY <2>1, <2>2 DEF DownTick, WindowPasses
  <1>3. FanFlagsOK' /\ CallsOK' /\ ModeShape'
    BY <1>2, FanNextFlags, FanEnvironmentKeepsCalls, FanNextKeepsModes DEF FanNext, ServiceInv
  <1>4. ControlOK'
    BY <1>2 DEF ServiceInv, ControlOK, ControlFlagsOK, TimesOK, PolicyOK, controllerVars,
       memory, ownership, localVars, sampleVars, policyVars
  <1>5. UNCHANGED <<pc, manualActive, emergency, guardLeft, guardFile>>
    BY <1>2 DEF controllerVars, memory, ownership
  <1>6. PostCalls' /\ PostFans' /\ RecoveryTypeOK' /\ ~InController'
    BY <1>1, <1>2, <1>5
    DEF ServiceInv, PostCalls, PostFans, RecoveryTypeOK, InController, call, Idle
  <1>7. QED
    BY <1>3, <1>4, <1>6 DEF ServiceInv

\* Every step of the service keeps it.
LEMMA ServiceStep == ServiceInv /\ [ServiceNext]_serviceVars => ServiceInv'
  <1> SUFFICES ASSUME ServiceInv, [ServiceNext]_serviceVars PROVE ServiceInv'
    OBVIOUS
  <1>1. ASSUME [Next]_vars, UNCHANGED <<recovery, owed>> PROVE ServiceInv'
    <2>1. CASE InController
      <3>1. FullInv'
        BY <1>1, <2>1, FullStep DEF ServiceInv
      <3>2. InController'
        BY <3>1 DEF FullInv, BaseInv, PcOK, InController
      <3>3. QED
        BY <1>1, <3>1, <3>2 DEF ServiceInv, FullInv, BaseInv, RecoveryTypeOK
    <2>2. QED
      BY <1>1, <2>1, OthersBetweenProcesses
  <1>2. CASE Exit \/ Kill
    BY <1>2, ProcessEndsOK DEF Exit, Kill
  <1>3. CASE UNCHANGED serviceVars
    BY <1>1, <1>3 DEF serviceVars
  <1>4. QED
    BY <1>1, <1>2, <1>3, RecoveryStepOK, StartOK, DownTickOK DEF ServiceNext

\* The inductive invariant of the service.
THEOREM ServiceInvariant == ServiceSpec => []ServiceInv
  <1>1. ServiceInit => ServiceInv
    <2>1. ServiceInit => FullInv /\ RecoveryTypeOK /\ InController
      BY FullInit DEF ServiceInit, RecoveryTypeOK, InController, Init, ControllerInit, Running
    <2>2. QED
      BY <2>1 DEF ServiceInv, FullInv, BaseInv
  <1>2. QED
    BY <1>1, ServiceStep, PTL DEF ServiceSpec

\* All variables keep their range over kills, recoveries and restarts.
THEOREM ServiceTypeCorrect == ServiceSpec => []ServiceTypeOK
  <1>1. ServiceInv => ServiceTypeOK
    BY DEF ServiceInv, ServiceTypeOK, FanTypeOK, ControllerTypeOK, CallsOK, ControlOK,
       ControlFlagsOK, TimesOK, PolicyOK, RecoveryTypeOK, InController, PostCalls, PostPoints
  <1>2. QED
    BY <1>1, ServiceInvariant, PTL

\* However the process ended and however often it was killed and restarted, a
\* recovery that reports success left the daemon's fans in Auto or Max, and in
\* Max if the process held Manual, Max or a guarded Auto
\* (ensure_failsafe_fan_state, ExecStopPost).
THEOREM RecoveryIsSafe == ServiceSpec => []RecoveryRestoresSafety
  <1>1. ServiceInv => RecoveryRestoresSafety
    BY DEF ServiceInv, PostFans, RecoveryRestoresSafety, InController, Running, LoopPoints,
       StopPoints
  <1>2. QED
    BY <1>1, ServiceInvariant, PTL

\* What the loop remembers agrees with the fans also in every process that was
\* started on whatever its killed predecessors left.
THEOREM OwnershipSurvivesRestarts ==
  ServiceSpec => [](OwnershipMatchesFans /\ ManualCarriesCommandedDuty)
  <1>1. FullInv => OwnershipMatchesFans
    BY DEF FullInv, OwnInv, ModeInv, OwnershipMatchesFans, Settled, Calm, Engaged,
           Running, LoopPoints
  <1>2. FullInv => ManualCarriesCommandedDuty
    BY DEF FullInv, OwnInv, DutyInv, ManualCarriesCommandedDuty, Settled, Calm,
       DaemonManual, Engaged, Running, LoopPoints
  <1>3. ~InController => OwnershipMatchesFans /\ ManualCarriesCommandedDuty
    BY DEF InController, OwnershipMatchesFans, ManualCarriesCommandedDuty, Settled, Running,
       LoopPoints
  <1>4. ServiceInv => OwnershipMatchesFans /\ ManualCarriesCommandedDuty
    BY <1>1, <1>2, <1>3 DEF ServiceInv
  <1>5. QED
    BY <1>4, ServiceInvariant, PTL

-----------------------------------------------------------------------------
(* The fan-stop window over restarts.  The service runs with --apply; no    *)
(* access fails, nobody kills the process or selects modes, and the guard   *)
(* exceeds the window by the time of a sensor read.                         *)

Undisturbed == Apply /\ ~MayFail /\ ~MayKill /\ Meddling = {} /\ FanStop + SlowRead <= Guard

\* The guard outlasts the window.
GuardCovers == IF guardLeft = Never THEN fanStop = 0 ELSE fanStop <= guardLeft

\* A window is only where the guard covers it, or where Auto is being written
\* and read back, or where Max is about to end it.
WatchedPoints == Calm \cup {"start", "max.call", "apply.set", "apply.update", "finally", "handoff"}
ChangingPoints == {"restore.call", "handoff.call", "handoff.clear", "failsafe"}

WindowWatched ==
  /\ pc \in WatchedPoints => GuardCovers
  /\ pc \notin WatchedPoints \cup ChangingPoints => fanStop = 0

\* Calls without an argument succeed, and a pwm write finds Manual.
CallsSucceed ==
  /\ at # "rollback" /\ (at = "pwm" => mode = "manual")
  /\ pc \in {"restore.call", "handoff.call", "failsafe"} /\ Idle => result = "ok"

\* Accesses succeed, so nothing falls back to Auto.
LEMMA AccessSucceeds ==
  ASSUME Undisturbed, CallsSucceed, CallsOK,
         FanStep \/ FanEnvironment \/ UNCHANGED fanVars,
         UNCHANGED pc,
         pc \in {"restore.call", "handoff.call", "failsafe"}
           => op \in {"set_maximum", "restore_auto"}
  PROVE  /\ CallsSucceed'
         /\ fanStop' \in {0, fanStop} \/ (at = "enable" /\ op = "restore_auto")
  <1> USE DEF Undisturbed, CallsSucceed, Idle, Return, hw
  <1>1. CASE ReadMode
    BY <1>1 DEF ReadMode, CallsOK, CallShape
  <1>2. CASE WriteEnable
    BY <1>2 DEF WriteEnable, Switch, ManualOps
  <1>3. CASE WritePwm
    BY <1>3 DEF WritePwm, CallsOK, CallShape, ManualCalls, ManualOps
  <1>4. CASE FanEnvironment \/ UNCHANGED fanVars
    BY <1>4 DEF FanEnvironment, FirmwareMoves, call, fanVars
  <1>5. QED
    BY <1>1, <1>2, <1>3, <1>4 DEF FanStep, Rollback

\* Steps that make no access and leave the fans' mode leave the calls in order.
LEMMA NoAccess ==
  ASSUME CallsSucceed, UNCHANGED mode,
         UNCHANGED call \/ at' \in {"idle", "read", "enable"},
         pc' \in {"restore.call", "handoff.call", "failsafe"}
           => ~Idle' \/ (UNCHANGED <<pc, call>>)
  PROVE  CallsSucceed'
  BY DEF CallsSucceed, call, Idle

\* Neither window nor guard changes.
LEMMA WatchKept ==
  ASSUME WindowWatched, UNCHANGED <<fanStop, guardLeft>>,
         pc' \in WatchedPoints => pc \in WatchedPoints,
         pc' \notin WatchedPoints \cup ChangingPoints => pc \notin WatchedPoints \cup ChangingPoints
  PROVE  WindowWatched'
  BY DEF WindowWatched, GuardCovers

\* Without a window there is nothing to watch.
LEMMA NothingToWatch ==
  ASSUME fanStop' = 0, guardLeft' \in {Never} \cup Nat
  PROVE  WindowWatched'
  BY DEF WindowWatched, GuardCovers, Never

\* Time runs for window and guard.
LEMMA WatchTicks ==
  ASSUME WindowWatched, TimesOK, fanStop \in Nat, pc \in {"wait", "read"},
         pc' \in WatchedPoints, fanStop' = Left(fanStop), guardLeft' = Left(guardLeft)
  PROVE  WindowWatched'
  <1>1. GuardCovers
    BY DEF WindowWatched, WatchedPoints, Calm
  <1>2. CASE guardLeft = Never
    BY <1>1, <1>2 DEF WindowWatched, GuardCovers, Left, Never
  <1>3. CASE guardLeft \in Nat
    <2>1. fanStop <= guardLeft /\ guardLeft' \in Nat /\ fanStop' <= guardLeft'
      BY <1>1, <1>3 DEF GuardCovers, Left, Never
    <2>2. QED
      BY <2>1 DEF WindowWatched, GuardCovers, Never
  <1>4. QED
    BY <1>2, <1>3, ControllerAssumption DEF TimesOK, ControllerAssumption

\* What the invariants say at the places where a window ends.
LEMMA WindowEnds ==
  ASSUME FullInv, Apply, CallsSucceed
  PROVE  /\ pc = "decide" /\ emergency => fanStop = 0
         /\ mode # "auto" => fanStop = 0
         /\ pc \in {"max.call", "failsafe", "apply.set"} /\ Idle /\ result = "ok" => fanStop = 0
  <1>1. fanStop > 0 => mode = "auto" /\ modeBy = "daemon"
    BY DEF FullInv, ModeShape
  <1>2. fanStop = 0 \/ fanStop > 0
    BY FanAssumption DEF FanAssumption, FullInv, BaseInv, CallsOK, FanDataOK
  <1>3. pc = "decide" /\ emergency /\ modeBy = "daemon" => mode = "max"
    BY DEF FullInv, OwnInv, ModeInv, Calm, Engaged, Running, LoopPoints
  <1>4. pc \in {"max.call", "failsafe", "apply.set"} /\ Idle /\ result = "ok"
          => (modeBy = "daemon" => mode # "auto")
    BY DEF FullInv, BaseInv, Waiting, ModeShape, ManualCalls, ManualOps
  <1>5. QED
    BY <1>1, <1>2, <1>3, <1>4

\* The loop opens no window without its guard.
LEMMA LoopWatches ==
  ASSUME Undisturbed, FullInv, CallsSucceed, WindowWatched, LoopStep
  PROVE  CallsSucceed' /\ WindowWatched'
  <1> USE DEF Goto, memory, ownership, guardVars, fanVars, hw
  <1>1. Apply /\ ~MayFail /\ CallsOK /\ TimesOK
    BY DEF Undisturbed, FullInv, BaseInv, ControlOK
  <1>2. fanStop \in Nat /\ fanStop <= FanStop /\ lag \in 0..SlowRead
        /\ guardLeft \in {Never} \cup Nat
    BY <1>1, FanAssumption, ControllerAssumption
    DEF FanAssumption, ControllerAssumption, CallsOK, FanDataOK, TimesOK
  <1>3. ~ClearGuardFails
    BY <1>1 DEF ClearGuardFails
  <1>4. CASE Adopt \/ OpenMonitor
    <2>1. UNCHANGED <<fanStop, guardLeft, mode, call>> /\ pc \in {"start", "monitor"}
          /\ (pc' \in {"monitor", "top"} \/ (pc' = "exit" /\ mode # "auto"))
      BY <1>1, <1>4 DEF Adopt, OpenMonitor
    <2>2. CASE pc' = "exit" /\ mode # "auto"
      BY <1>1, <1>2, <2>1, <2>2, WindowEnds, NothingToWatch, NoAccess
    <2>3. CASE pc' \in {"monitor", "top"}
      BY <2>1, <2>3, WatchKept, NoAccess DEF WatchedPoints, ChangingPoints, Calm
    <2>4. QED
      BY <2>1, <2>2, <2>3
  <1>5. CASE TopOfLoop
    <2>1. /\ pc = "top" /\ pc' \in {"wait", "read"} /\ UNCHANGED <<fanStop, mode, call>>
          /\ UNCHANGED guardLeft \/ (guardLeft = 0 /\ guardLeft' = Never)
      BY <1>3, <1>5 DEF TopOfLoop, ClearGuard, GuardExpired
    <2>2. CallsSucceed'
      BY <2>1, NoAccess
    <2>3. guardLeft = 0 => fanStop = 0
      BY <1>2, <2>1 DEF WindowWatched, GuardCovers, WatchedPoints, Calm, Never
    <2>4. CASE UNCHANGED guardLeft
      BY <2>1, <2>2, <2>4, WatchKept DEF WatchedPoints, ChangingPoints, Calm
    <2>5. CASE guardLeft = 0 /\ guardLeft' = Never
      BY <2>1, <2>2, <2>3, <2>5, NothingToWatch
    <2>6. QED
      BY <2>1, <2>4, <2>5
  <1>6. CASE LeaveLoop \/ ReadFails \/ ReadSucceeds \/ SelectMaximum \/ StayAuto \/ Control
    <2>1. /\ UNCHANGED <<fanStop, guardLeft, mode, call>>
          /\ pc \in {"top", "read", "decide"}
          /\ pc' \in {"finally", "max", "wait", "decide", "apply"}
      BY <1>6 DEF LeaveLoop, ReadFails, ReadSucceeds, SelectMaximum, StayAuto, Control
    <2>2. QED
      BY <2>1, WatchKept, NoAccess DEF WatchedPoints, ChangingPoints, Calm
  <1>7. CASE LeaveEmergency
    <2>1. /\ UNCHANGED <<fanStop, mode, call>> /\ pc = "decide" /\ emergency
          /\ guardLeft' = Never /\ pc' = "apply"
      BY <1>3, <1>7 DEF LeaveEmergency, MayLeaveEmergency, ClearGuard
    <2>2. QED
      BY <1>1, <2>1, WindowEnds, NothingToWatch, NoAccess
  <1>8. CASE Maximum
    <2>1. /\ UNCHANGED <<fanStop, guardLeft, mode>> /\ pc = "max"
          /\ \/ pc' = "max.clear" /\ mode = "max" /\ UNCHANGED call
             \/ pc' = "max.call" /\ at' = "enable"
      BY <1>1, <1>8 DEF Maximum, Call, SetMaximum, Begin
    <2>2. CallsSucceed'
      BY <2>1, NoAccess
    <2>3. CASE mode = "max"
      BY <1>1, <1>2, <2>1, <2>2, <2>3, WindowEnds, NothingToWatch
    <2>4. CASE pc' = "max.call"
      BY <2>1, <2>2, <2>4, WatchKept DEF WatchedPoints, ChangingPoints, Calm
    <2>5. QED
      BY <2>1, <2>3, <2>4
  <1>9. CASE MaximumReturns
    <2>1. /\ UNCHANGED <<fanStop, guardLeft, mode, call>> /\ pc = "max.call" /\ Idle
          /\ \/ pc' = "max.clear" /\ result = "ok"
             \/ pc' = "finally"
      BY <1>9 DEF MaximumReturns
    <2>2. CallsSucceed'
      BY <2>1, NoAccess
    <2>3. CASE result = "ok"
      BY <1>1, <1>2, <2>1, <2>2, <2>3, WindowEnds, NothingToWatch
    <2>4. CASE pc' = "finally"
      BY <2>1, <2>2, <2>4, WatchKept DEF WatchedPoints, ChangingPoints, Calm
    <2>5. QED
      BY <2>1, <2>3, <2>4
  <1>10. CASE MaximumSelected
    <2>1. /\ UNCHANGED <<fanStop, mode, call>> /\ pc = "max.clear" /\ pc' = "wait"
          /\ guardLeft' = Never
      BY <1>3, <1>10 DEF MaximumSelected, ClearGuard
    <2>2. fanStop = 0
      BY <2>1 DEF WindowWatched, WatchedPoints, ChangingPoints, Calm
    <2>3. QED
      BY <2>1, <2>2, NothingToWatch, NoAccess
  <1>11. CASE Restore
    <2>1. pc' = "restore.call" /\ at' = "enable" /\ UNCHANGED mode
      BY <1>1, <1>11 DEF Restore, RestoreCall, RestoreAuto, Begin
    <2>2. QED
      BY <2>1, NoAccess DEF WindowWatched, WatchedPoints, ChangingPoints, Calm, Idle
  <1>12. CASE RestoreReturns \/ RestoreFails
    <2>1. pc = "restore.call" /\ Idle
      BY <1>12 DEF RestoreReturns, RestoreFails
    <2>2. result = "ok"
      BY <2>1 DEF CallsSucceed
    <2>3. /\ UNCHANGED <<fanStop, mode, call>> /\ pc' = "wait" /\ guardLeft' = Guard - lag
      BY <1>1, <1>12, <2>2 DEF RestoreReturns, RestoreFails, GuardDeadline
    <2>4. guardLeft' \in Nat /\ fanStop' <= guardLeft'
      BY <1>2, <2>3, ControllerAssumption, FanAssumption
      DEF ControllerAssumption, FanAssumption, Undisturbed
    <2>5. QED
      BY <2>3, <2>4, NoAccess
      DEF WindowWatched, GuardCovers, WatchedPoints, ChangingPoints, Calm, Never
  <1>13. CASE TakeManual \/ KeepManual
    <2>1. /\ UNCHANGED <<fanStop, guardLeft, mode>> /\ pc = "apply"
          /\ pc' \in {"apply.set", "apply.update"}
          /\ UNCHANGED at \/ at' \in {"read", "enable"}
      BY <1>1, <1>13 DEF TakeManual, KeepManual, Call, SetManual, UpdateManual, Begin, Refuse
    <2>2. at = "idle"
      BY <2>1 DEF FullInv, BaseInv, Waiting, CallPoints, Idle
    <2>3. QED
      BY <2>1, <2>2, WatchKept, NoAccess DEF WatchedPoints, ChangingPoints, Calm
  <1>14. CASE ManualTaken
    <2>1. /\ UNCHANGED <<fanStop, mode, call>> /\ pc = "apply.set" /\ Idle /\ result = "ok"
          /\ guardLeft' = Never /\ pc' = "wait"
      BY <1>3, <1>14 DEF ManualTaken, ClearGuard
    <2>2. QED
      BY <1>1, <2>1, WindowEnds, NothingToWatch, NoAccess
  <1>15. CASE ManualKept \/ ApplyFails
    <2>1. /\ UNCHANGED <<fanStop, guardLeft, mode, call>>
          /\ pc \in {"apply.set", "apply.update"} /\ pc' \in {"wait", "finally"}
      BY <1>15 DEF ManualKept, ApplyFails
    <2>2. QED
      BY <2>1, WatchKept, NoAccess DEF WatchedPoints, ChangingPoints, Calm
  <1>16. CASE Wait
    <2>1. /\ pc = "wait" /\ pc' = "top" /\ UNCHANGED <<mode, call>>
          /\ \/ fanStop' = Left(fanStop) /\ guardLeft' = Left(guardLeft)
             \/ UNCHANGED <<fanStop, guardLeft>>
      BY <1>1, <1>16 DEF Wait, Tick
    <2>2. QED
      BY <1>1, <1>2, <2>1, WatchKept, WatchTicks, NoAccess
      DEF WatchedPoints, ChangingPoints, Calm
  <1>17. QED
    BY <1>1, <1>4, <1>5, <1>6, <1>7, <1>8, <1>9, <1>10, <1>11, <1>12, <1>13, <1>14, <1>15,
       <1>16
    DEF LoopStep, ApplyDry

\* A stop leaves no window behind but the one it hands over.
LEMMA StopWatches ==
  ASSUME Undisturbed, FullInv, CallsSucceed, WindowWatched, StopStep
  PROVE  CallsSucceed' /\ WindowWatched'
  <1> USE DEF Goto, memory, ownership, guardVars, fanVars, hw
  <1>1. Apply /\ ~MayFail /\ CallsOK /\ TimesOK
    BY DEF Undisturbed, FullInv, BaseInv, ControlOK
  <1>2. /\ fanStop \in Nat /\ guardLeft \in {Never} \cup Nat
        /\ guardLeft' \in {Never} \cup Nat
    <2>1. TimesOK'
      BY FullStep DEF FullInv, BaseInv, ControlOK, Next, ProcessStep
    <2>2. QED
      BY <1>1, <2>1, FanAssumption, ControllerAssumption
      DEF FanAssumption, ControllerAssumption, CallsOK, FanDataOK, TimesOK
  <1>3. ~ClearGuardFails
    BY <1>1 DEF ClearGuardFails
  <1>4. CASE Finally \/ Handoff
    <2>1. /\ UNCHANGED <<fanStop, guardLeft, mode>> /\ pc \in {"finally", "handoff"}
          /\ \/ pc' \in {"handoff", "handoff.clear"} /\ UNCHANGED call
             \/ pc' \in {"failsafe", "handoff.call"} /\ at' = "enable"
      BY <1>4 DEF Finally, Handoff, Call, SetMaximum, RestoreAuto, Begin
    <2>2. CallsSucceed'
      BY <2>1, NoAccess DEF Idle
    <2>3. QED
      BY <2>1, <2>2, WatchKept DEF WatchedPoints, ChangingPoints, Calm
  <1>5. CASE FinallyQuiet
    <2>1. /\ UNCHANGED <<fanStop, mode, call>> /\ pc = "finally" /\ pc' = "exit"
          /\ ~(guardLeft > 0)
      BY <1>1, <1>5 DEF FinallyQuiet, MustFailSafe, GuardRuns
    <2>2. GuardCovers
      BY <2>1 DEF WindowWatched, WatchedPoints
    <2>3. fanStop = 0
      BY <1>2, <2>1, <2>2 DEF GuardCovers, Never
    <2>4. QED
      BY <1>2, <2>1, <2>3, NothingToWatch, NoAccess
  <1>6. CASE HandoffReturns
    <2>1. /\ pc = "handoff.call" /\ Idle /\ UNCHANGED mode
          /\ \/ pc' = "handoff.clear" /\ UNCHANGED call
             \/ pc' = "failsafe" /\ at' = "enable"
      BY <1>6 DEF HandoffReturns, Call, SetMaximum, Begin
    <2>2. QED
      BY <2>1, NoAccess DEF WindowWatched, WatchedPoints, ChangingPoints, Calm, Idle
  <1>7. CASE HandoffClears
    <2>1. fanStop' = 0 /\ UNCHANGED <<mode, call>> /\ pc' = "exit"
      BY <1>3, <1>7 DEF HandoffClears
    <2>2. QED
      BY <1>2, <2>1, NothingToWatch, NoAccess
  <1>8. CASE FailsafeReturns
    <2>1. pc = "failsafe" /\ Idle /\ result = "ok"
      BY <1>8 DEF FailsafeReturns, CallsSucceed
    <2>2. UNCHANGED <<fanStop, mode, call>> /\ pc' = "failsafe.clear"
      BY <1>8, <2>1 DEF FailsafeReturns
    <2>3. QED
      BY <1>1, <1>2, <2>1, <2>2, WindowEnds, NothingToWatch, NoAccess
  <1>9. CASE FailsafeClears
    <2>1. UNCHANGED <<fanStop, mode, call>> /\ pc = "failsafe.clear" /\ pc' = "exit"
      BY <1>9 DEF FailsafeClears
    <2>2. fanStop = 0
      BY <2>1 DEF WindowWatched, WatchedPoints, ChangingPoints, Calm
    <2>3. QED
      BY <1>2, <2>1, <2>2, NothingToWatch, NoAccess
  <1>10. QED
    BY <1>4, <1>5, <1>6, <1>7, <1>8, <1>9 DEF StopStep

\* Nor does any other step of the controller's process and its environment.
LEMMA ControllerWatches ==
  ASSUME Undisturbed, FullInv, CallsSucceed, WindowWatched, [Next]_vars
  PROVE  CallsSucceed' /\ WindowWatched'
  <1>1. Apply /\ CallsOK /\ TimesOK /\ Waiting
    BY DEF Undisturbed, FullInv, BaseInv, ControlOK
  <1>2. fanStop \in Nat /\ guardLeft \in {Never} \cup Nat
    BY <1>1, FanAssumption, ControllerAssumption
    DEF FanAssumption, ControllerAssumption, CallsOK, FanDataOK, TimesOK
  <1>3. CASE \/ AdapterStep
             \/ FanEnvironment /\ UNCHANGED controllerVars
             \/ UNCHANGED vars
    <2>1. /\ UNCHANGED <<pc, guardLeft>>
          /\ FanStep \/ FanEnvironment \/ UNCHANGED fanVars
      BY <1>3 DEF AdapterStep, vars, controllerVars, memory
    <2>2. pc \in {"restore.call", "handoff.call", "failsafe"}
            => op \in {"set_maximum", "restore_auto"}
      BY <1>1 DEF Waiting
    <2>3. /\ CallsSucceed'
          /\ fanStop' \in {0, fanStop} \/ (at = "enable" /\ op = "restore_auto")
      BY <1>1, <2>1, <2>2, AccessSucceeds
    <2>4. CASE fanStop' = 0
      BY <1>2, <2>1, <2>3, <2>4, NothingToWatch
    <2>5. CASE fanStop' = fanStop
      BY <2>1, <2>3, <2>5, WatchKept
    <2>6. CASE at = "enable" /\ op = "restore_auto"
      <3>1. pc \in {"restore.call", "handoff.call"}
        BY <1>1, <2>6 DEF Waiting, CallPoints, Idle
      <3>2. QED
        BY <2>1, <2>3, <3>1 DEF WindowWatched, WatchedPoints, ChangingPoints, Calm
    <2>7. QED
      BY <2>3, <2>4, <2>5, <2>6
  <1>4. CASE SlowSensors
    <2>1. /\ pc = "read" /\ pc' = "read" /\ UNCHANGED <<mode, call>>
          /\ fanStop' = Left(fanStop) /\ guardLeft' = Left(guardLeft)
      BY <1>4 DEF SlowSensors, Tick
    <2>2. QED
      BY <1>1, <1>2, <2>1, WatchTicks, NoAccess DEF WatchedPoints, Calm
  <1>5. CASE Suspend \/ RequestStop
    <2>1. UNCHANGED <<pc, fanStop, guardLeft, mode, call>>
      BY <1>5 DEF Suspend, RequestStop, fanVars, hw, guardVars
    <2>2. QED
      BY <2>1, WatchKept, NoAccess
  <1>6. QED
    BY <1>3, <1>4, <1>5, LoopWatches, StopWatches DEF Next, ProcessStep, Environment

\* Between two processes there is no window, and the next one starts without.
LEMMA RestartsWatch ==
  ASSUME Undisturbed, ServiceInv, ServiceInv', CallsSucceed, WindowWatched,
         Exit \/ Kill \/ RecoveryStep \/ Start \/ DownTick
  PROVE  CallsSucceed' /\ WindowWatched'
  <1> USE DEF Goto
  <1>1. ~MayFail /\ ~MayKill
    BY DEF Undisturbed
  <1>2. guardLeft' \in {Never} \cup Nat
    BY ControllerAssumption DEF ControllerAssumption, ServiceInv, ControlOK, TimesOK
  <1>3. /\ pc \notin WatchedPoints \cup ChangingPoints
        /\ pc' \notin {"restore.call", "handoff.call", "failsafe"}
    BY <1>1 DEF Exit, ProcessEnds, Kill, RecoveryStep, PostFails, PostDecides, PostReturns,
       PostUnlinks, PostVerifies, PostKilled, RuntimeDirectoryRemoved, Start, DownTick,
       controllerVars, Call, WatchedPoints, ChangingPoints, Calm, PostPoints
  <1>4. fanStop = 0
    BY <1>3 DEF WindowWatched
  <1>5. /\ UNCHANGED <<mode, fanStop>>
        /\ UNCHANGED call \/ at' \in {"idle", "enable"}
    BY <1>1, <1>4 DEF Exit, ProcessEnds, Kill, RecoveryStep, PostFails, PostDecides,
       PostReturns, PostUnlinks, PostVerifies, PostKilled, RuntimeDirectoryRemoved, Start,
       DownTick, Call, SetMaximum, Begin, NewAdapter, fanVars, hw
  <1>6. QED
    BY <1>2, <1>3, <1>4, <1>5, NothingToWatch, NoAccess

\* ExecStopPost's own access writes Max.
LEMMA RecoveryWatches ==
  ASSUME Undisturbed, ServiceInv, ServiceInv', ~InController, CallsSucceed, WindowWatched,
         [Next]_vars
  PROVE  CallsSucceed' /\ WindowWatched'
  <1>1. /\ UNCHANGED pc
        /\ FanStep \/ FanEnvironment \/ UNCHANGED fanVars
    BY NextWhileDown DEF controllerVars
  <1>2. PostCalls /\ CallsOK /\ guardLeft' \in {Never} \cup Nat
    BY ControllerAssumption DEF ControllerAssumption, ServiceInv, ControlOK, TimesOK
  <1>3. pc \notin WatchedPoints \cup ChangingPoints
    BY <1>2 DEF PostCalls, PostPoints, WatchedPoints, ChangingPoints, Calm
  <1>4. fanStop = 0 /\ ~(at = "enable" /\ op = "restore_auto")
    BY <1>2, <1>3 DEF WindowWatched, PostCalls, Idle
  <1>5. CallsSucceed' /\ fanStop' = 0
    BY <1>1, <1>2, <1>3, <1>4, AccessSucceeds DEF ChangingPoints
  <1>6. QED
    BY <1>2, <1>5, NothingToWatch

\* Over all stops and restarts of an undisturbed service no fan-stop window that
\* the daemon opened is left unwatched (_stop_handoff_to_auto, _failsafe_on_stop,
\* ensure_failsafe_fan_state).
THEOREM NoWindowUnwatched ==
  ASSUME Undisturbed
  PROVE  ServiceSpec => []NoUnwatchedWindow
  <1> DEFINE Inv == CallsSucceed /\ WindowWatched
  <1>1. ServiceInit => Inv
    BY DEF ServiceInit, Init, FanInit, ControllerInit, CallsSucceed, WindowWatched,
       GuardCovers, WatchedPoints, Calm
  <1>2. ServiceInv /\ ServiceInv' /\ Inv /\ [ServiceNext]_serviceVars => Inv'
    <2> SUFFICES ASSUME ServiceInv, ServiceInv', Inv, [ServiceNext]_serviceVars PROVE Inv'
      OBVIOUS
    <2>1. CASE [Next]_vars /\ InController
      BY <2>1, ControllerWatches DEF ServiceInv
    <2>2. CASE [Next]_vars /\ ~InController
      BY <2>2, RecoveryWatches
    <2>3. CASE Exit \/ Kill \/ RecoveryStep \/ Start \/ DownTick
      BY <2>3, RestartsWatch
    <2>4. QED
      BY <2>1, <2>2, <2>3 DEF ServiceNext, serviceVars
  <1>3. Inv => NoUnwatchedWindow
    BY DEF WindowWatched, NoUnwatchedWindow, WatchedPoints, ChangingPoints, Calm
  <1>4. QED
    BY <1>1, <1>2, <1>3, ServiceInvariant, PTL DEF ServiceSpec

=============================================================================
