------------------------------ MODULE Service ------------------------------
(***************************************************************************)
(* The controller under systemd: the process may be killed between any two *)
(* steps, ExecStopPost runs "omen-fanctl --failsafe" after every end of    *)
(* it, systemd removes the runtime directory with the guard marker, and    *)
(* the service is started again with fresh memory.                         *)
(***************************************************************************)
EXTENDS Controller

CONSTANTS
  MayKill    \* whether the process may end without running its finally block

ASSUME ServiceAssumption == MayKill \in BOOLEAN

VARIABLES
  recovery,  \* how the last ExecStopPost ended: "none", "ok" or "failed"
  owed       \* history: the process ended holding Manual, Max or a guarded Auto

serviceVars == <<vars, recovery, owed>>

PostPoints == {"post", "post.call", "post.unlink", "post.verify", "post.end"}

ServiceTypeOK ==
  /\ FanTypeOK /\ ControllerTypeOK
  /\ pc \in Running \cup PostPoints \cup {"exit", "down"}
  /\ recovery \in {"none", "ok", "failed"} /\ owed \in BOOLEAN

ServiceInit == Init /\ recovery = "none" /\ owed = FALSE

-----------------------------------------------------------------------------
(* The end of the process.                                                 *)

\* The running adapter call is lost with the process that made it.
NewAdapter ==
  /\ recoveryPending' = FALSE
  /\ at' = "idle" /\ op' = "none" /\ target' = 0 /\ rewrite' = FALSE
  /\ chan' = 1 /\ result' = "none"

ProcessEnds ==
  /\ owed' = (mode \in {"manual", "max"} \/ guardFile)
  /\ Goto("post") /\ FreshMemory /\ NewAdapter
  /\ UNCHANGED <<hw, guardFile, recovery>>

Exit == pc = "exit" /\ ProcessEnds

\* SIGKILL, by a user, the OOM killer or the systemd watchdog.
Kill == MayKill /\ pc \in Running /\ ProcessEnds

-----------------------------------------------------------------------------
(* ExecStopPost: ensure_failsafe_fan_state in a process of its own.        *)

PostFails ==
  /\ MayFail /\ pc \in {"post", "post.unlink", "post.verify"}
  /\ recovery' = "failed" /\ Goto("post.end")
  /\ UNCHANGED <<fanVars, memory, guardFile, owed>>

\* Mutant of NeedsMaximum.
NeedsMaximumOwned == mode # "auto"

NeedsMaximum == mode # "auto" \/ guardFile

\* Stable Auto is preserved; every other mode, and a guarded Auto, becomes Max.
PostDecides ==
  /\ pc = "post"
  /\ IF NeedsMaximum
     THEN Call(SetMaximum, "post.call")
     ELSE Goto("post.verify") /\ UNCHANGED fanVars
  /\ UNCHANGED <<memory, guardFile, recovery, owed>>

PostReturns ==
  /\ pc = "post.call" /\ Idle
  /\ IF result = "ok"
     THEN Goto("post.unlink") /\ UNCHANGED recovery
     ELSE Goto("post.end") /\ recovery' = "failed"
  /\ UNCHANGED <<fanVars, memory, guardFile, owed>>

PostUnlinks ==
  /\ pc = "post.unlink"
  /\ guardFile' = FALSE /\ Goto("post.verify")
  /\ UNCHANGED <<fanVars, memory, recovery, owed>>

PostVerifies ==
  /\ pc = "post.verify"
  /\ recovery' = IF mode \in {"auto", "max"} THEN "ok" ELSE "failed"
  /\ Goto("post.end")
  /\ UNCHANGED <<fanVars, memory, guardFile, owed>>

\* systemd ends a recovery that hangs (TimeoutStopSec).
PostKilled ==
  /\ MayKill /\ pc \in PostPoints \ {"post.end"}
  /\ recovery' = "failed" /\ Goto("post.end") /\ NewAdapter
  /\ UNCHANGED <<hw, memory, guardFile, owed>>

\* RuntimeDirectory=omen-fanctl is removed when the service has stopped.
RuntimeDirectoryRemoved ==
  /\ pc = "post.end"
  /\ guardFile' = FALSE /\ Goto("down") /\ NewAdapter
  /\ UNCHANGED <<hw, memory, recovery, owed>>

\* Restart=always after RestartSec, or a later start of a stopped service.
Start ==
  /\ pc = "down"
  /\ Goto("start") /\ recovery' = "none" /\ owed' = FALSE
  /\ UNCHANGED <<fanVars, memory, guardFile>>

\* Time while no controller runs.
DownTick ==
  /\ pc = "down" /\ fanStop > 0
  /\ fanStop' = Left(fanStop)
  /\ UNCHANGED <<mode, duty, modeBy, recoveryPending, call, controllerVars,
                 recovery, owed>>

-----------------------------------------------------------------------------
RecoveryStep ==
  \/ PostFails \/ PostDecides \/ PostReturns \/ PostUnlinks \/ PostVerifies
  \/ PostKilled \/ RuntimeDirectoryRemoved

ServiceNext ==
  \/ Next /\ UNCHANGED <<recovery, owed>>
  \/ Exit \/ Kill \/ RecoveryStep \/ Start \/ DownTick

ServiceSpec == ServiceInit /\ [][ServiceNext]_serviceVars

\* The process runs and systemd cleans up after it; a wait does not end early
\* for ever, because the profile changes finitely often per sample interval.
\* A restart is not assumed: systemd gives up after StartLimitBurst.
Fairness ==
  /\ WF_serviceVars(ProcessStep /\ UNCHANGED <<recovery, owed>>)
  /\ SF_serviceVars(Wait /\ Tick /\ UNCHANGED <<recovery, owed>>)
  /\ WF_serviceVars(Exit) /\ WF_serviceVars(RecoveryStep)

LiveSpec == ServiceSpec /\ Fairness

-----------------------------------------------------------------------------
\* After a recovery that reports success the fans are in Auto or Max, and in
\* Max if the process ended holding Manual, Max or a guarded Auto, unless the
\* EC or a user changed the mode meanwhile (README, crash recovery).
RecoveryRestoresSafety ==
  pc = "down" /\ recovery = "ok" /\ modeBy = "daemon"
    => mode \in {"auto", "max"} /\ (owed => mode = "max")

\* Once the service is down with a recovery that reports success, no fan-stop
\* window that the daemon opened is left unwatched; only a completed stop
\* handoff gives one to the firmware knowingly.
NoUnwatchedWindow ==
  pc = "down" /\ recovery = "ok" /\ mode = "auto" /\ modeBy = "daemon"
    => fanStop = 0

\* A stop request is answered: whatever the loop is doing and whatever fails,
\* the process ends and systemd has cleaned up after it.
StopCompletes == stopRequested ~> pc = "down"

\* A sample that calls for software control is followed by Manual or Max, or
\* by the end of the process.
HeatIsAnswered ==
  (pc = "decide" /\ ShouldActivate(snapshot)) ~> (mode # "auto" \/ pc = "down")

\* Every sensor reads cool, is a powered-down GPU, or is an optional source
\* that disappeared.
CoolSample ==
  /\ filter = "cool"
  /\ \A s \in Sensors : \/ s \in Present(snapshot) /\ snapshot.temp[s] <= Release[s]
                        \/ s \notin Present(snapshot) /\ s \in Optional
                        \/ s \notin Present(snapshot) /\ s = "gpu" /\ snapshot.asleep

\* A machine that stays cool gets its firmware Auto back, out of Manual as well
\* as out of an emergency, even when an optional source that activated control
\* has disappeared for good (observe_activations, the emergency hold).
CoolMachineReturnsToAuto ==
  <>[](snapshot # NoSnapshot /\ (pc = "decide" => CoolSample)) => []<>~Owning

=============================================================================
