# omen-fanctl in TLA+

omen-fanctl takes over the fans of an HP laptop when it gets hot and gives them
back to the firmware when it is cool.  Three parties move the same fans: the
daemon, the embedded controller (EC) with its firmware, and whoever else writes
sysfs.  The danger is always the same: a hot machine with fans that nobody
drives, either because the daemon believes something about them that is no
longer true, or because it ended between two writes.  This directory models the
part of the program that decides this, checks it with TLC and proves parts of it
with TLAPS.

## Inventory

| Component | Source (under `src/daemon/omen_fanctl`, unless a path is given) | State | Operations | What makes it hard |
|---|---|---|---|---|
| Fan adapter | `hardware.py` 697-851 | hwmon mode and duties, `_manual_recovery_pending` | `set_manual`, `update_manual`, `set_maximum`, `restore_auto`, rollback | several writes per call, each may fail; the EC or a user writes in between |
| Control loop | `controller.py` 487-1168 | ownership, emergency, guard, last sample, filters | `run`, `_apply_manual`, `_maximum`, `_restore_auto`, guard, stop handoff, fail-safe | signals, exceptions out of every call, deadlines counted from a clock read earlier, stale samples |
| Control policy | `controller.py` 270-484 | activated sensors, missing counts, commanded duty | activation, ageing, release, curve targets and rate limits | sensors that vanish after they caused control |
| Crash recovery | `cli.py` 265-287, `src/systemd/omen-fanctl.service` | guard marker, restarts | `--failsafe`, restart, watchdog kill, removal of `/run/omen-fanctl` | a fresh process judges by mode and marker alone |
| Sensors | `hardware.py` 62-116, 320-694 | failure streaks, caches, discovery times | `read`, NVIDIA/AMD/IR/CPU sources | streaks, debouncing, runtime suspend, rediscovery |
| Curves and conversions | `config.py` 97-332 | none | level, percent and pwm conversion, `Curve.target_percent` | rounding, hysteresis at thresholds |
| Configuration | `config.py` 335-707 | settings | load, validate, allowlists | relations between many thresholds |
| Profile monitor, watchdog | `hardware.py` 119-166, `controller.py` 55-116, 551-572 | open descriptor, current profile | wait, refresh, notify | waits longer than the watchdog interval |
| CSV log | `controller.py` 134-267 | file handle | write, rotate-safe reopen | errors must not stop the control |
| Lock, markers, commands | `cli.py` 45-85, 173-521 | lock file, board marker | lock, record, clear, actuator test, restore | lock file in a directory systemd removes |
| Startup waits | `hardware.py` 180-219, 664-694, 854-895 | deadlines | wait for profile, hp-wmi, k10temp | an attribute that appears late |
| Installer | `install.sh`, `uninstall.sh`, `src/install/config.sh` | unit, files | stop, replace, start | order of steps |

The loop calls the adapter, reads the sensors and asks the policy; it shares the
hwmon attributes with the EC and a user, and one file, the guard marker in
`/run/omen-fanctl`, with the recovery command that systemd runs after every end
of the process.

Each component's correctness, in short: the adapter leaves no half-written pair
and no duty above the interface's ceiling; the loop's memory agrees with the
fans, leaves Max only when cool, and never leaves the firmware's fan-stop window
unwatched; recovery ends in Auto or Max; sensors never report a reading that is
not one; curves and conversions stay within their bounds and do not oscillate.

## Modules

| Module | Models | Notes |
|---|---|---|
| `HpFan` | adapter, hp-wmi, EC, user | every access to sysfs is one step; `at` says which comes next |
| `Policy` | decisions of `ControlPolicy` | operators without state; `Controller` holds it |
| `Controller` | `Controller.run` and all it calls | extends `HpFan` and `Policy`; `pc` follows the code |
| `Service` | systemd, `--failsafe`, kills, restarts | extends `Controller` |
| `Audit` | two history variables over `Controller` | how long Max was held, who called for control |
| `Sensors` | `Sensors.read`, `SourceHealth`, GPUs that come, go, sleep and fail | `at` is the source read next |
| `Sampling` | the rhythm of the loop: watchdog, waits, profile notifications | extends `Sensors` |
| `Lifecycle` | `main`: processes, lock file, board marker, startup waits | the service, manual runs, actuator tests, recovery commands |
| `Conversions`, `Curves` | level, percent and pwm; evaluation of curves | operators without state |
| `Comparators` | what a stepped curve promises | abstract specification |
| `Demand` | `validate`, `validate_fan_interface`, `desired_pwm`, the cadence of updates | extends `Curves`; refines `Comparators` |
| `MCHpFan`, `MCController`, `MCService`, `MCAudit`, `MCSampling`, `MCLifecycle`, `MCDemand` | instances for TLC | constants as definitions |
| `HpFanProofs`, `RecoveryProofs` | theorems about the adapter | the second about the history of `MCHpFan` |
| `ControllerProofs`, `ServiceProofs`, `AuditProofs` | theorems about the loop, the service around it and the histories over it | each extends the one before, down to `HpFanProofs` |
| `SamplingProofs`, `LifecycleProofs`, `DemandProofs` | theorems about these modules | |

A definition under the comment "Mutant of D" is D with a plausible bug; no
behaviour uses it.

The fans are looked at four times, each time at the detail one kind of hazard
needs.  `HpFan` and `Controller` follow single accesses, with any duty the rate
limits allow.  `Demand` computes the duty, and takes an access for one step that
succeeds.  `Sampling` knows nothing of duties, but all of what a sample may be.
`Lifecycle` takes a controller for something that may leave any mode behind.

### How state and actions correspond to the code

Adapter, loop and service:

* `mode`, `duty` are `pwm1_enable`, `pwm1`/`pwm2`.  `modeBy` records who wrote
  the mode last, `fanStop` how long the firmware may still stop the fans after a
  return to Auto that the daemon wrote: neither is in the code, the properties
  need them.  A switch to Manual keeps the running duty, Max reads as full duty:
  that is what hp-wmi does.
* A call of the adapter is begun by an action of the controller (`SetManual`,
  `UpdateManual`, `SetMaximum`, `RestoreAuto`), performed by `ReadMode`,
  `WriteEnable`, `WritePwm` and `Rollback`, and its result is looked at by a
  later action of the controller (`ManualTaken`, `MaximumReturns`, ...).
* `pc` is the place in `run`: `top` the loop condition, `read` the sensor read,
  `decide` the chain of branches, `apply*` is `_apply_manual`, `max*` is
  `_maximum`, `restore.call` is `_restore_auto` with `_start_auto_guard`, `wait`
  is `_wait_for_profile_change`, `finally`, `handoff*` and `failsafe*` are
  `_failsafe_on_stop` with `_stop_handoff_to_auto`, `exit` is the end of `run`.
* Whether writing Auto over Auto restarts the fan-stop window is left open, as the
  comment at `controller.py` 757-760 does; and a failing write of the marker may
  have created the file.
* A finished stop handoff sets `fanStop` to 0: the window is left to the firmware
  knowingly, on a sample cool enough for it.
* An exception that leaves a call is a step to `finally`, as the `try` block
  does; one before the `try` block is a step to `exit`.
* Deadlines are counted down: `holdLeft` to `emergency_since +
  emergency_hold_s`, `guardLeft` to `auto_guard_until`, `Never` when `None`.
  `lag` is the time since the loop sampled its clock, because the code computes
  deadlines from that sample.  `guardActive` and `held` are what the code
  computed from it.
* `outside` is the comparison of the current profile with the required one, and
  may change whenever the code looks.
* A sample is a record of the control sensors' readings with `fit` (nothing
  reused, nothing degraded) and `asleep` (NVIDIA runtime suspend).
  The smoothing filters are reduced to what the emergency asks of them: whether
  the hottest smoothed reading is at or below the release temperature.
* The curve's target is any duty from the floor to full; the rate limits around
  the commanded duty and the clamps of `_apply_manual` are modelled.  The control
  interval is a choice to skip an update, as the code may when something has been
  commanded.

Sensors and rhythm:

* A reading is `fresh` (measured in this call), `reused` (`last_nvidia_metrics`,
  `last_amd_gpu_temperature`) or `none`.  `health` is `SourceHealth`, with
  `_failed_now`, `_ever_available` and the streak of failures, which is kept up to
  the threshold it is compared with.
* `nvSmi`, `smiIn`, `nvFiles`, `pciIn`, `nvCache` and `nvSuspended` are the
  attributes of `Sensors` with their discovery deadlines, counted down.  A runtime
  status file is the PCI address it lies under: one of a device that has moved
  cannot be read.
* There may be several NVIDIA GPUs: `devices` are the addresses of those that are
  there, `sleeping` of those in runtime suspend.  The code calls the GPUs suspended
  when all known status files say so.  One that is active is therefore enough for a
  query, which wakes the others, and `SleeperIsNotWoken` speaks of GPUs that all
  sleep.  An active GPU plugged in beside a sleeping one stays unseen until the
  next scan, as in the code, and only for that long.
* The hardware steps between any two steps of a read: GPUs appear, move, suspend,
  resume and go, nvidia-smi is installed and removed.  From `Repair` on,
  every source answers.
* Time passes in queries and in waits only.  `fedFor` is the silence towards
  systemd; the end of a slice of `_wait_for_profile_change` feeds the watchdog
  when there is more to wait.  `notified` is the POLLPRI state of the open file,
  consumed by reading it.  A notification after which the profile is what it was
  ends its slice early and counts as the whole slice, as in the code.

Lifecycle:

* A process is a record: its place in `main`, what it runs, the inode it opened
  at `control.lock`, the window of its current startup wait.  `lockFile` is the
  inode the path leads to, `holder` the owners of the locks, so that a file that
  was removed and created again is another file.
* A failing `flock` and a failing write of the pid into the locked file close the
  file, and are one outcome of `Flock`.
* The service's start creates the runtime directory, and the end of its
  ExecStopPost removes it with everything in it.
* Accesses in one action of `Lifecycle` are those nobody else can come between,
  because the lock is held or because they touch nothing shared.  Opening the
  lock file and locking it are two actions.
* The waits are counted in ticks of their retry interval.  A look and the sleep
  after it alternate until the deadline; `looked` is the previous look's single
  channel.  A driver that has shown `hp` may show `pwm2` until the next tick.  At
  the deadline the code accepts a confirmation gap that is slightly shorter than
  a retry; within a tick this makes no difference to what a driver has published.

Demand:

* Percentages are integers in units of 1/300 percent, in which all fan levels
  (60ths) are exact, and the conversions are the integer forms of the code's
  `int(x + 0.5)`.  Temperatures are whole degrees.
* `config` is an index into `Offered`, a sequence of configurations.  What
  `validate` and `validate_fan_interface` refuse ends the process.
* `_filtered` is any readable temperature between the last smoothed and the raw
  one: what every weight of the moving average gives, at a degree's resolution.
* `target` is `_sensor_targets`, `activated` is `_activated_sensors`, `pace` the
  time to `next_control`.  Leaving an emergency evaluates the filtered
  temperatures only and does not touch `next_control`, as in the code.
* `Demand` has no stop.  The stop handoff, which returns Auto at any temperature up
  to `stop_handoff_max_temp_c`, is in `Controller` (`Handoff`), and
  `AutoMeansNoDemand` is about the Auto the loop writes or keeps.
* `calling`, `asked`, `sinceCut`, `dip` and `hotFor` are histories for the
  properties: the sensors that call for control, the duty the curves give without
  memory, the time since the last reduction, the lowest temperature since a
  target fell, the length of a lasting heat.

## Runs

Readings in the instances of `Controller` are 0 (cool enough for Auto), 1 (cool
enough for a stop), 2 (needs control) and 3 (critical).

| Run | Shows |
|---|---|
| `fan_adapter` | two channels, every access may fail, every mode may be selected from outside between two accesses: no half-updated pair, no duty of Max in Manual, one recovery per loss |
| `controller` | one process with failures, signals, suspends and foreign modes: memory and fans agree, a skipped write was not needed, the fan-stop window is guarded, marker and deadline agree, the process ends on an open window only behind a rolled-back `set_manual`, Max is left only when cool, and the controller calls the adapter as the adapter's theorems assume (`CallsAreDisciplined`, a refinement of the adapter's own specification) |
| `dry_run` | without `--apply` nothing is ever written |
| `service` | kills and failures anywhere, recovery and restarts: Auto or Max afterwards, Max if the process ended holding the fans; a stop ends the process and heat is answered |
| `service_quiet` | without kills and failures no fan-stop window is unwatched, over restarts, and a machine that stays cool returns to Auto even if an optional sensor vanished |
| `audit` | Max is held for its time but for one sensor read, and a sensor that called for control must read before the fans are given back |
| `sensors` | both GPU sources, with up to two NVIDIA GPUs, under hotplug, suspend, upgrades and failing queries: a sample that looks complete was measured, a loss is bridged for fewer samples than the threshold, no reading survives a suspend, telemetry leaves GPUs alone that all sleep, repaired sources are complete again after a discovery interval; the watchdog is fed and a new profile is seen at once |
| `lifecycle` | documented use of the service and two manual processes, with kills and failing accesses: one controller at a time, the marker beside every process that may write Manual, recovery never locked out by its own cleanup, startups within their windows, no dual-channel machine taken for a single-channel one |
| `demand` | accepted and refused configurations on both interfaces: duties stay in the firmware's fan table, Auto is not entered on a sample that calls for control, no hunting within the hysteresis, heat is followed at once and falls are paced, full speed is reached without a critical temperature, and stepped curves implement `Comparators` |

Runs that end in a violation, each a disagreement between a document or comment
of the repository and what the code does:

| Run | What happens |
|---|---|
| `external_max` | `update_manual` preserves an external maximum, the machine cools, and the cool handoff of the loop writes Auto over it, which the stop path refuses to do |
| `service_kill` | killed between the write of Auto and the write of the marker: recovery takes the Auto for stable |
| `two_owners` | a manual run holds the lock; the service is started, is refused and ends; systemd removes `/run/omen-fanctl` with the lock file in it; the restarted service creates and locks a new one |

Other instances show more of the same kind:

* `MaximumHeldLongEnough`, which the repository's README promises in lines 277-278
  (Max "has been held for at least 10 seconds"), in `audit.cfg`: `emergency_since`
  is the clock from before the sensor read that asks for Max (`controller.py` 1087),
  so Max is left early by the time of that read.  A trace needs no failure.
  `audit` checks what is kept of the promise, `MaximumHeldButForARead`.
* `WindowNotAbandoned` in `controller.cfg`, even with `Meddling = {}`: the first
  `set_manual` writes Manual, fails at the pwm and is rolled back to Auto, which
  opens a fan-stop window; the controller owns nothing yet, so it ends without guard
  or fail-safe (`controller.py` 790).  The repository's README, lines 399-400, has
  the guard monitor the complete window after Auto.  `controller` checks what is
  kept, `OnlyRollbackAbandonsWindow`.
* `FanStopWindowGuarded` with `Guard` equal to `FanStop`, the shortest guard
  `validate` accepts: the guard's deadline counts from before the sensor read and
  ends before the window does.  The default of 180 s leaves room for both, which
  is the instance of `controller` (`Guard` 3, `FanStop` 1, `SlowRead` 1).
* Between the mode read and the writes of `update_manual`'s recovery a maximum
  asserted from outside is replaced; sysfs offers no way to exclude this.
* `lifecycle.cfg` with `Exclusive = FALSE` fails `OneController` as `two_owners`
  does, and `MarkerCoversControl` with it.
* When ExecStopPost fails, the marker of the guard goes with the runtime
  directory, and the next start finds firmware Auto and no trace of its window.

### Bounds

* `FullDuty` 3 with `ManualMax` 2 gives two manual duties, so that raises, falls
  and skipped writes differ, and one duty only Max has.  The
  service runs, whose properties are about modes, make do with one.
* `Channels` 2 in `fan_adapter`, where pairs matter, 1 elsewhere: the controller
  looks at `pwm1` only.
* `Hold` 1 or 2, `Guard` 3, `FanStop` 1, `SlowRead` 1: a deadline can be ahead,
  due and past, and a read can end on either side of it.  `audit` has
  `Hold` 2, so that a hold shortened by a read is still not over at once.  `Guard` 2 and
  `SlowRead` 0 in the service runs.
* `MissingLimit` 3 as in the code, or 2 in `service_quiet`; `AgeLimit` 1.
* Sensors: CPU alone where the decision does not depend on which sensor is hot,
  CPU and GPU for lost sensors and runtime suspend (`audit`), CPU and optional IR
  for ageing (`service_quiet`).
* `Meddling`: all modes in `fan_adapter`; `controller` leaves out a mode hp-wmi
  does not know, `service` leaves out Auto, because someone who keeps selecting
  Auto undoes every answer to heat.
* `LossesBound` 2 in `MCHpFan`: two losses in a row are the case.
* `sensors`: thresholds 2 (bridged once, then an error), two PCI addresses so that
  a GPU can move or sleep beside an active one (they are symmetric, and only safety
  is checked), `Discovery` 2, so that it can be ahead, near and due,
  `QueryTime` 1, `WatchdogSec` 3, the shortest that `SamplingAssumption` allows
  (the unit has 15 s, and a query ends after 2 s, which leaves more room),
  `SampleInterval` 2, longer than a slice, `InactiveWait` 1.
* `lifecycle`: two manual processes beside the service, two inodes (one at the
  path and one removed), `Timeout` 1: at every wait a look at the start, a sleep
  and a look at the deadline.  Processes and inodes are symmetric and only safety
  is checked.  The theorems hold for all numbers and windows.
* `demand`: `Offered` has one configuration for each kind of curve and input
  (stepped with falling thresholds, stepped with hysteresis, a line above the
  single-channel ceiling with a diagnostic curve over it, IR with a curve of its
  own and a critical temperature) and variants that must be refused; temperatures
  around each threshold; `FirmwareDuties` below and at full speed.

`CHECK_DEADLOCK FALSE` is set where `Controller` runs alone, whose process ends,
and in `demand`, where a refused configuration ends it.

### Fairness

`LiveSpec` of `Service` assumes that a process that can take a step does (weak
fairness of `ProcessStep`, `Exit` and the recovery, which systemd runs and bounds
by a timeout), and strong fairness of a wait that lets time pass: waits end early
on a profile change, and the profile does not change infinitely often within a
sample interval.  Nothing is assumed of the EC, of a user, of failures, of
signals, of sensor readings or of restarts.  `CoolMachineReturnsToAuto` names its
condition in the formula: from some time on samples arrive and are cool.  The
other modules state what must happen in time as safety over counted ticks
(`WatchdogFed`, `ProfileSeenPromptly`, `RepairedSourcesReturn`,
`HotMachineReachesFullSpeed`, `StartupWithinWindows`), which needs no fairness.

### Refinements

* `CallsAreDisciplined`: `Controller` implements the adapter with a disciplined
  owner, `FanSpec`, about which `HpFanProofs` proves its theorems.
* `StepsAreComparators`: `Demand` implements `Comparators` under the mapping
  `Bank`.  The comparators of an input that are on are the steps up to its target;
  an input without a reading has none on.

## Proofs

### `HpFanProofs`

For every number of channels, duty range, GPU table, set of foreign modes and
failure setting: `FanTypeCorrect` (`FanTypeOK`), `PairsStayWhole`
(`NoHalfUpdatedPair`) and `CeilingHolds` (`ManualCeiling`).

All three follow from the invariant `FanInv`.  The two properties speak of the
moment when a call is over, so they are not inductive: `CallShape` adds which call
can be at which access and with which argument, and `ManualShape` adds what a
running call can rely on, above all that once the first channel has been written
in the daemon's Manual mode its duty is the target (`at = "pwm"`, `chan # 1`), and
that `set_manual` never starts from a Manual mode of the daemon.  Boolean
variables are kept in `FanFlagsOK`, apart from the arithmetic.

`SuccessKeepsItsMode` (`ModeShape`) is the other half: what the mode is when a
call has succeeded, and that a fan-stop window is open only in an Auto the daemon
wrote.  The theorems are about the adapter with any owner that keeps to the
calling discipline of `OwnerCalls`; `ControllerIsDisciplined` below shows that the
controller is such an owner.

### `RecoveryProofs`

`RecoveredOnce` (`RecoversAtMostOnce`): a second loss of Manual mode without a
confirmed Manual in between is refused.  `LossInv` ties the count of losses to
`_manual_recovery_pending` and to the places in a call between the write of the
mode and the flag.

### `ControllerProofs`

For every configuration, with every access failing and every foreign mode:

* `MarkerAgrees` (`MarkerFollowsGuard`).  The invariant `GuardInv` holds
  at all points before the finally block and not only at the settled ones, and
  needs the ranges of the deadline and of `lag`, since a guard deadline that fell
  before the sampled clock would read as none (`SlowRead <= Guard`).
* `DryRunIsDry` (`DryRunTouchesNothing`), strengthened by the places that
  wait for the adapter, which a dry run never reaches.
* `TypeCorrect` (`TypeOK`), from `BaseInv`: beside the ranges it says where the
  process waits for a call and which call that is (`Waiting`), because a result
  is looked at in a later step than the one that made the call.
* `FullInvariant` is the invariant of the controller with its adapter.  Memory and
  fans agree only at settled places; `ModeInv` says for each other place what the
  mode is while a branch is under way (in `apply` the ownership has been given up
  and Max is still there; in `restore.call` the mode is Manual until the write),
  `CallsInv` which results can be behind it, `DutyInv` which duty a call leaves
  unwritten.  All of it is claimed from the moment a process has looked at the
  mode (`Engaged`) and not before, so that it survives restarts on fans in any
  state.
* `StepIsDisciplined`: under `FullInv` each step of the controller is one of
  `FanNext`.  It gives the refinement `ControllerIsDisciplined`
  (`CallsAreDisciplined`), and it carries the lemmas of `HpFanProofs` into the
  controller: the shape of the adapter's state is preserved by citing them, not by
  another look at each access.
* `OwnershipAgrees` (`OwnershipMatchesFans`), `DutyIsCommanded`
  (`ManualCarriesCommandedDuty`, of a Manual mode the daemon wrote; one that somebody
  else selects has whatever duty they leave) and `MaximumIsLeftCool`
  (`MaximumLeftOnlyWhenCool`) follow from it.  For the last one the only access
  that leaves Max is the first write of `set_manual` (`LeavesMaximumByManual`),
  and `Released` is carried from the decision to that write.
* `WindowGuardedButForSlip`: the guard outlasts the fan-stop window but for
  `Slip`, the time by which window and sensor read together exceed the guard.
  `WindowGuarded` (`FanStopWindowGuarded`) is the case without slip.  Its hypothesis
  `FanStop + SlowRead <= Guard` holds for the default `auto_guard_s` of 180 s, and
  not for the minimum of 120 s that `validate` accepts.
* `WindowLeftByRollbackOnly` (`OnlyRollbackAbandonsWindow`), under the same
  hypothesis.  `EndInv` follows the ways to the end of the process: into the finally
  block the loop goes either with fans it owns (`Owning`), or with a guard that has
  not expired on any open window (`Watched`, from `CalmIsWatched`), or after a failed
  `set_manual` (`ManualFailed`).  The first two lead to the handoff or to the
  fail-safe, and a failed handoff to the fail-safe as well; what remains is a failed
  write of Max and the third way, which leads to `WindowNotAbandoned`'s counterexample.

### `ServiceProofs`

`ServiceInv` is `FullInv` while a process runs, and between processes says which
place of `ensure_failsafe_fan_state` waits for the adapter (`PostCalls`) and what
the recovery has established of the fans (`PostFans`).  With it, in every
configuration and over any sequence of kills, failed recoveries and restarts:
`ServiceTypeCorrect` (`ServiceTypeOK`), `RecoveryIsSafe`
(`RecoveryRestoresSafety`), and `OwnershipSurvivesRestarts`, that memory and fans
agree in every process the service starts.

`NoWindowUnwatched` (`NoUnwatchedWindow`) has the hypotheses of the run that checks
it (`Undisturbed`): no failing access, no kill, no foreign mode, and a guard that
exceeds the window by the time of a read.  The section on runs names a counterexample
for three of them: the rollback of a failed access, the kill of `service_kill`, and a
guard as short as the window.  `CallsSucceed` shows that nothing falls back to Auto
(`at # "rollback"`), and `WindowWatched` that a window exists only beside a guard
that outlasts it, or between the write of Auto and the step that starts the guard,
hands the window over or writes Max.

### `AuditProofs`

* `AutoNeedsEverySensor` (`LostSensorBlocksAuto`).  `HeatInv`: what called for
  control in this cycle is among the sensors the policy remembers, optional ones
  aside, and from the decision to the write of Auto none of those is missing.  A
  sample that calls is recorded in the same step that observes it, so a later,
  cooler sample cannot lose it.
* `HeldButForOneRead` (`MaximumHeldButForARead`), while nobody else selects modes,
  for every hold and every time a read may take.  `HoldInv`: what is left of the hold and what has passed of it
  make up the whole, but for the time of one read, since `emergency_since` is the
  clock sampled before the read that asked for Max; and once `held` is believed it
  stays true until the sample that releases Max is acted upon.  It needs that Max
  is never written in an emergency (`pc = "max.call"`), which would set the count
  back, and that is where ownership comes in.  That the whole hold is kept is not a
  theorem: a slow read refutes it.

### `SamplingProofs`

For every set of sources, threshold, interval and query time:

* `WatchdogIsFed` (`WatchdogFed`): `Fed` says that a read has used up at most one
  query time, because it has one query and begins fed, and that a wait adds at
  most a slice.  One query and half an interval are less than the interval because
  the interval is longer than two queries (`SamplingAssumption`).
* `ProfileIsSeen` (`ProfileSeenPromptly`): `Noticed` says that a profile not seen
  has its notification waiting, and that time passes for it in the query alone.
* `LossIsBridged` (`LossIsBridgedBriefly`): `HealthInv` relates three things, the
  streak of `SourceHealth`, whether the source has had its turn in the running
  read (`Done`), and the samples that lacked it.  Before its turn the streak
  accounts for every such sample; after it, for one more, and is still below the
  threshold.  A device that is gone is judged with threshold 1: it can only be
  bridged if it never delivered.
* `SessionsAreApart` (`NoReadingAcrossSuspend`): a reported suspend leaves no
  metrics to reuse.
* `SamplingTypeCorrect` (`SamplingTypeOK`).
* `SleeperStaysAsleep` (`SleeperIsNotWoken`): while all GPUs sleep and no status file
  is known, their time asleep and the time to the next search make up at most a
  discovery interval (`Found`), so after one some file is known and read before the
  query; a query that is under way was decided before (`Dozing`).
* `SourcesReturn` (`RepairedSourcesReturn`): `Back` says, for the time since the
  hardware was repaired, which deadlines can still be ahead and which parts of the
  running read have been answered since (`Answered`); failures have no other
  place to stick.
* `FitIsMeasured` (`FitMeansMeasured`): on top of `HealthInv`, a streak marks its
  source as failed, so that a sample without it names it as degraded.

### `LifecycleProofs`

For every number of processes, inodes and every window, with failures and kills:
`LifecycleTypeCorrect` (`LifecycleTypeOK`), and in documented use (`Exclusive`):

* `OneAtATime` (`OneController`).  The lock file is opened before it is locked, and
  is removed and created again, so a lock alone proves nothing.  `LockInv`: whoever
  has opened the file has opened the one that is there (`OneFile`), and whoever got
  past the lock is its holder (`Held`).  A removal would break `OneFile`; only the
  end of the unit removes, and then nobody else is at work (`Apart`, which is where
  `Exclusive` is used).  `two_owners` shows what happens without it.
* `ControlIsMarked` (`MarkerCoversControl`), `InterfaceKnown` (`InterfaceIsReal`),
  `StartupBounded` (`StartupWithinWindows`): `StartInv` keeps for each process the
  windows it can have used up at its place (`Timely`), what a look can have missed
  (`Informed`), and the marker (`Covered`), which only the one process behind the
  lock removes.

* `RecoveryStaysPossible` (`RecoveryNeverLockedOut`): `KeptMarker`, that the marker
  lies beside every Manual mode of a manual run and is removed in a safe mode only.
  It rests on the lock: between the mode that was read and the removal nobody else
  writes the fans.

### `DemandProofs`

* `AutoIsQuiet` (`AutoMeansNoDemand`): for every list of configurations.  Release
  temperatures lie below activation temperatures for every sensor of an accepted
  configuration, the IR's own included, whose threshold comes out of its curve
  (`ActivationIsWhole`, by well-foundedness of the naturals: the first step above
  the floor exists).
* `LevelRoundTrip`, `CeilingIsTight`, `ConversionsAreMonotone`: the arithmetic of
  the conversions.

The others are for every list of configurations too, and for the accepted ones
whatever the shapes, floors, limits and intervals in them.  They rest on lemmas
about a curve that was accepted: it is a percentage, rises with the temperature
and reaches its top (`EvaluateRange`, `EvaluateRises`, `EvaluateTop`; lines by
their segments, where the quotients round); a target is a level of its curve, and
hysteresis holds it (`HeldBySteps`, `HeldRise`).  `CycleInv` is inductive and holds
in every state:

* `SamplesKept`, `ChoiceKept`: what is remembered is of the configuration's inputs,
  and a configuration that drives the fans was accepted.
* `TargetsKept`: a target is a level of its curve; once it has fallen, the lowest
  temperature since lies so low that a higher target is a rise by more than the
  hysteresis (`Dipped`).
* `DutiesKept`: a duty is commanded in Manual, where it is within the interface's
  ceiling, and for the maximum, never in Auto.
* `PaceKept`: the time since the last reduction and the time to the next control
  make up at least the interval.
* `HeatKept`: in heat that has lasted for `n` samples, `n` up to the rises that full
  speed takes, the duty has risen by `n` steps or is at full speed.

From it follow, with a step or two of their own:

* `DutiesStay` (`DutiesStayInTable`, with the types).  The interface check bounds
  the tops of all curves and the floor, so the ceiling is met by rounding only
  (`TableStaysBelow`, `CeilingTakesRounding`).
* `LastingHeatIsAnswered` (`HotMachineReachesFullSpeed`).
* `DutyIsPaced` (`RisesAtOnceFallsInPace`): targets with a memory are no lower than
  without (`MemoryOnlyAdds`), so what the raw readings ask for is asked for.
* `FansDoNotHunt` (`NoHunting`), from `DipIsWide`.
* `CurvesAreComparators` (`StepsAreComparators`): the initial states map to initial
  states, and every step to one of `Comparators` (`StepSwitches`); `SwitchedBySteps`
  is the equality of the search among levels and the comparators.

A configuration that is still loading or was refused may have any integer as its
interval, which is why `DemandTypeOK` bounds the timers of a loaded one only.
`DemandAssumption` says that thresholds and intervals are integers and readings
whole degrees: the models' resolution, not a promise of the code.

Assumptions used: `FanAssumption`, `ControllerAssumption`, `SensorsAssumption`,
`SamplingAssumption`, `LifecycleAssumption`, `DemandAssumption`.  TLC evaluates
each of them in the runs.

Only model-checked: the properties that are violated
(`RestoreRespectsExternalMaximum`, and `NoUnwatchedWindow` and `OneController` in the
runs that show their limits), and the liveness properties (`StopCompletes`, `HeatIsAnswered`,
`CoolMachineReturnsToAuto`).  Liveness and `ENABLED` are out of the prover's reach.
The invariants were checked by TLC on the instances of the runs before they were
proved.  `ServiceTypeOK` is in no run: its theorem covers every instance.

## Not modelled

* TOML parsing, types, finiteness and board lists of the configuration, argument
  parsing, printed reports: they decide whether the program starts, not what it
  does with the fans.  `validate` accepts limits and floors whose pwm step is 0;
  `Policy` assumes steps of at least 1, `Demand` does not.
* The CSV log: its errors are caught and end the log, not the control.
* The installer and the uninstaller: shell scripts whose steps follow one another
  and share nothing with the daemon but systemd's.
* Research utilities: offline.
* Discovery of hwmon directories.  The adapter keeps the paths it found at the
  start, and indices may be reused when drivers are reloaded; a model of this would
  be one of sysfs.
* The parsing of sensor values, the acpi and IR sources' paths, the search for the
  CPU's k10temp: a read succeeds or fails.
* Loss of the profile file under an open descriptor and its reopening: the error
  leaves `run` like every other.
* `Service` and `Lifecycle` are not composed: the first has one process and every
  access, the second many processes and no accesses.  Their product is out of TLC's
  reach, and the lock's theorem says that documented use has one process.
* The start limits of systemd: a restart is possible, never assumed.

## Plan

1. Adapter, policy, loop, service, audits; the adapter's invariant, the marker and
   the dry run proved. (done)
2. Sensors and the loop's rhythm. (done)
3. Lock, markers, commands and startup. (done)
4. Configuration, curves and demand, with the comparators as abstract
   specification. (done)
5. Theorems about sampling, lifecycle and demand. (done)
6. Types, ownership, refinement, release of Max and the fan-stop window of
   `Controller`; recovery in `Service`; the histories of `Audit` and `MCHpFan`; the
   remaining theorems of `Sampling` and `Lifecycle`. (done)
7. `Demand`: the table, full speed, pacing and hunting, and its refinement of
   `Comparators`. (done)
8. The hold of Max under slow reads, the window at the end of the process, several
   NVIDIA GPUs, failures while locking. (done)
9. Left: the hazards without a property, of which two need more of the source in the
   model (limits whose step is 0 in `Policy`; the recovery that fails while systemd
   removes the runtime directory).
