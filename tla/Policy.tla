------------------------------ MODULE Policy ------------------------------
(***************************************************************************)
(* The decisions of ControlPolicy: which sensors made software control     *)
(* necessary, when control is needed, when the machine is cool enough to   *)
(* give it back, and which duties it may ask for.  The operators take the  *)
(* policy's state as parameters; Controller holds it.                      *)
(***************************************************************************)
EXTENDS Integers

CONSTANTS
  Sensors,          \* control sensors: a subset of {"cpu", "gpu", "ir"}
  Optional,         \* OPTIONAL_CONTROL_SENSORS that are configured
  MaxTemp,          \* readings are 0..MaxTemp
  Activation,       \* activation_threshold of each sensor
  Release,          \* temperature at or below which a sensor allows Auto
  StopLimit,        \* stop_handoff_max_temp_c, -1 when false
  Critical,         \* critical_temp_c, above MaxTemp when false
  CriticalRelease,  \* critical_release_temp_c
  MissingLimit,     \* OPTIONAL_SENSOR_MISSING_RELEASE_SAMPLES
  MinDuty,          \* minimum_manual_percent
  Rise, Fall,       \* max_rise/max_fall_percent_per_update
  TopDuty           \* PWM_MAX

\* What Settings.validate guarantees about the thresholds.
ASSUME PolicyAssumption ==
  /\ MaxTemp \in Nat /\ "cpu" \in Sensors /\ Optional \subseteq Sensors \ {"cpu"}
  /\ Activation \in [Sensors -> Int] /\ Release \in [Sensors -> Int]
  /\ \A s \in Sensors : Release[s] < Activation[s]
  /\ StopLimit \in Int /\ Critical \in Int /\ CriticalRelease \in Int
  /\ StopLimit < CriticalRelease /\ CriticalRelease < Critical
  /\ MissingLimit \in Nat \ {0}
  /\ TopDuty \in Nat \ {0} /\ MinDuty \in 1..TopDuty
  /\ Rise \in Nat \ {0} /\ Fall \in Nat \ {0}

Gone == -1        \* no reading
NoDuty == -1      \* _commanded_pwm is None

-----------------------------------------------------------------------------
(* A snapshot: temp is the reading of each control sensor, fit is false    *)
(* when a reading was reused or a source is degraded, and asleep is        *)
(* nvidia_runtime_suspended.  The CPU is mandatory, so a snapshot without  *)
(* it stands for "no snapshot".  A second GPU may give the gpu reading     *)
(* while the NVIDIA one is suspended.                                      *)

Readings == [Sensors -> {Gone} \cup 0..MaxTemp]

NoSnapshot == [temp |-> [s \in Sensors |-> Gone], fit |-> FALSE, asleep |-> FALSE]

Snapshots ==
  { s \in [temp : Readings, fit : BOOLEAN, asleep : BOOLEAN] :
      /\ s.temp["cpu"] # Gone
      /\ s.asleep => "gpu" \in Sensors }

Present(snap) == { s \in Sensors : snap.temp[s] # Gone }

\* raw_control_hottest compared with a limit.
HotterThan(snap, limit) == \E s \in Present(snap) : snap.temp[s] > limit
ReachesCritical(snap) == \E s \in Present(snap) : snap.temp[s] >= Critical

-----------------------------------------------------------------------------
ActivationSources(snap) == { s \in Present(snap) : snap.temp[s] >= Activation[s] }

ShouldActivate(snap) == ActivationSources(snap) # {}

NoneMissed == [s \in Optional |-> 0]

\* Mutant of Missed.
MissedForgotten(activated, missed, snap) == NoneMissed

\* observe_activations: an optional sensor that activated control is
\* forgotten after MissingLimit consecutive samples without it.
Missed(activated, missed, snap) ==
  [s \in Optional |->
     IF snap.temp[s] # Gone THEN 0
     ELSE IF s \in activated /\ missed[s] < MissingLimit
          THEN missed[s] + 1 ELSE missed[s]]

Activated(activated, missed, snap) ==
  (activated \cup ActivationSources(snap))
    \ { s \in Optional \cap activated : Missed(activated, missed, snap)[s] >= MissingLimit }

\* Mutant of MissingActivated.
MissingButGpu(activated, snap) == (activated \ Present(snap)) \ {"gpu"}

\* missing_activated_sensors: a GPU in runtime suspend is powered down, not lost.
MissingActivated(activated, snap) ==
  { s \in activated \ Present(snap) : ~(s = "gpu" /\ snap.asleep) }

\* cool_enough_for_auto: IR counts only when it activated control.
CoolEnough(activated, snap) ==
  /\ MissingActivated(activated, snap) = {}
  /\ \A s \in Present(snap) :
       (s # "ir" \/ s \in activated) => snap.temp[s] <= Release[s]

\* What _stop_handoff_to_auto asks of the last sample.
CoolEnoughToStop(activated, snap) ==
  /\ snap.fit
  /\ MissingActivated(activated, snap) = {}
  /\ ~HotterThan(snap, StopLimit)

-----------------------------------------------------------------------------
(* desired_pwm: any curve target q, floored and rate limited around the    *)
(* commanded duty.                                                         *)

Least(a, b) == IF a <= b THEN a ELSE b
Greatest(a, b) == IF a >= b THEN a ELSE b

Limited(q, commanded) ==
  IF commanded = NoDuty THEN q
  ELSE Greatest(Least(q, commanded + Rise), commanded - Fall)

DesiredDuties(commanded) == { Limited(q, commanded) : q \in MinDuty..TopDuty }

\* _filtered and Ewma, reduced to whether the hottest smoothed reading is at
\* or below critical_release_temp_c.  A filter that was reset takes the raw
\* value; otherwise it lies between its old value and the raw one.
FilterStates == {"unset", "cool", "hot"}

Filtered(filter, snap) ==
  IF HotterThan(snap, CriticalRelease)
  THEN IF filter = "unset" THEN {"hot"} ELSE {"cool", "hot"}
  ELSE IF filter = "hot" THEN {"cool", "hot"} ELSE {"cool"}

=============================================================================
