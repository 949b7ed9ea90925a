------------------------------- MODULE Demand -------------------------------
(***************************************************************************)
(* From a configuration to a duty: what Settings.validate and              *)
(* validate_fan_interface accept, and what ControlPolicy.desired_pwm and   *)
(* the control cadence of Controller.run make of the temperatures of an    *)
(* accepted one.  The branches of run are followed as far as they decide   *)
(* over targets and duties; holds, guards, failing accesses and foreign    *)
(* modes are Controller's matter.                                          *)
(*                                                                         *)
(* Temperatures are whole degrees.  A smoothed temperature is any that the *)
(* sensor may read, from the last smoothed one to the raw one.             *)
(***************************************************************************)
EXTENDS Curves

CONSTANTS
  Offered,         \* sequence of configurations that may be found at a start
  FirmwareDuties   \* duties the firmware may run when Manual is taken

ControlSensors == {"cpu", "gpu", "ir"}
Gone == -1         \* no reading
Disabled == -1     \* a temperature that is false
NoDuty == -1       \* _commanded_pwm is None
Never == 126       \* above every temperature

ASSUME DemandAssumption ==
  /\ FirmwareDuties \subseteq 0..PwmMax /\ FirmwareDuties # {}
  /\ \A i \in DOMAIN Offered :
       /\ "cpu" \in DOMAIN Offered[i].reads
       /\ DOMAIN Offered[i].reads \subseteq ControlSensors \cup {"acpi"}
       /\ \A s \in DOMAIN Offered[i].reads : Offered[i].reads[s] \subseteq 0..125
       /\ Offered[i].interval \in Int /\ Offered[i].irHysteresis \in Int
       /\ Offered[i].shared.rise \in Seq(Int) /\ Offered[i].shared.fall \in Seq(Int)
       /\ \A s \in DOMAIN Offered[i].named :
            Offered[i].named[s].rise \in Seq(Int) /\ Offered[i].named[s].fall \in Seq(Int)

VARIABLES
  config,     \* the configuration found
  dual,       \* supports_independent_pwm
  mode,       \* "loading", "refused", "auto", "manual" or "emergency"
  filtered,   \* values of the smoothing filters
  heat,       \* temperatures the targets were evaluated at, in Manual
  target,     \* _sensor_targets
  activated,  \* _activated_sensors
  commanded,  \* _commanded_pwm
  pace,       \* ticks until next_control
  calling,    \* history: sensors that called for control in the last sample
  asked,      \* history: the duty the curves give for it without memory, or NoDuty
  sinceCut,   \* history: ticks since the duty was reduced, up to the interval
  dip,        \* history: lowest heat since the target of a sensor fell
  hotFor      \* history: samples of lasting heat in Manual, up to RisesToFull

vars == <<config, dual, mode, filtered, heat, target, activated, commanded, pace,
          calling, asked, sinceCut, dip, hotFor>>
chosen == <<config, dual>>

\* The configuration; reads gives the inputs and the temperatures they may have.
\* (TLC evaluates a definition without parameters once, a constant at every use.)
Configurations == Offered
settings == Configurations[config]
Inputs == DOMAIN settings.reads

\* Samples; the CPU is mandatory.
Readings ==
  { r \in [Inputs -> {Gone} \cup UNION { settings.reads[s] : s \in Inputs }] :
      \A s \in Inputs : r[s] \in settings.reads[s] \/ (s # "cpu" /\ r[s] = Gone) }

\* A temperature or none for each sensor.
Values == [Inputs -> Gone..125]
Nothing == [s \in Inputs |-> Gone]
NoTargets == [s \in Inputs |-> NoTarget]

Lesser(a, b) == IF a <= b THEN a ELSE b
Greater(a, b) == IF a >= b THEN a ELSE b

-----------------------------------------------------------------------------
(* The configuration.                                                      *)

\* curve_for: acpi falls back on the IR curve, everything on the shared one,
\* which is the CPU's if curves are named.
CurveFor(st, s) ==
  IF s \in DOMAIN st.named THEN st.named[s]
  ELSE IF s = "acpi" /\ "ir" \in DOMAIN st.named THEN st.named["ir"]
  ELSE st.shared

\* active_control_sensors
Active(st) == DOMAIN st.reads \cap ControlSensors

Sensible(t) == t \in 1..125

\* Mutant of ReachesFullSpeed.
CpuReachesFullSpeed(st) == Top(CurveFor(st, "cpu")) >= FullPercent

ReachesFullSpeed(st) == \A s \in Active(st) : Top(CurveFor(st, s)) >= FullPercent

\* Settings.validate, of what is modelled here.
Validate(st) ==
  /\ ValidCurve(st.shared) /\ \A s \in DOMAIN st.named : ValidCurve(st.named[s])
  /\ st.interval >= 1
  /\ Sensible(st.act) /\ Sensible(st.rel) /\ Sensible(st.fanStop) /\ Sensible(st.crel)
  /\ st.rel < st.act /\ st.fanStop < st.act
  /\ IF st.crit = Disabled
     THEN ReachesFullSpeed(st)
     ELSE Sensible(st.crit) /\ st.crel < st.crit /\ st.act < st.crit
  /\ st.hysteresis \in 0..20
  /\ 0 < st.irHysteresis /\ st.irHysteresis < st.act
  /\ st.floor \in 1..FullPercent /\ st.rise \in 1..FullPercent /\ st.fall \in 1..FullPercent

\* Mutant of InterfaceAllows.
InterfaceAllowsCpu(st, two) ==
  two \/ PercentToLevel(Top(CurveFor(st, "cpu"))) <= SinglePwmMaxLevel

\* validate_fan_interface
InterfaceAllows(st, two) ==
  \/ two
  \/ /\ PercentToLevel(st.floor) <= SinglePwmMaxLevel
     /\ \A s \in Active(st) :
          PercentToLevel(Top(CurveFor(st, s))) <= SinglePwmMaxLevel

-----------------------------------------------------------------------------
(* ControlPolicy.                                                          *)

FloorDuty == PercentToPwm(settings.floor)
RiseStep == PercentToPwm(settings.rise)
FallStep == PercentToPwm(settings.fall)

StepsAbove(c) == { k \in 1..Len(c.rise) : PercentToPwm(c.pct[k]) > FloorDuty }

\* activation_threshold: the IR's is its first step above the floor.
Activation(s) ==
  IF s # "ir" THEN settings.act
  ELSE IF StepsAbove(CurveFor(settings, s)) = {} THEN Never
  ELSE CurveFor(settings, s).rise[CHOOSE k \in StepsAbove(CurveFor(settings, s)) :
                                    \A j \in StepsAbove(CurveFor(settings, s)) : k <= j]

Present(r) == { s \in Active(settings) : r[s] # Gone }
ActivationSources(r) == { s \in Present(r) : r[s] >= Activation(s) }

\* Mutant of Release.
ReleaseOfCpu(s) == Lesser(settings.rel, settings.fanStop)

Release(s) ==
  LET common == Lesser(settings.rel, settings.fanStop)
  IN  IF s = "ir" THEN Lesser(common, Activation(s) - settings.irHysteresis) ELSE common

\* cool_enough_for_auto; see Policy for a suspended GPU.
CoolEnough(sources, r) ==
  /\ sources \subseteq Present(r)
  /\ \A s \in Present(r) : (s # "ir" \/ s \in sources) => r[s] <= Release(s)

\* observe_activations; an IR that does not read may be forgotten.
ObservedActivations(r) ==
  LET all == activated \cup ActivationSources(r)
  IN  {all, { s \in all : s # "ir" \/ s \in Present(r) }}

Critical(r) == settings.crit # Disabled /\ \E s \in Present(r) : r[s] >= settings.crit

\* _filtered and Ewma
Smoothed(r) ==
  LET between(s) == IF r[s] = Gone \/ filtered[s] = Gone THEN {r[s]}
                    ELSE { t \in settings.reads[s] : Lesser(filtered[s], r[s]) <= t
                                                     /\ t <= Greater(filtered[s], r[s]) }
      all == UNION { between(s) : s \in Inputs }
  IN  { f \in [Inputs -> all] : \A s \in Inputs : f[s] \in between(s) }

\* Mutant of Evaluated.
EvaluatedSmoothed(f, r) == f

\* The temperatures a sample is evaluated at: heat counts at once.
Evaluated(f, r) == [s \in Inputs |-> Greater(f[s], r[s])]

Targets(h, previous) ==
  [s \in Inputs |->
     IF h[s] = Gone THEN NoTarget
     ELSE HeldTarget(CurveFor(settings, s), h[s], previous[s], settings.hysteresis)]

\* The highest target wins; acpi never drives the fans.
Winning(targets) ==
  LET driving == { targets[s] : s \in Active(settings) }
  IN  CHOOSE q \in driving : \A p \in driving : p <= q

RateLimited(duty, last) ==
  IF last = NoDuty THEN duty
  ELSE Greater(Lesser(duty, last + RiseStep), last - FallStep)

\* desired_pwm
Desired(targets, last) ==
  Clamp(RateLimited(Greater(PercentToPwm(Winning(targets)), FloorDuty), last), 1, PwmMax)

-----------------------------------------------------------------------------
Init ==
  /\ config \in DOMAIN Offered /\ dual \in BOOLEAN /\ mode = "loading"
  /\ calling = {} /\ asked = NoDuty /\ filtered = Nothing /\ heat = Nothing /\ target = NoTargets
  /\ activated = {} /\ commanded = NoDuty /\ pace = 0
  /\ sinceCut = settings.interval /\ dip = Nothing /\ hotFor = 0

\* main and the start of run; a maximum left by an earlier run is adopted.
Load ==
  /\ mode = "loading"
  /\ \/ /\ Validate(settings) /\ InterfaceAllows(settings, dual)
        /\ \/ mode' = "auto" /\ UNCHANGED commanded
           \/ mode' = "emergency" /\ commanded' = PwmMax
     \/ /\ ~(Validate(settings) /\ InterfaceAllows(settings, dual))
        /\ mode' = "refused" /\ UNCHANGED commanded
  /\ UNCHANGED <<chosen, filtered, heat, target, activated, pace, calling, asked, sinceCut,
                 dip, hotFor>>

\* The control interval and everything else that waits.
Tick ==
  /\ mode \in {"auto", "manual", "emergency"} /\ pace > 0
  /\ pace' = pace - 1
  /\ sinceCut' = Lesser(settings.interval, sinceCut + 1)
  /\ UNCHANGED <<chosen, mode, filtered, heat, target, activated, commanded, calling, asked,
                 dip, hotFor>>

Maximum == mode' = "emergency" /\ commanded' = PwmMax

\* Sensors.read raises: Max, unless firmware Auto is left alone.  The filters
\* also start anew when the loop sleeps outside the required profile.
ReadFails ==
  /\ mode \in {"auto", "manual", "emergency"}
  /\ filtered' = Nothing /\ calling' = {} /\ asked' = NoDuty
  /\ Maximum \/ (mode = "auto" /\ UNCHANGED <<mode, commanded>>)
  /\ heat' = Nothing /\ dip' = Nothing /\ hotFor' = 0
  /\ UNCHANGED <<chosen, target, activated, pace, sinceCut>>

\* A critical temperature, or an emergency that is held.
SelectMaximum(r) ==
  /\ Critical(r) \/ mode = "emergency"
  /\ Maximum
  /\ activated' \in ObservedActivations(r)
  /\ heat' = Nothing /\ dip' = Nothing /\ hotFor' = 0
  /\ UNCHANGED <<target, pace, sinceCut>>

\* _apply_manual when Manual is taken: never below what is running.
Taken(duty) ==
  { Lesser(Greater(duty, running), Ceiling(dual)) : running \in FirmwareDuties }

\* exit_emergency; the duties of Manual start anew, and the raw temperatures
\* are not looked at.
LeaveEmergency(r, f) ==
  /\ mode = "emergency" /\ ~Critical(r)
  /\ \A s \in Present(f) : f[s] <= settings.crel
  /\ mode' = "manual" /\ heat' = f
  /\ target' = Targets(f, NoTargets)
  /\ activated' = ActivationSources(r)
  /\ commanded' \in Taken(Desired(target', NoDuty))
  /\ dip' = Nothing /\ hotFor' = 0
  /\ UNCHANGED <<pace, sinceCut>>

StayAuto(r) ==
  /\ mode = "auto" /\ ~Critical(r) /\ ActivationSources(r) = {}
  /\ activated' \in ObservedActivations(r)
  /\ UNCHANGED <<mode, heat, target, commanded, pace, sinceCut, dip,
                 hotFor>>

\* _restore_auto; policy.reset
RestoreAuto(r) ==
  /\ mode = "manual" /\ ~Critical(r)
  /\ \E sources \in ObservedActivations(r) : CoolEnough(sources, r)
  /\ mode' = "auto" /\ heat' = Nothing /\ target' = NoTargets
  /\ activated' = {} /\ commanded' = NoDuty /\ dip' = Nothing /\ hotFor' = 0
  /\ UNCHANGED <<pace, sinceCut>>

\* For the history: a sensor calls for control beyond the top of its curve,
\* and the steps from the lowest duty to the highest (none if a step is nothing).
Scorching(r) ==
  \E s \in Present(r) :
    LET c == CurveFor(settings, s)
    IN  r[s] >= Activation(s) /\ r[s] >= c.rise[Len(c.rise)]

RisesToFull == IF RiseStep = 0 THEN 0 ELSE (PwmMax + RiseStep - 1) \div RiseStep

\* The duty the curves give for the readings alone, without memory.
DutyFor(r) ==
  Greater(FloorDuty, PercentToPwm(
    Winning([s \in Inputs |->
               IF r[s] = Gone THEN NoTarget ELSE Evaluate(CurveFor(settings, s), r[s])])))

Dips(h, targets) ==
  [s \in Inputs |->
     IF targets[s] = NoTarget \/ target[s] = NoTarget \/ targets[s] > target[s] THEN Gone
     ELSE IF targets[s] < target[s] THEN h[s]
     ELSE IF dip[s] = Gone THEN Gone ELSE Lesser(dip[s], h[s])]

\* Mutant of ShouldUpdate.
ShouldUpdateAlways(duty) == TRUE

\* Rising duties are not delayed; others wait for the control interval.
ShouldUpdate(duty) == commanded = NoDuty \/ duty > commanded \/ pace = 0

Control(r, f) ==
  /\ ~Critical(r)
  /\ \/ mode = "auto" /\ ActivationSources(r) # {}
        /\ activated' \in ObservedActivations(r)
     \/ mode = "manual" /\ \E sources \in ObservedActivations(r) :
                             ~CoolEnough(sources, r) /\ activated' = sources
  /\ heat' = Evaluated(f, r)
  /\ target' = Targets(heat', target)
  /\ dip' = Dips(heat', target')
  /\ LET duty == Desired(target', commanded)
     IN  IF ShouldUpdate(duty)
         THEN /\ IF mode = "auto" THEN commanded' \in Taken(duty)
                                  ELSE commanded' = Lesser(duty, Ceiling(dual))
              /\ pace' = settings.interval
              /\ sinceCut' = IF commanded # NoDuty /\ commanded' < commanded
                             THEN 0 ELSE sinceCut
         ELSE UNCHANGED <<commanded, pace, sinceCut>>
  /\ hotFor' = IF Scorching(r) THEN Lesser(hotFor + 1, RisesToFull) ELSE 0
  /\ mode' = "manual"

Sample ==
  /\ mode \in {"auto", "manual", "emergency"}
  /\ \E r \in Readings : \E f \in Smoothed(r) :
       /\ filtered' = f /\ calling' = ActivationSources(r) /\ asked' = DutyFor(r)
       /\ \/ SelectMaximum(r) \/ LeaveEmergency(r, f) \/ StayAuto(r)
          \/ RestoreAuto(r) \/ Control(r, f)
  /\ UNCHANGED chosen

Next == Load \/ Tick \/ ReadFails \/ Sample

Spec == Init /\ [][Next]_vars

-----------------------------------------------------------------------------
Controlled == { s \in Inputs : HasFalls(CurveFor(settings, s)) }

\* The width of a sensor's hysteresis.
Width(s) ==
  LET c == CurveFor(settings, s)
      gaps == { c.rise[k] - c.fall[k] : k \in 2..Len(c.rise) }
  IN  IF HasFalls(c) THEN CHOOSE g \in gaps : \A h \in gaps : g <= h
      ELSE settings.hysteresis

Bank == INSTANCE Comparators WITH
  bank <- [s \in Controlled |-> [rise |-> CurveFor(settings, s).rise,
                                 fall |-> CurveFor(settings, s).fall]],
  heat <- [s \in Controlled |-> heat[s]],
  on <- [s \in Controlled |->
           IF target[s] = NoTarget THEN {}
           ELSE 2..StepOf(CurveFor(settings, s), target[s])],
  driving <- mode = "manual"

DemandTypeOK ==
  /\ config \in DOMAIN Offered /\ dual \in BOOLEAN
  /\ mode \in {"loading", "refused", "auto", "manual", "emergency"}
  /\ filtered \in Values /\ heat \in Values /\ dip \in Values
  /\ target \in [Inputs -> {NoTarget} \cup 0..FullPercent]
  /\ activated \subseteq Active(settings) /\ calling \subseteq Active(settings)
  /\ asked \in {NoDuty} \cup 0..PwmMax
  /\ commanded \in {NoDuty} \cup 1..PwmMax
  /\ mode \in {"auto", "manual", "emergency"}
       => /\ pace \in 0..settings.interval /\ sinceCut \in 0..settings.interval
          /\ hotFor \in 0..RisesToFull

\* With an accepted configuration Manual never asks for a GPU level above the
\* 58 of the firmware's table, and the interface's ceiling only ever takes off
\* what rounding has put on: the fan level that runs is the one the curves
\* asked for (validate_fan_interface, manual_pwm_max).
DutiesStayInTable ==
  /\ DemandTypeOK
  /\ mode = "manual" => /\ commanded \in 1..Ceiling(dual)
                        /\ GpuRequest(commanded, dual) <= 58
                        /\ LET duty == Desired(target, commanded)
                           IN  PwmToLevel(Lesser(duty, Ceiling(dual))) = PwmToLevel(duty)

\* Handing the fans back never happens on readings that take them again, for
\* any accepted thresholds: Auto and Manual do not alternate on one sample
\* (cool_enough_for_auto, activation_threshold).
AutoMeansNoDemand == mode = "auto" => calling = {}

\* The search of target_percent among the levels of a stepped curve is a bank
\* of independent comparators with hysteresis, over resets, emergencies and
\* sensors that disappear.
StepsAreComparators == Bank!Spec

\* After a target has fallen it does not rise again before the temperature has
\* risen by more than the hysteresis over its lowest value since, whatever the
\* curve's shape: temperatures that tremble do not make the fans hunt
\* (target_percent, desired_pwm).
NoHunting ==
  [][ mode = "manual" /\ mode' = "manual"
        => \A s \in Inputs :
             dip[s] # Gone /\ target'[s] > target[s] => heat'[s] - dip[s] > Width(s) ]_vars

\* From one sample to the next in Manual the duty follows what the curves give
\* for the raw readings, or rises by the full step towards it, however the
\* smoothing, the hysteresis and the control interval stand; it never falls by
\* more than the fall step, nor twice within a control interval.  (Only a tick
\* lowers pace.)
RisesAtOnceFallsInPace ==
  [][ mode = "manual" /\ mode' = "manual" /\ pace' >= pace
        => /\ commanded' >= Lesser(Ceiling(dual), Lesser(commanded + RiseStep, asked'))
           /\ commanded' >= commanded - FallStep
           /\ commanded' < commanded => sinceCut = settings.interval ]_vars

\* Without a critical temperature the curves are the only way to full speed,
\* and every accepted configuration gets there under lasting heat, after as many
\* samples as rise steps fit at most (the comment in validate).
HotMachineReachesFullSpeed ==
  mode = "manual" /\ settings.crit = Disabled /\ RiseStep > 0 /\ hotFor = RisesToFull
    => commanded = PwmMax

=============================================================================
