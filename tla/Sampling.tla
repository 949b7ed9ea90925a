----------------------------- MODULE Sampling -----------------------------
(***************************************************************************)
(* The rhythm of the control loop around Sensors: the watchdog fed at the  *)
(* top of the loop and between the slices of a wait, sensor reads that     *)
(* take time, and the platform-profile monitor, whose notifications end a  *)
(* wait early.  What the loop does with a sample is Controller's matter;   *)
(* here it may sleep whenever the profile seen is not the required one.    *)
(***************************************************************************)
EXTENDS Sensors

CONSTANTS
  WatchdogSec,     \* of the unit, in ticks
  SampleInterval,  \* sample_interval_s in ticks
  InactiveWait     \* inactive_event_wait_s in ticks

ASSUME SamplingAssumption ==
  /\ SampleInterval \in Nat \ {0} /\ InactiveWait \in Nat \ {0}
  /\ WatchdogSec \in Nat /\ WatchdogSec > 2 * QueryTime

VARIABLES
  loop,       \* "top", "read" or "wait"
  sliceLeft,  \* ticks left of the running slice of a wait
  waitLeft,   \* ticks of the wait after that slice: remaining - wait_s
  fedFor,     \* ticks since WATCHDOG=1 was sent
  required,   \* environment: the profile is the required one
  seen,       \* PlatformProfileMonitor.current is the required one
  notified,   \* a notification has not been consumed by a read of the file
  unseenFor   \* history: ticks during which required # seen

loopVars == <<loop, sliceLeft, waitLeft, fedFor, required, seen, notified, unseenFor>>
vars == <<sensorVars, loopVars>>

Longest == IF SampleInterval >= InactiveWait THEN SampleInterval ELSE InactiveWait

SamplingTypeOK ==
  /\ SensorsTypeOK
  /\ loop \in {"top", "read", "wait"}
  /\ sliceLeft \in 0..Longest /\ waitLeft \in 0..Longest /\ fedFor \in 0..WatchdogSec
  /\ required \in BOOLEAN /\ seen \in BOOLEAN /\ notified \in BOOLEAN
  /\ unseenFor \in 0..WatchdogSec

\* The monitor opens and reads the profile before the loop starts.
Init ==
  /\ SensorsInit
  /\ loop = "top" /\ sliceLeft = 0 /\ waitLeft = 0 /\ fedFor = 0
  /\ required \in BOOLEAN /\ seen = required /\ notified = FALSE /\ unseenFor = 0

-----------------------------------------------------------------------------
Capped(n) == IF n < WatchdogSec THEN n ELSE WatchdogSec

LoopTime(t) ==
  /\ fedFor' = Capped(fedFor + t)
  /\ unseenFor' = IF required = seen THEN 0 ELSE Capped(unseenFor + t)

\* Mutant of Slice.
WholeWait(left) == left

\* wait_s: half the watchdog period at most (watchdog_interval_s).
Slice(left) == IF left <= WatchdogSec \div 2 THEN left ELSE WatchdogSec \div 2

BeginWait(left) ==
  /\ loop' = "wait" /\ sliceLeft' = Slice(left) /\ waitLeft' = left - Slice(left)

\* The watchdog is fed; the loop sleeps, or reads the sensors.
Top ==
  /\ loop = "top"
  /\ fedFor' = 0
  /\ \/ ~seen /\ BeginWait(InactiveWait) /\ UNCHANGED sensorVars
     \/ loop' = "read" /\ BeginRead /\ UNCHANGED <<sliceLeft, waitLeft>>
  /\ UNCHANGED <<required, seen, notified, unseenFor>>

\* A step of the read.  Only queries take time.
Read ==
  /\ loop = "read"
  /\ \/ QuickStep /\ UNCHANGED <<fedFor, unseenFor>>
     \/ \E t \in 0..QueryTime : Query(t) /\ LoopTime(t)
  /\ IF at' = "idle" THEN BeginWait(SampleInterval)
                     ELSE UNCHANGED <<loop, sliceLeft, waitLeft>>
  /\ UNCHANGED <<required, seen, notified>>

\* poll sleeps as long as there is nothing to report.
Sleep ==
  /\ loop = "wait" /\ sliceLeft > 0 /\ ~notified
  /\ UNCHANGED hardware
  /\ sliceLeft' = sliceLeft - 1
  /\ SensorTime(1) /\ LoopTime(1)
  /\ UNCHANGED <<health, nvSmi, nvFiles, nvCache, nvSuspended, amdCache, at,
                 part, sample, known, blind, slept, loop, waitLeft, required, seen,
                 notified>>

\* Mutant of Refresh.
EventDrained == UNCHANGED seen /\ notified' = FALSE

\* refresh: reading the file from its start consumes the notification.
Refresh == seen' = required /\ notified' = FALSE

\* The slice is over, by time or by a notification.  A profile that differs
\* from the last one seen ends the wait; one that has changed back does not,
\* although the whole slice is taken for over.
SliceEnds ==
  /\ loop = "wait" /\ (notified \/ sliceLeft = 0)
  /\ IF notified THEN Refresh ELSE UNCHANGED <<seen, notified>>
  /\ unseenFor' = IF required = seen' THEN 0 ELSE unseenFor
  /\ IF seen' # seen \/ waitLeft = 0
     THEN /\ loop' = "top" /\ sliceLeft' = 0 /\ waitLeft' = 0
          /\ UNCHANGED fedFor
     ELSE BeginWait(waitLeft) /\ fedFor' = 0
  /\ UNCHANGED <<sensorVars, required>>

\* A change of the profile notifies the open file.
ProfileChanges ==
  /\ required' = ~required /\ notified' = TRUE
  /\ unseenFor' = IF required' = seen THEN 0 ELSE unseenFor
  /\ UNCHANGED <<sensorVars, loop, sliceLeft, waitLeft, fedFor, seen>>

HardwareChanges == HardwareStep /\ UNCHANGED loopVars

ProcessStep == Top \/ Read \/ Sleep \/ SliceEnds

Next == ProcessStep \/ ProfileChanges \/ HardwareChanges

Spec == Init /\ [][Next]_vars

-----------------------------------------------------------------------------
\* systemd never sees a silence of WatchdogSec, however the slow queries, the
\* slices and the notifications of a wait fall (SystemdNotifier,
\* _wait_for_profile_change): a running loop is not taken for a hung one.
WatchdogFed == fedFor < WatchdogSec

\* A profile the loop has not seen yet stays unseen for the time of one sensor
\* query at most, asleep or not: notifications that arrive during a read are
\* kept for the next wait (PlatformProfileMonitor.wait_for_change, refresh).
ProfileSeenPromptly == unseenFor <= QueryTime

=============================================================================
