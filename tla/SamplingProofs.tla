--------------------------- MODULE SamplingProofs ---------------------------
(***************************************************************************)
(* Theorems about the rhythm of the control loop, for every watchdog       *)
(* interval, sample interval, query time and set of sources.               *)
(***************************************************************************)
EXTENDS Sampling, TLAPS

\* Places of a read before its one slow query is over.
Before == {"cpu", "nvidia", "query"}
After == {"amd", "return"}

\* The query time and the longest slice of a wait.
Silence == QueryTime + (WatchdogSec \div 2)

RhythmShape ==
  /\ loop \in {"top", "read", "wait"} /\ at \in {"idle"} \cup Before \cup After
  /\ fedFor \in Nat /\ unseenFor \in Nat /\ sliceLeft \in Nat /\ waitLeft \in Nat
  /\ loop = "read" <=> at # "idle"

\* What has passed of the watchdog interval, and what the running slice adds.
Fed ==
  /\ fedFor <= Silence
  /\ loop = "read" => fedFor <= QueryTime /\ (at \in Before => fedFor = 0)
  /\ loop = "wait" => fedFor + sliceLeft <= Silence

RhythmInv == RhythmShape /\ Fed

-----------------------------------------------------------------------------
\* A slice is not longer than half the watchdog interval, nor than the wait.
LEMMA SliceBound ==
  ASSUME NEW n \in Nat
  PROVE  /\ Slice(n) \in Nat /\ n - Slice(n) \in Nat
         /\ Slice(n) <= WatchdogSec \div 2
BY SamplingAssumption, Z3 DEF Slice

\* The longest silence is within the patience of systemd.
LEMMA SilenceBound == Silence \in Nat /\ QueryTime <= Silence /\ Silence < WatchdogSec
BY SamplingAssumption, SensorsAssumption, Z3 DEF Silence

\* A read goes on after the query, or ends.
LEMMA SourceOrder == SourceAfter("cpu") \in {"nvidia"} \cup After
                     /\ SourceAfter("nvidia") \in After /\ SourceAfter("amd") \in After
BY DEF SourceAfter, After

\* Time is counted from nothing.
LEMMA RhythmInit == Init => RhythmInv
BY SilenceBound DEF Init, SensorsInit, RhythmInv, RhythmShape, Fed

\* A quick step of a read leaves the places before the query, or goes on there.
LEMMA QuickOrder ==
  ASSUME QuickStep, at \in {"idle"} \cup Before \cup After
  PROVE  at # "idle" /\ at' \in {"idle"} \cup Before \cup After
         /\ (at' \in Before => at \in Before)
BY SourceOrder DEF QuickStep, ReadCpu, NvidiaStatus, QueryCannotStart, AmdAnswers, AmdUnreadable,
   AmdGone, ReturnSample, NvidiaFails, RaiseError, Before, After

\* A query is left for a later source or for the end of the read.
LEMMA QueryOrder ==
  ASSUME NEW t, Query(t)
  PROVE  at = "query" /\ at' \in {"idle"} \cup After
BY SourceOrder DEF Query, QueryAnswers, QueryFails, NvidiaFails, RaiseError

\* Counted time grows by no more than what passes.
LEMMA Elapsing ==
  ASSUME NEW n \in Nat, NEW t \in Nat
  PROVE  Capped(n + t) \in Nat /\ Capped(n + t) <= n + t
BY SamplingAssumption DEF Capped

\* Every step of a read and of the loop keeps the rhythm.
LEMMA RhythmStep == RhythmInv /\ [Next]_vars => RhythmInv'
<1> SUFFICES ASSUME RhythmInv, [Next]_vars
             PROVE  RhythmInv'
  OBVIOUS
<1> USE DEF RhythmInv, RhythmShape, Fed
<1> USE SamplingAssumption, SensorsAssumption, SilenceBound DEF Before, After
<1>1. CASE Top
  <2>1. CASE BeginWait(InactiveWait) /\ UNCHANGED sensorVars
    BY <1>1, <2>1, SliceBound DEF Top, BeginWait, Silence, sensorVars
  <2>2. CASE loop' = "read" /\ BeginRead /\ UNCHANGED <<sliceLeft, waitLeft>>
    BY <1>1, <2>2 DEF Top, BeginRead, Before
  <2> QED BY <1>1, <2>1, <2>2 DEF Top
<1>2. CASE Read
  <2> DEFINE Goes == /\ at # "idle" /\ at' \in {"idle"} \cup Before \cup After
                     /\ fedFor' \in Nat /\ fedFor' <= QueryTime /\ unseenFor' \in Nat
                     /\ (at' \in Before => fedFor' = 0)
  <2>0. loop = "read"
    BY <1>2 DEF Read
  <2>1. Goes
    <3>1. CASE QuickStep /\ UNCHANGED <<fedFor, unseenFor>>
      BY <2>0, <3>1, QuickOrder
    <3>2. ASSUME NEW t \in 0..QueryTime, Query(t), LoopTime(t)
          PROVE  Goes
      <4>1. at = "query" /\ at' \in {"idle"} \cup After
        BY <3>2, QueryOrder
      <4>2. fedFor = 0
        BY <2>0, <4>1
      <4>3. t \in Nat /\ t <= QueryTime
        OBVIOUS
      <4>4. /\ Capped(fedFor + t) \in Nat /\ Capped(fedFor + t) <= fedFor + t
            /\ Capped(unseenFor + t) \in Nat
        BY <4>3, Elapsing
      <4>5. fedFor' = Capped(fedFor + t) /\ unseenFor' \in {0, Capped(unseenFor + t)}
        BY <3>2 DEF LoopTime
      <4> QED BY <4>1, <4>2, <4>3, <4>4, <4>5 DEF Before, After
    <3> HIDE DEF Goes
    <3>3. \/ QuickStep /\ UNCHANGED <<fedFor, unseenFor>>
          \/ \E t \in 0..QueryTime : Query(t) /\ LoopTime(t)
      BY <1>2 DEF Read
    <3> QED BY <3>1, <3>2, <3>3
  <2>2. CASE at' = "idle" /\ BeginWait(SampleInterval)
    <3>1. /\ Slice(SampleInterval) \in Nat /\ SampleInterval - Slice(SampleInterval) \in Nat
          /\ Slice(SampleInterval) <= WatchdogSec \div 2
      BY SliceBound
    <3> QED BY <2>1, <2>2, <3>1 DEF BeginWait, Silence
  <2>3. CASE at' # "idle" /\ UNCHANGED <<loop, sliceLeft, waitLeft>>
    BY <1>2, <2>1, <2>3 DEF Read
  <2> QED BY <1>2, <2>2, <2>3 DEF Read
<1>3. CASE Sleep
  <2>1. /\ Capped(fedFor + 1) \in Nat /\ Capped(fedFor + 1) <= fedFor + 1
        /\ Capped(unseenFor + 1) \in Nat
    BY Elapsing
  <2> QED BY <1>3, <2>1 DEF Sleep, LoopTime
<1>4. CASE SliceEnds
  <2>1. unseenFor' \in Nat
    BY <1>4 DEF SliceEnds
  <2>2. at' = at
    BY <1>4 DEF SliceEnds, sensorVars
  <2>3. CASE loop' = "top"
    BY <1>4, <2>1, <2>2, <2>3 DEF SliceEnds, BeginWait
  <2>4. CASE BeginWait(waitLeft) /\ fedFor' = 0
    BY <1>4, <2>1, <2>2, <2>4, SliceBound DEF SliceEnds, BeginWait, Silence
  <2> QED BY <1>4, <2>3, <2>4 DEF SliceEnds
<1>5. CASE ProfileChanges
  BY <1>5 DEF ProfileChanges, sensorVars
<1>6. CASE HardwareChanges
  BY <1>6 DEF HardwareChanges, HardwareStep, loopVars
<1>7. CASE UNCHANGED vars
  BY <1>7 DEF vars, sensorVars, loopVars
<1> QED BY <1>1, <1>2, <1>3, <1>4, <1>5, <1>6, <1>7 DEF Next, ProcessStep

\* The watchdog is fed in time, for every interval longer than two queries: between
\* two feeds lie one query and one slice at most.
THEOREM WatchdogIsFed == Spec => []WatchdogFed
<1>1. RhythmInv => WatchdogFed
  BY SilenceBound, SamplingAssumption DEF RhythmInv, RhythmShape, Fed, WatchdogFed
<1>2. RhythmInv /\ [Next]_vars => RhythmInv'
  BY RhythmStep
<1> QED BY RhythmInit, <1>1, <1>2, PTL DEF Spec

-----------------------------------------------------------------------------
\* A profile that has not been seen has its notification waiting, and has not been
\* waiting for longer than the query of the running read.
Noticed ==
  /\ required \in BOOLEAN /\ seen \in BOOLEAN /\ notified \in BOOLEAN
  /\ required # seen => notified
  /\ required = seen => unseenFor = 0
  /\ loop = "top" \/ at \in Before => unseenFor = 0
  /\ unseenFor <= QueryTime

\* The profile that is required at first has been seen.
LEMMA NoticedInit == Init => Noticed
<1> SUFFICES ASSUME Init
             PROVE  Noticed
  OBVIOUS
<1>1. 0 <= QueryTime
  BY SensorsAssumption
<1>2. required \in BOOLEAN /\ seen = required /\ notified = FALSE /\ unseenFor = 0
  BY Zenon DEF Init
<1> QED BY <1>1, <1>2, Zenon DEF Noticed

\* A change notifies, and only a query delays the look at it.
LEMMA NoticedStep == RhythmInv /\ Noticed /\ [Next]_vars => Noticed'
<1> SUFFICES ASSUME RhythmInv, Noticed, [Next]_vars
             PROVE  Noticed'
  OBVIOUS
<1> USE SensorsAssumption DEF Noticed
<1>0. RhythmShape
  BY DEF RhythmInv
<1>1. CASE Top
  BY <1>0, <1>1 DEF Top, RhythmShape
<1>2. CASE Read
  <2>0. loop = "read" /\ required' = required /\ seen' = seen /\ notified' = notified
        /\ loop' # "top"
    BY <1>2 DEF Read, BeginWait
  <2>1. CASE QuickStep /\ UNCHANGED <<fedFor, unseenFor>>
    <3>1. at' \in Before => at \in Before
      BY <1>0, <2>1, QuickOrder DEF RhythmShape
    <3> QED BY <2>0, <2>1, <3>1
  <2>2. ASSUME NEW t \in 0..QueryTime, Query(t), LoopTime(t)
        PROVE  Noticed'
    <3>1. at = "query" /\ at' \in {"idle"} \cup After
      BY <2>2, QueryOrder
    <3>2. unseenFor = 0 /\ at' \notin Before
      BY <3>1 DEF Before, After
    <3>3. Capped(unseenFor + t) \in Nat /\ Capped(unseenFor + t) <= unseenFor + t
      BY <3>2, Elapsing
    <3>4. unseenFor' = IF required = seen THEN 0 ELSE Capped(unseenFor + t)
      BY <2>2 DEF LoopTime
    <3>5. unseenFor' <= QueryTime
      BY <3>2, <3>3, <3>4
    <3> QED BY <2>0, <3>2, <3>4, <3>5
  <2> QED BY <1>2, <2>1, <2>2 DEF Read
<1>3. CASE Sleep
  BY <1>0, <1>3 DEF Sleep, LoopTime, RhythmShape, Before
<1>4. CASE SliceEnds
  <2>1. required' = required /\ at' = at /\ at = "idle"
    BY <1>0, <1>4 DEF SliceEnds, sensorVars, RhythmShape
  <2>2. /\ required' = seen' /\ notified' = FALSE /\ seen' \in BOOLEAN
        /\ unseenFor' = 0
    BY <1>4, <2>1 DEF SliceEnds, Refresh
  <2>3. 0 <= QueryTime
    OBVIOUS
  <2>4. required' \in BOOLEAN
    BY <2>1, Zenon
  <2> QED BY <2>2, <2>3, <2>4, Zenon
<1>5. CASE ProfileChanges
  BY <1>5 DEF ProfileChanges, sensorVars
<1>6. CASE HardwareChanges
  BY <1>6 DEF HardwareChanges, HardwareStep, loopVars
<1>7. CASE UNCHANGED vars
  BY <1>7 DEF vars, sensorVars, loopVars
<1> QED BY <1>1, <1>2, <1>3, <1>4, <1>5, <1>6, <1>7 DEF Next, ProcessStep

\* A change of the profile waits for one query at most, whenever it comes.
THEOREM ProfileIsSeen == Spec => []ProfileSeenPromptly
<1>1. Noticed => ProfileSeenPromptly
  BY DEF Noticed, ProfileSeenPromptly
<1>2. Init => RhythmInv /\ Noticed
  BY RhythmInit, NoticedInit
<1>3. (RhythmInv /\ Noticed) /\ [Next]_vars => (RhythmInv /\ Noticed)'
  BY RhythmStep, NoticedStep
<1> QED BY <1>1, <1>2, <1>3, PTL DEF Spec

-----------------------------------------------------------------------------
(* Failing sources.                                                        *)

\* The source has had its turn in the running read.
Done(s) == at = "return" \/ (s = "nvidia" /\ at = "amd")

HealthShape ==
  /\ at \in {"idle"} \cup Before \cup After
  /\ health \in [Sources -> [failed : BOOLEAN, ever : BOOLEAN, fails : Nat]]
  /\ blind \in [Gpus -> Nat] /\ known \subseteq Gpus /\ part \in [Gpus -> Kinds]

\* A source that has delivered is asked for; every sample without it has a failure
\* of the streak to account for it, and the streak has not reached the threshold.
Bridged(s) ==
  /\ s \in known => health[s].ever
  /\ blind[s] < Threshold[s]
  /\ ~Done(s) => blind[s] <= health[s].fails
  /\ Done(s) /\ Blind(s) => blind[s] < health[s].fails /\ health[s].fails < Threshold[s]

HealthInv == HealthShape /\ \A s \in Gpus : Bridged(s)

\* Each GPU has the threshold its class sets.
LEMMA Thresholds ==
  /\ Gpus \subseteq Sources
  /\ \A s \in Sources : Threshold[s] \in Nat \ {0}
  /\ \A s \in Gpus : FailurePolicy[s] = "after"
  /\ "nvidia" \in Gpus => Threshold["nvidia"] = NvThreshold
  /\ "amd" \in Gpus => Threshold["amd"] = AmdThreshold
<1>1. ASSUME NEW s \in Sources
      PROVE  /\ Threshold[s] \in Nat \ {0}
             /\ s \in Gpus => FailurePolicy[s] = "after"
             /\ s = "nvidia" => Threshold[s] = NvThreshold
             /\ s = "amd" => Threshold[s] = AmdThreshold
  <2>1. s \in {"cpu", "nvidia", "amd"} /\ "cpu" \notin Gpus
    BY SensorsAssumption DEF Sources
  <2>2. CASE s = "cpu"
    BY <2>1, <2>2 DEF Threshold
  <2>3. CASE s = "nvidia"
    BY <2>1, <2>3, SensorsAssumption DEF Threshold, FailurePolicy
  <2>4. CASE s = "amd"
    BY <2>1, <2>4, SensorsAssumption DEF Threshold, FailurePolicy
  <2> QED BY <2>1, <2>2, <2>3, <2>4
<1>2. Gpus \subseteq Sources
  BY DEF Sources
<1> QED BY <1>1, <1>2

\* The streak of a source that fails: it grows up to the threshold.
LEMMA Failing ==
  ASSUME HealthShape, NEW s \in Sources
  PROVE  /\ Unavailable(s) \in [Sources -> [failed : BOOLEAN, ever : BOOLEAN, fails : Nat]]
         /\ Unavailable(s)[s].ever = health[s].ever
         /\ Unavailable(s)[s].fails >= 1
         /\ Unavailable(s)[s].fails >= Threshold[s]
              \/ Unavailable(s)[s].fails = health[s].fails + 1
         /\ \A g \in Sources : g # s => Unavailable(s)[g] = health[g]
<1> DEFINE r == health[s]
           n == IF r.fails < Threshold[s] THEN r.fails + 1 ELSE r.fails
           failed == [r EXCEPT !.failed = TRUE, !.fails = n]
<1>1. s \in Sources /\ Threshold[s] \in Nat \ {0}
  BY Thresholds
<1>2. r \in [failed : BOOLEAN, ever : BOOLEAN, fails : Nat]
  BY <1>1 DEF HealthShape
<1>3. n \in Nat /\ n >= 1 /\ (n >= Threshold[s] \/ n = r.fails + 1)
  BY <1>1, <1>2
<1>4. Unavailable(s) = [health EXCEPT ![s] = failed]
  BY <1>1 DEF Unavailable, HealthShape
<1> HIDE DEF n
<1>5. /\ failed \in [failed : BOOLEAN, ever : BOOLEAN, fails : Nat]
      /\ failed.ever = r.ever /\ failed.fails = n
  BY <1>2, <1>3
<1> HIDE DEF failed
<1> QED BY <1>1, <1>3, <1>4, <1>5 DEF HealthShape

\* Who has had a turn after a step of the read.
LEMMA Turns ==
  /\ \A s \in Gpus : SourceAfter("cpu") # "return" /\ (SourceAfter("cpu") = "amd" => s # "nvidia")
  /\ "amd" \in Gpus => SourceAfter("nvidia") = "amd"
  /\ SourceAfter("amd") = "return"
BY SensorsAssumption DEF SourceAfter

\* No GPU has been blind.
LEMMA HealthInit == Init => HealthInv
BY Thresholds DEF Init, SensorsInit, HealthInv, HealthShape, Bridged, Done, Blind, NewHealth,
   NoParts, Kinds

\* An exception leaves every source without samples to account for.
LEMMA HealthRaises ==
  ASSUME HealthInv, RaiseError, NEW s \in Gpus, health' = Unavailable(s), known' = known
  PROVE  HealthInv'
<1>1. HealthShape'
  BY Failing, Thresholds DEF HealthInv, HealthShape, RaiseError, NoParts, Kinds
<1>2. ASSUME NEW g \in Gpus
      PROVE  Bridged(g)'
  <2>1. /\ health'[g] \in [failed : BOOLEAN, ever : BOOLEAN, fails : Nat]
        /\ health'[g].ever = health[g].ever
    BY Failing, Thresholds DEF HealthInv, HealthShape
  <2>2. blind'[g] = 0 /\ at' = "idle" /\ Threshold[g] \in Nat \ {0}
    BY Thresholds DEF RaiseError
  <2> QED BY <2>1, <2>2 DEF HealthInv, Bridged, Done
<1> QED BY <1>1, <1>2 DEF HealthInv

\* A failure that is bridged is one more in a streak below the threshold.
LEMMA HealthFails ==
  ASSUME HealthInv, NEW s \in Gpus, NEW threshold \in Nat \ {0},
         threshold = Threshold[s] \/ threshold = 1,
         health' = Unavailable(s), ~Raises(s, threshold),
         part' \in [Gpus -> Kinds],
         \A g \in Gpus : g # s => part'[g] = part[g],
         at' = SourceAfter(s), ~Done(s), \A g \in Gpus : g # s => (Done(g) <=> Done(g)'),
         known' = known, blind' = blind, s = "amd" => nvSuspended' = nvSuspended
  PROVE  HealthInv'
<1>0. at' \in After
  BY SourceOrder, SensorsAssumption
<1>1. HealthShape'
  BY <1>0, Failing, Thresholds DEF HealthInv, HealthShape
<1>2. ASSUME NEW g \in Gpus
      PROVE  Bridged(g)'
  <2>0. g \in Sources /\ s \in Sources /\ Threshold[g] \in Nat \ {0} /\ FailurePolicy[s] = "after"
    BY Thresholds
  <2>1. CASE g = s
    <3>1. blind[s] <= health[s].fails /\ blind[s] < Threshold[s] /\ (s \in known => health[s].ever)
      BY DEF HealthInv, Bridged
    <3>2. CASE s \in known
      <4>1. Unavailable(s)[s].fails < threshold
        BY <2>0, <3>1, <3>2, Failing DEF Raises, HealthInv, HealthShape
      <4>2. threshold = Threshold[s] /\ Unavailable(s)[s].fails = health[s].fails + 1
        BY <4>1, <2>0, <2>1, Failing DEF HealthInv, HealthShape
      <4> QED BY <2>0, <2>1, <3>1, <3>2, <4>1, <4>2, Failing
              DEF HealthInv, HealthShape, Bridged
    <3>3. CASE s \notin known
      <4>1. ~Blind(s)' /\ Done(s)'
        BY <3>3, <1>0, Turns, SensorsAssumption DEF Blind, Done, After
      <4> QED BY <2>0, <2>1, <3>1, <3>3, <4>1 DEF Bridged
    <3> QED BY <3>2, <3>3
  <2>2. CASE g # s
    <3>1. health'[g] = health[g]
      BY <2>0, <2>2, Failing DEF HealthInv
    <3>2. Done(g)' => (Blind(g)' <=> Blind(g))
      BY <2>2, SensorsAssumption DEF Blind
    <3> QED BY <2>2, <3>1, <3>2 DEF HealthInv, Bridged
  <2> QED BY <2>1, <2>2
<1> QED BY <1>1, <1>2 DEF HealthInv

\* An answer ends the streak, and the source is not missing from the sample.
LEMMA HealthAnswers ==
  ASSUME HealthInv, NEW s \in Gpus,
         health' = Available(s), part' = [part EXCEPT ![s] = "fresh"],
         at' = SourceAfter(s), ~Done(s), \A g \in Gpus : g # s => (Done(g) <=> Done(g)'),
         known' = known \cup {s}, blind' = blind, nvSuspended' = nvSuspended
  PROVE  HealthInv'
<1>0. /\ at' \in After /\ s \in Sources
      /\ health \in [Sources -> [failed : BOOLEAN, ever : BOOLEAN, fails : Nat]]
  BY SourceOrder, SensorsAssumption, Thresholds DEF HealthInv, HealthShape
<1>1. /\ health' \in [Sources -> [failed : BOOLEAN, ever : BOOLEAN, fails : Nat]]
      /\ health'[s].ever /\ \A g \in Sources : g # s => health'[g] = health[g]
  BY <1>0 DEF Available
<1>2. HealthShape'
  BY <1>0, <1>1 DEF HealthInv, HealthShape, Kinds
<1>3. ASSUME NEW g \in Gpus
      PROVE  Bridged(g)'
  <2>1. g \in Sources
    BY Thresholds
  <2>2. CASE g = s
    <3>1. ~Blind(s)' /\ Done(s)'
      BY <1>0, Turns, SensorsAssumption DEF Blind, Done, After, HealthInv, HealthShape
    <3> QED BY <1>1, <2>2, <3>1 DEF HealthInv, Bridged
  <2>3. CASE g # s
    <3>1. Blind(g)' <=> Blind(g)
      BY <2>3 DEF Blind, HealthInv, HealthShape
    <3> QED BY <1>1, <2>1, <2>3, <3>1 DEF HealthInv, Bridged
  <2> QED BY <2>2, <2>3
<1> QED BY <1>2, <1>3 DEF HealthInv

\* Steps that concern no GPU's turn.
LEMMA HealthKeeps ==
  ASSUME HealthInv, at' \in {"idle"} \cup Before \cup After,
         \A g \in Gpus : Done(g) <=> Done(g)',
         health' \in [Sources -> [failed : BOOLEAN, ever : BOOLEAN, fails : Nat]],
         \A g \in Gpus : health'[g] = health[g],
         part' = part, known' = known, blind' = blind,
         nvSuspended' = nvSuspended \/ at' \notin After
  PROVE  HealthInv'
<1>1. HealthShape'
  BY DEF HealthInv, HealthShape
<1>2. ASSUME NEW g \in Gpus
      PROVE  Bridged(g)'
  <2>1. Done(g)' => (Blind(g)' <=> Blind(g))
    BY DEF Blind, Done, After
  <2> QED BY <2>1 DEF HealthInv, Bridged
<1> QED BY <1>1, <1>2 DEF HealthInv

\* The CPU has no part in the health of a GPU.
LEMMA HealthCpu == HealthInv /\ ReadCpu => HealthInv'
<1> SUFFICES ASSUME HealthInv, ReadCpu
             PROVE  HealthInv'
  OBVIOUS
<1>0. /\ "cpu" \in Sources /\ \A g \in Gpus : g # "cpu" /\ g \in Sources
      /\ health \in [Sources -> [failed : BOOLEAN, ever : BOOLEAN, fails : Nat]]
  BY SensorsAssumption, Thresholds DEF Sources, HealthInv, HealthShape
<1>1. CASE /\ health' = Available("cpu") /\ at' = SourceAfter("cpu")
           /\ UNCHANGED <<part, sample, blind>>
  <2>1. /\ health' \in [Sources -> [failed : BOOLEAN, ever : BOOLEAN, fails : Nat]]
        /\ \A g \in Gpus : health'[g] = health[g]
    BY <1>0, <1>1 DEF Available
  <2>2. at' \in {"idle"} \cup Before \cup After
    BY <1>1, SourceOrder DEF Before
  <2>3. \A g \in Gpus : ~Done(g) /\ ~Done(g)'
    BY <1>1, Turns, SensorsAssumption DEF ReadCpu, Done
  <2> QED BY <1>1, <2>1, <2>2, <2>3, HealthKeeps DEF ReadCpu, nvMemory
<1>2. CASE health' = Unavailable("cpu") /\ RaiseError
  <2>1. /\ health' \in [Sources -> [failed : BOOLEAN, ever : BOOLEAN, fails : Nat]]
        /\ \A g \in Gpus : health'[g] = health[g]
    BY <1>0, <1>2, Failing DEF HealthInv
  <2>2. HealthShape'
    BY <1>2, <2>1 DEF ReadCpu, HealthInv, HealthShape, RaiseError, NoParts, Kinds
  <2>3. ASSUME NEW g \in Gpus
        PROVE  Bridged(g)'
    <3>1. /\ blind'[g] = 0 /\ at' = "idle" /\ known' = known /\ Threshold[g] \in Nat \ {0}
          /\ health[g].fails \in Nat
      BY <1>0, <1>2, Thresholds DEF ReadCpu, RaiseError
    <3> QED BY <2>1, <3>1 DEF HealthInv, Bridged, Done
  <2> QED BY <2>2, <2>3 DEF HealthInv
<1> QED BY <1>1, <1>2 DEF ReadCpu

\* A failed query bridges, loses or raises.
LEMMA HealthNvidia ==
  ASSUME HealthInv, "nvidia" \in Gpus, at \in {"nvidia", "query"}, NvidiaFails, known' = known
  PROVE  HealthInv'
<1>1. CASE Raises("nvidia", NvThreshold)
  BY <1>1, HealthRaises DEF NvidiaFails
<1>2. CASE ~Raises("nvidia", NvThreshold)
  <2>1. /\ health' = Unavailable("nvidia") /\ at' = SourceAfter("nvidia") /\ blind' = blind
        /\ part' = [part EXCEPT !["nvidia"] = IF nvCache THEN "reused" ELSE "none"]
    BY <1>2 DEF NvidiaFails
  <2>2. part' \in [Gpus -> Kinds] /\ \A g \in Gpus : g # "nvidia" => part'[g] = part[g]
    BY <2>1 DEF HealthInv, HealthShape, Kinds
  <2>3. ~Done("nvidia") /\ \A g \in Gpus : g # "nvidia" => ~Done(g) /\ ~Done(g)'
    BY <2>1, Turns, SensorsAssumption DEF Done
  <2> QED BY <1>2, <2>1, <2>2, <2>3, Thresholds, SensorsAssumption, HealthFails
<1> QED BY <1>1, <1>2

\* So does a failed read of the AMD GPU.
LEMMA HealthAmd ==
  ASSUME HealthInv, "amd" \in Gpus, at = "amd", NEW threshold \in {AmdThreshold, 1},
         health' = Unavailable("amd"),
         IF Raises("amd", threshold)
         THEN RaiseError
         ELSE /\ part' \in {part, [part EXCEPT !["amd"] = "none"],
                             [part EXCEPT !["amd"] = "reused"]}
              /\ at' = SourceAfter("amd") /\ blind' = blind,
         known' = known, nvSuspended' = nvSuspended
  PROVE  HealthInv'
<1>1. CASE Raises("amd", threshold)
  BY <1>1, HealthRaises
<1>2. CASE ~Raises("amd", threshold)
  <2>2. part' \in [Gpus -> Kinds] /\ \A g \in Gpus : g # "amd" => part'[g] = part[g]
    BY <1>2 DEF HealthInv, HealthShape, Kinds
  <2>3. ~Done("amd") /\ \A g \in Gpus : g # "amd" => Done(g) /\ Done(g)'
    BY <1>2, Turns, SensorsAssumption DEF Done
  <2>4. threshold \in Nat \ {0} /\ (threshold = Threshold["amd"] \/ threshold = 1)
    BY SensorsAssumption, Thresholds
  <2> QED BY <1>2, <2>2, <2>3, <2>4, HealthFails
<1> QED BY <1>1, <1>2

\* The sample that is returned counts the blind reads.
LEMMA HealthReturns == HealthInv /\ ReturnSample => HealthInv'
<1> SUFFICES ASSUME HealthInv, ReturnSample
             PROVE  HealthInv'
  OBVIOUS
<1>1. /\ at = "return" /\ at' = "idle" /\ health' = health /\ known' = known
      /\ blind' = [s \in Gpus |-> IF ~Blind(s) THEN 0 ELSE blind[s] + 1] /\ part' = NoParts
  BY DEF ReturnSample
<1>2. HealthShape'
  BY <1>1 DEF HealthInv, HealthShape, NoParts, Kinds
<1>3. ASSUME NEW g \in Gpus
      PROVE  Bridged(g)'
  <2>1. /\ g \in Sources /\ Threshold[g] \in Nat \ {0} /\ blind[g] \in Nat
        /\ health[g].fails \in Nat /\ Done(g) /\ ~Done(g)'
    BY <1>1, Thresholds DEF HealthInv, HealthShape, Done
  <2>2. CASE Blind(g)
    BY <1>1, <2>1, <2>2 DEF HealthInv, Bridged
  <2>3. CASE ~Blind(g)
    BY <1>1, <2>1, <2>3 DEF HealthInv, Bridged
  <2> QED BY <2>2, <2>3
<1> QED BY <1>2, <1>3 DEF HealthInv

\* Only sources that are configured have turns.
Asked == (at \in {"nvidia", "query"} => "nvidia" \in Gpus) /\ (at = "amd" => "amd" \in Gpus)

\* The order of the sources skips the others.
LEMMA AskedStep == Asked /\ [Next]_vars => Asked'
<1>1. ASSUME Asked, QuickStep
      PROVE  Asked'
  BY <1>1 DEF Asked, SourceAfter, QuickStep, ReadCpu, NvidiaStatus, QueryCannotStart, AmdAnswers,
     AmdUnreadable, AmdGone, ReturnSample, NvidiaFails, RaiseError
<1>2. ASSUME Asked, NEW t, Query(t)
      PROVE  Asked'
  BY <1>2 DEF Asked, SourceAfter, Query, QueryAnswers, QueryFails, NvidiaFails, RaiseError
<1>3. ASSUME Asked, Top
      PROVE  Asked'
  BY <1>3 DEF Asked, Top, BeginRead, sensorVars
<1>4. ASSUME Asked, Sleep \/ SliceEnds \/ ProfileChanges \/ HardwareChanges \/ UNCHANGED vars
      PROVE  Asked'
  BY <1>4 DEF Asked, Sleep, SliceEnds, ProfileChanges, HardwareChanges, HardwareStep, vars,
     sensorVars
<1> QED BY <1>1, <1>2, <1>3, <1>4 DEF Next, ProcessStep, Read

\* A GPU in runtime suspend is missing without a failure.
LEMMA HealthSuspends ==
  ASSUME HealthInv, at = "nvidia", at' = SourceAfter("nvidia"), nvSuspended',
         UNCHANGED <<health, part, known, blind>>
  PROVE  HealthInv'
<1>1. HealthShape' /\ at' \in After
  BY SourceOrder DEF HealthInv, HealthShape
<1>2. ASSUME NEW g \in Gpus
      PROVE  Bridged(g)'
  <2>1. Done(g)' => ~Blind(g)'
    BY Turns, SensorsAssumption DEF Done, Blind
  <2>2. ~Done(g)
    BY DEF Done
  <2> QED BY <2>1, <2>2 DEF HealthInv, Bridged
<1> QED BY <1>1, <1>2 DEF HealthInv

\* Every step keeps the counts together.
LEMMA HealthStep == Asked /\ HealthInv /\ [Next]_vars => HealthInv'
<1> SUFFICES ASSUME Asked, HealthInv, [Next]_vars
             PROVE  HealthInv'
  OBVIOUS
<1>0. /\ health \in [Sources -> [failed : BOOLEAN, ever : BOOLEAN, fails : Nat]]
      /\ at \in {"idle"} \cup Before \cup After
  BY DEF HealthInv, HealthShape
<1>1. ASSUME UNCHANGED <<health, at, part, known, blind, nvSuspended>>
      PROVE  HealthInv'
  BY <1>0, <1>1, HealthKeeps DEF Done
<1>2. CASE Top
  <2>1. CASE UNCHANGED sensorVars
    BY <1>1, <2>1 DEF sensorVars, nvMemory, history
  <2>2. CASE BeginRead
    BY <1>0, <2>2, HealthKeeps DEF BeginRead, Done, nvMemory, history, Before
  <2> QED BY <1>2, <2>1, <2>2 DEF Top
<1>3. CASE QuickStep
  <2>1. CASE ReadCpu
    BY <2>1, HealthCpu
  <2>2. CASE NvidiaStatus
    <3>0. at = "nvidia" /\ known' = known /\ "nvidia" \in Gpus
      BY <2>2 DEF NvidiaStatus, Asked
    <3>1. CASE ~nvSmi'
      BY <2>2, <3>0, <3>1, HealthNvidia DEF NvidiaStatus
    <3>2. CASE nvSmi' /\ nvSuspended'
      BY <2>2, <3>0, <3>2, HealthSuspends DEF NvidiaStatus
    <3>3. CASE nvSmi' /\ ~nvSuspended'
      <4>1. at' = "query" /\ UNCHANGED <<health, part, known, blind>>
        BY <2>2, <3>3 DEF NvidiaStatus
      <4>2. at' \notin After /\ at' \in Before /\ \A g \in Gpus : Done(g) <=> Done(g)'
        BY <3>0, <4>1 DEF Done, After, Before
      <4> QED BY <1>0, <4>1, <4>2, HealthKeeps
    <3> QED BY <3>1, <3>2, <3>3
  <2>3. CASE QueryCannotStart
    BY <2>3, HealthNvidia DEF QueryCannotStart, Asked
  <2>4. CASE AmdAnswers
    <3>1. "amd" \in Gpus /\ ~Done("amd") /\ \A g \in Gpus : g # "amd" => Done(g) /\ Done(g)'
      BY <2>4, Turns, SensorsAssumption DEF AmdAnswers, Done, Asked
    <3>2. blind' = blind /\ nvSuspended' = nvSuspended
      BY <2>4 DEF AmdAnswers, nvMemory
    <3> QED BY <2>4, <3>1, <3>2, HealthAnswers DEF AmdAnswers
  <2>5. CASE AmdUnreadable
    <3>1. /\ at = "amd" /\ health' = Unavailable("amd") /\ known' = known
          /\ nvSuspended' = nvSuspended
          /\ IF Raises("amd", AmdThreshold)
             THEN RaiseError
             ELSE /\ part' = [part EXCEPT !["amd"] = IF amdCache THEN "reused" ELSE "none"]
                  /\ at' = SourceAfter("amd") /\ blind' = blind
      BY <2>5 DEF AmdUnreadable, nvMemory
    <3> QED BY <3>1, HealthAmd DEF Asked
  <2>6. CASE AmdGone
    <3>1. /\ at = "amd" /\ health' = Unavailable("amd") /\ known' = known
          /\ nvSuspended' = nvSuspended
          /\ IF Raises("amd", 1)
             THEN RaiseError
             ELSE part' = part /\ at' = SourceAfter("amd") /\ blind' = blind
      BY <2>6 DEF AmdGone, nvMemory
    <3> QED BY <3>1, HealthAmd DEF Asked
  <2>7. CASE ReturnSample
    BY <2>7, HealthReturns
  <2> QED BY <1>3, <2>1, <2>2, <2>3, <2>4, <2>5, <2>6, <2>7 DEF QuickStep
<1>4. ASSUME NEW t \in 0..QueryTime, Query(t)
      PROVE  HealthInv'
  <2>0. at = "query" /\ "nvidia" \in Gpus
    BY <1>4, QueryOrder DEF Asked
  <2>1. CASE QueryAnswers(t)
    <3>1. ~Done("nvidia") /\ at' = SourceAfter("nvidia")
      BY <2>0, <2>1, SensorsAssumption DEF QueryAnswers, Done
    <3>2. \A g \in Gpus : g # "nvidia" => ~Done(g) /\ ~Done(g)'
      BY <2>0, <3>1, Turns, SensorsAssumption DEF Done
    <3> QED BY <2>0, <2>1, <3>1, <3>2, HealthAnswers DEF QueryAnswers
  <2>2. CASE QueryFails(t)
    BY <2>0, <2>2, HealthNvidia DEF QueryFails
  <2> QED BY <1>4, <2>1, <2>2 DEF Query
<1>5. CASE Sleep \/ SliceEnds \/ ProfileChanges \/ UNCHANGED vars
  BY <1>1, <1>5 DEF Sleep, SliceEnds, ProfileChanges, vars, sensorVars, nvMemory, history
<1>6. CASE HardwareChanges
  BY <1>1, <1>6 DEF HardwareChanges, HardwareStep, nvMemory
<1> QED BY <1>2, <1>3, <1>4, <1>5, <1>6 DEF Next, ProcessStep, Read

\* For every threshold and every mixture of failures, resets and suspends a source
\* that has delivered is missing for fewer samples in a row than its threshold.
THEOREM LossIsBridged == Spec => []LossIsBridgedBriefly
<1>1. HealthInv => LossIsBridgedBriefly
  BY DEF HealthInv, Bridged, LossIsBridgedBriefly
<1>2. Init => Asked /\ HealthInv
  BY HealthInit DEF Init, SensorsInit, Asked
<1>3. (Asked /\ HealthInv) /\ [Next]_vars => (Asked /\ HealthInv)'
  BY AskedStep, HealthStep
<1> QED BY <1>1, <1>2, <1>3, PTL DEF Spec

-----------------------------------------------------------------------------
(* What a sample says.                                                     *)

\* Readings measured before a suspend are gone with the session, and a suspended
\* GPU adds none.
Session ==
  /\ slept => ~nvCache
  /\ at \in {"idle"} \cup Before => part["nvidia"] = "none"
  /\ at = "query" => ~nvSuspended
  /\ at \in After => /\ part["nvidia"] = "reused" => nvCache
                     /\ nvSuspended => part["nvidia"] = "none"
  /\ at # "idle" => ~sample.ok
  /\ sample.ok => /\ sample.asleep => sample.gpu["nvidia"] = "none"
                  /\ sample.gpu["nvidia"] = "reused" => ~slept

SessionInv == "nvidia" \in Gpus => Session

\* No session of NVML has begun.
LEMMA SessionInit == Init => SessionInv
BY DEF Init, SensorsInit, SessionInv, Session, NoParts, NoSample, After

\* A failed query leaves the last metrics, or nothing.
LEMMA SessionFails ==
  ASSUME "nvidia" \in Gpus, HealthInv, Session, at \in {"nvidia", "query"}, NvidiaFails,
         nvCache' = nvCache, slept' = slept, ~nvSuspended'
  PROVE  Session'
<1>1. "nvidia" \in Gpus /\ part \in [Gpus -> Kinds]
  BY DEF HealthInv, HealthShape
<1>2. CASE RaiseError
  BY <1>1, <1>2 DEF RaiseError, Session, NoParts, NoSample, After
<1>3. CASE /\ part' = [part EXCEPT !["nvidia"] = IF nvCache THEN "reused" ELSE "none"]
           /\ at' = SourceAfter("nvidia") /\ sample' = sample
  <2>1. at' \in After /\ at' \notin {"idle"} \cup Before
    BY <1>3, SourceOrder DEF After, Before
  <2>2. part'["nvidia"] = IF nvCache THEN "reused" ELSE "none"
    BY <1>1, <1>3
  <2>3. ~sample.ok /\ at # "idle"
    BY DEF Session
  <2> QED BY <1>3, <2>1, <2>2, <2>3 DEF Session, Before, After
<1> QED BY <1>2, <1>3 DEF NvidiaFails

\* Every step keeps the sessions apart.
LEMMA SessionStep == Asked /\ HealthInv /\ SessionInv /\ [Next]_vars => SessionInv'
<1> SUFFICES ASSUME Asked, HealthInv, Session, [Next]_vars, "nvidia" \in Gpus
             PROVE  Session'
  BY DEF SessionInv
<1>0. part \in [Gpus -> Kinds]
  BY DEF HealthInv, HealthShape
<1>1. ASSUME UNCHANGED <<nvCache, nvSuspended, part, at, sample, slept>>
      PROVE  Session'
  BY <1>1 DEF Session
<1>2. CASE Top
  <2>1. CASE UNCHANGED sensorVars
    BY <1>1, <2>1 DEF sensorVars, nvMemory, history
  <2>2. CASE BeginRead
    BY <2>2 DEF BeginRead, Session, NoSample, nvMemory, history, Before, After
  <2> QED BY <1>2, <2>1, <2>2 DEF Top
<1>3. ASSUME RaiseError, UNCHANGED <<nvSuspended, slept>>, nvCache' = nvCache
      PROVE  Session'
  BY <1>3 DEF RaiseError, Session, NoParts, NoSample, After
<1>4. CASE QuickStep
  <2>1. CASE ReadCpu
    <3>1. at = "cpu" /\ UNCHANGED <<nvCache, nvSuspended, slept>>
      BY <2>1 DEF ReadCpu, nvMemory
    <3>2. CASE RaiseError
      BY <1>3, <3>1, <3>2
    <3>3. CASE at' = SourceAfter("cpu") /\ UNCHANGED <<part, sample>>
      BY <3>1, <3>3 DEF SourceAfter, Session, Before, After
    <3> QED BY <2>1, <3>2, <3>3 DEF ReadCpu
  <2>2. CASE NvidiaStatus
    <3>0. at = "nvidia"
      BY <2>2 DEF NvidiaStatus
    <3>1. CASE ~nvSmi'
      BY <2>2, <3>0, <3>1, SessionFails DEF NvidiaStatus
    <3>2. CASE nvSmi' /\ nvSuspended'
      <4>1. /\ nvCache' = FALSE /\ at' = SourceAfter("nvidia") /\ UNCHANGED <<part, sample>>
        BY <2>2, <3>2 DEF NvidiaStatus, EndSession
      <4>2. at' \in After
        BY <4>1, SourceOrder
      <4> QED BY <3>0, <4>1, <4>2 DEF Session, Before, After
    <3>3. CASE nvSmi' /\ ~nvSuspended'
      BY <2>2, <3>0, <3>3 DEF NvidiaStatus, Session, Before, After
    <3> QED BY <3>1, <3>2, <3>3
  <2>3. CASE QueryCannotStart
    <3>1. at = "query" /\ NvidiaFails /\ UNCHANGED <<nvCache, nvSuspended, slept>>
      BY <2>3 DEF QueryCannotStart
    <3> QED BY <3>1, SessionFails DEF Session
  <2>4. CASE AmdAnswers \/ AmdUnreadable \/ AmdGone
    <3>1. at = "amd" /\ UNCHANGED <<nvCache, nvSuspended, slept>>
      BY <2>4 DEF AmdAnswers, AmdUnreadable, AmdGone, nvMemory
    <3>2. CASE RaiseError
      BY <1>3, <3>1, <3>2
    <3>3. CASE at' = SourceAfter("amd") /\ sample' = sample /\ part'["nvidia"] = part["nvidia"]
      BY <3>1, <3>3 DEF SourceAfter, Session, Before, After
    <3> QED BY <1>0, <2>4, <3>2, <3>3 DEF AmdAnswers, AmdUnreadable, AmdGone
  <2>5. CASE ReturnSample
    <3>1. at = "return" /\ at' = "idle" /\ UNCHANGED <<nvCache, nvSuspended, slept>>
      BY <2>5 DEF ReturnSample, nvMemory
    <3>2. sample'.gpu = part /\ sample'.asleep = nvSuspended /\ part'["nvidia"] = "none"
      BY <2>5 DEF ReturnSample, NoParts
    <3> QED BY <3>1, <3>2 DEF Session, Before, After
  <2> QED BY <1>4, <2>1, <2>2, <2>3, <2>4, <2>5 DEF QuickStep
<1>5. ASSUME NEW t \in 0..QueryTime, Query(t)
      PROVE  Session'
  <2>0. at = "query" /\ nvSuspended' = nvSuspended
    BY <1>5 DEF Query, QueryAnswers, QueryFails
  <2>1. CASE QueryAnswers(t)
    <3>1. /\ nvCache' /\ ~slept' /\ sample' = sample /\ part'["nvidia"] = "fresh"
      BY <1>0, <2>1 DEF QueryAnswers
    <3>2. at' \in After
      BY <2>1, SourceOrder DEF QueryAnswers
    <3> QED BY <2>0, <3>1, <3>2 DEF Session, Before, After
  <2>2. CASE QueryFails(t)
    BY <2>0, <2>2, SessionFails DEF QueryFails, Session
  <2> QED BY <1>5, <2>1, <2>2 DEF Query
<1>6. CASE Sleep \/ SliceEnds \/ ProfileChanges \/ HardwareChanges \/ UNCHANGED vars
  BY <1>1, <1>6 DEF Sleep, SliceEnds, ProfileChanges, HardwareChanges, HardwareStep, vars,
     sensorVars, nvMemory, history
<1> QED BY <1>2, <1>4, <1>5, <1>6 DEF Next, ProcessStep, Read

\* Whatever the order of suspends, wake-ups and failing queries, no reading from
\* before a reported suspend is given out after it.
THEOREM SessionsAreApart == Spec => []NoReadingAcrossSuspend
<1>1. SessionInv => NoReadingAcrossSuspend
  BY DEF SessionInv, Session, NoReadingAcrossSuspend
<1>2. Init => Asked /\ HealthInv /\ SessionInv
  BY HealthInit, SessionInit DEF Init, SensorsInit, Asked
<1>3. (Asked /\ HealthInv /\ SessionInv) /\ [Next]_vars => (Asked /\ HealthInv /\ SessionInv)'
  BY AskedStep, HealthStep, SessionStep
<1> QED BY <1>1, <1>2, <1>3, PTL DEF Spec

\* A streak marks its source as failed, so that a sample which lacks the source
\* names it among the degraded ones.
Marked == \A s \in Gpus : health[s].fails >= 1 => health[s].failed

FitInv == Marked /\ FitMeansMeasured

\* There is no sample yet.
LEMMA FitInit == Init => FitInv
BY Thresholds DEF Init, SensorsInit, FitInv, Marked, FitMeansMeasured, Fit, NewHealth, NoSample

\* The health of a source changes by an answer or by a failure.
LEMMA MarkedStep ==
  ASSUME HealthInv, Marked, NEW s \in Sources,
         health' = health \/ health' = Available(s) \/ health' = Unavailable(s)
  PROVE  Marked'
<1> SUFFICES ASSUME NEW g \in Gpus
             PROVE  health'[g].fails >= 1 => health'[g].failed
  BY DEF Marked
<1>1. g \in Sources /\ health \in [Sources -> [failed : BOOLEAN, ever : BOOLEAN, fails : Nat]]
  BY Thresholds DEF HealthInv, HealthShape
<1>2. CASE health' = health
  BY <1>2 DEF Marked
<1>3. CASE health' = Available(s)
  BY <1>1, <1>3 DEF Available, Marked
<1>4. CASE health' = Unavailable(s)
  <2>1. Unavailable(s)[s].failed
    BY <1>1 DEF Unavailable
  <2>2. g # s => health'[g] = health[g]
    BY <1>1, <1>4, Failing DEF HealthInv
  <2> QED BY <1>4, <2>1, <2>2 DEF Marked
<1> QED BY <1>2, <1>3, <1>4

\* The sample that a read returns.
LEMMA FitReturns == HealthInv /\ Marked /\ ReturnSample => FitMeansMeasured'
<1> SUFFICES ASSUME HealthInv, Marked, ReturnSample, Fit', NEW s \in known'
             PROVE  sample'.gpu[s] = "fresh" \/ (s = "nvidia" /\ sample'.asleep)
  BY DEF FitMeansMeasured
<1>1. /\ sample' = [ok |-> TRUE, gpu |-> part, asleep |-> nvSuspended,
                    degraded |-> DegradedSources]
      /\ known' = known /\ at = "return"
  BY DEF ReturnSample
<1>2. s \in Gpus /\ s \in Sources /\ s \in known /\ FailurePolicy[s] = "after"
  BY <1>1, Thresholds DEF HealthInv, HealthShape
<1>3. SUFFICES ASSUME Blind(s)
               PROVE  FALSE
  BY <1>1, <1>2 DEF Blind
<1>4. blind[s] \in Nat /\ health[s].fails \in Nat /\ blind[s] < health[s].fails /\ health[s].ever
  BY <1>1, <1>2, <1>3 DEF HealthInv, HealthShape, Bridged, Done
<1>5. health[s].failed
  BY <1>2, <1>4 DEF Marked
<1>6. s \in DegradedSources
  BY <1>2, <1>3, <1>4, <1>5 DEF DegradedSources, Degraded, Blind
<1> QED BY <1>1, <1>6 DEF Fit

\* Every step keeps the streaks marked and the samples fit.
LEMMA FitStep == Asked /\ HealthInv /\ FitInv /\ [Next]_vars => FitInv'
<1> SUFFICES ASSUME Asked, HealthInv, FitInv, [Next]_vars
             PROVE  FitInv'
  OBVIOUS
<1>0. Marked /\ FitMeansMeasured /\ "cpu" \in Sources /\ Gpus \subseteq Sources
  BY DEF FitInv, Sources
<1>1. ASSUME RaiseError \/ at' # "idle"
      PROVE  FitMeansMeasured'
  BY <1>1 DEF RaiseError, FitMeansMeasured, Fit, NoSample
<1>2. ASSUME UNCHANGED <<health, at, sample, known>>
      PROVE  FitInv'
  BY <1>0, <1>2 DEF FitInv, Marked, FitMeansMeasured, Fit, HasCachedReadings
<1>3. CASE Top
  <2>1. CASE UNCHANGED sensorVars
    BY <1>2, <2>1 DEF sensorVars, history
  <2>2. CASE BeginRead
    BY <1>0, <1>1, <2>2 DEF BeginRead, FitInv, Marked
  <2> QED BY <1>3, <2>1, <2>2 DEF Top
<1>4. ASSUME QuickStep
      PROVE  FitInv'
  <2>1. Marked'
    <3>1. \E s \in Sources : health' = health \/ health' = Available(s) \/ health' = Unavailable(s)
      BY <1>0, <1>4 DEF Asked, QuickStep, ReadCpu, NvidiaStatus, QueryCannotStart, AmdAnswers,
         AmdUnreadable, AmdGone, ReturnSample, NvidiaFails
    <3> QED BY <1>0, <3>1, MarkedStep
  <2>2. CASE ReturnSample
    BY <1>0, <2>1, <2>2, FitReturns DEF FitInv
  <2>3. CASE ~ReturnSample
    <3>1. RaiseError \/ at' # "idle"
      BY <1>4, <2>3, SourceOrder DEF QuickStep, ReadCpu, NvidiaStatus, QueryCannotStart,
         AmdAnswers, AmdUnreadable, AmdGone, NvidiaFails, After
    <3> QED BY <1>1, <2>1, <3>1 DEF FitInv
  <2> QED BY <2>2, <2>3
<1>5. ASSUME NEW t \in 0..QueryTime, Query(t)
      PROVE  FitInv'
  <2>1. \E s \in Sources : health' = Available(s) \/ health' = Unavailable(s)
    BY <1>0, <1>5 DEF Asked, Query, QueryAnswers, QueryFails, NvidiaFails
  <2>2. RaiseError \/ at' # "idle"
    BY <1>5, SourceOrder DEF Query, QueryAnswers, QueryFails, NvidiaFails, After
  <2> QED BY <1>0, <1>1, <2>1, <2>2, MarkedStep DEF FitInv
<1>6. CASE Sleep \/ SliceEnds \/ ProfileChanges \/ HardwareChanges \/ UNCHANGED vars
  BY <1>2, <1>6 DEF Sleep, SliceEnds, ProfileChanges, HardwareChanges, HardwareStep, vars,
     sensorVars, history
<1> QED BY <1>3, <1>4, <1>5, <1>6 DEF Next, ProcessStep, Read

\* What the stop handoff takes for a full description of the machine is one, for
\* every pair of sources and every threshold.
THEOREM FitIsMeasured == Spec => []FitMeansMeasured
<1>1. FitInv => FitMeansMeasured
  BY DEF FitInv
<1>2. Init => Asked /\ HealthInv /\ FitInv
  BY HealthInit, FitInit DEF Init, SensorsInit, Asked
<1>3. (Asked /\ HealthInv /\ FitInv) /\ [Next]_vars => (Asked /\ HealthInv /\ FitInv)'
  BY AskedStep, HealthStep, FitStep
<1> QED BY <1>1, <1>2, <1>3, PTL DEF Spec

-----------------------------------------------------------------------------
(* What the variables hold.                                                *)

\* The hardware, the adapter's memory of it, and the clocks.
Devices ==
  /\ devices \subseteq PciPaths /\ sleeping \subseteq devices
  /\ smiHere \in BOOLEAN /\ repaired \in BOOLEAN
Memory ==
  /\ nvSmi \in BOOLEAN /\ nvFiles \subseteq PciPaths
  /\ nvCache \in BOOLEAN /\ nvSuspended \in BOOLEAN /\ amdCache \in BOOLEAN
  /\ slept \in BOOLEAN
Clocks ==
  /\ smiIn \in 0..Discovery /\ pciIn \in 0..Discovery
  /\ asleepFor \in 0..Discovery /\ sinceRepair \in 0..Discovery + QueryTime
Streaks == \A s \in Sources : health[s].fails <= Threshold[s]
Sampled ==
  sample \in [ok : BOOLEAN, gpu : [Gpus -> Kinds], asleep : BOOLEAN, degraded : SUBSET Sources]
Waiting == sliceLeft <= Longest /\ waitLeft <= Longest

Kept == Devices /\ Memory /\ Clocks /\ Streaks /\ Sampled /\ Waiting

\* A start has every variable in its range.
LEMMA KeptInit == Init => Kept
<1> SUFFICES ASSUME Init
             PROVE  Kept
  OBVIOUS
<1>1. Devices /\ Sampled
  BY DEF Init, SensorsInit, Devices, Sampled, NoSample, NoParts, Kinds
<1>2. Memory
  BY DEF Init, SensorsInit, Devices, Memory, StatusFiles
<1>3. Clocks /\ Waiting
  BY SensorsAssumption, SamplingAssumption
     DEF Init, SensorsInit, Clocks, Waiting, Longest
<1>4. Streaks
  <2> SUFFICES ASSUME NEW s \in Sources
               PROVE  health[s].fails <= Threshold[s]
    BY DEF Streaks
  <2>1. health[s].fails = 0
    BY DEF Init, SensorsInit, NewHealth
  <2> QED BY <2>1, Thresholds
<1> QED BY <1>1, <1>2, <1>3, <1>4 DEF Kept

\* The hardware changes of itself; a query leaves the GPU active.
LEMMA DevicesStep == Devices /\ [Next]_vars => Devices'
<1> SUFFICES ASSUME Devices, [Next]_vars
             PROVE  Devices'
  OBVIOUS
<1>1. ASSUME UNCHANGED hardware
      PROVE  Devices'
  BY <1>1 DEF Devices, hardware
<1>2. CASE Top \/ QuickStep
  BY <1>1, <1>2 DEF Top, BeginRead, sensorVars, QuickStep, ReadCpu, NvidiaStatus,
     QueryCannotStart, AmdAnswers, AmdUnreadable, AmdGone, ReturnSample
<1>3. ASSUME NEW t \in 0..QueryTime, Query(t)
      PROVE  Devices'
  BY <1>3 DEF Devices, Query, QueryAnswers, QueryFails
<1>4. CASE HardwareStep
  BY <1>4 DEF Devices, HardwareStep, GpuMoves, GpuPowerChanges, SmiChanges, Repair
<1>5. CASE Sleep \/ SliceEnds \/ ProfileChanges \/ UNCHANGED vars
  BY <1>1, <1>5 DEF Sleep, SliceEnds, ProfileChanges, vars, sensorVars
<1> QED BY <1>2, <1>3, <1>4, <1>5 DEF Next, ProcessStep, Read, HardwareChanges

\* What the adapter remembers is made of what the hardware shows.
LEMMA MemoryStep == Devices /\ Memory /\ [Next]_vars => Memory'
<1> SUFFICES ASSUME Devices, Memory, [Next]_vars
             PROVE  Memory'
  OBVIOUS
<1>1. ASSUME UNCHANGED <<nvMemory, slept, amdCache>>
      PROVE  Memory'
  BY <1>1 DEF Memory, nvMemory
<1>2. CASE Top
  BY <1>1, <1>2 DEF Top, BeginRead, sensorVars, history
<1>3. CASE QuickStep
  <2>1. CASE ReadCpu \/ ReturnSample
    BY <1>1, <2>1 DEF ReadCpu, ReturnSample
  <2>2. CASE NvidiaStatus
    <3>1. nvSmi' \in BOOLEAN /\ nvFiles' \subseteq PciPaths
      BY <2>2 DEF NvidiaStatus, FindSmi, FindFiles, StatusFiles, Devices, Memory
    <3>2. nvCache' \in BOOLEAN /\ slept' \in BOOLEAN /\ amdCache' = amdCache
      BY <2>2 DEF NvidiaStatus, EndSession, Memory
    <3>3. nvSuspended' \in BOOLEAN
      BY <2>2, Zenon DEF NvidiaStatus
    <3> QED BY <3>1, <3>2, <3>3 DEF Memory
  <2>3. CASE QueryCannotStart \/ AmdAnswers \/ AmdUnreadable \/ AmdGone
    BY <2>3 DEF QueryCannotStart, AmdAnswers, AmdUnreadable, AmdGone, Memory, nvMemory
  <2> QED BY <1>3, <2>1, <2>2, <2>3 DEF QuickStep
<1>4. ASSUME NEW t \in 0..QueryTime, Query(t)
      PROVE  Memory'
  BY <1>4 DEF Memory, Query, QueryAnswers, QueryFails
<1>5. CASE Sleep \/ SliceEnds \/ ProfileChanges \/ HardwareChanges \/ UNCHANGED vars
  BY <1>1, <1>5 DEF Sleep, SliceEnds, ProfileChanges, HardwareChanges, HardwareStep, vars,
     sensorVars, history, Memory, nvMemory
<1> QED BY <1>2, <1>3, <1>4, <1>5 DEF Next, ProcessStep, Read

\* Deadlines run down to zero, and what has elapsed is counted up to a limit.
LEMMA Elapses ==
  ASSUME NEW t \in Nat, Clocks, SensorTime(t)
  PROVE  Clocks'
<1> USE SensorsAssumption DEF Clocks
<1>1. Later(smiIn, t) \in 0..Discovery /\ Later(pciIn, t) \in 0..Discovery
  BY DEF Later
<1>2. /\ UpTo(Discovery, asleepFor + t) \in 0..Discovery
      /\ UpTo(Discovery + QueryTime, sinceRepair + t) \in 0..Discovery + QueryTime
  BY DEF UpTo
<1>3. smiIn' \in 0..Discovery /\ pciIn' \in 0..Discovery
  BY <1>1 DEF SensorTime
<1>4. asleepFor' \in 0..Discovery
  BY <1>2 DEF SensorTime
<1>5. sinceRepair' \in 0..Discovery + QueryTime
  BY <1>2 DEF SensorTime
<1> QED BY <1>3, <1>4, <1>5

\* Only queries and sleeping take time; a discovery starts its interval anew.
LEMMA ClocksStep == Clocks /\ [Next]_vars => Clocks'
<1> SUFFICES ASSUME Clocks, [Next]_vars
             PROVE  Clocks'
  OBVIOUS
<1> USE SensorsAssumption
<1>1. ASSUME UNCHANGED <<nvMemory, clocks>>
      PROVE  Clocks'
  BY <1>1 DEF Clocks, nvMemory, clocks
<1>2. CASE Top
  BY <1>1, <1>2 DEF Top, BeginRead, sensorVars, history
<1>3. CASE QuickStep
  <2>1. CASE ReadCpu \/ ReturnSample \/ AmdAnswers \/ AmdUnreadable \/ AmdGone
    BY <1>1, <2>1 DEF ReadCpu, ReturnSample, AmdAnswers, AmdUnreadable, AmdGone
  <2>2. CASE NvidiaStatus \/ QueryCannotStart
    BY <2>2 DEF NvidiaStatus, QueryCannotStart, FindSmi, FindFiles, Clocks, clocks
  <2> QED BY <1>3, <2>1, <2>2 DEF QuickStep
<1>4. ASSUME NEW t \in 0..QueryTime, Query(t)
      PROVE  Clocks'
  BY <1>4, Elapses DEF Query, QueryAnswers, QueryFails
<1>5. CASE Sleep
  BY <1>5, Elapses DEF Sleep
<1>6. CASE HardwareChanges
  <2>1. UNCHANGED <<smiIn, pciIn, sinceRepair>>
    BY <1>6 DEF HardwareChanges, HardwareStep, nvMemory
  <2>2. asleepFor' \in {0, asleepFor}
    BY <1>6 DEF HardwareChanges, HardwareStep, GpuMoves, GpuPowerChanges, SmiChanges, Repair,
       SleepGoesOn
  <2> QED BY <2>1, <2>2 DEF Clocks
<1>7. CASE SliceEnds \/ ProfileChanges \/ UNCHANGED vars
  BY <1>1, <1>7 DEF SliceEnds, ProfileChanges, vars, sensorVars, history
<1> QED BY <1>2, <1>3, <1>4, <1>5, <1>6, <1>7 DEF Next, ProcessStep, Read

\* The health of a source changes by an answer or by a failure of it.
LEMMA HealthMoves ==
  ASSUME Asked, [Next]_vars
  PROVE  \/ health' = health
         \/ \E s \in Sources : health' = Available(s) \/ health' = Unavailable(s)
<1>0. "cpu" \in Sources /\ Gpus \subseteq Sources
  BY DEF Sources
<1>1. CASE Top
  BY <1>1 DEF Top, BeginRead, sensorVars
<1>2. CASE QuickStep
  BY <1>0, <1>2 DEF Asked, QuickStep, ReadCpu, NvidiaStatus, QueryCannotStart, AmdAnswers,
     AmdUnreadable, AmdGone, ReturnSample, NvidiaFails
<1>3. ASSUME NEW t \in 0..QueryTime, Query(t)
      PROVE  \E s \in Sources : health' = Available(s) \/ health' = Unavailable(s)
  BY <1>0, <1>3 DEF Asked, Query, QueryAnswers, QueryFails, NvidiaFails
<1>4. CASE Sleep \/ SliceEnds \/ ProfileChanges \/ HardwareChanges \/ UNCHANGED vars
  BY <1>4 DEF Sleep, SliceEnds, ProfileChanges, HardwareChanges, HardwareStep, vars, sensorVars
<1> QED BY <1>1, <1>2, <1>3, <1>4 DEF Next, ProcessStep, Read

\* A failing source counts up to its threshold.
LEMMA StreaksStep == Asked /\ HealthInv /\ Streaks /\ [Next]_vars => Streaks'
<1> SUFFICES ASSUME Asked, HealthInv, Streaks, [Next]_vars, NEW g \in Sources
             PROVE  health'[g].fails <= Threshold[g]
  BY DEF Streaks
<1>1. /\ health \in [Sources -> [failed : BOOLEAN, ever : BOOLEAN, fails : Nat]]
      /\ Threshold[g] \in Nat \ {0} /\ health[g].fails <= Threshold[g]
  BY Thresholds DEF HealthInv, HealthShape, Streaks
<1>2. CASE health' = health
  BY <1>1, <1>2
<1>3. ASSUME NEW s \in Sources, health' = Available(s)
      PROVE  health'[g].fails <= Threshold[g]
  BY <1>1, <1>3 DEF Available
<1>4. ASSUME NEW s \in Sources, health' = Unavailable(s)
      PROVE  health'[g].fails <= Threshold[g]
  <2>1. CASE g = s
    <3> DEFINE r == health[g]
               n == IF r.fails < Threshold[g] THEN r.fails + 1 ELSE r.fails
    <3>1. r \in [failed : BOOLEAN, ever : BOOLEAN, fails : Nat]
      BY <1>1
    <3>2. n <= Threshold[g]
      BY <1>1, <3>1
    <3>3. health' = [health EXCEPT ![g] = [r EXCEPT !.failed = TRUE, !.fails = n]]
      BY <1>1, <1>4, <2>1 DEF Unavailable
    <3> HIDE DEF n
    <3>4. [r EXCEPT !.failed = TRUE, !.fails = n].fails = n
      BY <3>1
    <3> QED BY <1>1, <3>2, <3>3, <3>4
  <2>2. CASE g # s
    BY <1>1, <1>4, <2>2, Failing DEF HealthInv
  <2> QED BY <2>1, <2>2
<1> QED BY <1>2, <1>3, <1>4, HealthMoves

\* A read returns what it has gathered, or nothing.
LEMMA SampledStep == Memory /\ HealthInv /\ Sampled /\ [Next]_vars => Sampled'
<1> SUFFICES ASSUME Memory, HealthInv, Sampled, [Next]_vars
             PROVE  Sampled'
  OBVIOUS
<1>1. ASSUME sample' = sample \/ sample' = NoSample
      PROVE  Sampled'
  <2>1. NoSample \in [ok : BOOLEAN, gpu : [Gpus -> Kinds], asleep : BOOLEAN,
                      degraded : SUBSET Sources]
    <3>1. NoParts \in [Gpus -> Kinds]
      BY DEF NoParts, Kinds
    <3> QED BY <3>1 DEF NoSample
  <2> QED BY <1>1, <2>1 DEF Sampled
<1>2. CASE ReturnSample
  <2>1. part \in [Gpus -> Kinds] /\ nvSuspended \in BOOLEAN /\ DegradedSources \subseteq Sources
    BY DEF HealthInv, HealthShape, Memory, DegradedSources
  <2> QED BY <1>2, <2>1 DEF ReturnSample, Sampled
<1>3. CASE QuickStep /\ ~ReturnSample
  BY <1>1, <1>3 DEF QuickStep, ReadCpu, NvidiaStatus, QueryCannotStart, AmdAnswers,
     AmdUnreadable, AmdGone, NvidiaFails, RaiseError
<1>4. ASSUME NEW t \in 0..QueryTime, Query(t)
      PROVE  Sampled'
  BY <1>1, <1>4 DEF Query, QueryAnswers, QueryFails, NvidiaFails, RaiseError
<1>5. CASE Top
  BY <1>1, <1>5 DEF Top, BeginRead, sensorVars
<1>6. CASE Sleep \/ SliceEnds \/ ProfileChanges \/ HardwareChanges \/ UNCHANGED vars
  BY <1>1, <1>6 DEF Sleep, SliceEnds, ProfileChanges, HardwareChanges, HardwareStep, vars,
     sensorVars
<1> QED BY <1>2, <1>3, <1>4, <1>5, <1>6 DEF Next, ProcessStep, Read

\* A wait is cut into slices; no part of it is longer than the whole.
LEMMA WaitingStep == RhythmInv /\ Waiting /\ [Next]_vars => Waiting'
<1> SUFFICES ASSUME RhythmInv, Waiting, [Next]_vars
             PROVE  Waiting'
  OBVIOUS
<1>0. /\ sliceLeft \in Nat /\ waitLeft \in Nat /\ Longest \in Nat
      /\ SampleInterval <= Longest /\ InactiveWait <= Longest
  BY SamplingAssumption DEF RhythmInv, RhythmShape, Longest
<1>1. ASSUME NEW left \in Nat, left <= Longest, BeginWait(left)
      PROVE  Waiting'
  BY <1>0, <1>1, SliceBound, SamplingAssumption DEF BeginWait, Waiting, Slice, Longest
<1>2. CASE Top
  BY <1>0, <1>1, <1>2, SamplingAssumption DEF Top, Waiting, Longest
<1>3. CASE Read
  BY <1>0, <1>1, <1>3, SamplingAssumption DEF Read, Waiting, Longest
<1>4. CASE Sleep
  BY <1>0, <1>4 DEF Sleep, Waiting, Longest
<1>5. CASE SliceEnds
  BY <1>0, <1>1, <1>5 DEF SliceEnds, Waiting, Longest
<1>6. CASE ProfileChanges \/ HardwareChanges \/ UNCHANGED vars
  BY <1>6 DEF ProfileChanges, HardwareChanges, loopVars, vars, Waiting, Longest
<1> QED BY <1>2, <1>3, <1>4, <1>5, <1>6 DEF Next, ProcessStep

\* What the variables hold, and the invariants of the sections above.
SampleInv == RhythmInv /\ Noticed /\ Asked /\ HealthInv /\ SessionInv /\ Kept

\* All of it holds throughout.
LEMMA SampleInvariant == Spec => []SampleInv
<1>1. Init => SampleInv
  BY RhythmInit, NoticedInit, HealthInit, SessionInit, KeptInit
     DEF SampleInv, Init, SensorsInit, Asked
<1>2. SampleInv /\ [Next]_vars => SampleInv'
  BY RhythmStep, NoticedStep, AskedStep, HealthStep, SessionStep, DevicesStep, MemoryStep,
     ClocksStep, StreaksStep, SampledStep, WaitingStep DEF SampleInv, Kept
<1> QED BY <1>1, <1>2, PTL DEF Spec

\* Every variable of the sources and of the loop stays in its range: no deadline runs
\* below zero, no streak passes its threshold, no wait outlasts the longest interval.
THEOREM SamplingTypeCorrect == Spec => []SamplingTypeOK
<1>1. SampleInv => SamplingTypeOK
  <2> SUFFICES ASSUME SampleInv
               PROVE  SamplingTypeOK
    OBVIOUS
  <2> USE DEF SampleInv, Kept
  <2>1. \A s \in Gpus : blind[s] \in 0..Threshold[s]
    <3> SUFFICES ASSUME NEW s \in Gpus
                 PROVE  blind[s] \in 0..Threshold[s]
      OBVIOUS
    <3>1. blind[s] \in Nat /\ blind[s] < Threshold[s] /\ Threshold[s] \in Nat
      BY Thresholds DEF HealthInv, HealthShape, Bridged
    <3> QED BY <3>1
  <2>2. SensorsTypeOK
    BY <2>1 DEF SensorsTypeOK, HealthInv, HealthShape, Devices, Memory, Clocks, Streaks, Sampled,
       Before, After
  <2>3. /\ sliceLeft \in 0..Longest /\ waitLeft \in 0..Longest /\ fedFor \in 0..WatchdogSec
        /\ unseenFor \in 0..WatchdogSec
    BY SilenceBound, SamplingAssumption, SensorsAssumption
       DEF RhythmInv, RhythmShape, Fed, Noticed, Waiting, Longest
  <2> QED BY <2>2, <2>3 DEF SamplingTypeOK, RhythmInv, RhythmShape, Noticed
<1> QED BY <1>1, SampleInvariant, PTL

-----------------------------------------------------------------------------
(* GPUs that sleep, and sources that come back.                            *)

\* GPUs that all sleep are known by a status file, or the scan that finds them is
\* due before they have slept for a discovery interval; a query that starts all
\* the same was decided before they fell asleep, or before that scan.
Found == AllAsleep => nvFiles # {} \/ pciIn + asleepFor <= Discovery
Dozing == AllAsleep /\ at = "query" => asleepFor < Discovery

\* At the start nothing has been asleep for long.
LEMMA SleeperInit == Init => Found /\ Dozing
BY SensorsAssumption DEF Init, SensorsInit, Found, Dozing

\* Time brings the scan nearer as fast as the GPUs sleep.
LEMMA SleepsOn ==
  ASSUME NEW t \in Nat, Clocks, Found, SensorTime(t), UNCHANGED <<devices, sleeping, nvFiles>>
  PROVE  Found'
<1> SUFFICES ASSUME AllAsleep', nvFiles = {}
             PROVE  pciIn' + asleepFor' <= Discovery
  BY DEF Found
<1>1. AllAsleep /\ pciIn + asleepFor <= Discovery
  BY DEF AllAsleep, Found
<1>2. pciIn' = Later(pciIn, t) /\ asleepFor' = UpTo(Discovery, asleepFor + t)
  BY DEF SensorTime
<1> QED BY <1>1, <1>2, SensorsAssumption DEF Clocks, Later, UpTo

\* A GPU that wakes, or is plugged in, ends the time all have been asleep.
LEMMA SleeperStep == SampleInv /\ Found /\ Dozing /\ [Next]_vars => Found' /\ Dozing'
<1> SUFFICES ASSUME RhythmInv, Devices, Clocks, Found, Dozing, [Next]_vars
             PROVE  Found' /\ Dozing'
  BY DEF SampleInv, Kept
<1>1. ASSUME UNCHANGED <<hardware, nvFiles, pciIn, asleepFor>>, at' # "query" \/ at' = at
      PROVE  Found' /\ Dozing'
  BY <1>1 DEF hardware, AllAsleep, Found, Dozing
<1>2. CASE Top
  BY <1>1, <1>2 DEF Top, BeginRead, sensorVars, nvMemory, history, clocks
<1>3. CASE QuickStep
  <2>1. CASE NvidiaStatus
    <3>1. UNCHANGED <<hardware, asleepFor>>
      BY <2>1 DEF NvidiaStatus, clocks
    <3>2. CASE ~nvSmi'
      <4>1. at' # "query" /\ UNCHANGED <<nvFiles, pciIn>>
        BY <2>1, <3>2 DEF NvidiaStatus, NvidiaFails, RaiseError, SourceAfter
      <4> QED BY <1>1, <3>1, <4>1
    <3>3. CASE nvSmi'
      <4>1. FindFiles /\ (nvSuspended' <=> nvFiles' # {} /\ nvFiles' \subseteq sleeping)
        BY <2>1, <3>3 DEF NvidiaStatus
      <4>2. nvSuspended' => at' # "query"
        BY <2>1, <3>3 DEF NvidiaStatus, SourceAfter
      <4>3. CASE nvFiles' = StatusFiles /\ pciIn' = Discovery
        <5>1. AllAsleep' => nvFiles' # {} /\ nvFiles' \subseteq sleeping
          BY <3>1, <4>3 DEF StatusFiles, hardware, AllAsleep
        <5> QED BY <4>1, <4>2, <5>1 DEF Found, Dozing
      <4>4. CASE ~ScanDue /\ ~StatusUnreadable(nvFiles) /\ UNCHANGED <<nvFiles, pciIn>>
        <5>1. AllAsleep' <=> AllAsleep
          BY <3>1 DEF hardware, AllAsleep
        <5>2. Found'
          BY <3>1, <4>4, <5>1 DEF Found
        <5>3. ASSUME AllAsleep', at' = "query"
              PROVE  asleepFor' < Discovery
          <6>1. nvFiles = {} /\ AllAsleep
            BY <4>1, <4>2, <4>4, <5>1, <5>3 DEF AllAsleep, StatusUnreadable
          <6>2. pciIn + asleepFor <= Discovery /\ pciIn # 0
            BY <4>4, <6>1 DEF Found, ScanDue
          <6> QED BY <3>1, <6>2, SensorsAssumption DEF Clocks
        <5> QED BY <5>2, <5>3 DEF Dozing
      <4> QED BY <4>1, <4>3, <4>4 DEF FindFiles
    <3> QED BY <3>2, <3>3
  <2>2. CASE ReadCpu \/ QueryCannotStart \/ AmdAnswers \/ AmdUnreadable \/ AmdGone \/ ReturnSample
    <3>1. at' # "query"
      BY <2>2 DEF ReadCpu, QueryCannotStart, AmdAnswers, AmdUnreadable, AmdGone, ReturnSample,
         NvidiaFails, RaiseError, SourceAfter
    <3>2. UNCHANGED <<hardware, nvFiles, pciIn, asleepFor>>
      BY <2>2 DEF ReadCpu, QueryCannotStart, AmdAnswers, AmdUnreadable, AmdGone, ReturnSample,
         nvMemory, clocks
    <3> QED BY <1>1, <3>1, <3>2
  <2> QED BY <1>3, <2>1, <2>2 DEF QuickStep
<1>4. ASSUME NEW t \in 0..QueryTime, Query(t)
      PROVE  Found' /\ Dozing'
  <2>1. ~AllAsleep'
    BY <1>4 DEF Query, QueryAnswers, QueryFails, AllAsleep
  <2> QED BY <2>1 DEF Found, Dozing
<1>5. CASE Sleep
  <2>1. at = at' /\ Found'
    BY <1>5, SleepsOn DEF Sleep, hardware
  <2>2. at # "query"
    BY <1>5 DEF Sleep, RhythmInv, RhythmShape
  <2> QED BY <2>1, <2>2 DEF Dozing
<1>6. CASE HardwareChanges
  <2>1. nvFiles' = nvFiles /\ pciIn' = pciIn /\ at' = at
    BY <1>6 DEF HardwareChanges, HardwareStep, nvMemory
  <2>2. CASE asleepFor' = 0
    BY <2>1, <2>2, SensorsAssumption DEF Found, Dozing, Clocks
  <2>3. CASE asleepFor' = asleepFor /\ (AllAsleep' => AllAsleep)
    BY <2>1, <2>3 DEF Found, Dozing
  <2>4. (GpuMoves \/ GpuPowerChanges) => SleepGoesOn
    BY DEF GpuMoves, GpuPowerChanges
  <2>5. (SmiChanges \/ Repair) => asleepFor' = asleepFor /\ (AllAsleep' => AllAsleep)
    BY DEF SmiChanges, Repair, AllAsleep
  <2> QED BY <1>6, <2>2, <2>3, <2>4, <2>5 DEF HardwareChanges, HardwareStep, SleepGoesOn
<1>7. CASE SliceEnds \/ ProfileChanges \/ UNCHANGED vars
  BY <1>1, <1>7 DEF SliceEnds, ProfileChanges, vars, sensorVars, nvMemory, history, clocks
<1> QED BY <1>2, <1>3, <1>4, <1>5, <1>6, <1>7 DEF Next, ProcessStep, Read

\* However the GPUs are moved, plugged in again, suspended and woken, and whenever
\* a status file goes stale, no query wakes GPUs that have all slept for a discovery
\* interval (_nvidia_metrics).
THEOREM SleeperStaysAsleep == Spec => SleeperIsNotWoken
<1> DEFINE Wakes == at = "query" /\ at' # "query" /\ smiHere /\ AllAsleep
                   /\ asleepFor >= Discovery
<1>1. SampleInv /\ Dozing => ~Wakes
  BY SensorsAssumption DEF SampleInv, Kept, Clocks, Dozing
<1>2. SampleInv /\ Found /\ Dozing /\ [Next]_vars => Found' /\ Dozing'
  BY SleeperStep
<1>3. Spec => []SampleInv
  BY SampleInvariant
<1>4. ~Wakes => (at = "query" /\ at' # "query" /\ smiHere
                   => ~(AllAsleep /\ asleepFor >= Discovery))
  OBVIOUS
<1> HIDE DEF Wakes
<1> QED BY SleeperInit, <1>1, <1>2, <1>3, <1>4, PTL DEF Spec, SleeperIsNotWoken

\* Once repaired the hardware stays so, and the binary is found again within a
\* discovery interval.
Back ==
  /\ ~repaired => sinceRepair = 0
  /\ repaired => devices # {} /\ smiHere
  /\ repaired /\ ~nvSmi => smiIn = 0 \/ smiIn + sinceRepair <= Discovery

\* The read began a discovery interval after the repair or later; its query may
\* have taken time since.
Late == IF at \in After THEN sinceRepair = Discovery + QueryTime ELSE sinceRepair >= Discovery

Fresh(s) == part[s] = "fresh" /\ ~health[s].failed

\* What such a read has found so far.
Answered ==
  Late => /\ at \in {"nvidia", "query"} \cup After => ~health["cpu"].failed
          /\ at \in After /\ "nvidia" \in Gpus
               => Fresh("nvidia") \/ (part["nvidia"] = "none" /\ nvSuspended)
          /\ at = "return" /\ "amd" \in Gpus => Fresh("amd")

\* At the start nothing has been repaired.
LEMMA BackInit == Init => Back /\ Answered
BY DEF Init, SensorsInit, Back, Answered, After

\* After the repair the binary is not lost again.
LEMMA BackStep == SampleInv /\ Back /\ [Next]_vars => Back'
<1> SUFFICES ASSUME Memory, Clocks, Back, [Next]_vars
             PROVE  Back'
  BY DEF SampleInv, Kept
<1>1. ASSUME UNCHANGED <<hardware, nvSmi, smiIn, sinceRepair>>
      PROVE  Back'
  BY <1>1 DEF hardware, Back
<1>2. ASSUME NEW t \in Nat, SensorTime(t), UNCHANGED <<devices, smiHere, repaired, nvSmi>>
      PROVE  Back'
  <2>1. ~repaired => sinceRepair' = 0
    BY <1>2 DEF SensorTime
  <2>2. ASSUME repaired, ~nvSmi
        PROVE  smiIn' = 0 \/ smiIn' + sinceRepair' <= Discovery
    <3>1. /\ smiIn' = Later(smiIn, t) /\ sinceRepair' = UpTo(Discovery + QueryTime, sinceRepair + t)
          /\ smiIn = 0 \/ smiIn + sinceRepair <= Discovery
      BY <1>2, <2>2 DEF SensorTime, Back
    <3> QED BY <3>1, SensorsAssumption DEF Clocks, Later, UpTo
  <2> QED BY <1>2, <2>1, <2>2 DEF Back
<1>3. CASE Top
  BY <1>1, <1>3 DEF Top, BeginRead, sensorVars, nvMemory, history, clocks
<1>4. CASE QuickStep
  <2>1. CASE NvidiaStatus \/ QueryCannotStart
    BY <2>1 DEF NvidiaStatus, FindSmi, LookForSmi, QueryCannotStart, Back, hardware, clocks
  <2>2. CASE ReadCpu \/ AmdAnswers \/ AmdUnreadable \/ AmdGone \/ ReturnSample
    BY <1>1, <2>2 DEF ReadCpu, AmdAnswers, AmdUnreadable, AmdGone, ReturnSample, nvMemory, clocks
  <2> QED BY <1>4, <2>1, <2>2 DEF QuickStep
<1>5. ASSUME NEW t \in 0..QueryTime, Query(t)
      PROVE  Back'
  <2>1. SensorTime(t) /\ UNCHANGED <<devices, smiHere, repaired, nvSmi>> /\ t \in Nat
    BY <1>5, SensorsAssumption DEF Query, QueryAnswers, QueryFails
  <2> QED BY <1>2, <2>1
<1>6. CASE Sleep
  BY <1>2, <1>6 DEF Sleep, hardware
<1>7. CASE HardwareChanges
  <2>1. UNCHANGED <<nvSmi, smiIn, sinceRepair>>
    BY <1>7 DEF HardwareChanges, HardwareStep, nvMemory
  <2>2. CASE Repair
    BY <2>1, <2>2, SensorsAssumption DEF Repair, Back, Clocks
  <2>3. CASE GpuMoves \/ GpuPowerChanges \/ SmiChanges
    BY <2>1, <2>3 DEF GpuMoves, GpuPowerChanges, SmiChanges, Back
  <2> QED BY <1>7, <2>2, <2>3 DEF HardwareChanges, HardwareStep
<1>8. CASE SliceEnds \/ ProfileChanges \/ UNCHANGED vars
  BY <1>1, <1>8 DEF SliceEnds, ProfileChanges, vars, sensorVars, nvMemory, history, clocks
<1> QED BY <1>3, <1>4, <1>5, <1>6, <1>7, <1>8 DEF Next, ProcessStep, Read

\* A read that began late enough meets no failure.
LEMMA NoFailure ==
  ASSUME SampleInv, Back, sinceRepair >= Discovery, at \in Before \cup After
  PROVE  /\ repaired /\ smiHere /\ devices # {}
         /\ QuickStep => ~RaiseError
         /\ NvidiaStatus => nvSmi'
         /\ ~QueryCannotStart /\ ~AmdUnreadable /\ ~AmdGone
         /\ \A t : ~QueryFails(t)
<1>1. repaired /\ smiHere /\ devices # {}
  BY SensorsAssumption DEF Back
<1>2. NvidiaStatus => nvSmi'
  <2>1. ~nvSmi => smiIn = 0
    BY <1>1, SensorsAssumption DEF Back, SampleInv, Kept, Clocks
  <2>2. NvidiaStatus /\ nvSmi => nvSmi'
    BY <2>1, Zenon DEF NvidiaStatus, FindSmi, LookForSmi
  <2>3. NvidiaStatus /\ ~nvSmi => nvSmi'
    BY <1>1, <2>1, Zenon DEF NvidiaStatus, FindSmi, LookForSmi
  <2> QED BY <2>2, <2>3
<1>3. ~QueryCannotStart /\ ~AmdUnreadable /\ ~AmdGone /\ \A t : ~QueryFails(t)
  BY <1>1 DEF QueryCannotStart, AmdUnreadable, AmdGone, QueryFails
<1>4. QuickStep /\ ~ReturnSample => at' # "idle"
  BY <1>1, <1>2, <1>3 DEF QuickStep, ReadCpu, NvidiaStatus, AmdAnswers, SourceAfter
<1>5. ReturnSample => sample' # NoSample
  BY DEF ReturnSample, NoSample
<1> QED BY <1>1, <1>2, <1>3, <1>4, <1>5 DEF RaiseError

\* Each source in its turn is measured, or is the suspended GPU.
LEMMA AnsweredStep == SampleInv /\ Back /\ Answered /\ [Next]_vars => Answered'
<1> SUFFICES ASSUME SampleInv, Back, Answered, [Next]_vars, Late'
             PROVE  /\ at' \in {"nvidia", "query"} \cup After => ~health'["cpu"].failed
                    /\ at' \in After /\ "nvidia" \in Gpus
                         => Fresh("nvidia")' \/ (part'["nvidia"] = "none" /\ nvSuspended')
                    /\ at' = "return" /\ "amd" \in Gpus => Fresh("amd")'
  BY DEF Answered
<1> DEFINE Holds == /\ at \in {"nvidia", "query"} \cup After => ~health["cpu"].failed
                    /\ at \in After /\ "nvidia" \in Gpus
                         => Fresh("nvidia") \/ (part["nvidia"] = "none" /\ nvSuspended)
                    /\ at = "return" /\ "amd" \in Gpus => Fresh("amd")
<1> SUFFICES Holds'
  OBVIOUS
<1>0. /\ "cpu" \in Sources /\ \A s \in Gpus : s # "cpu" /\ s \in Sources
      /\ health \in [Sources -> [failed : BOOLEAN, ever : BOOLEAN, fails : Nat]]
      /\ part \in [Gpus -> Kinds] /\ at \in {"idle"} \cup Before \cup After
      /\ Late => Holds
  BY SensorsAssumption, Thresholds DEF Sources, SampleInv, HealthInv, HealthShape, Answered
<1>1. ASSUME UNCHANGED <<health, part, at, nvSuspended, sinceRepair>>
      PROVE  Holds'
  BY <1>0, <1>1 DEF Late, Fresh
<1>2. ASSUME at' \in {"idle", "cpu"}
      PROVE  Holds'
  BY <1>2 DEF After
<1>3. CASE Top
  BY <1>1, <1>2, <1>3 DEF Top, BeginRead, sensorVars, nvMemory, history, clocks
<1>4. CASE QuickStep /\ at' # "idle"
  <2>1. sinceRepair' = sinceRepair /\ at \in Before \cup After
    BY <1>0, <1>4 DEF QuickStep, ReadCpu, NvidiaStatus, QueryCannotStart, AmdAnswers,
       AmdUnreadable, AmdGone, ReturnSample, clocks, Before, After
  <2>2. Late /\ sinceRepair >= Discovery
    <3>1. at' \in Before \cup After /\ (at' \in Before => at \in Before)
      BY <1>0, <1>4, QuickOrder
    <3> QED BY <2>1, <3>1, SensorsAssumption DEF Late, Before, After
  <2>3. CASE ReadCpu
    <3>1. health' = Available("cpu") /\ part' = part /\ at' = SourceAfter("cpu")
      BY <1>4, <2>3 DEF ReadCpu, RaiseError
    <3>2. ~health'["cpu"].failed
      BY <1>0, <3>1 DEF Available
    <3> QED BY <3>1, <3>2, Turns DEF SourceAfter, After
  <2>4. CASE NvidiaStatus
    <3>1. nvSmi' /\ at = "nvidia"
      BY <2>1, <2>2, <2>4, NoFailure DEF NvidiaStatus
    <3>2. /\ health' = health /\ part' = part
          /\ (nvSuspended' /\ at' = SourceAfter("nvidia")) \/ at' = "query"
      BY <2>4, <3>1 DEF NvidiaStatus
    <3>3. part["nvidia"] = "none" /\ "nvidia" \in Gpus
      BY <3>1 DEF SampleInv, Asked, SessionInv, Session, Before
    <3> QED BY <1>0, <2>2, <3>1, <3>2, <3>3 DEF SourceAfter, After
  <2>5. CASE AmdAnswers
    <3>1. /\ at = "amd" /\ "amd" \in Gpus /\ health' = Available("amd")
          /\ nvSuspended' = nvSuspended
          /\ part' = [part EXCEPT !["amd"] = "fresh"] /\ at' = "return"
      BY <2>5 DEF AmdAnswers, SampleInv, Asked, SourceAfter, nvMemory
    <3>2. Fresh("amd")'
      BY <1>0, <3>1 DEF Available, Fresh
    <3>3. health'["cpu"] = health["cpu"]
      BY <1>0, <3>1 DEF Available
    <3>4. "nvidia" \in Gpus => /\ health'["nvidia"] = health["nvidia"]
                               /\ part'["nvidia"] = part["nvidia"]
      BY <1>0, <3>1 DEF Available
    <3> QED BY <1>0, <2>2, <3>1, <3>2, <3>3, <3>4 DEF Fresh, After
  <2>6. ~QueryCannotStart /\ ~AmdUnreadable /\ ~AmdGone /\ ~ReturnSample
    BY <1>4, <2>1, <2>2, NoFailure DEF ReturnSample
  <2> QED BY <1>4, <2>3, <2>4, <2>5, <2>6 DEF QuickStep
<1>5. ASSUME NEW t \in 0..QueryTime, Query(t), at' # "idle"
      PROVE  Holds'
  <2>1. at = "query" /\ at' \in After /\ SensorTime(t)
    BY <1>5, QueryOrder DEF Query, QueryAnswers, QueryFails
  <2>2. Late /\ sinceRepair >= Discovery
    <3>1. sinceRepair' = Discovery + QueryTime
      BY <2>1 DEF Late
    <3>2. sinceRepair' = IF repaired THEN UpTo(Discovery + QueryTime, sinceRepair + t) ELSE 0
      BY <2>1 DEF SensorTime
    <3>3. sinceRepair >= Discovery
      BY <3>1, <3>2, SensorsAssumption DEF UpTo, SampleInv, Kept, Clocks
    <3> QED BY <2>1, <3>3 DEF Late, After
  <2>3. QueryAnswers(t)
    BY <1>5, <2>1, <2>2, NoFailure DEF Query, Before
  <2>4. /\ "nvidia" \in Gpus /\ health' = Available("nvidia") /\ at' = SourceAfter("nvidia")
        /\ part' = [part EXCEPT !["nvidia"] = "fresh"]
    BY <2>1, <2>3 DEF QueryAnswers, SampleInv, Asked
  <2>5. Fresh("nvidia")' /\ health'["cpu"] = health["cpu"]
    BY <1>0, <2>4 DEF Available, Fresh
  <2> QED BY <1>0, <2>1, <2>2, <2>4, <2>5, Turns
<1>6. CASE Sleep
  BY <1>0, <1>2, <1>6 DEF Sleep, SampleInv, RhythmInv, RhythmShape
<1>7. CASE SliceEnds \/ ProfileChanges \/ HardwareChanges \/ UNCHANGED vars
  BY <1>1, <1>7 DEF SliceEnds, ProfileChanges, HardwareChanges, HardwareStep, vars, sensorVars,
     nvMemory, history, clocks
<1> HIDE DEF Holds
<1>8. CASE Read
  <2>1. CASE QuickStep
    BY <1>2, <1>4, <2>1
  <2>2. ASSUME NEW t \in 0..QueryTime, Query(t)
        PROVE  Holds'
    BY <1>2, <1>5, <2>2
  <2> QED BY <1>8, <2>1, <2>2 DEF Read
<1> QED BY <1>3, <1>6, <1>7, <1>8 DEF Next, ProcessStep

\* The sample of such a read is a complete measurement.
LEMMA ReadReturns ==
  ASSUME SampleInv, Back, Answered, [Next]_vars, at # "idle", at' = "idle",
         sinceRepair = Discovery + QueryTime
  PROVE  Fit'
<1>1. sinceRepair >= Discovery /\ at \in Before \cup After
  BY SensorsAssumption DEF SampleInv, HealthInv, HealthShape
<1>2. ReturnSample
  <2>1. QuickStep \/ \E t : Query(t)
    BY DEF Next, ProcessStep, Top, BeginRead, Read, Sleep, SliceEnds, ProfileChanges,
       HardwareChanges, HardwareStep, vars, sensorVars
  <2>2. ~\E t : Query(t)
    BY <1>1, NoFailure DEF Query, QueryAnswers, SourceAfter
  <2>3. QuickStep => ReturnSample
    BY <1>1, NoFailure DEF QuickStep, ReadCpu, NvidiaStatus, AmdAnswers, SourceAfter
  <2> QED BY <2>1, <2>2, <2>3
<1>3. at = "return" /\ Late
  BY <1>2 DEF ReturnSample, Late, After
<1>4. /\ ~health["cpu"].failed
      /\ "nvidia" \in Gpus => Fresh("nvidia") \/ (part["nvidia"] = "none" /\ nvSuspended)
      /\ "amd" \in Gpus => Fresh("amd")
  BY <1>3 DEF Answered, After
<1>5. DegradedSources = {}
  BY <1>4, SensorsAssumption DEF DegradedSources, Degraded, Fresh, Sources
<1>6. \A s \in Gpus : part[s] # "reused"
  BY <1>4, SensorsAssumption DEF Fresh
<1> QED BY <1>2, <1>5, <1>6 DEF ReturnSample, Fit, HasCachedReadings

\* Whatever has failed, moved or been removed before, a read that starts a discovery
\* interval after the repair or later is a complete measurement.
THEOREM SourcesReturn == Spec => RepairedSourcesReturn
<1> DEFINE Ends == at # "idle" /\ at' = "idle" /\ sinceRepair = Discovery + QueryTime
<1>1. SampleInv /\ Back /\ Answered /\ [Next]_vars => (Ends => Fit')
  BY ReadReturns
<1>2. SampleInv /\ (Back /\ Answered) /\ [Next]_vars => (Back /\ Answered)'
  BY BackStep, AnsweredStep
<1>3. Spec => []SampleInv
  BY SampleInvariant
<1> QED BY BackInit, <1>1, <1>2, <1>3, PTL DEF Spec, RepairedSourcesReturn

=============================================================================
