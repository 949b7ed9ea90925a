------------------------------ MODULE Sensors ------------------------------
(***************************************************************************)
(* The temperature sources behind Sensors.read: the health of each source  *)
(* (SourceHealth), the readings that bridge a failing GPU query, runtime   *)
(* suspend of an NVIDIA GPU and the periodic rediscovery of nvidia-smi and *)
(* of the PCI devices.  A reading is only "fresh" (measured in this call), *)
(* "reused" (an earlier one returned again) or "none": which temperature   *)
(* it carries is Policy's matter.                                          *)
(*                                                                         *)
(* The CPU and AMD paths are looked up again whenever they yield nothing,  *)
(* so that what a read gives depends on the hardware of the moment alone;  *)
(* what is remembered of NVIDIA is modelled.  The optional IR and ACPI     *)
(* sources neither raise nor degrade a sample, and are left out.           *)
(*                                                                         *)
(* There may be several NVIDIA GPUs.  One answer of nvidia-smi stands for  *)
(* all of them, as the code keeps the hottest; and one of them that is     *)
(* active is enough for a query, which wakes the others.                   *)
(***************************************************************************)
EXTENDS Integers

CONSTANTS
  Gpus,          \* configured GPU sources: a subset of {"amd", "nvidia"}
  PciPaths,      \* PCI addresses NVIDIA GPUs may have
  NvThreshold,   \* NVIDIA_FAILURE_THRESHOLD
  AmdThreshold,  \* AMD_GPU_READ_FAILURE_THRESHOLD
  Discovery,     \* NVIDIA_DISCOVERY_INTERVAL_S in ticks
  QueryTime      \* ticks an nvidia-smi query may take, its timeout included

ASSUME SensorsAssumption ==
  /\ Gpus \subseteq {"amd", "nvidia"}
  /\ NvThreshold \in Nat \ {0} /\ AmdThreshold \in Nat \ {0}
  /\ Discovery \in Nat \ {0} /\ QueryTime \in Nat

VARIABLES
  devices,      \* hardware: PCI addresses of the NVIDIA GPUs that are there
  sleeping,     \* hardware: those in runtime suspend
  smiHere,      \* hardware: nvidia-smi is installed
  repaired,     \* hardware: from now on every source answers
  health,       \* SourceHealth of each source
  nvSmi,        \* Sensors.nvidia_smi is set
  nvFiles,      \* nvidia_runtime_status_files, as the addresses they belong to
  smiIn,        \* ticks until next_nvidia_discovery, while nvidia_smi is not set
  pciIn,        \* ticks until next_nvidia_pci_discovery
  nvCache,      \* last_nvidia_metrics holds a reading
  nvSuspended,  \* nvidia_runtime_suspended is True
  amdCache,     \* last_amd_gpu_temperature holds a reading
  at,           \* the source read next, "idle" outside Sensors.read
  part,         \* the GPU readings of the running read
  sample,       \* what the last read returned, outside of reads
  known,        \* history: GPU sources that have delivered a reading
  blind,        \* history: samples in a row without a fresh reading of a known source
  slept,        \* history: a suspend was reported since the metrics were measured
  asleepFor,    \* history: ticks all GPUs have been suspended, up to Discovery
  sinceRepair   \* history: ticks since repaired, up to Discovery + QueryTime

hardware == <<devices, sleeping, smiHere, repaired>>
nvMemory == <<nvSmi, nvFiles, smiIn, pciIn, nvCache, nvSuspended>>
clocks == <<asleepFor, sinceRepair>>
history == <<known, blind, slept, clocks>>
sensorVars == <<hardware, health, nvMemory, amdCache, at, part, sample, history>>

Sources == {"cpu"} \cup Gpus
Kinds == {"none", "fresh", "reused"}

\* The three policies; only REQUIRED_AFTER_AVAILABLE asks for a source that
\* has been there.
FailurePolicy == [s \in Sources |-> IF s = "cpu" THEN "required" ELSE "after"]

Threshold == [s \in Sources |->
  CASE s = "cpu" -> 1 [] s = "nvidia" -> NvThreshold [] s = "amd" -> AmdThreshold]
NewHealth == [failed |-> FALSE, ever |-> FALSE, fails |-> 0]

NoParts == [s \in Gpus |-> "none"]
NoSample == [ok |-> FALSE, gpu |-> NoParts, asleep |-> FALSE, degraded |-> {}]

SensorsTypeOK ==
  /\ devices \subseteq PciPaths /\ sleeping \subseteq devices
  /\ smiHere \in BOOLEAN /\ repaired \in BOOLEAN
  /\ health \in [Sources -> [failed : BOOLEAN, ever : BOOLEAN, fails : Nat]]
  /\ \A s \in Sources : health[s].fails <= Threshold[s]
  /\ nvSmi \in BOOLEAN /\ nvFiles \subseteq PciPaths
  /\ smiIn \in 0..Discovery /\ pciIn \in 0..Discovery
  /\ nvCache \in BOOLEAN /\ nvSuspended \in BOOLEAN /\ amdCache \in BOOLEAN
  /\ at \in {"idle", "cpu", "nvidia", "query", "amd", "return"}
  /\ part \in [Gpus -> Kinds]
  /\ sample \in [ok : BOOLEAN, gpu : [Gpus -> Kinds], asleep : BOOLEAN,
                 degraded : SUBSET Sources]
  /\ known \subseteq Gpus /\ \A s \in Gpus : blind[s] \in 0..Threshold[s]
  /\ slept \in BOOLEAN /\ asleepFor \in 0..Discovery
  /\ sinceRepair \in 0..Discovery + QueryTime

-----------------------------------------------------------------------------
(* The health of a source.                                                 *)

Available(s) == [health EXCEPT ![s] = [failed |-> FALSE, ever |-> TRUE, fails |-> 0]]

\* The streak is compared with thresholds only, and kept up to the largest.
Unavailable(s) ==
  [health EXCEPT ![s].failed = TRUE,
                 ![s].fails = IF @ < Threshold[s] THEN @ + 1 ELSE @]

\* unavailable raises HardwareError once the streak has reached the threshold
\* of the failure at hand, whatever earlier failures were counted with.
Raises(s, threshold) ==
  /\ FailurePolicy[s] = "required" \/ (FailurePolicy[s] = "after" /\ health[s].ever)
  /\ Unavailable(s)[s].fails >= threshold

\* Mutant of Degraded.
DegradedWhileCached(s) == health[s].failed /\ nvCache

Degraded(s) ==
  /\ health[s].failed
  /\ FailurePolicy[s] = "required" \/ (FailurePolicy[s] = "after" /\ health[s].ever)

\* _degraded_sources: a suspended GPU is powered down, not failing.
DegradedSources ==
  { s \in Sources : Degraded(s) /\ ~(s = "nvidia" /\ nvSuspended) }

-----------------------------------------------------------------------------
(* The constructor.                                                        *)

\* find_nvidia_runtime_status_files
StatusFiles == devices

SensorsInit ==
  /\ devices \in SUBSET PciPaths /\ sleeping \in SUBSET devices
  /\ smiHere \in BOOLEAN /\ repaired = FALSE
  /\ health = [s \in Sources |-> NewHealth]
  /\ nvSmi = (smiHere /\ "nvidia" \in Gpus)
  /\ nvFiles = (IF "nvidia" \in Gpus THEN StatusFiles ELSE {})
  /\ smiIn = Discovery /\ pciIn = Discovery
  /\ nvCache = FALSE /\ nvSuspended = FALSE /\ amdCache = FALSE
  /\ at = "idle" /\ part = NoParts /\ sample = NoSample
  /\ known = {} /\ blind = [s \in Gpus |-> 0] /\ slept = FALSE
  /\ asleepFor = 0 /\ sinceRepair = 0

-----------------------------------------------------------------------------
(* The end of a read: an exception, or a sample.                           *)

RaiseError ==
  /\ at' = "idle" /\ sample' = NoSample /\ part' = NoParts
  /\ blind' = [s \in Gpus |-> 0]

\* The order of the sources; one that is not configured yields nothing.
SourceAfter(s) ==
  IF s = "cpu" /\ "nvidia" \in Gpus THEN "nvidia"
  ELSE IF s # "amd" /\ "amd" \in Gpus THEN "amd"
  ELSE "return"

BeginRead ==
  /\ at = "idle" /\ at' = "cpu" /\ sample' = NoSample
  /\ UNCHANGED <<hardware, health, nvMemory, amdCache, part, history>>

\* _cpu_temperature: the CPU is required in every sample.
ReadCpu ==
  /\ at = "cpu"
  /\ \/ /\ health' = Available("cpu")
        /\ at' = SourceAfter("cpu") /\ UNCHANGED <<part, sample, blind>>
     \/ /\ ~repaired
        /\ health' = Unavailable("cpu") /\ RaiseError
  /\ UNCHANGED <<hardware, nvMemory, amdCache, known, slept, clocks>>

-----------------------------------------------------------------------------
(* _nvidia_metrics, up to the query and the query itself.                  *)

\* Mutant of NvidiaFails.
NvidiaFailsAlone ==
  /\ health' = Unavailable("nvidia")
  /\ part' = [part EXCEPT !["nvidia"] = IF nvCache THEN "reused" ELSE "none"]
  /\ at' = SourceAfter("nvidia") /\ UNCHANGED <<sample, blind>>

\* _nvidia_failure: the streak grows; the last metrics bridge it until it
\* has reached the threshold.
NvidiaFails ==
  /\ health' = Unavailable("nvidia")
  /\ IF Raises("nvidia", NvThreshold)
     THEN RaiseError
     ELSE /\ part' = [part EXCEPT !["nvidia"] = IF nvCache THEN "reused" ELSE "none"]
          /\ at' = SourceAfter("nvidia") /\ UNCHANGED <<sample, blind>>

\* Mutant of LookForSmi.
LookAtStartOnly == FALSE

LookForSmi == ~nvSmi /\ smiIn = 0

\* shutil.which, at most once per discovery interval.
FindSmi ==
  IF LookForSmi THEN nvSmi' = smiHere /\ smiIn' = Discovery
                ELSE UNCHANGED <<nvSmi, smiIn>>

StatusUnreadable(files) == ~(files \subseteq devices)

\* Mutant of ScanDue.
ScanNever == FALSE

ScanDue == pciIn = 0

\* The periodic scan of the PCI devices, or the one after a status file that
\* could not be read.
FindFiles ==
  IF ScanDue \/ StatusUnreadable(nvFiles)
  THEN nvFiles' = StatusFiles /\ pciIn' = Discovery
  ELSE UNCHANGED <<nvFiles, pciIn>>

\* Mutant of EndSession.
SessionGoesOn == UNCHANGED nvCache

\* A suspended GPU is not queried, and its metrics do not outlive the session.
EndSession == nvCache' = FALSE

NvidiaStatus ==
  /\ at = "nvidia"
  /\ FindSmi
  /\ IF ~nvSmi'
     THEN /\ NvidiaFails /\ nvSuspended' = FALSE
          /\ UNCHANGED <<nvFiles, pciIn, nvCache, slept>>
     ELSE /\ FindFiles
          /\ nvSuspended' = (nvFiles' # {} /\ nvFiles' \subseteq sleeping)
          /\ IF nvSuspended'
             THEN EndSession /\ slept' = TRUE /\ at' = SourceAfter("nvidia")
             ELSE UNCHANGED <<nvCache, slept>> /\ at' = "query"
          /\ UNCHANGED <<health, part, sample, blind>>
  /\ UNCHANGED <<hardware, amdCache, known, clocks>>

AllAsleep == devices # {} /\ sleeping = devices

\* Time passes for the discovery deadlines.
Later(left, t) == IF left > t THEN left - t ELSE 0
UpTo(limit, n) == IF n < limit THEN n ELSE limit

SensorTime(t) ==
  /\ smiIn' = (IF nvSmi THEN smiIn ELSE Later(smiIn, t)) /\ pciIn' = Later(pciIn, t)
  /\ asleepFor' = IF AllAsleep' THEN UpTo(Discovery, asleepFor + t) ELSE 0
  /\ sinceRepair' = IF repaired THEN UpTo(Discovery + QueryTime, sinceRepair + t) ELSE 0

\* A query wakes every GPU.  It can succeed only if there is one.
QueryAnswers(t) ==
  /\ at = "query" /\ smiHere /\ devices # {}
  /\ sleeping' = {}
  /\ health' = Available("nvidia")
  /\ part' = [part EXCEPT !["nvidia"] = "fresh"] /\ nvCache' = TRUE
  /\ known' = known \cup {"nvidia"} /\ slept' = FALSE
  /\ at' = SourceAfter("nvidia")
  /\ UNCHANGED <<devices, smiHere, repaired, nvSmi, nvFiles, nvSuspended, amdCache,
                 sample, blind>>
  /\ SensorTime(t)

\* Timeout, exit status, or no valid temperature in the output.
QueryFails(t) ==
  /\ at = "query" /\ smiHere /\ (devices = {} \/ ~repaired)
  /\ sleeping' = {}
  /\ NvidiaFails
  /\ UNCHANGED <<devices, smiHere, repaired, nvSmi, nvFiles, nvCache, nvSuspended,
                 amdCache, known, slept>>
  /\ SensorTime(t)

\* The binary has been removed; it is looked for again after the interval.
QueryCannotStart ==
  /\ at = "query" /\ ~smiHere
  /\ nvSmi' = FALSE /\ smiIn' = Discovery
  /\ NvidiaFails
  /\ UNCHANGED <<hardware, nvFiles, pciIn, nvCache, nvSuspended, amdCache, known,
                 slept, clocks>>

-----------------------------------------------------------------------------
(* _amd_gpu_temperature and the returned sample.                           *)

AmdAnswers ==
  /\ at = "amd"
  /\ health' = Available("amd")
  /\ part' = [part EXCEPT !["amd"] = "fresh"] /\ amdCache' = TRUE
  /\ known' = known \cup {"amd"} /\ at' = SourceAfter("amd")
  /\ UNCHANGED <<hardware, nvMemory, sample, blind, slept, clocks>>

\* amdgpu is registered but gives no temperature: bridged like NVIDIA.
AmdUnreadable ==
  /\ at = "amd" /\ ~repaired
  /\ health' = Unavailable("amd")
  /\ IF Raises("amd", AmdThreshold)
     THEN RaiseError
     ELSE /\ part' = [part EXCEPT !["amd"] = IF amdCache THEN "reused" ELSE "none"]
          /\ at' = SourceAfter("amd") /\ UNCHANGED <<sample, blind>>
  /\ UNCHANGED <<hardware, nvMemory, amdCache, known, slept, clocks>>

\* No amdgpu device at all: a GPU that has been there fails at once.
AmdGone ==
  /\ at = "amd" /\ ~repaired
  /\ health' = Unavailable("amd")
  /\ amdCache' = FALSE
  /\ IF Raises("amd", 1)
     THEN RaiseError
     ELSE at' = SourceAfter("amd") /\ UNCHANGED <<part, sample, blind>>
  /\ UNCHANGED <<hardware, nvMemory, known, slept, clocks>>

Blind(s) == s \in known /\ part[s] # "fresh" /\ ~(s = "nvidia" /\ nvSuspended)

ReturnSample ==
  /\ at = "return" /\ at' = "idle"
  /\ sample' = [ok |-> TRUE, gpu |-> part, asleep |-> nvSuspended,
                degraded |-> DegradedSources]
  /\ blind' = [s \in Gpus |-> IF ~Blind(s) THEN 0 ELSE blind[s] + 1]
  /\ part' = NoParts
  /\ UNCHANGED <<hardware, health, nvMemory, amdCache, known, slept, clocks>>

Query(t) == QueryAnswers(t) \/ QueryFails(t)

QuickStep ==
  \/ ReadCpu \/ NvidiaStatus \/ QueryCannotStart
  \/ AmdAnswers \/ AmdUnreadable \/ AmdGone \/ ReturnSample

-----------------------------------------------------------------------------
(* The hardware: hotplug, power management, package upgrades.              *)

\* How long all GPUs have been asleep goes on as long as they are.
SleepGoesOn == asleepFor' = IF AllAsleep /\ AllAsleep' THEN asleepFor ELSE 0

\* GPUs are plugged in, moved and removed; a new one is active.
GpuMoves ==
  /\ ~repaired
  /\ devices' \in (SUBSET PciPaths) \ {devices}
  /\ sleeping' = sleeping \cap devices' /\ SleepGoesOn
  /\ UNCHANGED <<smiHere, repaired>>

GpuPowerChanges ==
  /\ \E p \in devices :
       sleeping' = IF p \in sleeping THEN sleeping \ {p} ELSE sleeping \cup {p}
  /\ UNCHANGED <<devices, smiHere, repaired>> /\ SleepGoesOn

SmiChanges ==
  /\ ~repaired /\ smiHere' = ~smiHere
  /\ UNCHANGED <<devices, sleeping, repaired, asleepFor>>

\* The sources that can be there are there, and stay.
Repair ==
  /\ ~repaired /\ devices # {} /\ smiHere
  /\ repaired' = TRUE /\ UNCHANGED <<devices, sleeping, smiHere, asleepFor>>

HardwareStep ==
  /\ GpuMoves \/ GpuPowerChanges \/ SmiChanges \/ Repair
  /\ UNCHANGED <<health, nvMemory, amdCache, at, part, sample, known, blind, slept,
                 sinceRepair>>

-----------------------------------------------------------------------------
HasCachedReadings == \E s \in Gpus : sample.gpu[s] = "reused"

\* What the stop handoff takes for a full description of the machine.
Fit == sample.ok /\ ~HasCachedReadings /\ sample.degraded = {}

\* A sample without reused readings and degraded sources is one in which every
\* source that has ever delivered was measured again; only a GPU in runtime
\* suspend may be missing.  An answer that fails without a cache to fall back
\* on does not pass for a measurement (_degraded_sources, has_cached_readings).
FitMeansMeasured ==
  at = "idle" /\ Fit
    => \A s \in known : sample.gpu[s] = "fresh" \/ (s = "nvidia" /\ sample.asleep)

\* The control loop is never given a known GPU's absence or an earlier reading
\* for more samples in a row than the bridge allows, whatever mixture of
\* timeouts, lost binaries, suspends and resets the source goes through: after
\* that the read raises and Max is selected (SourceHealth.unavailable).
LossIsBridgedBriefly == \A s \in Gpus : blind[s] < Threshold[s]

\* Metrics from before a reported suspend never bridge a later wake-up, and a
\* GPU reported as suspended contributes no reading at all.
NoReadingAcrossSuspend ==
  "nvidia" \in Gpus /\ sample.ok
    => /\ sample.asleep => sample.gpu["nvidia"] = "none"
       /\ at = "idle" /\ sample.gpu["nvidia"] = "reused" => ~slept

\* GPUs that have all slept for a discovery interval are not woken by telemetry:
\* by then a status file is known, wherever they were plugged in
\* (_nvidia_metrics, find_nvidia_runtime_status_files).
SleeperIsNotWoken ==
  [][ at = "query" /\ at' # "query" /\ smiHere
        => ~(AllAsleep /\ asleepFor >= Discovery) ]_sensorVars

\* Once every source answers again, whatever has failed before, a read that
\* starts a discovery interval later or more is a complete measurement: the
\* binary and the device are found anew, and no failure streak, cache or error
\* sticks (_nvidia_metrics, SourceHealth.available).
RepairedSourcesReturn ==
  [][ at # "idle" /\ at' = "idle" /\ sinceRepair = Discovery + QueryTime => Fit' ]_sensorVars

=============================================================================
