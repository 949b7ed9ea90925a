SPECIFICATION LiveSpec
CONSTANTS
  Channels = 1
  FullDuty = 2
  ManualMax = 1
  GpuDuty <- MCGpuDuty
  FanStop = 1
  Meddling = {"manual", "max", "other"}
  MayFail = TRUE
  Sensors = {"cpu"}
  Optional = {}
  MaxTemp = 3
  Activation <- MCActivation
  Release <- MCRelease
  StopLimit = 1
  Critical = 3
  CriticalRelease = 2
  MissingLimit = 3
  MinDuty = 1
  Rise = 1
  Fall = 1
  TopDuty = 2
  Apply = TRUE
  Timed = FALSE
  Hold = 1
  Guard = 2
  AgeLimit = 1
  SlowRead = 0
  MayKill = TRUE
INVARIANTS
  RecoveryRestoresSafety
PROPERTIES
  StopCompletes
  HeatIsAnswered
