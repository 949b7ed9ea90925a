SPECIFICATION AuditSpec
CONSTANTS
  Channels = 1
  FullDuty = 3
  ManualMax = 2
  GpuDuty <- MCGpuDuty
  FanStop = 1
  Meddling = {}
  MayFail = TRUE
  Sensors = {"cpu", "gpu"}
  Optional = {}
  MaxTemp = 3
  Activation <- MCActivation
  Release <- MCRelease
  StopLimit = 1
  Critical = 3
  CriticalRelease = 2
  MissingLimit = 3
  MinDuty = 1
  Rise = 1
  Fall = 1
  TopDuty = 3
  Apply = TRUE
  Timed = FALSE
  Hold = 2
  Guard = 3
  AgeLimit = 1
  SlowRead = 1
PROPERTIES
  MaximumHeldButForARead
  LostSensorBlocksAuto
CHECK_DEADLOCK FALSE
