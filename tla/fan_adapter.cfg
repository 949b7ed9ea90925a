CONSTANTS
  Channels = 2
  FullDuty = 3
  ManualMax = 2
  GpuDuty <- MCGpuDuty
  FanStop = 1
  Meddling = {"auto", "manual", "max", "other"}
  MayFail = TRUE
SPECIFICATION MCSpec
INVARIANTS FanTypeOK NoHalfUpdatedPair ManualCeiling RecoversAtMostOnce
