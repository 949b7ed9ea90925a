SPECIFICATION Spec
CONSTANTS
  Gpus = {"amd", "nvidia"}
  PciPaths = {p1, p2}
  NvThreshold = 2
  AmdThreshold = 2
  Discovery = 2
  QueryTime = 1
  WatchdogSec = 3
  SampleInterval = 2
  InactiveWait = 1
INVARIANTS
  SamplingTypeOK
  WatchdogFed
  ProfileSeenPromptly
  FitMeansMeasured
  LossIsBridgedBriefly
  NoReadingAcrossSuspend
PROPERTIES
  SleeperIsNotWoken
  RepairedSourcesReturn
SYMMETRY PathSymmetry
