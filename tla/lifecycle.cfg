SPECIFICATION Spec
CONSTANTS
  Users = {u1, u2}
  Inodes = {i1, i2}
  UserOps = {"apply", "actuator", "restore", "failsafe"}
  Exclusive = TRUE
  BuiltinBoard = FALSE
  Timeout = 1
  MayFail = TRUE
  MayKill = TRUE
SYMMETRY Alike
INVARIANTS
  LifecycleTypeOK
  OneController
  MarkerCoversControl
  
  StartupWithinWindows
  InterfaceIsReal
