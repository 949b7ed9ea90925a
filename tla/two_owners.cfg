SPECIFICATION Spec
CONSTANTS
  Users = {u1}
  Inodes = {i1, i2}
  UserOps = {"apply"}
  Exclusive = FALSE
  BuiltinBoard = FALSE
  Timeout = 1
  MayFail = FALSE
  MayKill = FALSE
SYMMETRY Alike
INVARIANTS
  OneController
