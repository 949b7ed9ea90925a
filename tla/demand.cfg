SPECIFICATION Spec
CONSTANTS
  Offered <- MCOffered
  FirmwareDuties = {60, 255}
INVARIANTS
  DutiesStayInTable
  AutoMeansNoDemand
  HotMachineReachesFullSpeed
PROPERTIES
  StepsAreComparators
  NoHunting
  RisesAtOnceFallsInPace
CHECK_DEADLOCK FALSE
