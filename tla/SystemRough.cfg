CONSTANTS
  null = null
  NoNumber <- null
  Rand <- TwoNumbers
  SeqMod = 8
  MaxInFlight = 2
  MaxLost = 0
  McuAnswer = "increment"
  McuVersion = "other"
  FaultStates <- BothFaults
  McuStart <- HaltedMcu
  MaxResets = 1
  Overrides <- WellTyped
  Requests <- AllRequests
  Commands <- OnlyEstop
  SensorsFirst = FALSE
  MaxLaunches = 2
SPECIFICATION Spec
INVARIANTS TypeOK SystemInv LifecycleFollowsVehicle
CHECK_DEADLOCK FALSE
