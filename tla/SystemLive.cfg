CONSTANTS
  null = null
  NoNumber <- null
  Rand <- TwoNumbers
  SeqMod = 8
  MaxInFlight = 2
  MaxLost = 0
  McuAnswer = "increment"
  McuVersion = "this"
  FaultStates <- BothFaults
  McuStart <- UsedMcu
  MaxResets = 0
  Overrides <- EitherTyped
  Requests <- NoCleanup
  Commands <- OnlyEstop
  SensorsFirst = TRUE
  MaxLaunches = 1
SPECIFICATION Spec
PROPERTIES CallbacksReturn ShutdownEndsInEmergency EmergencyReached EstopStopsVehicle
CHECK_DEADLOCK FALSE
