CONSTANTS
  null = null
  NoNumber <- null
  Rand <- TwoNumbers
  SeqMod = 8
  MaxInFlight = 2
  MaxLost = 0
  McuAnswer = "increment"
  McuVersion = "this"
  FaultStates <- None
  McuStart <- UsedMcu
  MaxResets = 1
  Overrides <- BadlyTyped
  Requests <- JustConfigure
  Commands <- None
  SensorsFirst = TRUE
  MaxLaunches = 1
SPECIFICATION Spec
PROPERTY OnErrorEnds
CHECK_DEADLOCK FALSE
