CONSTANTS
  null = null
  NoNumber <- null
  Rand <- Ordinary
  SeqMod = 8
  MaxInFlight = 2
  MaxLost = 0
  McuAnswer = "complement"
  McuVersion = "this"
  FaultStates <- None
  McuStart <- FreshMcu
  MaxResets = 0
  Overrides <- WellTyped
  Requests <- None
  Commands <- None
  SensorsFirst = TRUE
  MaxLaunches = 1
SPECIFICATION Spec
PROPERTY HandshakeCompletes
CHECK_DEADLOCK FALSE
