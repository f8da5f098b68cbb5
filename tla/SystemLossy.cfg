CONSTANTS
  null = null
  NoNumber <- null
  Rand <- TwoNumbers
  SeqMod = 8
  MaxInFlight = 2
  MaxLost = 1
  McuAnswer = "complement"
  McuVersion = "this"
  FaultStates <- BothFaults
  McuStart <- FreshMcu
  MaxResets = 1
  Overrides <- WellTyped
  Requests <- NoCleanup
  Commands <- OnlyDrive
  SensorsFirst = TRUE
  MaxLaunches = 1
SPECIFICATION Spec
INVARIANTS CachedStateIsReal PauseInv PauseNeverStarts
PROPERTY StartedOnce
CHECK_DEADLOCK FALSE
