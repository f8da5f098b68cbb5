CONSTANTS
  Interval = 2
  Jitter = 1
  Latency = 1
  MaxMissed = 1
  Timeout <- JustEnough
SPECIFICATION Spec
INVARIANTS TypeOK ThreadInv RacesConfined AnswerFindsNumber HeartbeatEndsFirst NoFalseAlarm
PROPERTIES JoinReturns DeadManSpec
CHECK_DEADLOCK FALSE
