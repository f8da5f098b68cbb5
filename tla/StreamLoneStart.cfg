CONSTANTS
  crc16_tab <- source_tab
  Crc <- MCCrc
  Payloads <- OnePayload
  Garbage <- NoGarbage
  Chunking = "any"
  MaxSent = 2
  MaxGarbage = 0
SPECIFICATION Spec
PROPERTY DiscardsNoStart
CHECK_DEADLOCK FALSE
