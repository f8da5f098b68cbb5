CONSTANTS
  crc16_tab <- source_tab
  Crc <- MCCrc
  Payloads <- OnePayload
  Garbage <- PlainTails
  Chunking = "keep_head"
  MaxSent = 2
  MaxGarbage = 1
SPECIFICATION Spec
INVARIANT NothingHeldBack
CHECK_DEADLOCK FALSE
