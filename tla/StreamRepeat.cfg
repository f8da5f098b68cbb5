CONSTANTS
  crc16_tab <- source_tab
  Crc <- MCCrc
  Payloads <- OnePayload
  Garbage <- OnlyBadStart
  Chunking = "whole"
  MaxSent = 2
  MaxGarbage = 1
SPECIFICATION Spec
INVARIANT PublishedOnce
CHECK_DEADLOCK FALSE
