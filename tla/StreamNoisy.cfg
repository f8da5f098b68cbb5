CONSTANTS
  crc16_tab <- source_tab
  Crc <- MCCrc
  Payloads <- OnePayload
  Garbage <- AllGarbage
  Chunking = "any"
  MaxSent = 2
  MaxGarbage = 1
SPECIFICATION Spec
INVARIANTS BufferIsWindow NoFabrication UndefinedOnlyOnForeignPacket
CHECK_DEADLOCK FALSE
