CONSTANTS
  crc16_tab <- source_tab
  Crc <- MCCrc
  Payloads <- CleanPayloads
  Garbage <- NoGarbage
  Chunking = "keep_head"
  MaxSent = 3
  MaxGarbage = 0
SPECIFICATION Spec
INVARIANTS TypeOK CleanInv PublishedInOrder NothingHeldBack BufferBounded
PROPERTIES ReceiveReturns ChannelSpec
CHECK_DEADLOCK FALSE
