CONSTANTS
  crc16_tab <- source_tab
  Packets <- MCPackets
  Bursts <- MCBursts
  MaxHit = 5
SPECIFICATION Spec
INVARIANTS
  TableIsDivision
  SyndromeOfBurst
  BurstsAreCaught
  EncodeFits
  RoundTrip
CHECK_DEADLOCK FALSE
