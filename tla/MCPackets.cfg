SPECIFICATION Spec
CONSTANTS
  Bits = 3
  CRCPOLYNOMIAL = {0, 1}
  MaxByte = 7
  SOH = 6
  MAX_PACKET_LENGTH = 2
  Commands = {3, 4}
  CRC <- MCCRC
  Packets <- MCPackets
  MaxErrors = 2
  Reopening = TRUE
INVARIANTS
  IndexInRange
  Resynchronises
  OnlySupported
  ChecksumIsRemainder
PROPERTIES
  InStepIsReceived
  DamagedIsDropped
