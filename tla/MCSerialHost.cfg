SPECIFICATION Spec
CONSTANTS
  LateAnswers = TRUE
  MaxLate = 1
  MaxLost = 1
  NR_OF_SDOSERVER = 4
  Memory <- MCMemory
  Opened <- MCOpened
  MAX_PACKET_LENGTH = 35
  Lengths = {31, 32}
  Unasked <- MCUnasked
  MaxEvents = 3
INVARIANTS
  TypeOK
  PacketsFit
  SidesAgree
  BytesAgree
  StaysInBuffer
  NoReplay
  EchoesToggle
  LastFlagTells
PROPERTIES
  ImplementsCallService
