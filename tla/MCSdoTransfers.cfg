SPECIFICATION FairSpec
CONSTANTS
  Muxes = {m1}
  NoMux = nomux
  Data = {d1, d2}
  NoData = none
  NR_OF_SDO_CLIENTS = 1
  SDO_BLK_MAX_SIZE = 2
  Sizes = {4, 8, 15, 29}
  MaxCalls = 2
  AppCalls = {"WriteRemoteODExtended", "ReadRemoteODExtended"}
  LateAnswers = FALSE
  MaxLoss = 2
  ObjectSizes = {4, 14, 36}
  BlockSizes = {2, 3}
  SizeGiven = {TRUE}
INVARIANTS
  WriteOkIsStored
  ReadOkIsComplete
  LosslessSucceeds
  LossIsNoProtocolError
  SessionsCloseTogether
  BusyTellsPending
  StatusTellsOutcome
  Exchange
  ObjectsAreWhole
PROPERTIES
  NoSpuriousReport
  EveryTransferReported
  ImplementsService
