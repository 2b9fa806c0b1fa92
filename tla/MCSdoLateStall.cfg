SPECIFICATION FairSpec
CONSTANTS
  Muxes = {m1}
  NoMux = nomux
  Data = {d1}
  NoData = none
  NR_OF_SDO_CLIENTS = 1
  SDO_BLK_MAX_SIZE = 2
  Sizes = {29}
  MaxCalls = 2
  AppCalls = {"WriteRemoteODExtended"}
  LateAnswers = TRUE
  MaxLoss = 1
  ObjectSizes = {4}
  BlockSizes = {5}
  SizeGiven = {TRUE}
PROPERTIES
  EveryTransferReported
