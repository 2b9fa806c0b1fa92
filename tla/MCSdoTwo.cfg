SPECIFICATION FairSpec
CONSTANTS
  Muxes = {m1}
  NoMux = nomux
  Data = {d1}
  NoData = none
  NR_OF_SDO_CLIENTS = 2
  SDO_BLK_MAX_SIZE = 2
  Sizes = {5, 29}
  MaxCalls = 2
  AppCalls = {"Init", "Write", "Read"}
  LateAnswers = FALSE
  MaxLoss = 1
  ObjectSizes = {8}
  BlockSizes = {2}
  SizeGiven = {TRUE}
PROPERTIES
  EveryTransferReported
