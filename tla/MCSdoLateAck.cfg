SPECIFICATION Spec
CONSTANTS
  Muxes = {m1}
  NoMux = nomux
  Data = {d1, d2}
  NoData = none
  NR_OF_SDO_CLIENTS = 1
  SDO_BLK_MAX_SIZE = 2
  Sizes = {4, 5}
  MaxCalls = 2
  AppCalls = {"WriteRemoteODExtended"}
  LateAnswers = TRUE
  MaxLoss = 0
  ObjectSizes = {4}
  BlockSizes = {2}
  SizeGiven = {TRUE}
INVARIANTS
  WriteOkIsStored
