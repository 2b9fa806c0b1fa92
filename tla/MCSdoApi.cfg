SPECIFICATION Spec
CONSTANTS
  Muxes = {m1}
  NoMux = nomux
  Data = {d1, d2}
  NoData = none
  NR_OF_SDO_CLIENTS = 1
  SDO_BLK_MAX_SIZE = 2
  Sizes = {14, 29}
  MaxCalls = 3
  AppCalls = {"WriteXtd", "ReadXtd",
              "WriteRemoteODExtended", "ReadRemoteODExtended", "Abort"}
  LateAnswers = TRUE
  MaxLoss = 0
  ObjectSizes = {15}
  BlockSizes = {2, 3}
  SizeGiven = {TRUE}
INVARIANTS
  ObjectsAreWhole
