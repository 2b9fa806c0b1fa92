SPECIFICATION OpenSpec
CONSTANTS
  Muxes = {m1, m2}
  NoMux = nomux
  Data = {d1}
  NoData = none
  NR_OF_SDO_CLIENTS = 1
  SDO_BLK_MAX_SIZE = 2
  Sizes = {2, 14, 29}
  MaxCalls = 2
  Responses <- MCResponses
  MaxResponses = 3
SYMMETRY Alike
INVARIANTS
  TypeOK
  CountsWithinBuffer
  OnlyOneStall
  AbortNamesEntry
