SPECIFICATION FairSpec
CONSTANTS
  LateAnswers = FALSE
  MaxLate = 0
  MaxLost = 1
  MAX_NUMBER_OF_NODES = 3
  Network = {1, 2}
  CiA401 = {2}
  OwnIDs = {1}
  Strays <- MCStrays
  Overlaid = TRUE
  FirstStates = {"scanning"}
  MaxEvents = 3
CHECK_DEADLOCK FALSE
INVARIANTS
  TypeOK
  OwnAnswer
  ProducersAreIO
PROPERTIES
  ScannedIsRead
  EndsOnRequest
