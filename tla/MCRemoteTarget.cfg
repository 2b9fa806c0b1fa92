SPECIFICATION FairSpec
CONSTANTS
  LateAnswers = FALSE
  MaxLate = 0
  MaxLost = 0
  MAX_NUMBER_OF_NODES = 3
  Network = {1, 2}
  CiA401 = {2}
  OwnIDs = {1}
  Strays = {}
  Overlaid = TRUE
  FirstStates = {"scanning"}
  MaxEvents = 3
CHECK_DEADLOCK FALSE
PROPERTIES
  WritesReachProducer
