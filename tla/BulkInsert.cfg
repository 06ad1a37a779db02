SPECIFICATION BulkSpec
CONSTANTS
  N = 6
  MaxTries = 3
INVARIANTS
  BulkTypeOK
  DoneMeansAllStored
  RaisedKeepsPrefix
PROPERTIES
  CallEnds
CHECK_DEADLOCK FALSE
