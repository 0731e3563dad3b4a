SPECIFICATION FairSpec
CONSTANTS
  MaxEdits = 5
  Missing = Missing
INVARIANTS TypeOK MapIsCurrentAtRest
PROPERTIES MapNeverGoesBack MapCatchesUp
CHECK_DEADLOCK FALSE
