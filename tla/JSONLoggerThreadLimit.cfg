SPECIFICATION FairSpec
CONSTANTS
  Flushers = {f1}
  MaxLines = 2
  MaxDisplacements = 0
PROPERTY
  BufferedLineIsStored
CHECK_DEADLOCK FALSE
