SPECIFICATION FairSpec
CONSTANTS
  Flushers = {f1, f2, f3}
  MaxLines = 3
  MaxDisplacements = 1
INVARIANTS
  TypeOK
  OneFlusherPending
  NoRaceOnIdle
  NoLineLost
  BufferedLineHasFlusher
PROPERTIES
  
  ConsumerReturns
  VanishedFileIsReopened
  SinkSpec
CHECK_DEADLOCK FALSE
