SPECIFICATION FairFilterSpec
CONSTANTS
  Types = {"socket", "fifo_r", "fifo_w", "fifo_rw", "other"}
  EpollEvents <- MCEpollEvents
  Crowded = TRUE
  OobTaken = FALSE
CHECK_DEADLOCK FALSE
INVARIANTS FilterInv NothingMissed
PROPERTIES WaitReturns LevelIsReported
