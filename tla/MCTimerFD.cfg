SPECIFICATION FairSpec
CONSTANTS
  Timers = {rt}
  Realtime = {rt}
  Offsets = {0, 1}
  Detectors = {d1, d2}
  MAX_GENERATION = 9
  Readers = {t1}
  Callers = {t2}
  Values = {0, 2}
  Intervals = {0, 1}
  MAX_TIME = 2
  MAX_ARMINGS = 2
  MAX_STEPS = 1
CHECK_DEADLOCK FALSE
INVARIANTS TimerInv OneDetector
PROPERTIES BlockedReadReturns CancelReaches
