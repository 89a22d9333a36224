SPECIFICATION Spec
CONSTANTS
  Timers = {t1}
  Signals = {sigint}
  MAX_TIMERS = 1
  MAX_SIGNALS = 1
CHECK_DEADLOCK FALSE
PROPERTIES RemovedIsSilent
