SPECIFICATION PartsSpec
CONSTANTS
  Timers = {t1, t2}
  Signals = {sigint, sigchld}
  MAX_TIMERS = 2
  MAX_SIGNALS = 2
  Keys = {k1}
  Buttons = {b1}
  None = None
  PipeCapacity = 4
  MaxQueue = 4
INVARIANTS SourcesInv InputInv NoLostWakeup
PROPERTIES CalledAsAsked SourcesServed WokenUp
