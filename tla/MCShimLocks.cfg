SPECIFICATION PartsSpec
CONSTANTS
  Threads = {t1, t2, t3, t4}
  NoThread = NoThread
  MAX_READERS = 5
  Clients = {t1, t2}
  Values = {0, 1, 2, 5}
  UINT64_MAX = 5
INVARIANTS IInv ReadableIsSignalled
PROPERTIES Refines WriterGetsLock CounterSpec SleeperServed
