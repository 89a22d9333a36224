SPECIFICATION FairSpec
CONSTANTS
  Threads = {t1, t2}
  NoThread = NoThread
  Files = {f1, f2}
  NoFile = NoFile
  Events = {"EPOLLIN"}
  Registrations <- MCRegistrations
  Closed = {f1}
  MaxEvents = 1
INVARIANTS FreshPollers NoDanglingEvent
PROPERTIES MutexReleased ReadyWakes
