SPECIFICATION FairSpec
CONSTANTS
  Threads = {t1, t2}
  Creators = {t1}
  Users = {t2}
  Numbers = {0, 1, 2}
  Descs = {d1, d2, d3}
  NULL = NULL
  Kinds = {"epoll", "timerfd"}
  Watched = {1}
  Behind = {1}
INVARIANTS TableInv RefsAddUp
PROPERTIES CloseReturns
