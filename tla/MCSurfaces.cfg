SPECIFICATION PartsSpec
CONSTANTS
  SurfaceIds = {101, 102, 103}
  NCrtcs = 2
  MAX_DUMB_BUFS = 1
  MAX_GBM_BUFS = 3
  MAX_FBS = 2
  MaxDumbHandle = 2
  MaxFbId = 3
  w1 = w1
  own = own
  other = other
  Workers = {w1}
  Surfaces = {s1, s2}
  CrtcIds = {1, 2}
  Owner <- MCOwner
  Epfds = {own, other}
  epfd <- Separate
  MAX_CRTCS = 2
  None = None
INVARIANTS RefsAccounted TableIsLive BoIsFound CrtcsInv
PROPERTIES HandedOverIsServed
