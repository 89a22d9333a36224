SPECIFICATION FairSpec
CONSTANTS
  w1 = w1
  own = own
  other = other
  Workers = {w1}
  Surfaces = {s1, s2}
  CrtcIds = {1, 2}
  Owner <- MCOwner
  Epfds = {own, other}
  epfd <- Shared
  MAX_CRTCS = 2
  None = None
PROPERTIES BlocksServed
CHECK_DEADLOCK FALSE
