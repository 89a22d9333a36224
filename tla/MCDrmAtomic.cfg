SPECIFICATION Spec
CONSTANTS
  NCrtcs = 2
  MAX_ATOMIC_PROPS = 2
  Positions = {0, 1}
  MaxFb = 1
  Clients = {{"legacy", "libdrm"}, {"ioctl"}}
INVARIANTS ModeInv
PROPERTIES CommitApplies IoctlAppliesWithRoom
