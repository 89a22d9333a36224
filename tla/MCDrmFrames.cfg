SPECIFICATION FramesSpec
CONSTANTS
  Threads = {t1, t2}
  Loops = {t1}
  NCrtcs = 2
  MAX_FLIP_EVENTS = 4
  PipeCapacity = 3
  GBM_NUM_BUFFERS = 4
CHECK_DEADLOCK FALSE
INVARIANTS NoLostWakeup FramesInv
PROPERTIES RingIsQueue FramesGoOn NoTearing
