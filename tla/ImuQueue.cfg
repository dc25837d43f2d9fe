SPECIFICATION ImuFairSpec
CONSTANTS
  Capacity = 3
  Threads = {t1, t2}
  MaxImages = 4
INVARIANTS
  ImuTypeOK
PROPERTIES
  AttitudeIsAround
  LoopGoesOn
