SPECIFICATION FairSpec
CONSTANTS
  Fresh = 2
  Soft = 2
  Full = 3
INVARIANTS
  TypeOK
  NewestIsQueued
PROPERTIES
  AimEndsWithMode
  FramesStayInOrder
  LoopGoesRound
  BuffTakesOver
  ExitEndsOrHangs
