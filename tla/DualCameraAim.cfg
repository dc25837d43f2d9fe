SPECIFICATION FairSpec
CONSTANTS
  sentry = sentry
  infantry = infantry
  NoKind = NoKind
  Kinds <- MCKinds
  Prio <- MCPrio
  MaxTempLost <- MCMaxTempLost
  MinDetect = 3
  DivergedBadFrames = 2
  NisLimit = 1
  Angles = {ahead}
  Zero = Zero
  Handoff = 1
  Cooldown = 2
  ClearFrames = 2
INVARIANTS
  TypeOK
  VisibleFireIsReleased
  NoLockBeforeCleared
  HoldWasAimed
PROPERTIES
  HandoffSpec
  BackTakesOver
