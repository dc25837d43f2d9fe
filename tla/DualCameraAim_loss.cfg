SPECIFICATION Spec
CONSTANTS
  sentry = sentry
  infantry = infantry
  NoKind = NoKind
  Kinds <- MCKinds
  Prio <- MCPrio
  MaxTempLost <- MCMaxTempLost
  MinDetect = 3
  DivergedBadFrames = 2
  NisLimit = 2
  Angles = {ahead}
  Zero = Zero
  Handoff = 1
  Cooldown = 2
  ClearFrames = 2
PROPERTIES
  LossIsHeld
