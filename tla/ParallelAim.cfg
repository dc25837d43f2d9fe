SPECIFICATION Spec
CONSTANTS
  infantry = infantry
  NoKind = NoKind
  Kinds <- MCKinds
  Prio <- MCPrio
  MaxTempLost <- MCMaxTempLost
  MinDetect = 2
  DivergedBadFrames = 1
  NisLimit = 1
  Handoff = 1
  Cooldown = 2
  DropFrames = 2
INVARIANTS
  TypeOK
  OneStaleLock
PROPERTIES
  LossEndsFire
  HandoffSpec
