SPECIFICATION FairSpec
CHECK_DEADLOCK FALSE
CONSTANTS
  Angles = {front}
  Every = 7
INVARIANTS
  TypeOK
  OnlyGarbageCrashes
PROPERTIES
  SentryIsPaced
  LinkConverges
