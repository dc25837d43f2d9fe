SPECIFICATION FairSpec
CONSTANTS
  Axes <- MCAxes
  Messages <- MCMessages
  Circle = 4
  Deltas = {1, 2}
  Depth = 2
INVARIANTS
  TypeOK
  NewestIsObeyed
PROPERTIES
  SweepStaysInRange
  LastDecisionWins
  SweepReachesBothEnds
