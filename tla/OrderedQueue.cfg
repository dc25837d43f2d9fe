SPECIFICATION FairSpec
CONSTANTS
  N = 6
  Consumers = {c1, c2, c3}
INVARIANTS
  TypeOK
  QueueIsTheRun
  SomeoneIsAwake
PROPERTIES
  OrderSpec
  RunsAreDelivered
