CONSTANTS
  Consumers = {c1, c2, c3}
  Cap = 2
  MaxFrames = 3
SPECIFICATION FairSpec
INVARIANTS TypeOK NewestInOrder Conservation NoLostWakeup
PROPERTIES ImplementsQueue RecvReturns
