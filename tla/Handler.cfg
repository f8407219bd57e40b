CONSTANTS
  MaxAttempts = 5
  MaxMessages = 3
  Kinds = {"Gossipsubv1_1"}
SPECIFICATION FairSpec
INVARIANTS OneOutboundSubstream KindBeforeTraffic NothingLostOrDoubled
PROPERTY QueueDrains
CHECK_DEADLOCK FALSE
