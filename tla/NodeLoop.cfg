CONSTANTS
  RelayCalls = {subscribe, publish}
  SwitchCalls = {dial}
  CommandCapacity = 2
  EventCapacity = 2
  RelayEnabled = TRUE
  MaxMessages = 4
SPECIFICATION FairSpec
INVARIANT NoEventLost
PROPERTIES LoopEnds AnsweredUnlessFull
CHECK_DEADLOCK FALSE
