CONSTANTS
  p1 = p1
  p2 = p2
  m1 = m1
  m2 = m2
  n1 = n1
  m = m
  n = n
  Peers = {p1, p2}
  Msgs = {m1, m2, n1}
  Ids = {m, n}
  MsgId <- TwoEncodings
  Configs <- AllConfigs
  DuplicateCacheTime = 1
  FollowupTime = 1
  MaxIhaveLength = 1
  MaxIhaveMessages = 2
SPECIFICATION FairSpec
INVARIANTS AskedOnce PenaltyDeserved
PROPERTY PromisesEnd
