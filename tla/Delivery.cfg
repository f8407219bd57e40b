CONSTANTS
  p1 = p1
  p2 = p2
  m1 = m1
  m2 = m2
  m3 = m3
  x = x
  Self = Self
  NoAuthor = NoAuthor
  Peers = {p1, p2}
  Msgs = {m1, m2, m3}
  Ids = {x}
  MsgId <- SameId
  Author <- Authors
  Configs <- ThreeConfigs
  DuplicateCacheTime = 3
  PublishedCacheTime = 1
  HistoryLength = 2
  HistoryGossip = 1
  GossipRetransmission = 1
  Blacklistable = {p2}
  MaxLate = 1
SPECIFICATION Spec
INVARIANTS NoLeak SeenOutlivesCache OnlyAcceptedLeaves NoEcho OfferedIsServable ServedBounded
PROPERTY HandedOverOnce
