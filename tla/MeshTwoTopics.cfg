CONSTANTS
  Peers = {p1}
  Topics = {t1, t2}
  Conns = {c1, c2}
  MeshN = 1
  MeshNLow = 1
  MeshNHigh = 1
  MeshOutboundMin = 0
  RetainScores = 1
  PrunePeers = 1
  FloodPublish = FALSE
  PublishThreshold <- MinusOne
  GraylistThreshold <- MinusTwo
  AcceptPxThreshold = 0
  Scores <- AllBands
  PeerKinds = {"Gossipsub", "Gossipsubv1_1"}
  ExplicitCandidates = {p1}
SYMMETRY Symmetry
SPECIFICATION Spec
INVARIANTS SubscriptionIndex NoStaleKeepAlive MeshOrFanout
PROPERTIES ExplicitNeverGrafted StaysInformed
CHECK_DEADLOCK FALSE
