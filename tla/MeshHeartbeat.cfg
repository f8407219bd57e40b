CONSTANTS
  Peers = {p1, p2, p3}
  Topics = {t1}
  Conns = {c1, c2, c3}
  MeshN = 2
  MeshNLow = 1
  MeshNHigh = 2
  MeshOutboundMin = 1
  RetainScores = 1
  PrunePeers = 0
  FloodPublish = TRUE
  PublishThreshold <- MinusOne
  GraylistThreshold <- MinusTwo
  AcceptPxThreshold = 0
  Scores <- BadOrNeutral
  PeerKinds = {"Gossipsubv1_1"}
  ExplicitCandidates = {}
SYMMETRY Symmetry
SPECIFICATION Spec
INVARIANTS NoPanic BackoffRespected InboundBounded
PROPERTY HeartbeatRepairs
