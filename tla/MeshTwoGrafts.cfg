CONSTANTS
  Peers = {p1}
  Topics = {t1, t2}
  Conns = {c1}
  MeshN = 1
  MeshNLow = 1
  MeshNHigh = 1
  MeshOutboundMin = 0
  RetainScores = 1
  PrunePeers = 0
  FloodPublish = TRUE
  PublishThreshold <- MinusOne
  GraylistThreshold <- MinusTwo
  AcceptPxThreshold = 0
  Scores <- BadOrNeutral
  PeerKinds = {"Gossipsubv1_1"}
  ExplicitCandidates = {}
SYMMETRY Symmetry
SPECIFICATION Spec
INVARIANT MeshPeerInformed
