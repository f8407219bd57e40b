\* Two peers that come and go on two addresses, one of them without an IP, in
\* one topic that is scored from some point on.
CONSTANTS
  Peers = {p1, p2}
  Topics = {t1}
  Msgs = {}
  Addresses = {ip1, NoIp}
  NoIp = NoIp
  NoParams = NoParams
  TopicOf <- OneTopic
  Global <- SmallGlobal
  InitialParams <- Unscored
  ParamChoices <- JustUsual
  AppScores <- Bonus
  RecordTTL = 2
  DuplicateTTL = 1
  VerdictTTL = 1
  MaxAge = 2
  MaxConns = 2
  MaxCount = 1
  MaxPenalty = 1
SYMMETRY Symmetry
SPECIFICATION Spec
INVARIANTS StatusFollows NoGhostAddress DeficitCharged
PROPERTY NoWhitewash
