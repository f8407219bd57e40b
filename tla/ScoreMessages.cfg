CONSTANTS
  Peers = {p1, p2}
  Topics = {t1}
  Msgs = {m1}
  Addresses = {ip1}
  NoIp = NoIp
  NoParams = NoParams
  TopicOf <- OneTopic
  Global <- SmallGlobal
  InitialParams <- PatientParams
  ParamChoices <- PatientOrStrict
  AppScores <- Neutral
  RecordTTL = 2
  DuplicateTTL = 1
  VerdictTTL = 1
  MaxAge = 1
  MaxConns = 1
  MaxCount = 2
  MaxPenalty = 0
SYMMETRY Symmetry
SPECIFICATION Spec
INVARIANTS BlameFollowsVerdict RepeatsCountedOnce
