---------------------------- MODULE ScoreParams -----------------------------
(***************************************************************************)
(* The parameters of the peer scores (gossipsub/peer_score/params.rs) and  *)
(* their validation.  Weights, caps and thresholds are integers, decays    *)
(* are percentages, durations are ticks.                                   *)
(***************************************************************************)
EXTENDS Integers

(* The parameters of a topic that is not scored.                           *)
CONSTANT NoParams

(* TopicScoreParams.  The quantum of the time in the mesh is a tick.       *)
IsTopicParams(r) ==
  /\ r.weight \in Int /\ r.timeWeight \in Int /\ r.timeCap \in Int
  /\ r.firstWeight \in Int /\ r.firstDecay \in 0..100 /\ r.firstCap \in Nat
  /\ r.meshWeight \in Int /\ r.meshDecay \in 0..100 /\ r.meshCap \in Nat
  /\ r.threshold \in Nat /\ r.window \in Nat /\ r.activation \in Nat
  /\ r.failureWeight \in Int /\ r.failureDecay \in 0..100
  /\ r.invalidWeight \in Int /\ r.invalidDecay \in 0..100

Between0And1(decay) == 0 < decay /\ decay < 100

(* TopicScoreParams::validate.                                             *)
ValidTopic(r) ==
  /\ r.weight >= 0
  /\ r.timeWeight >= 0 /\ (r.timeWeight # 0 => r.timeCap > 0)
  /\ r.firstWeight >= 0
  /\ r.firstWeight # 0 => Between0And1(r.firstDecay) /\ r.firstCap > 0
  /\ r.meshWeight <= 0
  /\ r.meshWeight # 0 => /\ Between0And1(r.meshDecay) /\ r.meshCap > 0
                         /\ r.threshold > 0 /\ r.activation >= 1
  /\ r.failureWeight <= 0
  /\ r.failureWeight # 0 => Between0And1(r.failureDecay)
  /\ r.invalidWeight <= 0 /\ Between0And1(r.invalidDecay)

(* PeerScoreParams without the topics.                                     *)
IsGlobalParams(g) ==
  /\ g.topicScoreCap \in Int /\ g.appWeight \in Int
  /\ g.ipWeight \in Int /\ g.ipThreshold \in Int
  /\ g.penaltyWeight \in Int /\ g.penaltyThreshold \in Int
  /\ g.penaltyDecay \in 0..100 /\ g.retainScore \in Nat

(* PeerScoreParams::validate, without the topics.                          *)
ValidGlobal(g) ==
  /\ g.topicScoreCap >= 0
  /\ g.ipWeight <= 0 /\ (g.ipWeight # 0 => g.ipThreshold >= 1)
  /\ g.penaltyWeight <= 0
  /\ g.penaltyWeight # 0 => Between0And1(g.penaltyDecay)
  /\ g.penaltyThreshold >= 0

(* A refresh multiplies a counter by its decay; what falls below           *)
(* decay_to_zero, less than one, becomes zero.                             *)
Decay(n, decay) == (n * decay) \div 100
=============================================================================
