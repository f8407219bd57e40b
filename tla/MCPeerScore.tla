---------------------------- MODULE MCPeerScore -----------------------------
(* PeerScore for TLC.                                                      *)
EXTENDS PeerScore, TLC

Symmetry == Permutations(Peers)

OneTopic == [m \in Msgs |-> CHOOSE t \in Topics : TRUE]

SmallGlobal ==
  [topicScoreCap |-> 3, appWeight |-> 1, ipWeight |-> -1, ipThreshold |-> 1,
   ipWhitelist |-> {}, penaltyWeight |-> -1, penaltyThreshold |-> 0,
   penaltyDecay |-> 50, retainScore |-> 1]

Usual ==
  [weight |-> 1, timeWeight |-> 1, timeCap |-> 1, firstWeight |-> 1,
   firstDecay |-> 50, firstCap |-> 2, meshWeight |-> -2, meshDecay |-> 50,
   meshCap |-> 2, threshold |-> 1, window |-> 0, activation |-> 1,
   failureWeight |-> -2, failureDecay |-> 50, invalidWeight |-> -1,
   invalidDecay |-> 50]

(* Deficits never become active.                                           *)
Patient == [Usual EXCEPT !.activation = 5, !.firstCap = 1, !.meshCap = 2]
Strict  == [Patient EXCEPT !.meshCap = 1]
PatientOrStrict == {Patient, Strict}
PatientParams == [t \in Topics |-> Patient]

JustUsual   == {Usual}
Unscored    == [t \in Topics |-> NoParams]
Neutral     == {0}
Bonus       == {1}
=============================================================================
