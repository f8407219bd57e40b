----------------------------- MODULE PeerScore ------------------------------
(***************************************************************************)
(* The peer scores of waku-relay (gossipsub/peer_score/stats.rs), together *)
(* with what the behaviour does to them: connections, GRAFTs and PRUNEs,   *)
(* the reception of messages and the verdicts on them, the parameters the  *)
(* application sets, and the periodic refresh.                             *)
(*                                                                         *)
(* Counters are whole numbers.  A decay multiplies a counter by a          *)
(* percentage and drops the fraction, as decay_to_zero does with what is   *)
(* left of the last one.  Time passes in ticks; a time that has reached    *)
(* the last value anyone compares it with stays there.                     *)
(***************************************************************************)
EXTENDS Integers, FiniteSets, FiniteSetsExt, ScoreParams

CONSTANTS
  Peers,           \* remote peers (PeerId)
  Topics,          \* topics (TopicHash)
  Msgs,            \* message ids
  Addresses,       \* remote addresses of connections
  NoIp,            \* the address that holds no IP address
  TopicOf,         \* the topic of each message
  Global,          \* PeerScoreParams, without the topics
  InitialParams,   \* PeerScoreParams.topics at the start
  ParamChoices,    \* the TopicScoreParams the application may set
  AppScores,       \* the application scores it may set
  RecordTTL,       \* TIME_CACHE_DURATION
  DuplicateTTL,    \* Config::duplicate_cache_time
  VerdictTTL,      \* how long a message stays in the message cache
  MaxAge,          \* the last value of a time in the mesh
  MaxConns,        \* bound: connections of a peer
  MaxCount,        \* bound: failure penalties and invalid messages
  MaxPenalty       \* bound: behaviour penalties

IPs == Addresses \ {NoIp}

ASSUME TimesAssumption ==
  /\ RecordTTL \in Nat /\ DuplicateTTL \in Nat /\ VerdictTTL \in Nat
  /\ 0 < VerdictTTL /\ VerdictTTL <= DuplicateTTL /\ 0 < RecordTTL
  /\ MaxAge \in Nat /\ MaxConns \in Nat /\ MaxCount \in Nat
  /\ MaxPenalty \in Nat

ASSUME ParamsAssumption ==
  /\ IsGlobalParams(Global) /\ ValidGlobal(Global)
  /\ \A r \in ParamChoices : IsTopicParams(r)
  /\ InitialParams \in [Topics -> ParamChoices \cup {NoParams}]
  /\ \A t \in Topics : InitialParams[t] # NoParams => ValidTopic(InitialParams[t])
  /\ NoParams \notin ParamChoices
  /\ AppScores \subseteq Int
  /\ TopicOf \in [Msgs -> Topics]

ASSUME FiniteAssumption ==
  IsFiniteSet(Peers) /\ IsFiniteSet(Topics) /\ IsFiniteSet(Addresses)

VARIABLES
  open,       \* the swarm's connections: how many of each peer and address
  peers,      \* the keys of peer_stats
  gone,       \* PeerStats.status: 0 if Connected, else 1 + the time since
  topics,     \* PeerStats.topics; a topic without an entry has NewTopicStats
  ips,        \* PeerStats.known_ips
  penalty,    \* PeerStats.behaviour_penalty
  app,        \* PeerStats.application_score
  peerIps,    \* peer_ips
  params,     \* PeerScoreParams.topics
  deliveries, \* deliveries
  seen,       \* the duplicate cache: time since the message was received
  awaiting,   \* who sent the message whose verdict the application owes
  repeats,    \* history: duplicates of a message counted for a peer
  blamed,     \* history: who was penalised for a message
  owing       \* history: who sent a message, as the one that is validated or
              \* as a duplicate, was not penalised for it, and has had
              \* statistics ever since

statVars    == <<peers, gone, topics, penalty, app>>
ipVars      == <<ips, peerIps>>
messageVars == <<deliveries, seen, awaiting, repeats, blamed, owing>>
vars == <<open, statVars, ipVars, params, messageVars>>

-----------------------------------------------------------------------------
(* Statistics.                                                             *)

(* TopicStats::default.  graft is the time since the GRAFT, time the       *)
(* mesh_time that the last refresh stored.                                 *)
NewTopicStats ==
  [inMesh |-> FALSE, graft |-> 0, time |-> 0, active |-> FALSE,
   first |-> 0, mesh |-> 0, failure |-> 0, invalid |-> 0]

(* stats_or_default_mut finds or creates statistics for scored topics.     *)
Scored(t) == params[t] # NoParams

(* DeliveryRecord.  A record that is not in the cache has status "None".   *)
NoRecord  == [status |-> "None", peers |-> {}, age |-> 0, valid |-> 0]
NewRecord == [status |-> "Unknown", peers |-> {}, age |-> 0, valid |-> 0]

(* deliveries.entry(m).or_insert_with(DeliveryRecord::default)             *)
Record(m) == IF deliveries[m].status = "None" THEN NewRecord
             ELSE deliveries[m]

Connections(p) == MapThenSumSet(LAMBDA a : open[p][a], Addresses)
Connected(p) == \E a \in Addresses : open[p][a] > 0

-----------------------------------------------------------------------------
(* The score.                                                              *)

Square(n) == n * n
AtMost(n, cap) == IF n < cap THEN n ELSE cap

(* P1 to P4, and what score adds for one topic.                            *)
TopicScore(s, r) ==
  LET p1  == IF s.inMesh THEN AtMost(s.time, r.timeCap) ELSE 0
      p2  == AtMost(s.first, r.firstCap)
      p3  == IF s.active /\ s.mesh < r.threshold
             THEN Square(r.threshold - s.mesh) ELSE 0
      p3b == s.failure
      p4  == Square(s.invalid)
  IN r.weight * (p1 * r.timeWeight + p2 * r.firstWeight + p3 * r.meshWeight
                 + p3b * r.failureWeight + p4 * r.invalidWeight)

(* The sum over the topics that are scored, for statistics stats and       *)
(* parameters rs.                                                          *)
TopicsSum(stats, rs) ==
  MapThenSumSet(LAMBDA t : IF rs[t] # NoParams THEN TopicScore(stats[t], rs[t])
                           ELSE 0, Topics)

(* The topics' part, limited by topic_score_cap if there is one.           *)
TopicsScore(p) ==
  LET sum == TopicsSum(topics[p], params)
  IN IF Global.topicScoreCap > 0 THEN AtMost(sum, Global.topicScoreCap)
     ELSE sum

(* P6 of a peer with addresses known, when byIp is peer_ips.               *)
IpScore(known, byIp) ==
  MapThenSumSet(LAMBDA i :
      LET n == Cardinality(byIp[i]) IN
      IF i \notin Global.ipWhitelist /\ n > Global.ipThreshold
      THEN Square(n - Global.ipThreshold) * Global.ipWeight ELSE 0, known)

(* The score without P6: what the peer itself is responsible for.          *)
OwnScore(p) ==
  IF p \notin peers THEN 0
  ELSE TopicsScore(p) + app[p] * Global.appWeight
       + (IF penalty[p] > Global.penaltyThreshold
          THEN Square(penalty[p] - Global.penaltyThreshold)
                 * Global.penaltyWeight
          ELSE 0)

Score(p) == OwnScore(p) + IpScore(ips[p], peerIps)

-----------------------------------------------------------------------------
(* Connections.                                                            *)

(* Mutant: the peer is not entered in peer_ips for its new address.        *)
AddIpToStats(p, a) ==
  /\ ips' = [ips EXCEPT ![p] = @ \cup ({a} \ {NoIp})]
  /\ UNCHANGED peerIps

(* add_ip and, for the first connection, add_peer: both find or create     *)
(* statistics and mark them as connected.                                  *)
AddIp(p, a) ==
  /\ ips' = [ips EXCEPT ![p] = @ \cup ({a} \ {NoIp})]
  /\ peerIps' = [i \in IPs |-> IF i = a THEN peerIps[i] \cup {p}
                               ELSE peerIps[i]]

MarkConnected(p) ==
  /\ peers' = peers \cup {p}
  /\ gone' = [gone EXCEPT ![p] = 0]

(* on_connection_established.                                              *)
ConnectionEstablished(p, a) ==
  /\ Connections(p) < MaxConns
  /\ open' = [open EXCEPT ![p][a] = @ + 1]
  /\ AddIp(p, a)
  /\ IF a # NoIp \/ ~Connected(p) THEN MarkConnected(p)
     ELSE UNCHANGED <<peers, gone>>
  /\ UNCHANGED <<topics, penalty, app, params, messageVars>>

(* remove_ip: known_ips and peer_ips once p has lost address a.            *)
KnownWithout(p, a) ==
  [ips EXCEPT ![p] = IF p \in peers THEN @ \ {a} ELSE @]

PeerIpsWithout(p, a) ==
  [i \in IPs |-> IF i = a /\ p \in peers THEN peerIps[i] \ {p}
                 ELSE peerIps[i]]

(* The counters' bound: no failure penalty exceeds it.                     *)
WithinBound(s) == s.failure <= MaxCount /\ s.invalid <= MaxCount

(* The sticky penalty for a delivery deficit (P3b).                        *)
Deficit(s, r) ==
  IF s.active /\ s.mesh < r.threshold THEN Square(r.threshold - s.mesh) ELSE 0

(* Mutant: a peer that leaves with a deficit is not charged for it.        *)
RetiredUncharged(s, r) ==
  [s EXCEPT !.first = 0, !.inMesh = FALSE, !.graft = 0, !.time = 0,
            !.active = FALSE]

(* Mutant: a peer that leaves stays in the mesh of its statistics.         *)
RetiredInMesh(s, r) ==
  [s EXCEPT !.first = 0,
            !.failure = @ + IF r # NoParams /\ s.inMesh THEN Deficit(s, r)
                            ELSE 0]

(* What remove_peer leaves of a retained peer's statistics: no reward for  *)
(* first deliveries, the deficit charged, out of the mesh.                 *)
Retired(s, r) ==
  [s EXCEPT !.first = 0, !.inMesh = FALSE, !.graft = 0, !.time = 0,
            !.active = FALSE,
            !.failure = @ + IF r # NoParams /\ s.inMesh THEN Deficit(s, r)
                            ELSE 0]

(* remove_peer: a peer with a positive score is forgotten, the statistics  *)
(* of any other one are retained.  It comes after remove_ip.               *)
RemovePeer(p, known, byIp) ==
  IF OwnScore(p) + IpScore(known[p], byIp) > 0
  THEN /\ peers' = peers \ {p}
       /\ topics' = [topics EXCEPT ![p] = [t \in Topics |-> NewTopicStats]]
       /\ penalty' = [penalty EXCEPT ![p] = 0]
       /\ app' = [app EXCEPT ![p] = 0]
       /\ gone' = [gone EXCEPT ![p] = 0]
       /\ peerIps' = [i \in IPs |-> IF i \in known[p] THEN byIp[i] \ {p}
                                    ELSE byIp[i]]
       /\ ips' = [known EXCEPT ![p] = {}]
  ELSE /\ topics' = IF p \in peers
                    THEN [topics EXCEPT ![p] =
                            [t \in Topics |-> Retired(topics[p][t], params[t])]]
                    ELSE topics
       /\ gone' = IF p \in peers THEN [gone EXCEPT ![p] = 1] ELSE gone
       /\ ips' = known
       /\ peerIps' = byIp
       /\ UNCHANGED <<peers, penalty, app>>

(* Mutant: the statistics are retired when any connection closes.          *)
RetireAlways(p, a) ==
  RemovePeer(p, KnownWithout(p, a), PeerIpsWithout(p, a))

(* What the scores are told when a connection closes, the last one of its  *)
(* peer or another.                                                        *)
ForgetConnection(p, a) ==
  IF \E b \in Addresses : open'[p][b] > 0
  THEN /\ ips' = KnownWithout(p, a)
       /\ peerIps' = PeerIpsWithout(p, a)
       /\ UNCHANGED statVars
  ELSE RemovePeer(p, KnownWithout(p, a), PeerIpsWithout(p, a))

(* History: with its statistics a peer loses what it owes.                 *)
ForgetDebts == owing' = [m \in Msgs |-> owing[m] \ (peers \ peers')]

(* on_connection_closed.                                                   *)
ConnectionClosed(p, a) ==
  /\ open[p][a] > 0
  /\ open' = [open EXCEPT ![p][a] = @ - 1]
  /\ ForgetConnection(p, a)
  /\ ForgetDebts
  /\ \A t \in Topics : WithinBound(topics'[p][t])
  /\ UNCHANGED <<params, deliveries, seen, awaiting, repeats, blamed>>

(* on_address_change: remove_ip of the old address, add_ip of the new one. *)
AddressChange(p, a, b) ==
  /\ open[p][a] > 0 /\ a # b
  /\ open' = [open EXCEPT ![p][a] = @ - 1, ![p][b] = @ + 1]
  /\ ips' = [KnownWithout(p, a) EXCEPT ![p] = @ \cup ({b} \ {NoIp})]
  /\ peerIps' = [i \in IPs |-> IF i = b THEN peerIps[i] \cup {p}
                               ELSE PeerIpsWithout(p, a)[i]]
  /\ IF b # NoIp THEN MarkConnected(p) ELSE UNCHANGED <<peers, gone>>
  /\ UNCHANGED <<topics, penalty, app, params, messageVars>>

-----------------------------------------------------------------------------
(* The mesh.                                                               *)

(* graft and prune change the statistics of a peer that has some, for a    *)
(* topic that is scored.                                                   *)
Update(p, t, s) ==
  /\ WithinBound(s)
  /\ topics' = IF p \in peers /\ Scored(t)
               THEN [topics EXCEPT ![p][t] = s] ELSE topics

Graft(p, t) ==
  /\ Connected(p) /\ ~topics[p][t].inMesh
  /\ Update(p, t, [topics[p][t] EXCEPT !.inMesh = TRUE, !.graft = 0,
                                       !.time = 0, !.active = FALSE])
  /\ UNCHANGED <<open, peers, gone, penalty, app, ipVars, params, messageVars>>

Prune(p, t) ==
  /\ Connected(p)
  /\ Scored(t)
  /\ Update(p, t, [topics[p][t] EXCEPT
                     !.failure = @ + Deficit(topics[p][t], params[t]),
                     !.inMesh = FALSE, !.graft = 0, !.time = 0,
                     !.active = FALSE])
  /\ UNCHANGED <<open, peers, gone, penalty, app, ipVars, params, messageVars>>

-----------------------------------------------------------------------------
(* Messages.                                                               *)

(* mark_first_message_delivery, mark_duplicate_message_delivery and        *)
(* mark_invalid_message_delivery, for statistics s under parameters r.     *)
MarkFirst(s, r) ==
  [s EXCEPT !.first = AtMost(@ + 1, r.firstCap),
            !.mesh = IF s.inMesh THEN AtMost(@ + 1, r.meshCap) ELSE @]

MarkDuplicate(s, r) ==
  [s EXCEPT !.mesh = IF s.inMesh THEN AtMost(@ + 1, r.meshCap) ELSE @]

MarkInvalid(s) == [s EXCEPT !.invalid = @ + 1]

(* Peers that a mark reaches: those with statistics, if topic t is scored. *)
Reached(P, t) == IF Scored(t) THEN P \cap peers ELSE {}

(* topics with the marks of P replaced by what Mark makes of them.         *)
Marked(f, P, t, Mark(_, _)) ==
  [p \in Peers |-> IF p \in Reached(P, t)
                   THEN [f[p] EXCEPT ![t] = Mark(@, params[t])] ELSE f[p]]

(* History: the peers of P that are in the mesh were counted for m.        *)
InMesh(P, m) == {p \in Reached(P, TopicOf[m]) : topics[p][TopicOf[m]].inMesh}

CountRepeat(m, P) ==
  [repeats EXCEPT ![m] = [p \in Peers |-> IF p \in InMesh(P, m)
                                          THEN AtMost(@[p] + 1, 2) ELSE @[p]]]

(* History: whose debt a penalty for P settles.  In a topic that is not    *)
(* scored there is none to have.                                           *)
Settled(P, t) == IF Scored(t) THEN Reached(P, t) ELSE P

(* A message that the duplicate cache does not know: validate_message.     *)
(* Without validate_messages the acceptance follows at once.               *)
Received(p, m) ==
  /\ Connected(p)
  /\ seen[m] = -1
  /\ seen' = [seen EXCEPT ![m] = 0]
  /\ awaiting' = [awaiting EXCEPT ![m] = {p}]
  /\ deliveries' = [deliveries EXCEPT ![m] = Record(m)]
  /\ owing' = [owing EXCEPT ![m] =
       IF Record(m).status = "Unknown" THEN (@ \cap Record(m).peers) \cup {p}
       ELSE @]
  /\ UNCHANGED <<open, statVars, ipVars, params, repeats, blamed>>

(* Mutant: a duplicate that comes during validation is not recorded.       *)
NotedOnceValid(m, p) ==
  IF Record(m).status = "Valid"
  THEN [Record(m) EXCEPT !.peers = @ \cup {p}] ELSE Record(m)

(* Mutant: duplicates of a valid message are not recorded.                 *)
NotedInValidation(m, p) ==
  IF Record(m).status = "Unknown"
  THEN [Record(m) EXCEPT !.peers = @ \cup {p}] ELSE Record(m)

(* The record of m once a duplicate from p was noted in it: while the      *)
(* message is being validated and once it is valid.                        *)
Noted(m, p) ==
  IF Record(m).status \in {"Unknown", "Valid"}
  THEN [Record(m) EXCEPT !.peers = @ \cup {p}] ELSE Record(m)

(* Is the mark of a duplicate due now, within the delivery window?         *)
InWindow(m) ==
  /\ Record(m).status = "Valid"
  /\ Scored(TopicOf[m]) => Record(m).valid <= params[TopicOf[m]].window

(* duplicated_message.                                                     *)
Duplicated(p, m) ==
  LET new  == p \notin Record(m).peers
      good == {q \in {p} : new /\ InWindow(m)}
      bad  == {q \in {p} : new /\ Record(m).status = "Invalid"}
  IN
  /\ Connected(p)
  /\ seen[m] # -1
  /\ deliveries' = [deliveries EXCEPT ![m] = IF new THEN Noted(m, p)
                                             ELSE Record(m)]
  /\ topics' = Marked(Marked(topics, good, TopicOf[m], MarkDuplicate),
                      bad, TopicOf[m], LAMBDA s, r : MarkInvalid(s))
  /\ WithinBound(topics'[p][TopicOf[m]])
  /\ repeats' = CountRepeat(m, good)
  /\ blamed' = [blamed EXCEPT ![m] = @ \cup Reached(bad, TopicOf[m])]
  /\ owing' = [owing EXCEPT ![m] = (@ \cup {p}) \ Settled(bad, TopicOf[m])]
  /\ UNCHANGED <<open, peers, gone, penalty, app, ipVars, params, seen,
                 awaiting>>

(* The application accepts the message of p in time: deliver_message.      *)
Accept(p, m) ==
  LET r    == Record(m)
      late == IF r.status = "Unknown" THEN r.peers \ {p} ELSE {}
  IN
  /\ p \in awaiting[m]
  /\ awaiting' = [awaiting EXCEPT ![m] = {}]
  /\ topics' = Marked(Marked(topics, {p}, TopicOf[m], MarkFirst),
                      late, TopicOf[m], MarkDuplicate)
  /\ deliveries' = [deliveries EXCEPT ![m] =
       IF r.status = "Unknown" THEN [r EXCEPT !.status = "Valid", !.valid = 0]
       ELSE r]
  /\ repeats' = CountRepeat(m, late)
  /\ UNCHANGED <<open, peers, gone, penalty, app, ipVars, params, seen,
                 blamed, owing>>

(* Mutant: an ignored message is treated like an invalid one.              *)
GuiltyOfIgnored(m, p, verdict) ==
  IF Record(m).status = "Unknown" THEN {p} \cup Record(m).peers ELSE {}

(* Whom a negative verdict penalises: the sender and the senders of the    *)
(* duplicates, if it is the first verdict and not Ignore.                  *)
Guilty(m, p, verdict) ==
  IF Record(m).status = "Unknown" /\ verdict = "Invalid"
  THEN {p} \cup Record(m).peers ELSE {}

(* The application rejects or ignores the message of p in time:            *)
(* reject_message for p and again for every sender of a duplicate, which   *)
(* finds the verdict in the record.  p itself is penalised twice if it     *)
(* sent the message twice.                                                 *)
Reject(p, m, verdict) ==
  LET guilty == Guilty(m, p, verdict)
      twice  == guilty \cap {p} \cap Record(m).peers
  IN
  /\ p \in awaiting[m]
  /\ awaiting' = [awaiting EXCEPT ![m] = {}]
  /\ deliveries' = [deliveries EXCEPT ![m] =
       IF Record(m).status = "Unknown"
       THEN [Record(m) EXCEPT !.status = verdict, !.peers = {}] ELSE Record(m)]
  /\ topics' = Marked(Marked(topics, guilty, TopicOf[m],
                             LAMBDA s, r : MarkInvalid(s)),
                      twice, TopicOf[m], LAMBDA s, r : MarkInvalid(s))
  /\ \A q \in Peers : WithinBound(topics'[q][TopicOf[m]])
  /\ blamed' = [blamed EXCEPT ![m] = @ \cup Reached(guilty, TopicOf[m])]
  /\ owing' = [owing EXCEPT ![m] = @ \ Settled(guilty, TopicOf[m])]
  /\ UNCHANGED <<open, peers, gone, penalty, app, ipVars, params, seen,
                 repeats>>

(* A message that cannot be valid, that we published ourselves, or of a    *)
(* blacklisted peer: reject_invalid_message, also through reject_message   *)
(* for the first two reasons when the message has a fast id.               *)
RejectInvalid(p, t) ==
  /\ Connected(p)
  /\ topics' = Marked(topics, {p}, t, LAMBDA s, r : MarkInvalid(s))
  /\ WithinBound(topics'[p][t])
  /\ UNCHANGED <<open, peers, gone, penalty, app, ipVars, params, messageVars>>

-----------------------------------------------------------------------------
(* Penalties, the application's calls, the refresh.                        *)

(* add_penalty: an early GRAFT or broken promises.                         *)
AddPenalty(p) ==
  /\ p \in peers
  /\ penalty[p] < MaxPenalty
  /\ penalty' = [penalty EXCEPT ![p] = @ + 1]
  /\ UNCHANGED <<open, peers, gone, topics, app, ipVars, params, messageVars>>

SetApplicationScore(p, n) ==
  /\ p \in peers
  /\ app' = [app EXCEPT ![p] = n]
  /\ UNCHANGED <<open, peers, gone, topics, penalty, ipVars, params,
                 messageVars>>

(* The counters of a topic whose caps are lowered.                         *)
Lowered(s, old, new) ==
  IF old = NoParams THEN s
  ELSE [s EXCEPT
          !.first = IF old.firstCap > new.firstCap THEN AtMost(@, new.firstCap)
                    ELSE @,
          !.mesh = IF old.meshCap > new.meshCap THEN AtMost(@, new.meshCap)
                   ELSE @]

(* set_topic_params.  Nothing validates the parameters.                    *)
SetTopicParams(t, r) ==
  /\ r # params[t]
  /\ params' = [params EXCEPT ![t] = r]
  /\ topics' = [p \in Peers |->
       [topics[p] EXCEPT ![t] = Lowered(@, params[t], r)]]
  /\ UNCHANGED <<open, peers, gone, penalty, app, ipVars, messageVars>>

(* refresh_scores, for the statistics of one topic of a connected peer.    *)
Refreshed(s, r) ==
  IF r = NoParams THEN s
  ELSE [s EXCEPT !.first = Decay(@, r.firstDecay),
                 !.mesh = Decay(@, r.meshDecay),
                 !.failure = Decay(@, r.failureDecay),
                 !.invalid = Decay(@, r.invalidDecay),
                 !.time = IF s.inMesh THEN s.graft ELSE @,
                 !.active = @ \/ (s.inMesh /\ s.graft > r.activation)]

(* The peers whose retention period is over.                               *)
Expired == {p \in peers : gone[p] > Global.retainScore + 1}

(* refresh_scores: expired statistics go, those of disconnected peers stay *)
(* as they are, those of connected peers decay.                            *)
Refresh ==
  /\ peers' = peers \ Expired
  /\ topics' = [p \in Peers |-> [t \in Topics |->
       IF p \in Expired THEN NewTopicStats
       ELSE IF p \in peers /\ gone[p] = 0
            THEN Refreshed(topics[p][t], params[t]) ELSE topics[p][t]]]
  /\ penalty' = [p \in Peers |->
       IF p \in Expired THEN 0
       ELSE IF p \in peers /\ gone[p] = 0
            THEN Decay(penalty[p], Global.penaltyDecay) ELSE penalty[p]]
  /\ app' = [p \in Peers |-> IF p \in Expired THEN 0 ELSE app[p]]
  /\ gone' = [p \in Peers |-> IF p \in Expired THEN 0 ELSE gone[p]]
  /\ peerIps' = [i \in IPs |-> peerIps[i] \ {p \in Expired : i \in ips[p]}]
  /\ ips' = [p \in Peers |-> IF p \in Expired THEN {} ELSE ips[p]]
  /\ ForgetDebts
  /\ UNCHANGED <<open, params, deliveries, seen, awaiting, repeats, blamed>>

(* The passing of time: retention periods, times in the mesh, the two      *)
(* caches of messages, and the message cache that a verdict must find the  *)
(* message in.                                                             *)
Older(d) ==
  IF d.status = "None" \/ d.age + 1 >= RecordTTL THEN NoRecord
  ELSE [d EXCEPT !.age = @ + 1,
                 !.valid = IF d.status = "Valid" THEN AtMost(@ + 1, MaxAge)
                           ELSE @]

Tick ==
  /\ gone' = [p \in Peers |-> IF gone[p] = 0 THEN 0
                              ELSE AtMost(gone[p] + 1, Global.retainScore + 2)]
  /\ topics' = [p \in Peers |-> [t \in Topics |->
       [topics[p][t] EXCEPT !.graft = IF topics[p][t].inMesh
                                      THEN AtMost(@ + 1, MaxAge) ELSE @]]]
  /\ deliveries' = [m \in Msgs |-> Older(deliveries[m])]
  /\ seen' = [m \in Msgs |-> IF seen[m] = -1 \/ seen[m] + 1 >= DuplicateTTL
                             THEN -1 ELSE seen[m] + 1]
  /\ awaiting' = [m \in Msgs |-> IF seen[m] + 1 >= VerdictTTL THEN {}
                                 ELSE awaiting[m]]
  /\ LET dropped == {m \in Msgs : deliveries'[m].status = "None"}
     IN /\ repeats' = [m \in Msgs |-> IF m \in dropped THEN [p \in Peers |-> 0]
                                      ELSE repeats[m]]
        /\ blamed' = [m \in Msgs |-> IF m \in dropped THEN {} ELSE blamed[m]]
        /\ owing' = [m \in Msgs |-> IF m \in dropped THEN {} ELSE owing[m]]
  /\ UNCHANGED <<open, peers, penalty, app, ipVars, params>>

-----------------------------------------------------------------------------
Init ==
  /\ open = [p \in Peers |-> [a \in Addresses |-> 0]]
  /\ peers = {} /\ gone = [p \in Peers |-> 0]
  /\ topics = [p \in Peers |-> [t \in Topics |-> NewTopicStats]]
  /\ penalty = [p \in Peers |-> 0] /\ app = [p \in Peers |-> 0]
  /\ ips = [p \in Peers |-> {}] /\ peerIps = [i \in IPs |-> {}]
  /\ params = InitialParams
  /\ deliveries = [m \in Msgs |-> NoRecord]
  /\ seen = [m \in Msgs |-> -1]
  /\ awaiting = [m \in Msgs |-> {}]
  /\ repeats = [m \in Msgs |-> [p \in Peers |-> 0]]
  /\ blamed = [m \in Msgs |-> {}] /\ owing = [m \in Msgs |-> {}]

ConnectionStep(p) ==
  \/ \E a \in Addresses : ConnectionEstablished(p, a) \/ ConnectionClosed(p, a)
  \/ \E a, b \in Addresses : AddressChange(p, a, b)

MeshStep(p) == \E t \in Topics : Graft(p, t) \/ Prune(p, t)

MessageStep(p) ==
  \/ \E m \in Msgs : Received(p, m) \/ Duplicated(p, m) \/ Accept(p, m)
  \/ \E m \in Msgs, verdict \in {"Invalid", "Ignored"} : Reject(p, m, verdict)
  \/ \E t \in Topics : RejectInvalid(p, t)

ApplicationStep(p) ==
  \/ AddPenalty(p)
  \/ \E n \in AppScores : SetApplicationScore(p, n)

Next ==
  \/ \E p \in Peers : \/ ConnectionStep(p) \/ MeshStep(p)
                      \/ MessageStep(p) \/ ApplicationStep(p)
  \/ \E t \in Topics, r \in ParamChoices : SetTopicParams(t, r)
  \/ Refresh
  \/ Tick

Spec == Init /\ [][Next]_vars

-----------------------------------------------------------------------------
(* Properties.                                                             *)

TopicStats ==
  [inMesh : BOOLEAN, graft : 0..MaxAge, time : 0..MaxAge, active : BOOLEAN,
   first : Nat, mesh : Nat, failure : 0..MaxCount, invalid : 0..MaxCount]

Records ==
  [status : {"None", "Unknown", "Valid", "Invalid", "Ignored"},
   peers : SUBSET Peers, age : 0..RecordTTL, valid : 0..MaxAge]

(* The state has its type; a peer without statistics has the initial ones. *)
TypeOK ==
  /\ open \in [Peers -> [Addresses -> Nat]]
  /\ peers \subseteq Peers
  /\ gone \in [Peers -> 0..(Global.retainScore + 2)]
  /\ topics \in [Peers -> [Topics -> TopicStats]]
  /\ penalty \in [Peers -> 0..MaxPenalty] /\ app \in [Peers -> Int]
  /\ ips \in [Peers -> SUBSET IPs] /\ peerIps \in [IPs -> SUBSET Peers]
  /\ params \in [Topics -> ParamChoices \cup {NoParams}]
  /\ deliveries \in [Msgs -> Records]
  /\ seen \in [Msgs -> -1..DuplicateTTL]
  /\ awaiting \in [Msgs -> SUBSET Peers]
  /\ repeats \in [Msgs -> [Peers -> 0..2]]
  /\ blamed \in [Msgs -> SUBSET Peers] /\ owing \in [Msgs -> SUBSET Peers]
  /\ \A p \in Peers \ peers :
       /\ gone[p] = 0 /\ ips[p] = {} /\ penalty[p] = 0 /\ app[p] = 0
       /\ topics[p] = [t \in Topics |-> NewTopicStats]

(* The status that the scores keep of a peer follows its connections:      *)
(* statistics are marked as connected exactly while a connection is open,  *)
(* whatever the order of connections, closings, address changes and        *)
(* refreshes.                                                              *)
StatusFollows ==
  \A p \in Peers : Connected(p) <=> p \in peers /\ gone[p] = 0

(* peer_ips and known_ips, which five handlers update separately, say the  *)
(* same; and no peer is counted at an address it has no connection from,   *)
(* so nobody pays for a neighbour that has left.                           *)
NoGhostAddress ==
  /\ \A i \in IPs : peerIps[i] = {p \in peers : i \in ips[p]}
  /\ \A p \in Peers : \A i \in ips[p] : open[p][i] > 0

(* A delivery deficit is only pending for connected peers in the mesh:     *)
(* leaving either way has charged it.                                      *)
DeficitCharged ==
  \A p \in Peers, t \in Topics :
    /\ topics[p][t].active => topics[p][t].inMesh
    /\ topics[p][t].inMesh => Connected(p)

(* The parameters pass validate, which set_topic_params does not call, and *)
(* leaving a mesh with a deficit costs at least as much as staying.        *)
Sticky == \A t \in Topics : Scored(t) =>
            ValidTopic(params[t]) /\ params[t].failureWeight <= params[t].meshWeight

(* A peer's own score rises by deliveries, by the application's calls and  *)
(* by the refreshes while it is connected.  No peer improves it by         *)
(* connecting, disconnecting, changing its address, joining or leaving the *)
(* mesh, or by waiting: not even through the refreshes while it is gone,   *)
(* unless its retention period is over.                                    *)
NoWhitewash ==
  [][\A p \in Peers :
       Sticky /\ OwnScore(p)' > OwnScore(p) =>
         \/ \E m \in Msgs : Accept(p, m) \/ Duplicated(p, m)
         \/ \E m \in Msgs, q \in Peers : Accept(q, m) /\ p \in deliveries[m].peers
         \/ \E n \in AppScores : SetApplicationScore(p, n)
         \/ \E t \in Topics, r \in ParamChoices : SetTopicParams(t, r)
         \/ Refresh /\ (gone[p] = 0 \/ p \in Expired)]_vars

(* Nobody is penalised for a message before it was found invalid, or when  *)
(* it was accepted or ignored; and once it was found invalid, everyone who *)
(* sent it, before or after the verdict, and whose statistics were kept    *)
(* since, has been penalised if the topic was scored then.  Not counted    *)
(* are three that the code lets go: a peer whose statistics are dropped    *)
(* before the verdict, because it leaves with a positive score or stays    *)
(* away for the retention period; a first sender whose verdict is overdue; *)
(* and one that repeats the message when the duplicate cache has forgotten *)
(* it and its record has not.                                              *)
BlameFollowsVerdict ==
  \A m \in Msgs : IF deliveries[m].status = "Invalid" THEN owing[m] = {}
                   ELSE blamed[m] = {}

(* A duplicate is counted once for each peer, whether it came before the   *)
(* verdict or after it.                                                    *)
RepeatsCountedOnce == \A m \in Msgs, p \in Peers : repeats[m][p] <= 1
=============================================================================
