-------------------------------- MODULE Mesh --------------------------------
(***************************************************************************)
(* The overlay core of the gossipsub behaviour of waku-relay               *)
(* (gossipsub/behaviour.rs, connection_manager.rs): which peers are        *)
(* connected, which topics they announced, which peers are in the mesh and *)
(* in the fanout of each topic, which (topic, peer) pairs are backing off, *)
(* and which connection handlers were told to keep their connection alive. *)
(*                                                                         *)
(* The remote side is an environment: any connected peer may at any time   *)
(* send subscriptions, GRAFTs and PRUNEs.  Scores are an environment too:  *)
(* they are read here and computed by the scoring service.                 *)
(***************************************************************************)
EXTENDS Integers, Sequences, FiniteSets, SequencesExt

CONSTANTS
  Peers,              \* remote peers (PeerId)
  Topics,             \* topics (TopicHash)
  Conns,              \* connection ids; also bounds the open connections
  MeshN, MeshNLow, MeshNHigh, MeshOutboundMin, RetainScores,
                      \* Config::mesh_n, mesh_n_low, ...
  PrunePeers,         \* Config::prune_peers
  FloodPublish,       \* Config::flood_publish
  PublishThreshold, GraylistThreshold, AcceptPxThreshold,
                      \* PeerScoreThresholds
  Scores,             \* the values a peer's score may take
  PeerKinds,          \* the kinds handlers may report
  ExplicitCandidates  \* peers the application may make explicit

(* What ConfigBuilder::build enforces.                                     *)
ASSUME ConfigAssumption ==
  /\ MeshN \in Nat /\ MeshNLow \in Nat /\ MeshNHigh \in Nat
  /\ MeshOutboundMin \in Nat /\ RetainScores \in Nat /\ PrunePeers \in Nat
  /\ MeshOutboundMin <= MeshNLow /\ MeshNLow <= MeshN /\ MeshN <= MeshNHigh
  /\ 2 * MeshOutboundMin <= MeshN

ASSUME EnvironmentAssumption ==
  /\ FloodPublish \in BOOLEAN
  /\ IsFiniteSet(Peers) /\ IsFiniteSet(Topics)
  /\ Scores \subseteq Int /\ 0 \in Scores
  /\ PublishThreshold \in Int /\ GraylistThreshold \in Int
  /\ AcceptPxThreshold \in Int
  /\ PeerKinds \subseteq {"Floodsub", "Gossipsub", "Gossipsubv1_1"}
  /\ ExplicitCandidates \subseteq Peers

VARIABLES
  conns,        \* ConnectionManager.peers[p].connections, oldest first
  kind,         \* ConnectionManager.peers[p].kind, "None" if not connected
  outbound,     \* ConnectionManager.outbound_peers
  pxPeers,      \* px_peers
  known,        \* the keys of peer_topics
  peerTopics,   \* peer_topics
  topicSeen,    \* the keys of topic_peers
  topicPeers,   \* topic_peers
  explicit,     \* explicit_peers
  subscribed,   \* the keys of mesh
  mesh,         \* mesh
  fanoutTopics, \* the keys of fanout and of fanout_last_pub
  fanout,       \* fanout
  backoff,      \* the pairs in the backoff storage
  running,      \* those of them whose backoff time is not over
  score,        \* PeerScoreService::peer_score
  inMesh,       \* connections whose handler was last sent JoinedMesh
  panic         \* an assert! or expect of the code has failed

peerVars  == <<conns, kind, outbound, pxPeers>>
topicVars == <<known, peerTopics, topicSeen, topicPeers>>
meshVars  == <<subscribed, mesh>>
fanVars   == <<fanoutTopics, fanout>>
boVars    == <<backoff, running>>
vars == <<peerVars, topicVars, explicit, meshVars, fanVars, boVars, score,
          inMesh, panic>>

-----------------------------------------------------------------------------
(* Helpers.                                                                *)

Connected == {p \in Peers : conns[p] # <<>>}

(* PeerKind::is_gossipsub of ConnectionManager::kind.                      *)
IsGossipsub(p) == kind[p] \in {"Gossipsub", "Gossipsubv1_1"}

(* get_random_peers: all of S when it has no more than n peers, otherwise  *)
(* n of them.                                                              *)
RandomPeers(n, S) ==
  IF Cardinality(S) <= n THEN {S} ELSE {R \in SUBSET S : Cardinality(R) = n}

(* The peers get_random_peers draws from: the gossipsub peers of a topic.  *)
GossipPeers(t) == {p \in topicPeers[t] : IsGossipsub(p)}

(* Is p, according to the topics pt it announced, in the mesh m of a topic *)
(* other than those in ts?  Both peer_added_to_mesh and                    *)
(* peer_removed_from_mesh stay silent when it is.                          *)
InOtherMesh(p, ts, m, pt) == \E u \in pt[p] \ ts : p \in m[u]

(* The connection whose handler hears about a peer: its first one.         *)
FirstConn(p) == conns[p][1]
FirstConns(P) == {FirstConn(p) : p \in P \cap Connected}

(* Mutant: LeftMesh is never sent.                                         *)
NotifyJoinedOnly(joined, left) == inMesh' = inMesh \cup FirstConns(joined)

(* The handlers' keep-alive flags after JoinedMesh was queued for the      *)
(* peers in joined and LeftMesh for those in left.                         *)
NotifyHandlers(joined, left) ==
  inMesh' = (inMesh \cup FirstConns(joined)) \ FirstConns(left)

(* Both functions of the mesh bookkeeping panic for a peer that has no     *)
(* connection.                                                             *)
RequireConnection(P) == panic' = ~(P \subseteq Connected)

(* make_prune records a backoff for every peer but a GossipSub v1.0 one.   *)
PruneBackoffs(pairs) == {x \in pairs : kind[x[2]] # "Gossipsub"}

UpdateBackoff(pairs) ==
  /\ backoff' = backoff \cup pairs
  /\ running' = running \cup pairs

-----------------------------------------------------------------------------
(* The swarm's connection events.                                          *)

OpenConns == UNION {{conns[p][i] : i \in 1..Len(conns[p])} : p \in Peers}

ConnectionEstablished(p, c, dialer) ==
  /\ ~panic
  /\ c \notin OpenConns
  /\ conns' = [conns EXCEPT ![p] = Append(@, c)]
  /\ IF conns[p] = <<>>
     THEN /\ kind' = [kind EXCEPT ![p] = "Floodsub"]
          /\ outbound' = IF dialer /\ p \notin pxPeers
                         THEN outbound \cup {p} ELSE outbound
          /\ known' = known \cup {p}
          /\ peerTopics' = [peerTopics EXCEPT ![p] = {}]
     ELSE UNCHANGED <<kind, outbound, known, peerTopics>>
  /\ UNCHANGED <<pxPeers, topicSeen, topicPeers, explicit, meshVars, fanVars,
                 boVars, score, inMesh, panic>>

(* Mutant: a connection that becomes the first one is not told.            *)
HandOverNothing(p, rest) == {}

(* The handlers told to keep their connection alive when rest are the      *)
(* connections p has left: the first one's, if p is in a mesh.             *)
HandOver(p, rest) ==
  IF InOtherMesh(p, {}, mesh, peerTopics) THEN {rest[1]} ELSE {}

(* One of several connections closes.                                      *)
OneConnectionClosed(p, i) ==
  /\ ~panic
  /\ Len(conns[p]) > 1
  /\ LET rest == RemoveAt(conns[p], i)
     IN /\ conns' = [conns EXCEPT ![p] = rest]
        /\ inMesh' = (inMesh \ {conns[p][i]}) \cup HandOver(p, rest)
  /\ UNCHANGED <<kind, outbound, pxPeers, topicVars, explicit, meshVars,
                 fanVars, boVars, score, panic>>

(* Mutants: the maps of peers by topic keep p, or lose it for our own      *)
(* topics only.                                                            *)
ForgetNothing(p, f) == f
ForgetInSubscribed(p, f) ==
  [t \in Topics |-> IF t \in peerTopics[p] \cap subscribed
                    THEN f[t] \ {p} ELSE f[t]]

(* A map f from topics to peers without p, for the topics that peer_topics *)
(* records for p.                                                          *)
ForgetPeer(p, f) ==
  [t \in Topics |-> IF t \in peerTopics[p] THEN f[t] \ {p} ELSE f[t]]

(* The last connection closes: the peer is removed from the maps.          *)
LastConnectionClosed(p) ==
  /\ ~panic
  /\ Len(conns[p]) = 1
  /\ inMesh' = inMesh \ FirstConns({p})
  /\ conns' = [conns EXCEPT ![p] = <<>>]
  /\ panic' = (p \notin known)
  /\ mesh' = ForgetPeer(p, mesh)
  /\ topicPeers' = ForgetPeer(p, topicPeers)
  /\ fanout' = ForgetPeer(p, fanout)
  /\ pxPeers' = pxPeers \ {p}
  /\ known' = known \ {p}
  /\ peerTopics' = [peerTopics EXCEPT ![p] = {}]
  /\ kind' = [kind EXCEPT ![p] = "None"]
  /\ outbound' = outbound \ {p}
  /\ UNCHANGED <<topicSeen, explicit, subscribed, fanoutTopics, boVars, score>>

(* HandlerEvent::PeerKind: only the default kind is ever replaced.         *)
PeerKind(p, k) ==
  /\ ~panic
  /\ kind[p] = "Floodsub"
  /\ kind' = [kind EXCEPT ![p] = k]
  /\ UNCHANGED <<conns, outbound, pxPeers, topicVars, explicit, meshVars,
                 fanVars, boVars, score, inMesh, panic>>

-----------------------------------------------------------------------------
(* The application's calls.                                                *)

(* Mutant: JOIN and SUBSCRIBE do not look at explicit_peers.               *)
GraftableExplicit(t, p) == score[p] >= 0 /\ <<t, p>> \notin backoff

(* A peer the code will GRAFT on its own initiative.                       *)
Graftable(t, p) ==
  /\ p \notin explicit
  /\ score[p] >= 0
  /\ <<t, p>> \notin backoff

(* Mutant: JOIN leaves the fanout of the topic in place.                   *)
SubscribeKeepingFanout(t) ==
  /\ ~panic
  /\ t \notin subscribed
  /\ \E added \in RandomPeers(MeshN, {p \in GossipPeers(t) : Graftable(t, p)}) :
       /\ mesh' = [mesh EXCEPT ![t] = added]
       /\ NotifyHandlers({p \in added :
                           ~InOtherMesh(p, {t}, mesh', peerTopics)}, {})
       /\ RequireConnection(added)
  /\ subscribed' = subscribed \cup {t}
  /\ UNCHANGED <<peerVars, topicVars, explicit, fanVars, boVars, score>>

(* subscribe and JOIN: up to mesh_n peers of the fanout, then random ones. *)
Subscribe(t) ==
  /\ ~panic
  /\ t \notin subscribed
  /\ \E fromFanout \in RandomPeers(MeshN, {p \in fanout[t] : Graftable(t, p)}) :
     \E random \in RandomPeers(MeshN - Cardinality(fromFanout),
                     {p \in GossipPeers(t) : p \notin fromFanout
                                             /\ Graftable(t, p)}) :
       LET added == fromFanout \cup random
       IN /\ mesh' = [mesh EXCEPT ![t] = added]
          /\ subscribed' = IF t \in fanoutTopics \/ MeshN > 0
                           THEN subscribed \cup {t} ELSE subscribed
          /\ NotifyHandlers({p \in added :
                              ~InOtherMesh(p, {t}, mesh', peerTopics)}, {})
          /\ RequireConnection(added)
  /\ fanoutTopics' = fanoutTopics \ {t}
  /\ fanout' = [fanout EXCEPT ![t] = {}]
  /\ UNCHANGED <<peerVars, topicVars, explicit, boVars, score>>

(* unsubscribe and LEAVE: every mesh peer is sent a PRUNE.                 *)
Unsubscribe(t) ==
  /\ ~panic
  /\ t \in subscribed
  /\ subscribed' = subscribed \ {t}
  /\ mesh' = [mesh EXCEPT ![t] = {}]
  /\ UpdateBackoff(PruneBackoffs({t} \X mesh[t]))
  /\ NotifyHandlers({}, {p \in mesh[t] :
                           ~InOtherMesh(p, {t}, mesh', peerTopics)})
  /\ RequireConnection(mesh[t])
  /\ UNCHANGED <<peerVars, topicVars, explicit, fanVars, score>>

(* publish to a topic we are not subscribed to, without flood publishing:  *)
(* the fanout of the topic is created.  Publishing changes nothing else in *)
(* this module's state.                                                    *)
PublishToFanout(t) ==
  /\ ~panic
  /\ ~FloodPublish
  /\ t \in topicSeen /\ t \notin subscribed /\ t \notin fanoutTopics
  /\ fanoutTopics' = fanoutTopics \cup {t}
  /\ \E new \in RandomPeers(MeshN, {p \in GossipPeers(t) :
                   p \notin explicit /\ score[p] >= PublishThreshold}) :
       fanout' = [fanout EXCEPT ![t] = new]
  /\ UNCHANGED <<peerVars, topicVars, explicit, meshVars, boVars, score,
                 inMesh, panic>>

AddExplicitPeer(p) ==
  /\ ~panic
  /\ explicit' = explicit \cup {p}
  /\ UNCHANGED <<peerVars, topicVars, meshVars, fanVars, boVars, score,
                 inMesh, panic>>

RemoveExplicitPeer(p) ==
  /\ ~panic
  /\ explicit' = explicit \ {p}
  /\ UNCHANGED <<peerVars, topicVars, meshVars, fanVars, boVars, score,
                 inMesh, panic>>

-----------------------------------------------------------------------------
(* The parts of a received RPC.                                            *)

(* handle_received_subscriptions, for what the subscription filter lets    *)
(* through: at most one action per topic.                                  *)
HandleSubscriptions(p, sub, unsub) ==
  /\ ~panic
  /\ p \in Connected \cap known
  /\ sub \cap unsub = {}
  /\ peerTopics' = [peerTopics EXCEPT ![p] = (@ \cup sub) \ unsub]
  /\ LET grafted == {t \in sub \cap subscribed :
                       /\ IsGossipsub(p) /\ Graftable(t, p)
                       /\ Cardinality(mesh[t]) < MeshNLow /\ p \notin mesh[t]}
         removed == {t \in unsub : p \in mesh[t]}
     IN /\ mesh' = [t \in Topics |-> IF t \in grafted THEN mesh[t] \cup {p}
                               ELSE IF t \in removed THEN mesh[t] \ {p}
                               ELSE mesh[t]]
        /\ UpdateBackoff(removed \X {p})
        /\ NotifyHandlers(
             {q \in {p} : grafted # {}
                          /\ ~InOtherMesh(p, grafted, mesh', peerTopics')},
             {q \in {p} : \E t \in removed :
                            ~InOtherMesh(p, {t}, mesh', peerTopics')})
  /\ topicPeers' = [t \in Topics |-> IF t \in sub THEN topicPeers[t] \cup {p}
                               ELSE IF t \in unsub THEN topicPeers[t] \ {p}
                               ELSE topicPeers[t]]
  /\ topicSeen' = topicSeen \cup sub \cup unsub
  /\ UNCHANGED <<peerVars, known, explicit, subscribed, fanVars, score, panic>>

(* Mutants: a GRAFT is accepted although the backoff runs; although the    *)
(* mesh is full.                                                           *)
GraftRefusedUnlessEarly(t, p) ==
  \/ score[p] < 0
  \/ Cardinality(mesh[t]) >= MeshNHigh /\ p \notin outbound
GraftRefusedUnlessFull(t, p) == <<t, p>> \in running \/ score[p] < 0

(* Why the GRAFT of a peer that is not explicit is answered by a PRUNE:    *)
(* its backoff runs, its score is negative, or the mesh is full and we did *)
(* not dial it.                                                            *)
GraftRefused(t, p) ==
  \/ <<t, p>> \in running
  \/ score[p] < 0
  \/ Cardinality(mesh[t]) >= MeshNHigh /\ p \notin outbound

(* handle_graft.  The RPC of a graylisted peer is dropped before.          *)
HandleGraft(p, ts) ==
  /\ ~panic
  /\ p \in Connected
  /\ score[p] >= GraylistThreshold
  /\ peerTopics' = [peerTopics EXCEPT ![p] = @ \cup ts]
  /\ LET asked    == {t \in ts \cap subscribed : p \notin mesh[t]}
         refused  == {t \in asked : GraftRefused(t, p)}
         accepted == IF p \in explicit THEN {} ELSE asked \ refused
         pruned   == IF p \in explicit THEN ts ELSE refused
     IN /\ mesh' = [t \in Topics |-> IF t \in accepted
                                     THEN mesh[t] \cup {p} ELSE mesh[t]]
        /\ UpdateBackoff(PruneBackoffs(pruned \X {p}))
        /\ NotifyHandlers(
             {q \in {p} : accepted # {}
                          /\ ~InOtherMesh(p, {}, mesh, peerTopics')}, {})
  /\ known' = known \cup {p}
  /\ topicPeers' = [t \in Topics |-> IF t \in ts
                               THEN topicPeers[t] \cup {p} ELSE topicPeers[t]]
  /\ topicSeen' = topicSeen \cup ts
  /\ UNCHANGED <<peerVars, explicit, subscribed, fanVars, score, panic>>

(* handle_prune.  The backoff is recorded whether or not p was in a mesh;  *)
(* px are the peers the PRUNE suggests.                                    *)
HandlePrune(p, ts, px) ==
  /\ ~panic
  /\ p \in Connected
  /\ score[p] >= GraylistThreshold
  /\ px # {} => score[p] >= AcceptPxThreshold
  /\ Cardinality(px) <= PrunePeers * Cardinality(ts \cap subscribed)
  /\ mesh' = [t \in Topics |-> IF t \in ts THEN mesh[t] \ {p} ELSE mesh[t]]
  /\ UpdateBackoff(ts \X {p})
  /\ NotifyHandlers({}, {q \in {p} : \E t \in ts : /\ p \in mesh[t]
                             /\ ~InOtherMesh(p, {t}, mesh', peerTopics)})
  /\ pxPeers' = pxPeers \cup px
  /\ UNCHANGED <<conns, kind, outbound, topicVars, explicit, subscribed,
                 fanVars, score, panic>>

-----------------------------------------------------------------------------
(* The heartbeat.                                                          *)

(* The scores a heartbeat caches: those of connected peers, 0 otherwise.   *)
HScore(p) == IF conns[p] = <<>> THEN 0 ELSE score[p]

(* Peers a heartbeat may add to the mesh m of topic t; bo are the backoffs *)
(* that its clean-up left.                                                 *)
Addable(t, m, bo) == {p \in GossipPeers(t) : /\ p \notin m
                                             /\ p \notin explicit
                                             /\ <<t, p>> \notin bo
                                             /\ HScore(p) >= 0}

(* Peers that stay once those with a negative score are dropped.           *)
Kept(m) == {p \in m : HScore(p) >= 0}

(* Too few peers: fill up to mesh_n.                                       *)
LowFills(t, m, bo) ==
  IF Cardinality(m) < MeshNLow
  THEN RandomPeers(MeshN - Cardinality(m), Addable(t, m, bo))
  ELSE {{}}

(* The orders in which the peers of m are considered for removal: the      *)
(* retain_scores best ones last, by ascending score.                       *)
RemovalOrders(m) ==
  LET n == Cardinality(m)
  IN {s \in [1..n -> m] :
        /\ \A i, j \in 1..n : i # j => s[i] # s[j]
        /\ \A i, j \in 1..n : i < j /\ j > n - RetainScores
                                => HScore(s[i]) <= HScore(s[j])}

(* The peers removed when m is considered in order s: the first ones, up   *)
(* to the excess, without going below mesh_outbound_min outbound peers.    *)
RemovedInOrder(m, s) ==
  LET n         == Cardinality(m)
      spare     == Cardinality(m \cap outbound) - MeshOutboundMin
      removable == {i \in 1..n :
                      s[i] \in outbound =>
                        Cardinality({j \in 1..i : s[j] \in outbound}) <= spare}
  IN {s[i] : i \in {k \in removable :
                      Cardinality({j \in removable : j < k}) < n - MeshN}}

(* Too many peers: remove some.                                            *)
Excesses(m) == IF Cardinality(m) > MeshNHigh
               THEN {RemovedInOrder(m, s) : s \in RemovalOrders(m)}
               ELSE {{}}

(* Mutant: outbound peers are not topped up.                               *)
NoOutboundFills(t, m, bo) == {{}}

(* Too few outbound peers in a mesh that is large enough: add some.        *)
OutboundFills(t, m, bo) ==
  LET have == Cardinality(m \cap outbound)
  IN IF Cardinality(m) >= MeshNLow /\ have < MeshOutboundMin
     THEN RandomPeers(MeshOutboundMin - have, Addable(t, m, bo) \cap outbound)
     ELSE {{}}

(* What a heartbeat may do to the mesh of a topic: negative scores go,     *)
(* low are added, out are removed, and outbound peers are added.           *)
OutboundOutcomes(t, low, out, bo) ==
  LET kept == Kept(mesh[t])
      trim == (kept \cup low) \ out
  IN {[mesh  |-> trim \cup more,
       graft |-> low \cup more,
       prune |-> (mesh[t] \ kept) \cup out] : more \in OutboundFills(t, trim, bo)}

ExcessOutcomes(t, low, bo) ==
  UNION {OutboundOutcomes(t, low, out, bo) :
           out \in Excesses(Kept(mesh[t]) \cup low)}

MeshOutcomes(t, bo) ==
  IF t \in subscribed
  THEN UNION {ExcessOutcomes(t, low, bo) : low \in LowFills(t, Kept(mesh[t]), bo)}
  ELSE {[mesh |-> mesh[t], graft |-> {}, prune |-> {}]}

(* What a heartbeat may do to the fanout of a topic that has not expired.  *)
FanoutOutcomes(t) ==
  LET kept == {p \in fanout[t] : /\ p \in known /\ t \in peerTopics[p]
                                 /\ HScore(p) >= PublishThreshold}
      more == {p \in GossipPeers(t) : /\ p \notin kept /\ p \notin explicit
                                      /\ HScore(p) < PublishThreshold}
  IN IF Cardinality(kept) < MeshN
     THEN {kept \cup new : new \in RandomPeers(MeshN - Cardinality(kept), more)}
     ELSE {kept}

(* `shuffled[..peers.len() - retain_scores]` is out of range when fewer    *)
(* than retain_scores peers are in an overfull mesh.                       *)
RetainOutOfRange ==
  \E t \in subscribed : LET n == Cardinality(Kept(mesh[t]))
                        IN n > MeshNHigh /\ n < RetainScores

(* send_graft_prune, for (topic, peer) pairs that were grafted and pruned: *)
(* the handler is told topic by topic, and of no prune of a peer that was  *)
(* also grafted.                                                           *)
SendGraftPrune(grafts, prunes, bo) ==
  LET grafted  == {x[2] : x \in grafts}
      alone(x) == ~InOtherMesh(x[2], {x[1]}, mesh', peerTopics)
      penalty  == PruneBackoffs(prunes)
  IN /\ backoff' = bo \cup penalty
     /\ running' = running \cup penalty
     /\ NotifyHandlers({x[2] : x \in {y \in grafts : alone(y)}},
                       {x[2] : x \in {y \in prunes : alone(y)}} \ grafted)
     /\ panic' = \/ RetainOutOfRange
                 \/ ~({x[2] : x \in grafts \cup prunes} \subseteq Connected)

(* on_heartbeat.  Which backoffs that are over the clean-up removes is     *)
(* decided by BackoffStorage, which fanout topics expire by the clock:     *)
(* here any of them may.                                                   *)
Heartbeat ==
  /\ ~panic
  /\ \E gone \in SUBSET (backoff \ running), expired \in SUBSET fanoutTopics :
       LET bo == backoff \ gone IN
       /\ \E o \in {f \in [Topics -> UNION {MeshOutcomes(t, bo) : t \in Topics}] :
                      \A t \in Topics : f[t] \in MeshOutcomes(t, bo)} :
            /\ mesh' = [t \in Topics |-> o[t].mesh]
            /\ SendGraftPrune(UNION {{t} \X o[t].graft : t \in Topics},
                              UNION {{t} \X o[t].prune : t \in Topics}, bo)
       /\ fanoutTopics' = fanoutTopics \ expired
       /\ fanout' \in {f \in [Topics -> SUBSET Peers] : \A t \in Topics :
                         IF t \in fanoutTopics \ expired
                         THEN f[t] \in FanoutOutcomes(t) ELSE f[t] = {}}
       /\ UNCHANGED <<peerVars, topicVars, explicit, subscribed, score>>

-----------------------------------------------------------------------------
(* The passing of time.                                                    *)

BackoffElapses(t, p) ==
  /\ ~panic
  /\ <<t, p>> \in running
  /\ running' = running \ {<<t, p>>}
  /\ UNCHANGED <<peerVars, topicVars, explicit, meshVars, fanVars, backoff,
                 score, inMesh, panic>>

ScoreChanges(p, s) ==
  /\ ~panic
  /\ s # score[p]
  /\ score' = [score EXCEPT ![p] = s]
  /\ UNCHANGED <<peerVars, topicVars, explicit, meshVars, fanVars, boVars,
                 inMesh, panic>>

-----------------------------------------------------------------------------
(* The specification.  A panic stops the task that drives the swarm.       *)

Init ==
  /\ conns = [p \in Peers |-> <<>>]
  /\ kind = [p \in Peers |-> "None"]
  /\ outbound = {} /\ pxPeers = {}
  /\ known = {} /\ peerTopics = [p \in Peers |-> {}]
  /\ topicSeen = {} /\ topicPeers = [t \in Topics |-> {}]
  /\ explicit = {}
  /\ subscribed = {} /\ mesh = [t \in Topics |-> {}]
  /\ fanoutTopics = {} /\ fanout = [t \in Topics |-> {}]
  /\ backoff = {} /\ running = {}
  /\ score = [p \in Peers |-> 0]
  /\ inMesh = {}
  /\ panic = FALSE

SwarmStep(p) ==
  \/ \E c \in Conns, dialer \in BOOLEAN : ConnectionEstablished(p, c, dialer)
  \/ \E i \in 1..Len(conns[p]) : OneConnectionClosed(p, i)
  \/ LastConnectionClosed(p)
  \/ \E k \in PeerKinds : PeerKind(p, k)

RpcStep(p) ==
  \/ \E sub, unsub \in SUBSET Topics : HandleSubscriptions(p, sub, unsub)
  \/ \E ts \in SUBSET Topics : HandleGraft(p, ts)
  \/ \E ts \in SUBSET Topics, px \in SUBSET Peers : HandlePrune(p, ts, px)

ApplicationStep ==
  \/ \E t \in Topics : Subscribe(t) \/ Unsubscribe(t) \/ PublishToFanout(t)
  \/ \E p \in ExplicitCandidates : AddExplicitPeer(p) \/ RemoveExplicitPeer(p)

ClockStep ==
  \/ Heartbeat
  \/ \E t \in Topics, p \in Peers : BackoffElapses(t, p)
  \/ \E p \in Peers, s \in Scores : ScoreChanges(p, s)

Next ==
  \/ \E p \in Peers : SwarmStep(p) \/ RpcStep(p)
  \/ ApplicationStep
  \/ ClockStep

Spec == Init /\ [][Next]_vars

-----------------------------------------------------------------------------
(* Properties.                                                             *)

(* The state has its type; peers and topics without an entry in a map have *)
(* no value in it.                                                         *)
TypeOK ==
  /\ conns \in [Peers -> Seq(Conns)]
  /\ kind \in [Peers -> {"None", "Floodsub", "Gossipsub", "Gossipsubv1_1"}]
  /\ outbound \subseteq Peers /\ pxPeers \subseteq Peers
  /\ known \subseteq Peers /\ peerTopics \in [Peers -> SUBSET Topics]
  /\ topicSeen \subseteq Topics /\ topicPeers \in [Topics -> SUBSET Peers]
  /\ explicit \subseteq Peers
  /\ subscribed \subseteq Topics /\ mesh \in [Topics -> SUBSET Peers]
  /\ \A t \in Topics \ subscribed : mesh[t] = {}
  /\ fanoutTopics \subseteq Topics /\ fanout \in [Topics -> SUBSET Peers]
  /\ \A t \in Topics \ fanoutTopics : fanout[t] = {}
  /\ backoff \subseteq Topics \X Peers /\ running \subseteq backoff
  /\ score \in [Peers -> Scores]
  /\ inMesh \subseteq Conns
  /\ panic \in BOOLEAN

(* peer_topics has an entry exactly for the connected peers, whatever      *)
(* order connections, closings and GRAFTs (which also create entries) come *)
(* in.                                                                     *)
KnownIffConnected ==
  /\ known = Connected
  /\ \A p \in Peers \ known : peerTopics[p] = {}

(* peer_topics and topic_peers, which four handlers update separately, are *)
(* inverse to each other.                                                  *)
SubscriptionIndex ==
  \A p \in Peers, t \in Topics : t \in peerTopics[p] <=> p \in topicPeers[t]

(* A mesh peer is recorded as subscribed to the topic.  on_connection_     *)
(* closed relies on it: it only cleans the meshes of those topics.         *)
MeshSubscribed ==
  \A t \in Topics : \A p \in mesh[t] : t \in peerTopics[p]

(* No assert! or expect of the mesh bookkeeping fails.                     *)
NoPanic == ~panic

(* A connection that its handler keeps alive for the mesh is the first     *)
(* connection of a peer that is in a mesh: no connection is kept open      *)
(* forever by a JoinedMesh that no LeftMesh followed.                      *)
NoStaleKeepAlive ==
  \A c \in inMesh : \E p \in Connected :
    c = FirstConn(p) /\ \E t \in Topics : p \in mesh[t]

(* The handler of p knows whether p is in a mesh.                          *)
InSomeMesh(p) == \E t \in Topics : p \in mesh[t]
Informed(p) == p \in Connected /\ InSomeMesh(p) => FirstConn(p) \in inMesh

(* The handler of a mesh peer has been told to keep the connection alive:  *)
(* peer_added_to_mesh tells it "if this is the first mesh they have        *)
(* joined".  The code breaks this when one heartbeat grafts a peer into    *)
(* several meshes.                                                         *)
MeshPeerInformed == \A p \in Peers : Informed(p)

(* p is recorded under the topics whose meshes it is in.  It may not be    *)
(* once JOIN has taken it from a stale fanout.                             *)
Recorded(p) == \A t \in Topics : p \in mesh[t] => t \in peerTopics[p]

(* A heartbeat that grafts p, so far in no mesh, into several.             *)
SeveralGrafts(p) ==
  /\ ~InSomeMesh(p)
  /\ \E t, u \in Topics : t # u /\ p \in mesh'[t] /\ p \in mesh'[u]
  /\ Heartbeat

(* A handler that knows whether p is in a mesh still does after the step.  *)
KeepsInformed(p) ==
  Informed(p) /\ Recorded(p) => Informed(p)' \/ SeveralGrafts(p)

(* That heartbeat is the only step by which a handler that knew whether    *)
(* its peer is in a mesh no longer does: neither a peer that joins or      *)
(* leaves some of several meshes, nor the closing of the connection that   *)
(* was told, leaves a mesh peer without a connection that is kept alive.   *)
StaysInformed == [][\A p \in Peers : KeepsInformed(p)]_vars

(* No more than mesh_n_high of a mesh's peers are not outbound: GRAFTs     *)
(* exceed the bound for outbound peers only.                               *)
InboundBounded ==
  \A t \in Topics : Cardinality(mesh[t] \ outbound) <= MeshNHigh

(* While a backoff runs, the peer is not in the mesh of the topic: neither *)
(* side's GRAFT brings it back early.                                      *)
BackoffRespected ==
  \A t \in Topics : \A p \in mesh[t] : <<t, p>> \notin running

(* A heartbeat leaves every mesh repaired: no peer with a negative score;  *)
(* at least mesh_n_low peers or no peer left to add; at most mesh_n_high   *)
(* peers beside the outbound ones it added; and, when the mesh is large    *)
(* enough, mesh_outbound_min outbound peers or none left to add.           *)
MeshRepaired(t) ==
  LET free == Addable(t, mesh[t], backoff)' IN
  /\ \A p \in mesh'[t] : HScore(p) >= 0
  /\ Cardinality(mesh'[t]) < MeshNLow => free = {}
  /\ Cardinality(mesh'[t]) <= MeshNHigh + MeshOutboundMin
  /\ Cardinality(mesh'[t]) >= MeshNLow =>
       \/ Cardinality(mesh'[t] \cap outbound) >= MeshOutboundMin
       \/ free \cap outbound = {}

HeartbeatRepairs ==
  [][Heartbeat => \A t \in subscribed : MeshRepaired(t)]_vars

(* No handler adds an explicit peer to a mesh: neither JOIN, its fanout    *)
(* peers included, nor a SUBSCRIBE or GRAFT of the peer, nor a heartbeat.  *)
ExplicitNeverGrafted ==
  [][\A t \in Topics : \A p \in explicit : p \in mesh'[t] => p \in mesh[t]]_vars

(* A topic never has a mesh and a fanout at once.                          *)
MeshOrFanout == subscribed \cap fanoutTopics = {}

=============================================================================
