# rust-waku: TLA+ models, checks and proofs

rust-waku is a Waku node: a fork of libp2p's gossipsub (`waku-relay`), a node
that runs it in an event loop (`waku-node`), value types (`waku-core`,
`waku-enr`) and two applications. This directory models the parts that keep
state, checks them with TLC on small instances and proves their main properties
for every instance with TLAPS. `PROJECT.json` maps every definition to the
source lines it stands for.

Run a check with `tlc -config <Run>.cfg <Module>` and a proof with
`tlapm <Module>.tla`, in this directory.

## 1. Inventory

| component | source | state | operations | talks to |
|---|---|---|---|---|
| overlay: mesh, fanout, subscriptions, connections | `gossipsub/behaviour.rs`, `connection_manager.rs` | connections and kind of each peer, `peer_topics`, `topic_peers`, `mesh`, `fanout`, `explicit_peers`, `px_peers`, event queue | connection events, subscribe and unsubscribe (JOIN, LEAVE), SUBSCRIBE, GRAFT and PRUNE of peers, publish, heartbeat | handlers (`NotifyHandler`), backoff storage, scoring |
| backoff storage | `backoff.rs`, `heartbeat.rs` | instants by (topic, peer), a wheel of slots, its index | `update_backoff`, the two queries, `heartbeat` | overlay |
| connection handler | `handler.rs` | send queue, two substreams, attempt counters, kind, keep-alive flag | behaviour events, `poll`, connection events, keep-alive | swarm, overlay |
| node and event loop | `node.rs`, `event_loop/*` | two bounded channels, one oneshot per call | five calls, `recv_event`, `dispatch` | application, swarm |
| message cache | `mcache.rs` | messages, history windows, IWANT counts | `put`, `validate`, `shift`, `remove`, ... | message path, gossip |
| duplicate caches | `time_cache.rs` | keys with expiry, list by expiry | `insert`, `contains`, expiry | message path |
| message path | `behaviour.rs` | published ids, blacklists | publish, receive, validate, forward | caches, scoring |
| gossip | `behaviour.rs`, `gossip_promises.rs` | IHAVE and IWANT counters, promises | IHAVE, IWANT, heartbeat | message cache, scoring |
| scoring | `peer_score/*` | per peer and topic counters, delivery records, IPs | graft, prune, deliver, reject, refresh, retain | overlay, message path |
| subscription filters, fragmentation | `subscription_filter.rs`, `rpc/fragmentation.rs` | none | pure functions | overlay, handlers |
| signing and validation | `signing/*`, `rpc/validation.rs`, `rpc/types.rs` | none but a sequence number | pure functions | message path |
| codec, types, config, metrics, ENR, topics, applications | the rest | none that is shared | conversions | everything |

What is hard here: the behaviour keeps the same facts in several maps that a
dozen handlers update one by one, and asserts their agreement in places that
only some orders of events reach; what connection handlers were told must match
those maps although closings, grafts and heartbeats interleave; backoffs are
kept both by clock time and by heartbeat count; so are messages, whose ids expire
by the clock while the messages themselves are dropped by heartbeats, with the
application's verdict arriving at any time in between; the handler's polls
interleave with the swarm's events; and the node's two channels are bounded, with
the loop in between. Nothing is persisted and every component runs in one task, so there
is no crash recovery and no data race. `hazards` in `PROJECT.json` lists these
points at their lines.

What makes each component correct:

- overlay: the maps agree; no assertion fails; a handler keeps a connection
  alive for mesh peers and for no others; backoffs and explicit peers are respected; a
  heartbeat repairs every mesh;
- backoff storage: no backoff is forgotten while it runs, and every one is
  forgotten soon after;
- handler: one outbound substream, the kind before any traffic, no message
  doubled, none lost but to a broken substream;
- node: every call answered, every relay message delivered once and in order,
  the loop ends with the node;
- message path and caches: an id is handed over once while it is remembered, is
  remembered longer than its message is cached, and nothing leaves the node that
  the application did not accept; a message does not go back to who sent it;
- gossip: what is offered can be had, an id is asked of one peer at a time, and a
  peer that answers in time is not punished;
- scoring: the status of a peer follows its connections, nobody is counted at an
  address it has left, leaving the mesh with a deficit is charged, no peer
  improves its score by coming and going, the blame for a message follows its
  verdict, duplicates are counted once;
- announcements: a remote peer's view of our subscriptions agrees with them and
  stays within its filter, and RPCs fit the codec;
- signing: no accepted configuration rejects its own messages, what is forwarded
  is accepted again, and a strict node accepts only what its source signed.

## 2. Modules

### Mesh (behaviour.rs, connection_manager.rs)

One variable per map. A Rust map from keys to sets becomes its set of keys
(`known`, `topicSeen`, `subscribed`, `fanoutTopics`) and a total function. One
action per handler, each the whole handler:

| action | code |
|---|---|
| `ConnectionEstablished`, `OneConnectionClosed`, `LastConnectionClosed` | `on_connection_established`, the two branches of `on_connection_closed` |
| `PeerKind` | `on_connection_handler_event` |
| `Subscribe`, `Unsubscribe` | `subscribe` with `join`, `unsubscribe` with `leave` |
| `PublishToFanout` | the part of `publish` that changes the fanout |
| `AddExplicitPeer`, `RemoveExplicitPeer` | the functions of that name |
| `HandleSubscriptions`, `HandleGraft`, `HandlePrune` | the parts of `handle_received_rpc`, peer exchange included |
| `Heartbeat` | `on_heartbeat` with `send_graft_prune` |
| `BackoffElapses`, `ScoreChanges` | time, and the scoring service |

`inMesh` holds the connections whose handler was last sent `JoinedMesh`; events
to a handler are delivered in order, so the last one decides. `panic` records a
failed `assert!` or `expect`; no action is possible after it. Remote peers are
an environment that may send any RPC at any time; a score is any member of
`Scores`. The random choices of the code (`get_random_peers`, shuffles, hash
order) are nondeterministic. `Heartbeat` computes the possible outcomes per
topic in the order of the code: negative scores dropped, filled up to `mesh_n`,
excess removed with `retain_scores` and `mesh_outbound_min`, outbound peers
added; then the fanout; then grafts and prunes are announced topic by topic.

Every effect is on this side. GRAFTs and PRUNEs that the code makes for others are
not kept: the conversion of `rpc/traits.rs` drops them (section 3), and if it did
not, remote peers may answer with anything anyway.

Left out of the heartbeat because it changes no variable of this module: IHAVE
counters, promises and the control pool (see Gossip), gossip and the message
cache (see Delivery), metrics.

### Backoff and BackoffStorage (backoff.rs, heartbeat.rs)

`Backoff` is the abstract interface: `backoff` is what `is_backoff_with_slack`
answers, `running` what `get_backoff_time` says of the future. Mesh's variables of
these names take steps that `Backoff` allows. `BackoffStorage` is the code: the
map of instants and slot indices, the wheel, the index. An instant is kept as the
time left until it, so no clock grows. A time beyond `LongestTime` cannot be added
to `Instant::now()`: `UpdateOverflows` is the panic of `backoff.rs:77`, which a
PRUNE can cause because `behaviour.rs:1730` takes the remote backoff as it comes,
and no action follows it. Mesh takes all times as representable. `Heartbeat` may
be up to `MaxLate` late, and the next one is then due an interval after now or
after the missed time, as a ticker may do either. `ImplementsBackoff` is the
refinement.

### Handler (handler.rs)

The fields of `EnabledHandler`, with `mode` for the two disabled states and a
closed connection. A poll's loops are taken one iteration per step, because a
substream may answer `Pending` anywhere; the guards keep the order in which
`poll` looks at things (kind, then a new substream, then the substreams).
`woken` says whether a poll is due: after an event, after a poll that returned one,
or because a substream was `Pending` and will wake the task. A poll in which
sending or flushing fails drops the substream and returns `Pending` with no waker
(`handler.rs:277-288`, `303-306`), which ends it. The swarm may poll at other times
as well, but need not.
`TakeMessage` pops the queue from its end, as the code does. History variables
record what was handed over, written and reported.

### NodeLoop (node.rs, event_loop.rs)

The two channels, a state per call, the event the loop waits to send. Calls
borrow the node, so several may be under way; `recv_event` borrows it mutably,
so the application receives only when none is.

### TimeCache (time_cache.rs)

Operators only: a cache maps each key to the time it has left, `Absent` if it is
not there. All elements of a cache get the same time to live and are never
renewed, so the list of the code is ordered by expiry and popping its front
removes exactly the expired keys (`RemoveExpired`). Only `entry` removes;
`Contains` still sees an expired key, as `contains_key` and `get` do.

### Delivery (behaviour.rs, mcache.rs)

The three caches of ids, the message cache (`msgs`, `history`, `iwantCounts`),
the blacklist, and the verdicts that the application owes (`pending`).

| action | code |
|---|---|
| `ReceivedBefore`, `Received` | `handle_received_message`: found by its fast id or not; with `message_is_valid`, `observe_duplicate`, `put` and, without validation, `forward_msg` |
| `Publish` | `publish`, when it succeeds; a failed call changes nothing here |
| `Accept`, `Reject`, `TooLate` | `report_message_validation_result`: found and accepted, found and rejected or ignored, not in the cache |
| `HandleIWant` | `handle_iwant`, an id listed once or twice |
| `Blacklist` | `blacklist_peer`, `remove_blacklisted_peer` |
| `Heartbeat` | `emit_gossip` and `mcache.shift` |
| `OtherReceived`, `OtherPublished` | the same handlers for an id that is not followed: their `entry` drops expired ids |
| `Tick` | time; a unit is a heartbeat interval, a heartbeat is at most `MaxLate` units behind |

A message is one encoding of an id (`MsgId`) with an author (`Author`); it stands
for its own fast id. `config` is chosen at the start and never changes. The peers
of a forward are any set, minus what `forward_msg` excludes. A verdict is
`current` while the copy it is about is cached and `overdue` afterwards; the code
cannot tell them apart, and an overdue verdict on an id that was received again
is applied to the new copy. `accepted`, `sent`, `senders`, `quiet`, `offered` and
`served` are history variables that no guard reads.

### Gossip (behaviour.rs, gossip_promises.rs, peer_score/service.rs)

`handle_ihave` (`IgnoreIHave`, `HandleIHave`), the resolution of promises by new
messages (`Received`), by refused ones (`Refused`) and by the heartbeat. A
promise is the time left to keep it; it is broken only below zero, since the code
compares with `<`. `kept` records the promises whose peer has answered although
they are still tracked. Whether peers are scored is fixed at the start.

### ScoreParams and PeerScore (peer_score/params.rs, stats.rs, behaviour.rs)

`ScoreParams` has the parameters with what their `validate` functions demand.
`PeerScore` keeps the statistics of each peer and topic (`topics`, `penalty`,
`app`, `gone`), both maps of addresses (`ips`, `peerIps`) and the delivery records
(`deliveries`), and beside them what the calling handlers go by: the swarm's
connections (`open`), the duplicate cache (`seen`) and the verdicts that are still
possible (`awaiting`).

| action | code |
|---|---|
| `ConnectionEstablished` | `on_connection_established`: `add_ip`, and `add_peer` for a first connection |
| `ConnectionClosed` | `on_connection_closed`: `remove_ip`, and `remove_peer` after the last one |
| `AddressChange` | `on_address_change` |
| `Graft`, `Prune` | `graft`, `prune` |
| `Received`, `Duplicated` | `validate_message`, `duplicated_message` |
| `Accept`, `Reject` | `deliver_message`, `reject_message` under the application's verdict |
| `RejectInvalid` | `reject_invalid_message`, and `reject_message` for reasons that leave no record |
| `AddPenalty`, `SetApplicationScore`, `SetTopicParams` | the functions of that name |
| `Refresh` | `refresh_scores` |
| `Tick` | time |

Counters are whole numbers where the code has floating point. A decay is a
percentage and drops the fraction, which stands for `decay_to_zero`. A time that
has passed the last value it is compared with stays there. Without
`validate_messages`, `Accept` follows `Received` at once, which is one of the
behaviours here. `repeats`, `blamed` and `owing` are history variables: how often a
duplicate was counted, who was penalised for a message, who sent it and was not.
A peer is struck from `owing` when it is penalised (`Settled`) or when its
statistics are dropped (`ForgetDebts`), since `mark_invalid_message_delivery` then
finds nothing to mark.
`MaxConns`, `MaxCount` and `MaxPenalty` bound the counters.

### SubscriptionFilter, Fragmentation and Announce (subscription_filter.rs, rpc/fragmentation.rs, behaviour.rs, handler.rs, codec.rs)

`SubscriptionFilter` and `Fragmentation` are operators. A filter is the set of
topics it allows and two limits; an RPC has its messages and subscriptions, with
their encoded sizes, and a control field that is absent, or there with any number
of control messages, none included. The lengths of protobuf fields are computed as
prost does: a control field that is there and empty takes two bytes. `IntoProto` is
`From<Rpc> for RpcProto` (`rpc/traits.rs:189-205`), which gives every announcement
such a field, because its test is inverted.
`Announce` composes them with the behaviour that announces subscriptions, the
handlers' queues, the substreams and the remote side:

| action | code |
|---|---|
| `Subscribe`, `Unsubscribe` | the announcement in `subscribe` and `unsubscribe`, over the connection the swarm picks |
| `ConnectionEstablished`, `ConnectionClosed` | the greeting in `on_connection_established`, and the end of a connection on our side |
| `RemoteClosed` | the same end on the remote side, sooner or later |
| `Negotiated`, `Transmit`, `SubstreamFails`, `HandlerDisabled` | the handler: last in, first out; what is lost with a substream, what the codec refuses |
| `Receive` | `handle_received_subscriptions` of the remote peer |
| `Blacklist` | `blacklist_peer`, `remove_blacklisted_peer`: a blacklisted peer is not greeted |

`unsure` is a history variable: the topics of which announcements overtook one
another, were lost, refused or never made; `ViewsAgree` lists the cases.

### Signing (signing/*, rpc/validation.rs, rpc/types.rs, types.rs)

Pure decisions about one message: the four signers, `validate_config`, the
structural check, the normalisation of empty fields and the four validators. An
optional field is a set of at most one value. Keys, signatures and peer ids are
external; `SignaturesWork` states what the code relies on.

### The MC and proof modules

`MCMesh` adds the symmetry of peers and connections and the score sets,
`MCDelivery` and `MCGossip` the encodings, authors and configurations of their
instances, `MCPeerScore` the parameters of the scores, `MCAnnounce` the sizes and
the filters. `MCAnnounce` also evaluates three assumptions. `FragmentsComplete`: for
all RPCs of up to three objects and two control messages with sizes around the
edges, the fragments hold them all, in their order and once each.
`ControlInverted`: what the conversion makes of an RPC with control messages and of
one without. `PrefixTooLong`: a subscription that is too long for its RPC by the
empty control field, and one that is by its length prefix.

The theorems are in `MeshProofs`, `BackoffStorageProofs`, `HandlerProofs`,
`NodeLoopProofs`, `DeliveryProofs`, `GossipProofs` and `PeerScoreProofs`, one for
each module of that name, and in `AcceptanceProofs`: what a node lets in, by its
validator (`Signing`) and by its subscription filter, and what its announcements
make of that (`Announce`).

## 3. Runs

| run | shows | distinct states |
|---|---|---|
| `MeshHeartbeat` | three inbound or outbound peers, one topic, `mesh_n_low` 1, `mesh_n` and `mesh_n_high` 2, `mesh_outbound_min` 1: no assertion fails, backoffs hold, every heartbeat repairs the mesh, inbound peers stay bounded | 149,192 |
| `MeshTwoTopics` | one peer, two connections, two topics, no flood publishing, both gossipsub versions, all score bands, explicit peers, peer exchange: the maps agree, fanout and mesh exclude each other, explicit peers are never grafted, no keep-alive is left behind, handlers stay informed | 203,255 |
| `Backoff` | heartbeats up to an interval late, times below, at and above the length of the wheel: map and wheel agree, refinement of `Backoff`, release within a turn, eventual release; a time that overflows is a panic | 413,088 |
| `Handler` | three messages, five attempts: one substream, kind first, nothing lost or doubled; every queued message leaves as long as polls come | 164,167 |
| `NodeLoop` | three calls, four messages, capacity two: no event lost, calls answered unless the channel is full, the loop ends | 12,655 |
| `Delivery` | one id in three encodings (no author, a peer, ourselves), two peers, with and without validation, author and fast ids: once within the cache time, no leak, nothing unaccepted leaves, no echo, offers can be had, requests bounded | 927,450 |
| `Gossip` | two peers, two ids, scoring and fast ids on and off: one request at a time, deserved penalties, promises end | 324,650 |
| `ScoreConnections` | two peers with up to two connections each, from an IP address or none, in a topic that is scored from some point on: the status and the addresses follow the connections, deficits are charged, no whitewashing | 205,730 |
| `ScoreMessages` | a message, its duplicates and its verdict in every order, with a duplicate cache that forgets it before the records do: blame follows the verdict, duplicates count once | 1,093,022 |
| `Announce` | two topics whose subscriptions just exceed one RPC, two connections, three remote filters: the remote view agrees and stays within its filter, only known cases exceed the codec | 2,413,570 |

Two runs end in a violation, a disagreement between the code and what it says of
itself (`findings` in `PROJECT.json`):

- `MeshFanoutJoin`. A fanout peer that unsubscribes and then disconnects stays in
  the fanout until the next heartbeat. Subscribing in between moves it to the mesh
  and the assertion at `behaviour.rs:104` fails. `flood_publish` is on by default,
  and then no fanout is ever created.
- `MeshTwoGrafts`. A peer in no mesh announces two topics that we subscribe to
  before its kind is known; the next heartbeat grafts it into both.
  `send_graft_prune` (`behaviour.rs:2711`) asks for each topic by itself whether the
  peer is in another mesh, when all meshes have been changed already, so neither
  graft is the first and no `JoinedMesh` is sent (the comment at 90 says when one
  is). The connection of a mesh peer may then be closed as idle.

`StaysInformed` says that this heartbeat is the only step that loses a keep-alive:
a handler that knows whether its peer is in a mesh still does after every other
step, with one topic or several. It speaks of peers that are recorded under the
topics of their meshes (`Recorded`); the stale fanout of `MeshFanoutJoin` can put
one into a mesh without being recorded.

**What leaves the node.** `From<Rpc> for RpcProto` converts the control messages
with `control_msgs.is_empty().then(..)` (`rpc/traits.rs:194-197`). The test is
inverted. An RPC with control messages loses all of them, so no GRAFT, PRUNE, IHAVE
or IWANT that this node makes reaches the wire; an RPC without any carries an empty
control field of two bytes. The second half is modelled in `Announce`, where it
decides lengths. The first half changes no state of this side, and the modules
claim nothing about the wire: in Mesh, Gossip and Delivery a peer is "grafted" or
"pruned" when our mesh says so, and "asked", "offered" or "requested" means put into
the control pool or into an RPC, not received by anybody. `AskedOnce`,
`OfferedIsServable` and `PenaltyDeserved` are statements about that accounting.
Remote peers are free to send any RPC at any time there, answers to requests that
never arrived included.

Met while modelling, modelled as the code has it, and not given a run:

- overlay: the heartbeat fills a fanout with peers *below* the publish threshold
  (`behaviour.rs:2576`, `params.rs:56`); a GRAFT of a peer that was made explicit
  while it was in the mesh sets a backoff and leaves the peer there
  (`behaviour.rs:1565`); the comment of `is_backoff_with_slack` (`backoff.rs:127`)
  has true and false the wrong way round; `build` does not bound `retain_scores`,
  and an overfull mesh that is smaller makes the slice at `behaviour.rs:2364`
  panic;
- backoff: the time that a PRUNE asks for is not limited (`behaviour.rs:1730`), and
  one near 2^64 seconds overflows the `Instant` (`backoff.rs:77`), which panics;
- node: the loop waits for room in the event channel (`event_loop.rs:200`) while
  the application waits for its call's answer, which is why the answer is promised
  by `AnsweredUnlessFull` only; it leaves out exactly this deadlock;
- message path: `blacklisted_peers` is documented as peers that messages are not
  sent to (`behaviour.rs:283`), but `forward_msg` and `publish` do not look at it;
  with fast ids, a stale entry of their cache can swallow the answer to an IWANT
  after the duplicate cache has forgotten the id (`behaviour.rs:1892`), and
  publishing an id that was asked for resolves no promise (`behaviour.rs:788`), so
  that a peer is punished for an answer it gave; `promises_contains` returns the
  opposite of its name (`peer_score/service.rs:358`); `build` does not compare
  `duplicate_cache_time` with the length of the history;
- handler: after a failed send or flush no waker is left, so that queued messages
  wait for an unrelated wake-up of the connection (`handler.rs:277-288`,
  `303-306`), which `QueueDrains` has to allow for; the `PeerKind` event is sent a
  second time, as `NotSupported`, when the outbound negotiation fails after an
  inbound substream was accepted (`handler.rs:53`, `543`); the send queue is last
  in, first out (`handler.rs:258`); the fifth of `MAX_SUBSTREAM_ATTEMPTS` attempts
  disables the handler even when it succeeds (`handler.rs:488`, `502`);
- scoring: when one of two connections from the same address closes, the address
  is no longer counted for the peer; the first sender of a message that repeats it
  is counted among the duplicates once (against the comment at `stats.rs:582`) and
  penalised twice for an invalid one; a sender that leaves with a positive score
  before the verdict is forgotten and never penalised (`stats.rs:461`); ids leave
  the duplicate cache (60 s by default) before the delivery records (120 s), so a
  message that comes back is judged by its old record; `set_topic_params`
  validates nothing;
- filters: the limits of a `MaxCountSubscriptionFilter` are bypassed inside
  `CombinedSubscriptionFilters`, which calls only the inner set filter;
- fragmentation: the size of single control objects is never checked against the
  limit; 5% of an object shorter than 40 bytes do not cover its length prefix; the
  two bytes that `fragmentation.rs:50` sets aside for a single object do not cover
  the prefix of one of 128 bytes or more; and the empty control field of the
  conversion is added after the check (`fragmentation.rs:123-127`), so that one
  subscription of 98 bytes under a limit of 100 becomes an RPC of 102. An RPC may so
  exceed the limit by two bytes with the control field and by up to four without it;
  `RpcsFit` says that nothing else makes one too long, and `PrefixTooLong` in
  `MCAnnounce` has examples.

### Bounds, and why they suffice

- Mesh: three peers and a connection each, in one topic, cross `mesh_n_high` and
  let one be in the mesh while another is refused (`MeshHeartbeat`). One peer with
  two topics and two connections is enough for "is it in another mesh", for the
  hand-over of a keep-alive and for a peer that leaves one of its meshes
  (`MeshTwoTopics`): no handler compares two peers there, and the theorems have any
  number of them.
- Scores: one value per band that the thresholds tell apart.
- Backoff: a wheel of four or five slots, so that it turns several times, with
  times below, at and above its length and one that overflows; an interval of three
  units, so that instants fall between heartbeats.
- Handler: three messages make queue, current message and wire non-empty
  together; five attempts are the code's own constant.
- Node: capacities of two, with more calls and messages than fit.
- Delivery: one id is enough, since ids share nothing but the removal of expired
  keys, which `OtherReceived` and `OtherPublished` contribute; three encodings of
  it, so that both ways to recognise a duplicate happen in one life of the id. A
  history of two slots with one for gossip, and a cache time of three, the
  smallest that exceeds a history of late heartbeats (`RememberedLonger`): a
  message expires, is dropped and comes back several times.
- Gossip: a limit of one id per peer and two ids make the limit cut a request
  short; two peers compete for an id. Cache and promise times of one let either
  end before the other.
- Scores: two peers share an address or not; two connections let one close while
  the other stays; an address without an IP takes the branches without `add_ip`.
  Topics do not influence each other, so one is enough, scored from some point on.
  One message, a duplicate cache of one tick and records of two: the message comes
  back under its old record. A step that would raise a counter past `MaxCount` or
  `MaxPenalty` is not taken; one unit of each suffices for a score to turn negative
  and to be retained.
- Announcements: subscriptions of 58 and 39 bytes, with a control field of two,
  under a limit of 100 need two fragments in one order and wrongly share one RPC
  in the other; at most two RPCs under way per connection, enough to overtake each
  other; an unlimited filter, one of one topic, and a combined one.

Symmetry is used in invariant and action-property runs only; peers and
connections are told apart by no definition (`FirstConn` depends on positions).

### Fairness

- `BackoffStorage`, `Gossip`: time passes and the swarm polls the heartbeat timer
  (weak). `PromisesEnd` needs no peer to answer.
- `Handler`: the swarm polls a handler after every event and wake-up, negotiations
  end if only by their timeout, a substream that is `Pending` is ready or fails
  sometime and wakes the task (weak, and for a handler that is `woken` only). No poll
  is promised after a failed send or flush, so `QueueDrains` allows a queue to stay
  while nothing wakes the handler: it shows that every other order of events drains
  it, and that any event gets it going again. The remote need not send, and no
  fairness is assumed of the behaviour.
- `NodeLoop`: the runtime polls tasks that can go on. `tokio::select!` starts
  with a random branch, so a command that is ready again and again is taken:
  strong fairness for `HandleCommand` and `EndLoop`. The application receives
  whenever it can (weak), and need not call, abandon or drop anything.

Deadlock is checked except in `MeshTwoTopics` (the panic of `MeshFanoutJoin` stops
the task), `Backoff` (so does the overflow), `Handler` (a closed connection is
final) and `NodeLoop` (so is an ended loop).

## 4. Proofs

All theorems hold for every finite set of peers and topics, every set of
connection ids and every configuration that `ConfigBuilder::build` accepts
(`ConfigAssumption`), or the constants of their module.

`MeshProofs`:

- `TypeCorrect`: `TypeOK`, from lemmas per group of actions; the heartbeat needs
  `MeshOutcomeSets` (what an outcome can contain) and `RemoveAtSeq`.
- `MapsAgree`: `KnownIffConnected` and `SubscriptionIndex` are inductive
  together: a closing cleans the topics in `peer_topics`, which is all of
  `topic_peers` only because the two are inverse.
- `MeshBookkeeping`: `MeshSubscribed` and `NoPanic`, assuming flood publishing
  and `retain_scores <= mesh_n_high + 1`. The invariant `MeshInv` adds that no
  fanout exists; with both maps agreeing, every mesh peer is then connected.
  Both assumptions are needed: `MeshFanoutJoin` shows the first, the slice of
  the excess removal the second.
- `KeepAlivesEnd`: `NoStaleKeepAlive` without assumptions, up to a panic: the
  only handler flags set are those of first connections of mesh peers, and every
  removal from the last mesh clears them.
- `HandlersStayInformed`: the action property `StaysInformed`, in every
  configuration and for any number of topics. Each step is reduced to who is told of
  joining and of leaving (`ToldEnough`): whoever is in a mesh afterwards was in one
  before or is told, and is not told of leaving. Closing a connection needs that no
  connection is listed twice, for one peer or two (it would hand its duty over to
  itself). That mesh peers are recorded is `MeshBookkeeping` with flood publishing;
  `SeveralGrafts` is the one step excepted, and `MeshTwoGrafts` shows that it must
  be.
- `NeverBoth`: `MeshOrFanout` under every configuration. JOIN removes the fanout
  before it makes the mesh, and publishing looks at the mesh first.
- `HeartbeatsRepair`: the action property `HeartbeatRepairs`, for all mesh sizes,
  score functions and choices of the shuffles. It follows the mesh of a topic
  through the four stages of a heartbeat: `ExcessSize` (removing the excess leaves
  exactly `mesh_n` peers, though it skips outbound peers on the way; `FirstFew`
  picks the prefix that the code's counter stops at), `RandomPeersAll` and
  `AddedSize` (a choice is short only when it has taken all candidates),
  `OutcomeRepaired` for the whole.
- `BackoffsRespected`: no running backoff for a mesh peer, without explicit
  peers. A GRAFT of an explicit peer that is already in the mesh is answered by
  a PRUNE and a backoff, and the peer stays.
- `ExplicitPeersStayOut`: an action property; no step adds an explicit peer.
- `MeshBounded`: `InboundBounded`. Every way into the mesh is bounded
  separately: JOIN and the fill-up stop at `mesh_n`, SUBSCRIBE at `mesh_n_low`,
  GRAFT at `mesh_n_high`, and the last step of a heartbeat adds outbound peers
  only. `OutboundRetained` (removing the excess never goes below
  `mesh_outbound_min` outbound peers) shows that this step never takes back a
  peer that the same heartbeat has just pruned.

`BackoffStorageProofs`: `TypeCorrect`; `WheelConsistent` (map and wheel agree,
inductive given the types); `BackoffsNotShortened`; `StorageImplementsBackoff`
(every step of the storage is a step or a stutter of `Backoff`: the clean-up
removes no pair that still runs, because the slack is not negative);
`ReleasedInTime` (`ReleasedInOneTurn`: `ReleaseInv` says of each stored pair how
long it may have been over at most, given how many slots the hand is away from its
slot (`Ahead`) and how late the next heartbeat can be; a heartbeat turns the bound
of the pair it visits and finds too early into that of a whole turn).

`HandlerProofs`: `TypeCorrect`, `SingleSubstream`, `KindReportedFirst`, from one
inductive invariant `HandlerInv`: beside these three it needs that an enabled
handler has attempts left, and that a handler with a substream knows the kind.
`NoMessageLostOrDoubled` needs that the queue, the message in hand and the wire
are disjoint and free of repetitions (`Once`), and counts the messages that are in
none of them against the broken substreams (`MissingExplained`).

`NodeLoopProofs`: `TypeCorrect`, the capacities of both channels included, and
`EventsArriveInOrder` (`NoEventLost`, inductive beside the types: what was
received, what the channel holds and what the loop waits to send, one after the
other, are the relay's messages so far).

`DeliveryProofs`, for all peers, messages, encodings, ids, cache times and
configurations with `DeliveryAssumption` and `RememberedLonger`:

- `TypeCorrect`: `TypeOK`, one lemma per action.
- `DuplicatesOutliveCache`: `SeenOutlivesCache` is not inductive. `Remembered`
  says how long an id in slot `i` must still be remembered: for the wait until
  the next heartbeat and `MaxLate` for each further one until its slot is popped.
- `CacheDoesNotLeak`: `NoLeak`, in the inductive form `Listed` and `CountsCached`.
- `AtMostOnce`: `StillSeen` relates the time since an id was handed over to the
  time it has left in the duplicate cache; an id that is vacant has then been
  quiet for `duplicate_cache_time`.
- `OnlyAccepted`: beside `OnlyAcceptedLeaves`, that a message tagged as validated
  has been accepted (`TaggedAccepted`).
- `RetransmissionsBounded`: while a message is cached its counter covers what was
  served (`Counted`); once dropped it cannot be served until it is new.
- `OffersAreGood`: `OfferedIsServable`. An offered id is validated and at most as
  many slots beyond the gossip window as there were heartbeats since (`Servable`);
  no id is listed twice (`ListedOnce`), or the older entry would take the message
  away early. That a new message is not still listed is `DuplicatesOutliveCache`.
- `NothingEchoes`: `NoEcho`. While a verdict on the cached copy is owed, everyone
  who sent the message is its first sender or in `originating_peers`
  (`SendersNoted`); overdue verdicts are kept apart by `CurrentCached`.

`GossipProofs`, for all peers, messages, ids, limits and times:

- `TypeCorrect`: `TypeOK`, whose ranges are the limits `max_ihave_messages` and
  `max_ihave_length` for each peer between heartbeats.
- `OneRequestAtATime`: `AskedOnce`, with `PoolPending`: what waits in the control
  pool is in `pending_iwant_msgs`, so that a second IHAVE does not ask again.
- `PenaltiesDeserved`: `PenaltyDeserved` speaks of the promises that a heartbeat is
  about to punish. The invariant is stronger: an id that is remembered has no
  promise (`SeenUnpromised`), and a promise outlives its answer only in the two
  cases that the property names (`KeptExcused`).

`PeerScoreProofs`, for all peers, addresses, topics, messages and parameters that
`validate` accepts:

- `ConnectedIsConnected` and `NobodyHaunts`: `StatusFollows` and `NoGhostAddress`
  are inductive together (`ConnInv`): a closing removes the right addresses only
  because the statistics exist exactly as long as connections do, or as the
  retention asks for.
- `BlameAfterVerdict` and `DuplicatesCountOnce`: `BlameFollowsVerdict` and
  `RepeatsCountedOnce` follow from a ledger for each message (`Ledger`): until the
  verdict its record names everyone who owes a penalty, apart from the sender the
  verdict is awaited for, and nothing has been counted; a valid record names
  everyone counted; an invalid one names nobody. Only peers with statistics owe
  anything (`DebtorsKnown`), so that whoever a verdict names is reached by its
  penalty. The theorem is about peers whose statistics are kept: those that are
  forgotten before the verdict are not penalised, and the property says so.
- `DeficitsAreCharged`: `DeficitCharged`, with `Unused` (a peer without statistics
  starts with fresh ones) and the types.
- `TypeCorrect`: `TypeOK`.
- `LeavingNeverPays`: the action property `NoWhitewash`, for any finite set of
  topics. It compares whole scores, so it needs what a sum is: `SumExists`,
  `SumLower` (lower terms make a lower sum) and `TopicsSumIs`, which takes the
  library's fold apart. The terms are `Rewards` (P1, P2), `Charges` (P3, P3b) and
  the invalid messages (`ScoreLower`); leaving a mesh turns the deficit from P3 into
  P3b, which costs no less because of `Sticky` (`LeftLower`), and takes the rewards.
  A peer that is forgotten has a positive score to lose: `remove_peer` looks at the
  whole score, but with the last connection the last address is gone too
  (`NoGhostAddress`), so that P6 is zero (`NoAddressNoScore`). `DeficitCharged` and
  `Unused` are needed for the peers that come and go. The hypothesis `Sticky`
  speaks of the parameters at the time of the step: valid ones, since
  `set_topic_params` validates nothing and a negative weight of a topic would make
  every penalty a reward, with a failure weight not above the mesh weight.

`AcceptanceProofs`, for all filters, every finite set of topics, any set of
connections and all sizes, with a limit of at least 100 bytes (`SizesAssumption`,
`FiltersAssumption`):

- `FilterHolds`: `ViewWithinFilter`, whatever requests the remote side receives. It
  rests on `TopicsAfterWithin`: the code adds the topics that are new, subtracts
  those of the peer's topics that the same request gives up and compares once, with
  the subscriptions that the deduplication and the allowed set have left.
- `QueuedRpcsFit`: `RpcsFit`, from `QueuesFit` beside the types. `FragmentsHold`
  says of the fragments of an announcement that each of them fits (as `RpcsFit` has
  it), that they hold the announcement of each topic and no others, and each once.
  It follows the fold over the objects (`AddObjectsChain`): an object added to an
  RPC that has room for it leaves one that fits (`LongerFits`), an object that
  begins one fits alone (`SingleFits`), and the empty control field goes to the last
  RPC if that one fits, or to a new one. `FieldsAppend` says how the length of an
  encoded RPC grows.
- `RemoteViewAgrees`: `ViewsAgree` is not inductive. `AllSettled` says of each topic
  that is not unsure that at most one announcement of it is under way, over one
  connection and in one of queue and wire, that it is the truth (`Word`), and that
  the remote peer knows the truth if there is none. A step either leaves a topic
  alone (`SettledFrame`), announces it for the first time (`SettledFresh`) or makes
  it unsure; what the remote peer makes of the request that arrives is
  `ReceivedTopic`, which needs that the deduplication keeps what is said once
  (`DeduplicateKeeps`). Fragments travel apart and in any order, so `FragmentsHold`
  is needed here too.

Induction over what a fold computes is done in both modules by hand: a set of
naturals has a least element (`LeastNat`), hence a set that is closed under
successors up to `n` contains `0..n` (`Induction`). The function that a fold of the
library is defined by exists (`FoldExists`, `SumExists`), so the `CHOOSE` in it has
a witness and satisfies its equation, and the equation is unrolled step by step.

`AcceptanceProofs`, for all keys, peer ids and contents, from `SignaturesWork` (a
key verifies what it signed, a peer id that contains a key contains one):

- `PublishedAccepted`: whatever `validate_config` accepts, a node's own messages
  pass its own validator, with the key inlined in the peer id or sent along.
- `ForwardedAccepted`: an accepted message, normalised and encoded again, is
  accepted again under the same mode; this needs that the normalisation removes
  only what neither the structural check nor the signature covers.
- `StrictIsAuthentic`: a strict node accepts only messages with a source whose key
  verifies the content, the source and the sequence number as they are handed on.

Types: `TypeOK` is proved in every module that states it.

Only model-checked:

- the liveness properties (`EventuallyReleased`, `QueueDrains`, `LoopEnds`,
  `AnsweredUnlessFull`, `PromisesEnd`): liveness under fairness is out of the
  prover's reach;
- `FragmentsComplete`, that the fragments keep the order of the objects, for RPCs
  that hold messages and control messages too. What the announcements need of it,
  that nothing is missing, added or doubled, is `FragmentsHold`.

## 5. Plan

Done, in the order of importance in which it was planned: the overlay, the backoff
storage, the handler, the node, the message path with its caches, gossip, scoring,
filters with fragmentation and announcements, signing.

Left:

1. Proofs: the order of objects in the fragments (`FragmentsComplete`), and the
   fragmentation of control messages, which needs a bound on their sizes that the
   code does not check.
2. The behaviour's event queue with its wake-ups (`behaviour.rs:3246`), and two
   behaviours with their handlers in between for GRAFT and PRUNE, as `Announce` has
   them for subscriptions.
3. An abstract specification of delivery, "each id is handed over at most once
   while its entry lives", with `Delivery` as its implementation, and the release
   of a backoff within two intervals when heartbeats are punctual.

## 6. Not modelled

Protobuf, framing and the protocol names (external formats), cryptography
(external), metrics (write only), the ENR record and topic syntax, the wrapper
behaviours of `waku-relay` and `waku-node`, the transport and the command lines:
they keep no state that another part depends on. Failures of framing and of the
transport appear as broken substreams and closed connections. Of the scoring
service, the delivery time callback and the service that does nothing are left
out; the setters of `ConfigBuilder` only assign, and what `build` enforces is
assumed by the modules that use it.
