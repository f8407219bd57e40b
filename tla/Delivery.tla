------------------------------ MODULE Delivery ------------------------------
(***************************************************************************)
(* The path of a message through the gossipsub behaviour: publish, receive *)
(* and validate it (gossipsub/behaviour.rs), remember its id               *)
(* (time_cache.rs), keep it for gossip and for the peers that ask for it   *)
(* (mcache.rs).                                                            *)
(*                                                                         *)
(* Meshes, explicit peers and scores are the business of module Mesh: here *)
(* any set of peers may be the targets of a forward.  A unit of time is a  *)
(* heartbeat interval.  Ids are the ids that are followed; of all other    *)
(* messages only what they do to the time caches matters.                  *)
(***************************************************************************)
EXTENDS Integers, TimeCache

CONSTANTS
  Peers,
  Msgs,                 \* messages as they come off the wire
  Ids,                  \* message ids
  MsgId,                \* config.message_id: the id of each message
  Author,               \* raw_message.source: a peer, Self or NoAuthor
  Self, NoAuthor,       \* NoAuthor: anonymous, or a random author
  Configs,              \* the configurations considered
  DuplicateCacheTime, PublishedCacheTime,
  HistoryLength, HistoryGossip,
  GossipRetransmission,
  Blacklistable,        \* the peers the application may blacklist
  MaxLate               \* how many intervals a heartbeat may be late

ASSUME DeliveryAssumption ==
  /\ MsgId \in [Msgs -> Ids]
  /\ Self \notin Peers /\ NoAuthor \notin Peers /\ Self # NoAuthor
  /\ Author \in [Msgs -> Peers \cup {Self, NoAuthor}]
  /\ Configs \subseteq [validateMessages : BOOLEAN, hasAuthor : BOOLEAN,
                         allowSelfOrigin : BOOLEAN, fastIds : BOOLEAN]
  /\ {HistoryLength, HistoryGossip, MaxLate, PublishedCacheTime} \subseteq Nat \ {0}
  /\ DuplicateCacheTime \in Nat /\ GossipRetransmission \in Nat
  /\ HistoryGossip <= HistoryLength      \* ConfigBuilder::build
  /\ Blacklistable \subseteq Peers

(* What the defaults grant (a minute against five heartbeats) and build    *)
(* does not check: an id is remembered for longer than its message.        *)
ASSUME RememberedLonger == DuplicateCacheTime > HistoryLength * MaxLate

VARIABLES
  config,         \* validate_messages, whether the signer has an author,
                  \* allow_self_origin, whether there are fast message ids
  seen,           \* duplicate_cache
  fastSeen,       \* fast_message_id_cache; a message stands for its fast id
  ours,           \* published_message_ids
  msgs,           \* mcache.msgs: the message, its validated flag, its origins
  history,        \* mcache.history
  iwantCounts,    \* mcache.iwant_counts
  blacklist,      \* blacklisted_peers
  late,           \* intervals since the heartbeat was due
  pending,        \* the messages the application has to validate
  accepted,       \* history: ids the application accepted or published
  sent,           \* history: ids that have left the node
  senders,        \* history: the peers a cached message came from
  quiet,          \* history: time since the id was last handed over
  offered,        \* history: heartbeats since an IHAVE last offered the id
  served          \* history: IWANTs served since the id was last new

caches == <<seen, fastSeen, ours>>
mcache == <<msgs, history, iwantCounts>>
app    == <<blacklist, pending, accepted>>
past   == <<sent, senders, quiet, offered, served>>
vars   == <<config, caches, mcache, app, late, past>>

-----------------------------------------------------------------------------
(* The message cache.                                                      *)

Cached(id) == id \in DOMAIN msgs
Validated(id) == Cached(id) /\ msgs[id].validated

Entry(m, validated, origins) ==
  [msg |-> m, validated |-> validated, origins |-> origins]

Inserted(m, validated) ==
  [x \in DOMAIN msgs \cup {MsgId[m]} |->
     IF x \in DOMAIN msgs THEN msgs[x]
     ELSE Entry(m, validated, {})]

(* Mutant: the history misses the new entry.                               *)
PutUnlisted(m, validated) ==
  msgs' = Inserted(m, validated) /\ UNCHANGED history

(* put: a message that is cached already stays as it is.                   *)
Put(m, validated) ==
  /\ msgs' = Inserted(m, validated)
  /\ history' = IF Cached(MsgId[m]) THEN history
                ELSE [history EXCEPT ![1] = @ \cup {MsgId[m]}]

(* observe_duplicate.                                                      *)
ObserveDuplicate(id, p) ==
  msgs' = IF Cached(id) /\ ~msgs[id].validated
          THEN [msgs EXCEPT ![id] = Entry(@.msg, FALSE, @.origins \cup {p})]
          ELSE msgs

(* validate: the known peers are handed out once.                          *)
Validate(id) == msgs' = [msgs EXCEPT ![id] = Entry(@.msg, TRUE, {})]

(* Mutants: gossip of messages that are not validated, or of all slots.    *)
GossipUnvalidated == {id \in UNION {history[i] : i \in 1..HistoryGossip} : Cached(id)}
GossipAllSlots == {id \in UNION {history[i] : i \in 1..HistoryLength} : Validated(id)}

(* get_gossip_message_ids.                                                 *)
GossipIds == {id \in UNION {history[i] : i \in 1..HistoryGossip} : Validated(id)}

(* shift: the slots move down one and the last one's ids are dropped.      *)
Shifted == [i \in 1..HistoryLength |-> IF i = 1 THEN {} ELSE history[i - 1]]
Popped == history[HistoryLength]

(* shift and remove: what the message cache forgets with an id.            *)
Forget(ids) ==
  /\ msgs' = [id \in DOMAIN msgs \ ids |-> msgs[id]]
  /\ iwantCounts' = [id \in Ids |-> IF id \in ids THEN [p \in Peers |-> 0]
                                    ELSE iwantCounts[id]]
  /\ senders' = [id \in Ids |-> IF id \in ids THEN {} ELSE senders[id]]

(* The application owes a verdict on a message from a peer: on the cached  *)
(* copy of it, or on one that was forgotten.                               *)
Owed(id, p, status) == [id |-> id, from |-> p, status |-> status]

(* The verdicts that are outstanding on a forgotten message come too late. *)
Overdue(verdicts, ids) ==
  {Owed(v.id, v.from, IF v.id \in ids THEN "overdue" ELSE v.status) : v \in verdicts}

-----------------------------------------------------------------------------
(* Receiving.                                                              *)

(* message_is_valid: not from or by a blacklisted peer, not our own coming *)
(* back.                                                                   *)
SelfPublished(m, id) ==
  /\ ~config.allowSelfOrigin
  /\ IF config.hasAuthor THEN Author[m] = Self ELSE Contains(ours, id)
MessageIsValid(m, id, p) ==
  /\ p \notin blacklist
  /\ Author[m] \notin blacklist
  /\ ~SelfPublished(m, id)

(* forward_msg: where a message goes of its possible targets.              *)
Recipients(m, from, origins, targets) ==
  targets \ (origins \cup {from, Author[m]})

(* The duplicate of a message: its sender will not get it back.            *)
Duplicate(id, p) ==
  /\ ObserveDuplicate(id, p)
  /\ senders' = [senders EXCEPT ![id] = IF Cached(id) THEN @ \cup {p} ELSE @]
  /\ UNCHANGED <<history, iwantCounts, app, sent, quiet, offered, served>>

(* A message that is new: it is cached, and if we are subscribed to its    *)
(* topic the application gets it; without validation it goes on at once.   *)
Fresh(m, p, subscribed, targets) ==
  LET id == MsgId[m]
      onward == subscribed /\ ~config.validateMessages
                /\ Recipients(m, p, {}, targets) # {}
  IN /\ Put(m, ~config.validateMessages)
     /\ senders' = [senders EXCEPT ![id] = @ \cup {p}]
     /\ served' = [served EXCEPT ![id] = [q \in Peers |-> 0]]
     /\ quiet' = [quiet EXCEPT ![id] = IF subscribed THEN 0 ELSE @]
     /\ pending' = IF subscribed /\ config.validateMessages
                   THEN pending \cup {Owed(id, p, "current")}
                   ELSE pending
     /\ accepted' = IF config.validateMessages THEN accepted ELSE accepted \cup {id}
     /\ sent' = IF onward THEN sent \cup {id} ELSE sent
     /\ UNCHANGED <<iwantCounts, blacklist, offered>>

(* Mutant: a duplicate found by its fast id is not observed.               *)
ReceivedBeforeUnobserved(m, p) ==
  /\ config.fastIds /\ Contains(fastSeen, m)
  /\ MessageIsValid(m, MsgId[m], p)
  /\ senders' = [senders EXCEPT ![MsgId[m]] = IF Cached(MsgId[m]) THEN @ \cup {p} ELSE @]
  /\ UNCHANGED <<config, caches, mcache, app, late, sent, quiet, offered, served>>

(* handle_received_message.  A message that fails the transform or         *)
(* message_is_valid changes nothing here.                                  *)
ReceivedBefore(m, p) ==
  /\ config.fastIds /\ Contains(fastSeen, m)
  /\ MessageIsValid(m, MsgId[m], p)
  /\ Duplicate(MsgId[m], p)
  /\ UNCHANGED <<config, caches, late>>

Received(m, p, subscribed, targets) ==
  LET id == MsgId[m]
  IN /\ ~(config.fastIds /\ Contains(fastSeen, m))
     /\ MessageIsValid(m, id, p)
     /\ fastSeen' = IF config.fastIds THEN Insert(fastSeen, m, DuplicateCacheTime) ELSE fastSeen
     /\ seen' = Insert(seen, id, DuplicateCacheTime)
     /\ IF Vacant(seen, id) THEN Fresh(m, p, subscribed, targets)
        ELSE Duplicate(id, p)
     /\ UNCHANGED <<config, ours, late>>

(* A message with another id arrives or is published: the entry() of its   *)
(* caches removes the expired ids.                                         *)
OtherReceived ==
  /\ seen' = RemoveExpired(seen) /\ fastSeen' = RemoveExpired(fastSeen)
  /\ UNCHANGED <<config, ours, mcache, app, late, past>>
OtherPublished ==
  /\ seen' = RemoveExpired(seen) /\ ours' = RemoveExpired(ours)
  /\ UNCHANGED <<config, fastSeen, mcache, app, late, past>>

(* Mutant: the request that reaches the limit is served too.               *)
TooManyAlready(count) == count > GossipRetransmission

(* The counter includes the request it is asked for.                       *)
TooMany(count) == count + 1 > GossipRetransmission

(* handle_iwant, one id that the peer lists `times' times.  The counter    *)
(* matters up to one more than the limit.                                  *)
MaxTimes == 2
HandleIWant(p, id, times) ==
  LET count == iwantCounts[id][p]
  IN /\ Validated(id)
     /\ iwantCounts' = [iwantCounts EXCEPT ![id][p] =
          IF TooMany(count + times - 1) THEN GossipRetransmission + 1 ELSE count + times]
     /\ IF TooMany(count) THEN UNCHANGED <<sent, served>>
        ELSE /\ served' = [served EXCEPT ![id][p] =
                             IF @ > GossipRetransmission THEN @ ELSE @ + 1]
             /\ sent' = sent \cup {id}
     /\ UNCHANGED <<config, caches, msgs, history, app, late, senders, quiet, offered>>

-----------------------------------------------------------------------------
(* The application.                                                        *)

(* publish, when there are peers to send to.  All published messages are   *)
(* valid.                                                                  *)
Publish(m) ==
  LET id == MsgId[m]
  IN /\ Author[m] = IF config.hasAuthor THEN Self ELSE NoAuthor
     /\ ~Contains(seen, id)
     /\ seen' = Insert(seen, id, DuplicateCacheTime)
     /\ ours' = IF config.hasAuthor \/ config.allowSelfOrigin THEN ours
                ELSE Insert(ours, id, PublishedCacheTime)
     /\ Put(m, TRUE)
     /\ accepted' = accepted \cup {id}
     /\ sent' = sent \cup {id}
     /\ quiet' = [quiet EXCEPT ![id] = 0]
     /\ served' = [served EXCEPT ![id] = [q \in Peers |-> 0]]
     /\ UNCHANGED <<config, fastSeen, iwantCounts, blacklist, pending, late, senders, offered>>

(* The application has given a verdict.  Of the verdicts that come too     *)
(* late, several may be about the same id and peer.                        *)
Verdict(v) ==
  /\ v \in pending
  /\ pending' \in {pending \ {v}} \cup (IF v.status = "current" THEN {} ELSE {pending})

(* report_message_validation_result, Accept: validate, then forward_msg.   *)
Accept(v, targets) ==
  /\ Verdict(v)
  /\ Cached(v.id)
  /\ Validate(v.id)
  /\ accepted' = accepted \cup {v.id}
  /\ sent' = IF Recipients(msgs[v.id].msg, v.from, msgs[v.id].origins, targets) # {}
             THEN sent \cup {v.id} ELSE sent
  /\ UNCHANGED <<config, caches, history, iwantCounts, blacklist, late,
                 senders, quiet, offered, served>>

(* ... Reject and Ignore: the message leaves the cache, its id stays in    *)
(* the history.                                                            *)
Reject(v) ==
  /\ v \in pending
  /\ Cached(v.id)
  /\ Forget({v.id})
  /\ pending' = Overdue(pending \ {v}, {v.id})
  /\ offered' = [offered EXCEPT ![v.id] = HistoryLength]
  /\ UNCHANGED <<config, caches, history, blacklist, accepted, late, sent, quiet, served>>

(* ... when the message is not in the cache anymore.                       *)
TooLate(v) ==
  /\ Verdict(v)
  /\ ~Cached(v.id)
  /\ UNCHANGED <<config, caches, mcache, blacklist, accepted, late, past>>

(* blacklist_peer, remove_blacklisted_peer.                                *)
Blacklist(p) ==
  /\ blacklist' \in {blacklist \cup {p}, blacklist \ {p}}
  /\ blacklist' # blacklist
  /\ UNCHANGED <<config, caches, mcache, pending, accepted, late, past>>

-----------------------------------------------------------------------------
(* Time.                                                                   *)

(* What on_heartbeat does here: emit_gossip offers some of the ids to      *)
(* peers outside the mesh, then the message cache shifts.                  *)
EmitGossip(ids) ==
  /\ ids \subseteq GossipIds
  /\ sent' = sent \cup ids
  /\ offered' = [id \in Ids |-> IF id \in ids THEN 0
                                ELSE IF offered[id] < HistoryLength THEN offered[id] + 1
                                ELSE offered[id]]

Shift ==
  /\ history' = Shifted
  /\ Forget(Popped)
  /\ pending' = Overdue(pending, Popped)

Heartbeat(ids) ==
  /\ late > 0
  /\ EmitGossip(ids)
  /\ Shift
  /\ late' \in {0, late - 1}
  /\ UNCHANGED <<config, caches, blacklist, accepted, quiet, served>>

Tick ==
  /\ late < MaxLate
  /\ late' = late + 1
  /\ seen' = Aged(seen) /\ fastSeen' = Aged(fastSeen) /\ ours' = Aged(ours)
  /\ quiet' = [id \in Ids |-> IF quiet[id] < DuplicateCacheTime THEN quiet[id] + 1
                              ELSE quiet[id]]
  /\ UNCHANGED <<config, mcache, app, sent, senders, offered, served>>

-----------------------------------------------------------------------------
Init ==
  /\ config \in Configs
  /\ seen = Empty(Ids) /\ fastSeen = Empty(Msgs) /\ ours = Empty(Ids)
  /\ msgs = [id \in {} |-> {}]
  /\ history = [i \in 1..HistoryLength |-> {}]
  /\ iwantCounts = [id \in Ids |-> [p \in Peers |-> 0]]
  /\ blacklist = {} /\ pending = {} /\ accepted = {} /\ sent = {}
  /\ late = 0
  /\ senders = [id \in Ids |-> {}]
  /\ quiet = [id \in Ids |-> DuplicateCacheTime]
  /\ offered = [id \in Ids |-> HistoryLength]
  /\ served = [id \in Ids |-> [p \in Peers |-> 0]]

Next ==
  \/ \E m \in Msgs, p \in Peers :
       \/ ReceivedBefore(m, p)
       \/ \E subscribed \in BOOLEAN, targets \in SUBSET Peers :
            Received(m, p, subscribed, targets)
  \/ OtherReceived
  \/ OtherPublished
  \/ \E p \in Peers, id \in Ids, n \in 1..MaxTimes : HandleIWant(p, id, n)
  \/ \E m \in Msgs : Publish(m)
  \/ \E v \in pending :
       \/ \E targets \in SUBSET Peers : Accept(v, targets)
       \/ Reject(v)
       \/ TooLate(v)
  \/ \E p \in Blacklistable : Blacklist(p)
  \/ \E ids \in SUBSET Ids : Heartbeat(ids)
  \/ Tick

Spec == Init /\ [][Next]_vars

-----------------------------------------------------------------------------
(* The state has its type.                                                 *)
Entries == [msg : Msgs, validated : BOOLEAN, origins : SUBSET Peers]
Verdicts == [id : Ids, from : Peers, status : {"current", "overdue"}]
TypeOK ==
  /\ config \in Configs
  /\ seen \in [Ids -> Absent..DuplicateCacheTime]
  /\ fastSeen \in [Msgs -> Absent..DuplicateCacheTime]
  /\ ours \in [Ids -> Absent..PublishedCacheTime]
  /\ DOMAIN msgs \subseteq Ids /\ msgs \in [DOMAIN msgs -> Entries]
  /\ history \in [1..HistoryLength -> SUBSET Ids]
  /\ iwantCounts \in [Ids -> [Peers -> 0..GossipRetransmission + 1]]
  /\ blacklist \subseteq Peers /\ late \in 0..MaxLate
  /\ pending \subseteq Verdicts
  /\ accepted \subseteq Ids /\ sent \subseteq Ids
  /\ senders \in [Ids -> SUBSET Peers]
  /\ quiet \in [Ids -> 0..DuplicateCacheTime]
  /\ offered \in [Ids -> 0..HistoryLength]
  /\ served \in [Ids -> [Peers -> 0..GossipRetransmission + 1]]

(* Nothing stays in the message cache for ever: a cached message is in a   *)
(* slot of the history, so that shift will drop it, and requests are       *)
(* counted only for cached messages.  remove, which leaves the id in the   *)
(* history, and a later put of the same id must not break this.            *)
NoLeak ==
  \A id \in Ids :
    /\ Cached(id) => \E i \in 1..HistoryLength : id \in history[i]
    /\ (\E p \in Peers : iwantCounts[id][p] > 0) => Cached(id)

(* The duplicate cache remembers every id of the history: a message that   *)
(* counts as new is never one that is still cached, nor one whose old      *)
(* history entry would drop the new copy early.                            *)
SeenOutlivesCache ==
  \A id \in UNION {history[i] : i \in 1..HistoryLength} : seen[id] > 0

(* An id is handed over, to the application as received or by it as        *)
(* published, at most once within duplicate_cache_time, whoever sends it   *)
(* and in whatever encodings.                                              *)
HandedOverOnce ==
  [][\A id \in Ids : quiet'[id] < quiet[id] => quiet[id] = DuplicateCacheTime]_vars

(* Only a message that the application has accepted (or published, or does *)
(* not validate) leaves the node, whether forwarded, offered in an IHAVE   *)
(* or sent for an IWANT.                                                   *)
OnlyAcceptedLeaves == sent \subseteq accepted

(* The verdict on a cached message does not send it back to a peer it came *)
(* from, first or as a duplicate, as long as no earlier verdict on its id  *)
(* was overdue.                                                            *)
NoEcho ==
  \A v \in pending : v.status = "current" /\ Cached(v.id) /\ ~Validated(v.id) =>
    Recipients(msgs[v.id].msg, v.from, msgs[v.id].origins, Peers)
      \cap senders[v.id] = {}

(* What an IHAVE offers can be had: for history_length - history_gossip    *)
(* heartbeats an offered message is served, unless the application rejects *)
(* it.                                                                     *)
OfferedIsServable ==
  \A id \in Ids : offered[id] < HistoryLength - HistoryGossip => Validated(id)

(* A peer gets a message at most gossip_retransimission times for its      *)
(* IWANTs until the message is new again: its counter does not start anew  *)
(* when the message leaves the cache.                                      *)
ServedBounded ==
  \A id \in Ids, p \in Peers : served[id][p] <= GossipRetransmission
=============================================================================
