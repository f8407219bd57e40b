------------------------------- MODULE Gossip -------------------------------
(***************************************************************************)
(* How the gossipsub behaviour follows up on gossip: an IHAVE names        *)
(* messages a peer has, the unknown ones are asked for with an IWANT, and  *)
(* the peer has promised to answer it in time (handle_ihave and the        *)
(* heartbeat of gossipsub/behaviour.rs, gossip_promises.rs,                *)
(* peer_score/service.rs).                                                 *)
(*                                                                         *)
(* Of the way of a message (module Delivery) only the two caches of ids    *)
(* are kept.  IHAVEs from peers below the gossip threshold are dropped     *)
(* like lost ones.                                                         *)
(***************************************************************************)
EXTENDS Integers, FiniteSets, TimeCache

CONSTANTS
  Peers,
  Msgs, Ids, MsgId,     \* as in Delivery
  Configs,              \* the configurations considered
  DuplicateCacheTime,
  FollowupTime,         \* config.iwant_followup_time
  MaxIhaveLength, MaxIhaveMessages

ASSUME GossipAssumption ==
  /\ MsgId \in [Msgs -> Ids] /\ IsFiniteSet(Ids)
  /\ Configs \subseteq [scoring : BOOLEAN, fastIds : BOOLEAN]
  /\ {DuplicateCacheTime, FollowupTime, MaxIhaveLength, MaxIhaveMessages} \subseteq Nat

VARIABLES
  config,         \* whether peers are scored, whether there are fast ids
  seen,           \* duplicate_cache
  fastSeen,       \* fast_message_id_cache
  countReceived,  \* count_received_ihave
  countSent,      \* count_sent_iwant
  pendingIwant,   \* pending_iwant_msgs
  pool,           \* the IWANTs of the control_pool: ids to ask each peer for
  promises,       \* GossipPromises: the time left to keep each promise
  kept,           \* history: promises that are tracked though answered
  published       \* history: ids we have published

counters == <<countReceived, countSent>>
vars == <<config, seen, fastSeen, counters, pendingIwant, pool, promises,
          kept, published>>

-----------------------------------------------------------------------------
(* Promises.                                                               *)

NoPromise == -2
Outstanding == {x \in Ids \X Peers : promises[x[1]][x[2]] # NoPromise}
Promised(id) == \E p \in Peers : <<id, p>> \in Outstanding

(* promises_contains says whether there is NO promise; without scores      *)
(* there never is.                                                         *)
PromisesContains(id) == config.scoring => ~Promised(id)

(* Mutant: a promise is broken only long after its time.                   *)
BrokenNever == {x \in Outstanding : promises[x[1]][x[2]] < -1}

(* get_broken_promises: expires < now.                                     *)
Broken == {x \in Outstanding : promises[x[1]][x[2]] < 0}

(* add_promise: a promise that exists keeps its time.                      *)
AddPromises(p, ids) ==
  promises' = [id \in Ids |->
    IF config.scoring /\ id \in ids /\ promises[id][p] = NoPromise
    THEN [promises[id] EXCEPT ![p] = FollowupTime] ELSE promises[id]]

(* message_delivered, and reject_message for most reasons.                 *)
Resolve(id) == promises' = [promises EXCEPT ![id] = [p \in Peers |-> NoPromise]]

-----------------------------------------------------------------------------
(* handle_ihave.                                                           *)

(* Mutant: only the IWANTs of this interval are known.                     *)
WantNotPending(id) == ~Contains(seen, id) /\ id \notin pendingIwant

WantMessage(id) ==
  /\ ~Contains(seen, id)
  /\ id \notin pendingIwant
  /\ PromisesContains(id)

(* How many of the wanted ids are asked for.                               *)
Iask(p, wanted) ==
  IF countSent[p] + wanted > MaxIhaveLength THEN MaxIhaveLength - countSent[p] ELSE wanted

(* An IHAVE over the limits is only counted; the counter matters up to one *)
(* more than the limit.  ids are those of the topics we are subscribed to. *)
IgnoreIHave(p) ==
  /\ countReceived[p] + 1 > MaxIhaveMessages \/ countSent[p] >= MaxIhaveLength
  /\ countReceived' = [countReceived EXCEPT ![p] =
                         IF @ > MaxIhaveMessages THEN @ ELSE @ + 1]
  /\ UNCHANGED <<config, seen, fastSeen, countSent, pendingIwant, pool, promises,
                 kept, published>>

HandleIHave(p, ids, asked) ==
  LET wanted == {id \in ids : WantMessage(id)}
  IN /\ countReceived[p] + 1 <= MaxIhaveMessages
     /\ countSent[p] < MaxIhaveLength
     /\ asked \subseteq wanted
     /\ Cardinality(asked) = Iask(p, Cardinality(wanted))
     /\ countReceived' = [countReceived EXCEPT ![p] = @ + 1]
     /\ countSent' = [countSent EXCEPT ![p] = @ + Cardinality(asked)]
     /\ pendingIwant' = pendingIwant \cup asked
     /\ AddPromises(p, asked)
     /\ pool' = [pool EXCEPT ![p] = @ \cup asked]
     /\ UNCHANGED <<config, seen, fastSeen, kept, published>>

-----------------------------------------------------------------------------
(* Messages.                                                               *)

(* A valid duplicate: promises on it are still tracked.                    *)
Unresolved(id, p) ==
  /\ kept' = kept \cup ({<<id, p>>} \cap Outstanding)
  /\ UNCHANGED promises

(* Mutant: the promises on a new message are not resolved.                 *)
DeliveredUnnoticed(id, p) == Unresolved(id, p)

(* promises_message_delivered.                                             *)
Delivered(id, p) ==
  /\ Resolve(id)
  /\ kept' = {x \in kept : x[1] # id}

(* handle_received_message, for a valid message.                           *)
ReceivedBefore(m, p) ==
  /\ config.fastIds /\ Contains(fastSeen, m)
  /\ Unresolved(MsgId[m], p)
  /\ UNCHANGED <<config, seen, fastSeen, counters, pendingIwant, pool, published>>

Received(m, p) ==
  LET id == MsgId[m]
  IN /\ ~(config.fastIds /\ Contains(fastSeen, m))
     /\ fastSeen' = IF config.fastIds THEN Insert(fastSeen, m, DuplicateCacheTime)
                    ELSE fastSeen
     /\ seen' = Insert(seen, id, DuplicateCacheTime)
     /\ IF Vacant(seen, id) THEN Delivered(id, p) ELSE Unresolved(id, p)
     /\ UNCHANGED <<config, counters, pendingIwant, pool, published>>

(* A message that message_is_valid, the transform or the validator of the  *)
(* RPC refuses: blacklisted senders clear the promises on it, other        *)
(* reasons do if its fast id is known, and SelfOrigin and InvalidSignature *)
(* never do.                                                               *)
Refused(m) ==
  /\ Resolve(MsgId[m])
  /\ kept' = {x \in kept : x[1] # MsgId[m]}
  /\ UNCHANGED <<config, seen, fastSeen, counters, pendingIwant, pool, published>>

(* publish: the id is remembered, promises on it are not touched.          *)
Publish(id) ==
  /\ ~Contains(seen, id)
  /\ seen' = Insert(seen, id, DuplicateCacheTime)
  /\ published' = published \cup {id}
  /\ UNCHANGED <<config, fastSeen, counters, pendingIwant, pool, promises, kept>>

-----------------------------------------------------------------------------
(* Time.                                                                   *)

(* flush_control_pool: the IWANTs leave.                                   *)
FlushControlPool == pool' = [p \in Peers |-> {}] /\ pendingIwant' = {}

(* on_heartbeat: the counters start anew, broken promises are punished and *)
(* dropped, the control pool is flushed.                                   *)
Heartbeat ==
  /\ countReceived' = [p \in Peers |-> 0] /\ countSent' = [p \in Peers |-> 0]
  /\ promises' = [id \in Ids |-> [p \in Peers |->
       IF <<id, p>> \in Broken THEN NoPromise ELSE promises[id][p]]]
  /\ kept' = kept \ Broken
  /\ FlushControlPool
  /\ UNCHANGED <<config, seen, fastSeen, published>>

Tick ==
  /\ seen' = Aged(seen) /\ fastSeen' = Aged(fastSeen)
  /\ promises' = [id \in Ids |-> [p \in Peers |->
       IF promises[id][p] >= 0 THEN promises[id][p] - 1 ELSE promises[id][p]]]
  /\ UNCHANGED <<config, counters, pendingIwant, pool, kept, published>>

Init ==
  /\ config \in Configs
  /\ seen = Empty(Ids) /\ fastSeen = Empty(Msgs)
  /\ countReceived = [p \in Peers |-> 0] /\ countSent = [p \in Peers |-> 0]
  /\ pendingIwant = {} /\ pool = [p \in Peers |-> {}]
  /\ promises = [id \in Ids |-> [p \in Peers |-> NoPromise]]
  /\ kept = {} /\ published = {}

Next ==
  \/ \E p \in Peers : IgnoreIHave(p)
  \/ \E p \in Peers, ids, asked \in SUBSET Ids : HandleIHave(p, ids, asked)
  \/ \E m \in Msgs, p \in Peers : ReceivedBefore(m, p)
  \/ \E m \in Msgs, p \in Peers : Received(m, p)
  \/ \E m \in Msgs : Refused(m)
  \/ \E id \in Ids : Publish(id)
  \/ Heartbeat
  \/ Tick

(* Time passes, and the swarm polls the heartbeat timer.                   *)
Fairness == WF_vars(Heartbeat) /\ WF_vars(Tick)

Spec == Init /\ [][Next]_vars
FairSpec == Spec /\ Fairness

-----------------------------------------------------------------------------
(* The state has its type.                                                 *)
TypeOK ==
  /\ config \in Configs
  /\ seen \in [Ids -> Absent..DuplicateCacheTime]
  /\ fastSeen \in [Msgs -> Absent..DuplicateCacheTime]
  /\ countReceived \in [Peers -> 0..MaxIhaveMessages + 1]
  /\ countSent \in [Peers -> 0..MaxIhaveLength]
  /\ pendingIwant \subseteq Ids /\ pool \in [Peers -> SUBSET Ids]
  /\ promises \in [Ids -> [Peers -> NoPromise..FollowupTime]]
  /\ kept \subseteq Ids \X Peers /\ published \subseteq Ids

(* An id is asked of one peer at a time: of one in an interval, and with   *)
(* scores of no other until the first has answered or broken its promise.  *)
AskedOnce ==
  \A id \in Ids : \A p, q \in Peers : p # q =>
    /\ ~(id \in pool[p] /\ id \in pool[q])
    /\ ~({<<id, p>>, <<id, q>>} \subseteq Outstanding)

(* A peer that has answered an IWANT in time is not punished for a broken  *)
(* promise.  Not so with fast ids, whose cache may swallow the answer when *)
(* the duplicate cache has forgotten the id, nor when we publish the       *)
(* message ourselves while it is being asked for.                          *)
PenaltyDeserved ==
  \A x \in kept \cap Broken : config.fastIds \/ x[1] \in published

(* A promise is kept or broken in the end: it never bars an id from being  *)
(* asked for for ever.                                                     *)
PromisesEnd ==
  \A id \in Ids, p \in Peers : <<id, p>> \in Outstanding ~> <<id, p>> \notin Outstanding
=============================================================================
