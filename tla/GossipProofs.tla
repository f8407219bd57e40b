---------------------------- MODULE GossipProofs ----------------------------
(***************************************************************************)
(* Theorems about Gossip, for any peers, messages and configurations, a    *)
(* finite set of ids and any limits and times.                             *)
(***************************************************************************)
EXTENDS Gossip, FiniteSetTheorems, TLAPS

(***************************************************************************)
(* The time cache.                                                         *)
(***************************************************************************)

(* Types, and which keys entry(k) and time leave in a cache: entry(k) adds *)
(* no key but k, and k is new exactly if it was vacant.                    *)
LEMMA CacheFacts ==
  ASSUME NEW K, NEW T \in Nat, NEW c \in [K -> Absent..T], NEW k \in K
  PROVE  /\ Aged(c) \in [K -> Absent..T]
         /\ Insert(c, k, T) \in [K -> Absent..T]
         /\ \A x \in K : Contains(Aged(c), x) <=> Contains(c, x)
         /\ \A x \in K \ {k} : Contains(Insert(c, k, T), x) => Contains(c, x)
         /\ ~Contains(c, k) => Vacant(c, k)
<1>1. RemoveExpired(c) \in [K -> Absent..T]
  BY DEF RemoveExpired, Absent
<1>2. Aged(c) \in [K -> Absent..T]
  BY DEF Aged, Absent
<1>3. Insert(c, k, T) \in [K -> Absent..T]
  BY <1>1 DEF Insert, Absent
<1>4. \A x \in K : Contains(Aged(c), x) <=> Contains(c, x)
  BY DEF Aged, Contains, Absent
<1>5. \A x \in K \ {k} : Contains(Insert(c, k, T), x) => Contains(c, x)
  <2>1. \A x \in K : Contains(RemoveExpired(c), x) => Contains(c, x)
    BY DEF RemoveExpired, Contains, Absent
  <2>2. \A x \in K \ {k} : Insert(c, k, T)[x] = RemoveExpired(c)[x]
    BY <1>1 DEF Insert
  <2>. QED  BY <2>1, <2>2 DEF Contains
<1>6. ~Contains(c, k) => Vacant(c, k)
  BY DEF Vacant, RemoveExpired, Contains, Absent
<1>. QED  BY <1>2, <1>3, <1>4, <1>5, <1>6

(***************************************************************************)
(* Types.                                                                  *)
(***************************************************************************)

(* The initial state has its type.                                         *)
LEMMA TypeInit == Init => TypeOK
BY GossipAssumption DEF Init, TypeOK, Empty, Absent, NoPromise

(* An IHAVE within the limits: no more is asked for than they allow.       *)
LEMMA TypeIHave ==
  ASSUME TypeOK, NEW p \in Peers, NEW ids \in SUBSET Ids,
         NEW asked \in SUBSET Ids, HandleIHave(p, ids, asked)
  PROVE  TypeOK'
<1>. DEFINE wanted == {id \in ids : WantMessage(id)}
<1>1. Cardinality(asked) \in Nat /\ Cardinality(wanted) \in Nat
  <2>1. IsFiniteSet(asked) /\ IsFiniteSet(wanted)
    BY GossipAssumption, FS_Subset
  <2>. QED  BY <2>1, FS_CardinalityType
<1>2. Cardinality(asked) = Iask(p, Cardinality(wanted))
  BY DEF HandleIHave
<1>3. countSent[p] \in 0..MaxIhaveLength /\ MaxIhaveLength \in Nat
  BY GossipAssumption DEF TypeOK
<1>4. countSent[p] + Cardinality(asked) \in 0..MaxIhaveLength
  <2>. HIDE DEF wanted
  <2>. QED  BY <1>1, <1>2, <1>3 DEF Iask
<1>5. countSent' \in [Peers -> 0..MaxIhaveLength]
  BY <1>4 DEF HandleIHave, TypeOK
<1>6. countReceived' \in [Peers -> 0..MaxIhaveMessages + 1]
  <2>1. countReceived[p] + 1 \in 0..MaxIhaveMessages + 1
    BY GossipAssumption DEF HandleIHave, TypeOK
  <2>. QED  BY <2>1 DEF HandleIHave, TypeOK
<1>7. promises' \in [Ids -> [Peers -> NoPromise..FollowupTime]]
  BY GossipAssumption DEF HandleIHave, AddPromises, TypeOK, NoPromise
<1>8. pendingIwant' \subseteq Ids /\ pool' \in [Peers -> SUBSET Ids]
  BY DEF HandleIHave, TypeOK
<1>. QED  BY <1>5, <1>6, <1>7, <1>8 DEF HandleIHave, TypeOK

(* Resolving the promises on an id.                                        *)
LEMMA TypeResolve ==
  ASSUME TypeOK, NEW id \in Ids, Resolve(id)
  PROVE  promises' \in [Ids -> [Peers -> NoPromise..FollowupTime]]
BY GossipAssumption DEF TypeOK, Resolve, NoPromise

(* A message, whatever is made of it.                                      *)
LEMMA TypeMessage ==
  ASSUME TypeOK, NEW m \in Msgs, NEW p \in Peers,
         ReceivedBefore(m, p) \/ Received(m, p) \/ Refused(m)
  PROVE  TypeOK'
<1>. DEFINE id == MsgId[m]
<1>1. id \in Ids /\ DuplicateCacheTime \in Nat
  BY GossipAssumption
<1>2. ASSUME Unresolved(id, p)
      PROVE  kept' \subseteq Ids \X Peers /\ promises' = promises
  BY <1>1, <1>2 DEF Unresolved, TypeOK
<1>3. ASSUME Resolve(id), kept' \subseteq kept
      PROVE  /\ kept' \subseteq Ids \X Peers
             /\ promises' \in [Ids -> [Peers -> NoPromise..FollowupTime]]
  BY <1>1, <1>3, TypeResolve DEF TypeOK
<1>4. CASE ReceivedBefore(m, p)
  BY <1>2, <1>4 DEF ReceivedBefore, TypeOK, counters
<1>5. CASE Received(m, p)
  <2>1. /\ seen' \in [Ids -> Absent..DuplicateCacheTime]
        /\ fastSeen' \in [Msgs -> Absent..DuplicateCacheTime]
    <3>1. Insert(seen, id, DuplicateCacheTime)
            \in [Ids -> Absent..DuplicateCacheTime]
      BY <1>1, CacheFacts DEF TypeOK
    <3>2. Insert(fastSeen, m, DuplicateCacheTime)
            \in [Msgs -> Absent..DuplicateCacheTime]
      BY <1>1, CacheFacts DEF TypeOK
    <3>. QED  BY <1>5, <3>1, <3>2 DEF Received, TypeOK
  <2>2. /\ kept' \subseteq Ids \X Peers
        /\ promises' \in [Ids -> [Peers -> NoPromise..FollowupTime]]
    <3>1. Unresolved(id, p) \/ Delivered(id, p)
      BY <1>5 DEF Received
    <3>2. CASE Unresolved(id, p)
      BY <1>2, <3>2 DEF TypeOK
    <3>3. CASE Delivered(id, p)
      BY <1>3, <3>3 DEF Delivered
    <3>. QED  BY <3>1, <3>2, <3>3
  <2>. QED  BY <1>5, <2>1, <2>2 DEF Received, TypeOK, counters
<1>6. CASE Refused(m)
  BY <1>3, <1>6 DEF Refused, TypeOK, counters
<1>. QED  BY <1>4, <1>5, <1>6

(* Heartbeats and time.                                                    *)
LEMMA TypeTime == TypeOK /\ (Heartbeat \/ Tick) => TypeOK'
<1>. SUFFICES ASSUME TypeOK, Heartbeat \/ Tick PROVE TypeOK'
  OBVIOUS
<1>1. {DuplicateCacheTime, FollowupTime, MaxIhaveLength, MaxIhaveMessages} \subseteq Nat
  BY GossipAssumption
<1>2. CASE Heartbeat
  BY <1>1, <1>2 DEF Heartbeat, FlushControlPool, TypeOK, NoPromise
<1>3. CASE Tick
  <2>1. promises' \in [Ids -> [Peers -> NoPromise..FollowupTime]]
    BY <1>1, <1>3 DEF Tick, TypeOK, NoPromise
  <2>2. /\ seen' \in [Ids -> Absent..DuplicateCacheTime]
        /\ fastSeen' \in [Msgs -> Absent..DuplicateCacheTime]
    BY <1>1, <1>3 DEF Tick, TypeOK, Aged, Absent
  <2>. QED  BY <1>3, <2>1, <2>2 DEF Tick, TypeOK, counters
<1>. QED  BY <1>2, <1>3

(* Every step keeps the type.                                              *)
LEMMA TypeNext == TypeOK /\ [Next]_vars => TypeOK'
<1>. SUFFICES ASSUME TypeOK, [Next]_vars PROVE TypeOK'
  OBVIOUS
<1>1. ASSUME NEW p \in Peers, IgnoreIHave(p) PROVE TypeOK'
  <2>1. countReceived' \in [Peers -> 0..MaxIhaveMessages + 1]
    BY <1>1, GossipAssumption DEF IgnoreIHave, TypeOK
  <2>. QED  BY <1>1, <2>1 DEF IgnoreIHave, TypeOK
<1>2. ASSUME NEW id \in Ids, Publish(id) PROVE TypeOK'
  <2>1. seen' \in [Ids -> Absent..DuplicateCacheTime]
    BY <1>2, CacheFacts, GossipAssumption DEF Publish, TypeOK
  <2>. QED  BY <1>2, <2>1 DEF Publish, TypeOK, counters
<1>3. ASSUME NEW m \in Msgs, Refused(m) PROVE TypeOK'
  <2>1. MsgId[m] \in Ids
    BY GossipAssumption
  <2>. QED  BY <1>3, <2>1, TypeResolve DEF Refused, TypeOK, counters
<1>4. CASE UNCHANGED vars
  BY <1>4 DEF vars, counters, TypeOK
<1>. QED  BY <1>1, <1>2, <1>3, <1>4, TypeIHave, TypeMessage, TypeTime DEF Next

(* The types of the state, the limits of both counters included: no peer   *)
(* is ever asked for more than max_ihave_length ids between heartbeats.    *)
THEOREM TypeCorrect == Spec => []TypeOK
BY TypeInit, TypeNext, PTL DEF Spec

(***************************************************************************)
(* One request at a time.                                                  *)
(***************************************************************************)

(* What WantMessage asks before an IWANT is the whole of the invariant:    *)
(* the ids in the pool are in pending_iwant_msgs, and an id that a peer    *)
(* has promised is asked of no other.                                      *)
PoolPending == \A p \in Peers : pool[p] \subseteq pendingIwant
AskedInv == TypeOK /\ PoolPending /\ AskedOnce

(* Promises that are dropped, or grow older, leave fewer outstanding.      *)
LEMMA FewerPromises ==
  ASSUME AskedOnce, UNCHANGED pool, Outstanding' \subseteq Outstanding
  PROVE  AskedOnce'
BY DEF AskedOnce

(* Resolving removes the promises on one id and no other.                  *)
LEMMA ResolvedPromises ==
  ASSUME TypeOK, NEW id \in Ids, Resolve(id)
  PROVE  Outstanding' = {x \in Outstanding : x[1] # id}
BY DEF Resolve, Outstanding, TypeOK

(* An IHAVE: what is asked for is asked of nobody else.                    *)
LEMMA AskedIHave ==
  ASSUME AskedInv, NEW p \in Peers, NEW ids \in SUBSET Ids,
         NEW asked \in SUBSET Ids, HandleIHave(p, ids, asked)
  PROVE  PoolPending' /\ AskedOnce'
<1>1. \A id \in asked : /\ id \notin pendingIwant
                        /\ config.scoring => ~Promised(id)
  BY DEF HandleIHave, WantMessage, PromisesContains
<1>2. pool' = [pool EXCEPT ![p] = @ \cup asked] /\ pool \in [Peers -> SUBSET Ids]
  BY DEF HandleIHave, AskedInv, TypeOK
<1>3. PoolPending'
  BY <1>2 DEF AskedInv, PoolPending, HandleIHave
<1>4. \A x \in Outstanding' : x \in Outstanding \/ (x[1] \in asked /\ x[2] = p /\ config.scoring)
  BY DEF AskedInv, TypeOK, HandleIHave, AddPromises, Outstanding
<1>5. ASSUME NEW id \in Ids, NEW q \in Peers, NEW r \in Peers, q # r
      PROVE  /\ ~(id \in pool'[q] /\ id \in pool'[r])
             /\ ~({<<id, q>>, <<id, r>>} \subseteq Outstanding')
  <2>1. ~(id \in pool'[q] /\ id \in pool'[r])
    BY <1>1, <1>2, <1>5 DEF AskedInv, PoolPending, AskedOnce
  <2>2. ~(<<id, q>> \in Outstanding' /\ <<id, r>> \in Outstanding')
    <3>1. ~(<<id, q>> \in Outstanding /\ <<id, r>> \in Outstanding)
      BY <1>5 DEF AskedInv, AskedOnce
    <3>2. \A s \in Peers : id \in asked /\ config.scoring => <<id, s>> \notin Outstanding
      BY <1>1 DEF Promised
    <3>3. \A s \in Peers : <<id, s>> \in Outstanding' =>
            <<id, s>> \in Outstanding \/ (id \in asked /\ s = p /\ config.scoring)
      BY <1>4
    <3>. QED  BY <1>5, <3>1, <3>2, <3>3
  <2>. QED  BY <2>1, <2>2
<1>. QED  BY <1>3, <1>5 DEF AskedOnce

(* No other step asks or promises anything.                                *)
LEMMA AskedNext == AskedInv /\ [Next]_vars => AskedInv'
<1>. SUFFICES ASSUME AskedInv, [Next]_vars PROVE PoolPending' /\ AskedOnce'
  BY TypeNext DEF AskedInv
<1>1. ASSUME UNCHANGED <<pool, pendingIwant>>, Outstanding' \subseteq Outstanding
      PROVE  PoolPending' /\ AskedOnce'
  BY <1>1, FewerPromises DEF AskedInv, PoolPending
<1>2. ASSUME NEW p \in Peers, IgnoreIHave(p) PROVE PoolPending' /\ AskedOnce'
  BY <1>1, <1>2 DEF IgnoreIHave, Outstanding
<1>3. ASSUME NEW m \in Msgs, NEW p \in Peers, ReceivedBefore(m, p)
      PROVE  PoolPending' /\ AskedOnce'
  BY <1>1, <1>3 DEF ReceivedBefore, Unresolved, Outstanding
<1>4. ASSUME NEW m \in Msgs, NEW p \in Peers, Received(m, p)
      PROVE  PoolPending' /\ AskedOnce'
  <2>1. MsgId[m] \in Ids
    BY GossipAssumption
  <2>2. UNCHANGED promises \/ Resolve(MsgId[m])
    BY <1>4 DEF Received, Delivered, Unresolved
  <2>3. Outstanding' \subseteq Outstanding
    <3>1. CASE UNCHANGED promises
      BY <3>1 DEF Outstanding
    <3>2. CASE Resolve(MsgId[m])
      BY <2>1, <3>2, ResolvedPromises DEF AskedInv
    <3>. QED  BY <2>2, <3>1, <3>2
  <2>. QED  BY <1>1, <1>4, <2>3 DEF Received
<1>5. ASSUME NEW m \in Msgs, Refused(m) PROVE PoolPending' /\ AskedOnce'
  <2>1. Outstanding' \subseteq Outstanding
    BY <1>5, ResolvedPromises, GossipAssumption DEF Refused, AskedInv
  <2>. QED  BY <1>1, <1>5, <2>1 DEF Refused
<1>6. ASSUME NEW id \in Ids, Publish(id) PROVE PoolPending' /\ AskedOnce'
  BY <1>1, <1>6 DEF Publish, Outstanding
<1>7. CASE Heartbeat
  <2>1. Outstanding' \subseteq Outstanding
    BY <1>7 DEF Heartbeat, Outstanding, AskedInv, TypeOK
  <2>2. pool' = [p \in Peers |-> {}]
    BY <1>7 DEF Heartbeat, FlushControlPool
  <2>. QED  BY <2>1, <2>2 DEF AskedInv, AskedOnce, PoolPending
<1>8. CASE Tick
  <2>1. Outstanding' \subseteq Outstanding
    BY <1>8, GossipAssumption DEF Tick, Outstanding, AskedInv, TypeOK, NoPromise
  <2>. QED  BY <1>1, <1>8, <2>1 DEF Tick
<1>9. CASE UNCHANGED vars
  BY <1>1, <1>9 DEF vars, Outstanding
<1>. QED  BY <1>2, <1>3, <1>4, <1>5, <1>6, <1>7, <1>8, <1>9, AskedIHave DEF Next

(* An id is asked of one peer at a time (handle_ihave), whatever the order *)
(* of offers, answers, refusals, heartbeats and time.                      *)
THEOREM OneRequestAtATime == Spec => []AskedOnce
<1>1. Init => AskedInv
  <2>1. Init => PoolPending /\ AskedOnce
    BY DEF Init, PoolPending, AskedOnce, Outstanding
  <2>. QED  BY <2>1, TypeInit DEF AskedInv
<1>2. AskedInv => AskedOnce
  BY DEF AskedInv
<1>. QED  BY <1>1, <1>2, AskedNext, PTL DEF Spec

(***************************************************************************)
(* Penalties.                                                              *)
(***************************************************************************)

(* A remembered id that we have not published is promised by nobody: it    *)
(* was not remembered when it was asked for, and the message that made it  *)
(* so resolved the promises.  A promise that outlives its answer therefore *)
(* comes from a fast id or from our own publishing.                        *)
SeenUnpromised ==
  \A id \in Ids : Contains(seen, id) /\ id \notin published => ~Promised(id)
KeptExcused == \A x \in kept : config.fastIds \/ x[1] \in published
PenaltyInv == TypeOK /\ SeenUnpromised /\ KeptExcused

(* Steps that promise nothing new and remember nothing new.                *)
LEMMA PenaltyFrame ==
  ASSUME PenaltyInv, UNCHANGED <<config, published>>, kept' \subseteq kept,
         \A id \in Ids : Contains(seen', id) => Contains(seen, id),
         Outstanding' \subseteq Outstanding
  PROVE  SeenUnpromised' /\ KeptExcused'
<1>1. \A id \in Ids : Promised(id)' => Promised(id)
  BY DEF Promised
<1>. QED  BY <1>1 DEF PenaltyInv, SeenUnpromised, KeptExcused

(* An IHAVE: what is asked for is not remembered.                          *)
LEMMA PenaltyIHave ==
  ASSUME PenaltyInv, NEW p \in Peers, NEW ids \in SUBSET Ids,
         NEW asked \in SUBSET Ids, HandleIHave(p, ids, asked)
  PROVE  SeenUnpromised' /\ KeptExcused'
<1>1. \A id \in asked : ~Contains(seen, id)
  BY DEF HandleIHave, WantMessage
<1>2. \A x \in Outstanding' : x \in Outstanding \/ x[1] \in asked
  BY DEF PenaltyInv, TypeOK, HandleIHave, AddPromises, Outstanding
<1>3. \A id \in Ids : Promised(id)' => Promised(id) \/ id \in asked
  BY <1>2 DEF Promised
<1>. QED  BY <1>1, <1>3 DEF PenaltyInv, SeenUnpromised, KeptExcused, HandleIHave

(* A message: a new id has its promises resolved, an old one has none.     *)
LEMMA PenaltyReceived ==
  ASSUME PenaltyInv, NEW m \in Msgs, NEW p \in Peers, Received(m, p)
  PROVE  SeenUnpromised' /\ KeptExcused'
<1>. DEFINE id == MsgId[m]
<1>1. id \in Ids /\ DuplicateCacheTime \in Nat
  BY GossipAssumption
<1>2. /\ \A x \in Ids \ {id} : Contains(seen', x) => Contains(seen, x)
      /\ ~Contains(seen, id) => Vacant(seen, id)
  <2>1. seen \in [Ids -> Absent..DuplicateCacheTime]
    BY DEF PenaltyInv, TypeOK
  <2>2. seen' = Insert(seen, id, DuplicateCacheTime)
    BY DEF Received
  <2>. QED  BY <1>1, <2>1, <2>2, CacheFacts
<1>3. CASE Vacant(seen, id)
  <2>1. Resolve(id) /\ kept' \subseteq kept /\ UNCHANGED <<config, published>>
    BY <1>3 DEF Received, Delivered
  <2>2. Outstanding' = {x \in Outstanding : x[1] # id}
    BY <1>1, <2>1, ResolvedPromises DEF PenaltyInv
  <2>3. ~Promised(id)' /\ \A x \in Ids : Promised(x)' => Promised(x)
    BY <2>2 DEF Promised
  <2>. QED  BY <1>2, <2>1, <2>3 DEF PenaltyInv, SeenUnpromised, KeptExcused
<1>4. CASE ~Vacant(seen, id)
  <2>1. Unresolved(id, p) /\ UNCHANGED <<config, published, promises>>
    BY <1>4 DEF Received, Unresolved
  <2>2. Outstanding' = Outstanding
    BY <2>1 DEF Outstanding
  <2>3. <<id, p>> \in Outstanding => id \in published
    BY <1>1, <1>2, <1>4 DEF PenaltyInv, SeenUnpromised, Promised
  <2>4. KeptExcused'
    BY <2>1, <2>3 DEF Unresolved, PenaltyInv, KeptExcused
  <2>5. SeenUnpromised'
    BY <1>2, <1>4, <2>1, <2>2 DEF PenaltyInv, SeenUnpromised, Promised
  <2>. QED  BY <2>4, <2>5
<1>. QED  BY <1>3, <1>4

(* Every step keeps the invariant.                                         *)
LEMMA PenaltyNext == PenaltyInv /\ [Next]_vars => PenaltyInv'
<1>. SUFFICES ASSUME PenaltyInv, [Next]_vars PROVE SeenUnpromised' /\ KeptExcused'
  BY TypeNext DEF PenaltyInv
<1>1. ASSUME NEW p \in Peers, IgnoreIHave(p) PROVE SeenUnpromised' /\ KeptExcused'
  BY <1>1, PenaltyFrame DEF IgnoreIHave, Outstanding, Contains
<1>2. ASSUME NEW m \in Msgs, NEW p \in Peers, ReceivedBefore(m, p)
      PROVE  SeenUnpromised' /\ KeptExcused'
  <2>1. SeenUnpromised'
    BY <1>2 DEF ReceivedBefore, Unresolved, PenaltyInv, SeenUnpromised,
                Promised, Outstanding, Contains
  <2>. QED  BY <1>2, <2>1 DEF ReceivedBefore, KeptExcused
<1>3. ASSUME NEW m \in Msgs, Refused(m) PROVE SeenUnpromised' /\ KeptExcused'
  <2>1. Outstanding' \subseteq Outstanding
    BY <1>3, ResolvedPromises, GossipAssumption DEF Refused, PenaltyInv
  <2>. QED  BY <1>3, <2>1, PenaltyFrame DEF Refused, Contains
<1>4. ASSUME NEW id \in Ids, Publish(id) PROVE SeenUnpromised' /\ KeptExcused'
  <2>1. \A x \in Ids \ {id} : Contains(seen', x) => Contains(seen, x)
    BY <1>4, CacheFacts, GossipAssumption DEF Publish, PenaltyInv, TypeOK
  <2>2. \A x \in Ids : Promised(x)' <=> Promised(x)
    BY <1>4 DEF Publish, Promised, Outstanding
  <2>. QED  BY <1>4, <2>1, <2>2 DEF Publish, PenaltyInv, SeenUnpromised, KeptExcused
<1>5. CASE Heartbeat
  <2>1. Outstanding' \subseteq Outstanding
    BY <1>5 DEF Heartbeat, Outstanding, PenaltyInv, TypeOK
  <2>. QED  BY <1>5, <2>1, PenaltyFrame DEF Heartbeat, Contains
<1>6. CASE Tick
  <2>1. Outstanding' \subseteq Outstanding
    BY <1>6, GossipAssumption DEF Tick, Outstanding, PenaltyInv, TypeOK, NoPromise
  <2>2. \A id \in Ids : Contains(seen', id) => Contains(seen, id)
    BY <1>6, CacheFacts, GossipAssumption DEF Tick, PenaltyInv, TypeOK
  <2>. QED  BY <1>6, <2>1, <2>2, PenaltyFrame DEF Tick
<1>7. CASE UNCHANGED vars
  BY <1>7, PenaltyFrame DEF vars, Outstanding, Contains
<1>. QED  BY <1>1, <1>2, <1>3, <1>4, <1>5, <1>6, <1>7, PenaltyIHave,
             PenaltyReceived DEF Next

(* A peer that has answered an IWANT is not punished for a broken promise, *)
(* unless fast ids are in use or we published the message ourselves.       *)
THEOREM PenaltiesDeserved == Spec => []PenaltyDeserved
<1>1. Init => PenaltyInv
  <2>1. Init => SeenUnpromised /\ KeptExcused
    BY DEF Init, SeenUnpromised, KeptExcused, Contains, Empty, Absent
  <2>. QED  BY <2>1, TypeInit DEF PenaltyInv
<1>2. PenaltyInv => PenaltyDeserved
  BY DEF PenaltyInv, KeptExcused, PenaltyDeserved
<1>. QED  BY <1>1, <1>2, PenaltyNext, PTL DEF Spec
=============================================================================
