--------------------------- MODULE DeliveryProofs ---------------------------
(***************************************************************************)
(* Theorems about Delivery, for any peers, messages and ids, any           *)
(* configuration, cache times and history, and any lateness of heartbeats  *)
(* that RememberedLonger allows.                                           *)
(***************************************************************************)
EXTENDS Delivery, TLAPS

(***************************************************************************)
(* The time cache.                                                         *)
(***************************************************************************)

(* An element with time left survives entry(), one without is vacant.      *)
LEMMA CacheFacts ==
  ASSUME NEW K, NEW T \in Nat, NEW c \in [K -> Absent..T], NEW k \in K
  PROVE  /\ RemoveExpired(c) \in [K -> Absent..T]
         /\ Aged(c) \in [K -> Absent..T]
         /\ Insert(c, k, T) \in [K -> Absent..T]
         /\ Vacant(c, k) <=> c[k] <= 0
         /\ Vacant(c, k) => Insert(c, k, T)[k] = T
         /\ \A x \in K : c[x] > 0 => /\ RemoveExpired(c)[x] = c[x]
                                     /\ Insert(c, k, T)[x] = c[x]
                                     /\ Aged(c)[x] = c[x] - 1
<1>1. RemoveExpired(c) \in [K -> Absent..T]
  BY DEF RemoveExpired, Absent
<1>2. Aged(c) \in [K -> Absent..T]
  BY DEF Aged, Absent
<1>3. Vacant(c, k) <=> c[k] <= 0
  BY DEF Vacant, Contains, RemoveExpired, Absent
<1>4. Insert(c, k, T) \in [K -> Absent..T]
  BY <1>1 DEF Insert, Absent
<1>5. \A x \in K : c[x] > 0 => RemoveExpired(c)[x] = c[x] /\ Aged(c)[x] = c[x] - 1
  BY DEF RemoveExpired, Aged
<1>6. \A x \in K : c[x] > 0 => Insert(c, k, T)[x] = c[x]
  BY <1>1, <1>3, <1>5 DEF Insert
<1>7. Vacant(c, k) => Insert(c, k, T)[k] = T
  BY <1>1 DEF Insert
<1>. QED  BY <1>1, <1>2, <1>3, <1>4, <1>5, <1>6, <1>7

(***************************************************************************)
(* Types.                                                                  *)
(***************************************************************************)

(* The initial state has its type.                                         *)
LEMMA TypeInit == Init => TypeOK
BY DeliveryAssumption DEF Init, TypeOK, Empty, Absent, Entries

(* Putting a message into the cache, and observing a duplicate.            *)
LEMMA TypePut ==
  ASSUME TypeOK, NEW m \in Msgs, NEW validated \in BOOLEAN, Put(m, validated)
  PROVE  /\ DOMAIN msgs' \subseteq Ids /\ msgs' \in [DOMAIN msgs' -> Entries]
         /\ history' \in [1..HistoryLength -> SUBSET Ids]
<1>1. MsgId[m] \in Ids
  BY DeliveryAssumption
<1>2. Entry(m, validated, {}) \in Entries
  BY DEF Entries, Entry
<1>. QED  BY <1>1, <1>2 DEF TypeOK, Put, Inserted

(* Observing a duplicate.                                                  *)
LEMMA TypeDuplicate ==
  ASSUME TypeOK, NEW id \in Ids, NEW p \in Peers, Duplicate(id, p)
  PROVE  /\ DOMAIN msgs' \subseteq Ids /\ msgs' \in [DOMAIN msgs' -> Entries]
         /\ senders' \in [Ids -> SUBSET Peers]
BY DEF TypeOK, Duplicate, ObserveDuplicate, Cached, Entries, Entry

(* Forgetting messages, and with them the currency of verdicts.            *)
LEMMA TypeForget ==
  ASSUME TypeOK, NEW ids, Forget(ids)
  PROVE  /\ DOMAIN msgs' \subseteq Ids /\ msgs' \in [DOMAIN msgs' -> Entries]
         /\ iwantCounts' \in [Ids -> [Peers -> 0..GossipRetransmission + 1]]
         /\ senders' \in [Ids -> SUBSET Peers]
BY DeliveryAssumption DEF TypeOK, Forget

(* Making verdicts overdue.                                                *)
LEMMA TypeOverdue ==
  ASSUME TypeOK, NEW verdicts, verdicts \subseteq pending, NEW ids
  PROVE  Overdue(verdicts, ids) \subseteq Verdicts
BY DEF TypeOK, Overdue, Owed, Verdicts

(* Receiving a message.                                                    *)
LEMMA TypeReceivedBefore ==
  ASSUME TypeOK, NEW m \in Msgs, NEW p \in Peers, ReceivedBefore(m, p)
  PROVE  TypeOK'
<1>1. MsgId[m] \in Ids /\ Duplicate(MsgId[m], p)
  BY DeliveryAssumption DEF ReceivedBefore
<1>. QED  BY <1>1, TypeDuplicate DEF TypeOK, ReceivedBefore, Duplicate, caches, app

(* Receiving a message that its fast id does not give away.                *)
LEMMA TypeReceived ==
  ASSUME TypeOK, NEW m \in Msgs, NEW p \in Peers,
         NEW subscribed \in BOOLEAN, NEW targets \in SUBSET Peers,
         Received(m, p, subscribed, targets)
  PROVE  TypeOK'
<1>1. MsgId[m] \in Ids
  BY DeliveryAssumption
<1>2. /\ seen' \in [Ids -> Absent..DuplicateCacheTime]
      /\ fastSeen' \in [Msgs -> Absent..DuplicateCacheTime]
  BY <1>1, CacheFacts, DeliveryAssumption DEF TypeOK, Received
<1>3. CASE Duplicate(MsgId[m], p)
  BY <1>1, <1>2, <1>3, TypeDuplicate DEF TypeOK, Received, Duplicate, app
<1>4. CASE Fresh(m, p, subscribed, targets)
  <2>1. Put(m, ~config.validateMessages) /\ (~config.validateMessages) \in BOOLEAN
    BY <1>4 DEF Fresh
  <2>2. /\ DOMAIN msgs' \subseteq Ids /\ msgs' \in [DOMAIN msgs' -> Entries]
        /\ history' \in [1..HistoryLength -> SUBSET Ids]
    BY <2>1, TypePut
  <2>3. pending' \subseteq Verdicts
    BY <1>1, <1>4 DEF TypeOK, Fresh, Owed, Verdicts
  <2>4. /\ senders' \in [Ids -> SUBSET Peers]
        /\ served' \in [Ids -> [Peers -> 0..GossipRetransmission + 1]]
        /\ quiet' \in [Ids -> 0..DuplicateCacheTime]
        /\ accepted' \subseteq Ids /\ sent' \subseteq Ids
    BY <1>1, <1>4, DeliveryAssumption DEF TypeOK, Fresh
  <2>. QED  BY <1>2, <1>4, <2>2, <2>3, <2>4 DEF TypeOK, Received, Fresh
<1>. QED  BY <1>3, <1>4 DEF Received

(* The messages that are not followed.                                     *)
LEMMA TypeOther == TypeOK /\ (OtherReceived \/ OtherPublished) => TypeOK'
<1>. SUFFICES ASSUME TypeOK, OtherReceived \/ OtherPublished PROVE TypeOK'
  OBVIOUS
<1>1. /\ RemoveExpired(seen) \in [Ids -> Absent..DuplicateCacheTime]
      /\ RemoveExpired(fastSeen) \in [Msgs -> Absent..DuplicateCacheTime]
      /\ RemoveExpired(ours) \in [Ids -> Absent..PublishedCacheTime]
  BY DeliveryAssumption DEF TypeOK, RemoveExpired, Absent
<1>. QED  BY <1>1 DEF TypeOK, OtherReceived, OtherPublished, mcache, app, past

(* Serving requests and publishing.                                        *)
LEMMA TypeIWant ==
  ASSUME TypeOK, NEW p \in Peers, NEW id \in Ids, NEW n \in 1..MaxTimes,
         HandleIWant(p, id, n)
  PROVE  TypeOK'
<1>. DEFINE count == iwantCounts[id][p]
<1>1. count \in 0..GossipRetransmission + 1 /\ n \in Nat
  BY DEF TypeOK, MaxTimes
<1>2. iwantCounts' \in [Ids -> [Peers -> 0..GossipRetransmission + 1]]
  <2>. DEFINE new == IF TooMany(count + n - 1) THEN GossipRetransmission + 1 ELSE count + n
  <2>1. new \in 0..GossipRetransmission + 1
    BY <1>1, DeliveryAssumption DEF TooMany
  <2>2. iwantCounts' = [iwantCounts EXCEPT ![id][p] = new]
    BY DEF HandleIWant
  <2>. HIDE DEF new
  <2>. QED  BY <2>1, <2>2 DEF TypeOK
<1>3. served[id][p] \in 0..GossipRetransmission + 1
  BY DEF TypeOK
<1>4. CASE TooMany(count)
  BY <1>2, <1>4 DEF TypeOK, HandleIWant, caches, app
<1>5. CASE ~TooMany(count)
  <2>1. /\ served' = [served EXCEPT ![id][p] =
                        IF @ > GossipRetransmission THEN @ ELSE @ + 1]
        /\ sent' = sent \cup {id}
    BY <1>5 DEF HandleIWant
  <2>2. served' \in [Ids -> [Peers -> 0..GossipRetransmission + 1]]
    <3>. DEFINE new == IF served[id][p] > GossipRetransmission THEN served[id][p]
                       ELSE served[id][p] + 1
    <3>1. new \in 0..GossipRetransmission + 1
      BY <1>3, DeliveryAssumption
    <3>2. served' = [served EXCEPT ![id][p] = new]
      BY <2>1 DEF TypeOK
    <3>. HIDE DEF new
    <3>. QED  BY <3>1, <3>2 DEF TypeOK
  <2>. QED  BY <1>2, <2>1, <2>2 DEF TypeOK, HandleIWant, caches, app
<1>. QED  BY <1>4, <1>5

(* Publishing.                                                             *)
LEMMA TypePublish ==
  ASSUME TypeOK, NEW m \in Msgs, Publish(m)
  PROVE  TypeOK'
<1>1. MsgId[m] \in Ids
  BY DeliveryAssumption
<1>2. /\ seen' \in [Ids -> Absent..DuplicateCacheTime]
      /\ ours' \in [Ids -> Absent..PublishedCacheTime]
  BY <1>1, CacheFacts, DeliveryAssumption DEF TypeOK, Publish
<1>3. Put(m, TRUE)
  BY DEF Publish
<1>4. /\ served' \in [Ids -> [Peers -> 0..GossipRetransmission + 1]]
      /\ quiet' \in [Ids -> 0..DuplicateCacheTime]
      /\ accepted' \subseteq Ids /\ sent' \subseteq Ids
  BY <1>1, DeliveryAssumption DEF TypeOK, Publish
<1>. QED  BY <1>2, <1>3, <1>4, TypePut DEF TypeOK, Publish

(* Verdicts.                                                               *)
LEMMA TypeAccept ==
  ASSUME TypeOK, NEW v \in pending, NEW targets \in SUBSET Peers, Accept(v, targets)
  PROVE  TypeOK'
<1>1. v.id \in Ids
  BY DEF TypeOK, Verdicts
<1>2. DOMAIN msgs' \subseteq Ids /\ msgs' \in [DOMAIN msgs' -> Entries]
  BY DEF TypeOK, Accept, Validate, Cached, Entries, Entry
<1>3. pending' \subseteq Verdicts /\ accepted' \subseteq Ids /\ sent' \subseteq Ids
  BY <1>1 DEF TypeOK, Accept, Verdict
<1>. QED  BY <1>2, <1>3 DEF TypeOK, Accept, caches

(* A verdict that rejects.                                                 *)
LEMMA TypeReject ==
  ASSUME TypeOK, NEW v \in pending, Reject(v)
  PROVE  TypeOK'
<1>1. v.id \in Ids
  BY DEF TypeOK, Verdicts
<1>2. Forget({v.id}) /\ pending' = Overdue(pending \ {v}, {v.id})
  BY DEF Reject
<1>3. pending' \subseteq Verdicts
  BY <1>2, TypeOverdue
<1>4. offered' \in [Ids -> 0..HistoryLength]
  BY <1>1, DeliveryAssumption DEF TypeOK, Reject
<1>. QED  BY <1>2, <1>3, <1>4, TypeForget DEF TypeOK, Reject, caches

(* A verdict on a message that has left the cache.                         *)
LEMMA TypeTooLate ==
  ASSUME TypeOK, NEW v \in pending, TooLate(v)
  PROVE  TypeOK'
BY DEF TypeOK, TooLate, Verdict, caches, mcache, past

(* Changing the blacklist.                                                 *)
LEMMA TypeBlacklist ==
  ASSUME TypeOK, NEW p \in Blacklistable, Blacklist(p)
  PROVE  TypeOK'
BY DeliveryAssumption DEF TypeOK, Blacklist, caches, mcache, past

(* Time.                                                                   *)
LEMMA TypeHeartbeat ==
  ASSUME TypeOK, NEW ids \in SUBSET Ids, Heartbeat(ids)
  PROVE  TypeOK'
<1>1. Forget(Popped) /\ pending' = Overdue(pending, Popped) /\ history' = Shifted
  BY DEF Heartbeat, Shift
<1>2. pending' \subseteq Verdicts
  BY <1>1, TypeOverdue
<1>3. history' \in [1..HistoryLength -> SUBSET Ids]
  BY <1>1, DeliveryAssumption DEF TypeOK, Shifted
<1>4. offered' \in [Ids -> 0..HistoryLength] /\ sent' \subseteq Ids
  BY DeliveryAssumption DEF TypeOK, Heartbeat, EmitGossip
<1>5. late' \in 0..MaxLate
  BY DeliveryAssumption DEF TypeOK, Heartbeat
<1>. QED  BY <1>1, <1>2, <1>3, <1>4, <1>5, TypeForget DEF TypeOK, Heartbeat, caches

(* The passing of time.                                                    *)
LEMMA TypeTick == TypeOK /\ Tick => TypeOK'
<1>. SUFFICES ASSUME TypeOK, Tick PROVE TypeOK'
  OBVIOUS
<1>1. /\ Aged(seen) \in [Ids -> Absent..DuplicateCacheTime]
      /\ Aged(fastSeen) \in [Msgs -> Absent..DuplicateCacheTime]
      /\ Aged(ours) \in [Ids -> Absent..PublishedCacheTime]
  <2>1. ASSUME NEW K, NEW ttl \in Nat, NEW cache \in [K -> Absent..ttl]
        PROVE  Aged(cache) \in [K -> Absent..ttl]
    BY DEF Aged, Absent
  <2>. QED  BY <2>1, DeliveryAssumption DEF TypeOK
<1>2. quiet' \in [Ids -> 0..DuplicateCacheTime] /\ late' \in 0..MaxLate
  BY DeliveryAssumption DEF TypeOK, Tick
<1>. QED  BY <1>1, <1>2 DEF TypeOK, Tick, mcache, app

(* Every step keeps the types.                                             *)
LEMMA TypeStep == TypeOK /\ [Next]_vars => TypeOK'
<1>. SUFFICES ASSUME TypeOK, [Next]_vars PROVE TypeOK'
  OBVIOUS
<1>1. CASE UNCHANGED vars
  BY <1>1 DEF TypeOK, vars, caches, mcache, app, past
<1>. QED  BY <1>1, TypeReceivedBefore, TypeReceived, TypeOther, TypeIWant, TypePublish,
             TypeAccept, TypeReject, TypeTooLate, TypeBlacklist, TypeHeartbeat, TypeTick
          DEF Next

(* The state of the message path always has its type, whatever peers send. *)
THEOREM TypeCorrect == Spec => []TypeOK
BY TypeInit, TypeStep, PTL DEF Spec

(***************************************************************************)
(* The duplicate cache outlives the message cache.                         *)
(***************************************************************************)

(* The time that an id in slot i may have to wait, after the next          *)
(* heartbeat, for the heartbeat that drops it.                             *)
Wait(i) == (HistoryLength - i) * MaxLate

(* The wait is a natural number, less by MaxLate from slot to slot.        *)
LEMMA WaitFacts ==
  /\ \A i \in 1..HistoryLength : Wait(i) \in Nat
  /\ \A i \in 2..HistoryLength : Wait(i - 1) = Wait(i) + MaxLate
  /\ Wait(1) + MaxLate < DuplicateCacheTime
<1>1. HistoryLength \in Nat \ {0} /\ MaxLate \in Nat \ {0} /\ DuplicateCacheTime \in Nat
  BY DeliveryAssumption
<1>2. \A a, b \in Nat : a * b \in Nat
  OBVIOUS
<1>3. \A a, b \in Int : (a + 1) * b = a * b + b
  OBVIOUS
<1>4. \A i \in 1..HistoryLength : Wait(i) \in Nat
  BY <1>1, <1>2 DEF Wait
<1>5. ASSUME NEW i \in 2..HistoryLength PROVE Wait(i - 1) = Wait(i) + MaxLate
  <2>1. HistoryLength - (i - 1) = (HistoryLength - i) + 1
    BY <1>1
  <2>. QED  BY <1>1, <1>3, <2>1 DEF Wait
<1>6. Wait(1) + MaxLate < DuplicateCacheTime
  <2>1. HistoryLength = (HistoryLength - 1) + 1
    BY <1>1
  <2>2. HistoryLength * MaxLate = (HistoryLength - 1) * MaxLate + MaxLate
    BY <1>1, <1>3, <2>1
  <2>. QED  BY <1>1, <2>2, RememberedLonger DEF Wait
<1>. QED  BY <1>4, <1>5, <1>6

(* The inductive strengthening of SeenOutlivesCache: the time an id has    *)
(* left in the duplicate cache exceeds the time until the last heartbeat   *)
(* it waits for.                                                           *)
Remembered ==
  \A i \in 1..HistoryLength : \A id \in history[i] :
    seen[id] > (MaxLate - late) + Wait(i)

(* Remembered is the stronger invariant.                                   *)
LEMMA RememberedImplies == TypeOK /\ Remembered => SeenOutlivesCache
<1>. SUFFICES ASSUME TypeOK, Remembered, NEW i \in 1..HistoryLength, NEW id \in history[i]
              PROVE  seen[id] > 0
  BY DEF SeenOutlivesCache
<1>1. Wait(i) \in Nat /\ MaxLate - late \in Nat /\ seen[id] \in Int
  BY WaitFacts, DeliveryAssumption DEF TypeOK, Absent
<1>. QED  BY <1>1 DEF Remembered

(* A step that inserts an id into the duplicate cache and at most puts     *)
(* it into the first slot.                                                 *)
LEMMA RememberedInsert ==
  ASSUME TypeOK, Remembered, NEW id \in Ids, late' = late,
         seen' = Insert(seen, id, DuplicateCacheTime),
         \/ history' = history
         \/ Vacant(seen, id) /\ history' = [history EXCEPT ![1] = @ \cup {id}]
  PROVE  Remembered'
<1>. SUFFICES ASSUME NEW i \in 1..HistoryLength, NEW x \in history'[i]
              PROVE  seen'[x] > (MaxLate - late) + Wait(i)
  BY DEF Remembered
<1>1. /\ seen \in [Ids -> Absent..DuplicateCacheTime] /\ DuplicateCacheTime \in Nat
      /\ history \in [1..HistoryLength -> SUBSET Ids]
  BY DeliveryAssumption DEF TypeOK
<1>2. HistoryLength \in Nat \ {0} /\ MaxLate \in Nat /\ late \in 0..MaxLate
  BY DeliveryAssumption DEF TypeOK
<1>3. Wait(i) \in Nat /\ Wait(1) \in Nat
  BY <1>2, WaitFacts
<1>4. /\ Vacant(seen, id) => seen'[id] = DuplicateCacheTime
      /\ \A y \in Ids : seen[y] > 0 => seen'[y] = seen[y]
  <2>1. Vacant(seen, id) => Insert(seen, id, DuplicateCacheTime)[id] = DuplicateCacheTime
    BY <1>1, CacheFacts
  <2>2. \A y \in Ids : seen[y] > 0 => Insert(seen, id, DuplicateCacheTime)[y] = seen[y]
    BY <1>1 DEF Insert, Vacant, Contains, RemoveExpired, Absent
  <2>. QED  BY <2>1, <2>2
<1>5. CASE x \in history[i]
  <2>1. x \in Ids /\ seen[x] > (MaxLate - late) + Wait(i) /\ seen[x] \in Int
    BY <1>1, <1>5 DEF Remembered, Absent
  <2>. QED  BY <1>2, <1>3, <1>4, <2>1
<1>6. CASE x \notin history[i]
  <2>1. Vacant(seen, id) /\ history' = [history EXCEPT ![1] = @ \cup {id}]
    BY <1>6
  <2>2. x = id /\ i = 1
    BY <1>1, <1>6, <2>1
  <2>3. seen'[x] = DuplicateCacheTime /\ Wait(1) + MaxLate < DuplicateCacheTime
    BY <1>4, <2>1, <2>2, WaitFacts
  <2>. QED  BY <1>1, <1>2, <1>3, <2>2, <2>3
<1>. QED  BY <1>5, <1>6

(* Every step keeps the ids of the history remembered for long enough.     *)
LEMMA RememberedStep == TypeOK /\ Remembered /\ [Next]_vars => Remembered'
<1>. SUFFICES ASSUME TypeOK, Remembered, [Next]_vars PROVE Remembered'
  OBVIOUS
<1>1. CASE UNCHANGED <<seen, history, late>>
  BY <1>1 DEF Remembered
<1>2. ASSUME NEW m \in Msgs, NEW p \in Peers, NEW subscribed, NEW targets,
             Received(m, p, subscribed, targets)
      PROVE  Remembered'
  <2>1. MsgId[m] \in Ids
    BY DeliveryAssumption
  <2>. QED  BY <1>2, <2>1, RememberedInsert DEF Received, Fresh, Duplicate, Put
<1>3. ASSUME NEW m \in Msgs, Publish(m) PROVE Remembered'
  <2>1. MsgId[m] \in Ids
    BY DeliveryAssumption
  <2>2. Vacant(seen, MsgId[m])
    BY <1>3, <2>1 DEF Publish, Vacant, Contains, RemoveExpired, TypeOK, Absent
  <2>. QED  BY <1>3, <2>1, <2>2, RememberedInsert DEF Publish, Put
<1>4. CASE OtherReceived \/ OtherPublished
  <2>1. seen' = RemoveExpired(seen) /\ history' = history /\ late' = late
    BY <1>4 DEF OtherReceived, OtherPublished, mcache
  <2>2. ASSUME NEW i \in 1..HistoryLength, NEW id \in history[i]
        PROVE  RemoveExpired(seen)[id] = seen[id]
    <3>1. id \in Ids /\ seen[id] > 0
      BY RememberedImplies DEF SeenOutlivesCache, TypeOK
    <3>. QED  BY <3>1 DEF RemoveExpired, TypeOK
  <2>. QED  BY <2>1, <2>2 DEF Remembered
<1>5. ASSUME NEW ids, Heartbeat(ids) PROVE Remembered'
  <2>. SUFFICES ASSUME NEW i \in 1..HistoryLength, NEW id \in history'[i]
                PROVE  seen[id] > (MaxLate - late') + Wait(i)
    BY <1>5 DEF Remembered, Heartbeat, caches
  <2>1. history' = Shifted /\ late' \in {0, late - 1} /\ late \in 1..MaxLate
    BY <1>5 DEF Heartbeat, Shift, TypeOK
  <2>2. i \in 2..HistoryLength /\ i - 1 \in 1..HistoryLength /\ id \in history[i - 1]
    BY <2>1, DeliveryAssumption DEF Shifted
  <2>3. seen[id] > (MaxLate - late) + Wait(i - 1) /\ seen[id] \in Int
    BY <2>2 DEF Remembered, TypeOK, Absent
  <2>4. Wait(i - 1) = Wait(i) + MaxLate /\ Wait(i) \in Nat
    BY <2>2, WaitFacts
  <2>. QED  BY <2>1, <2>3, <2>4, DeliveryAssumption
<1>6. CASE Tick
  <2>. SUFFICES ASSUME NEW i \in 1..HistoryLength, NEW id \in history[i]
                PROVE  seen'[id] > (MaxLate - (late + 1)) + Wait(i)
    BY <1>6 DEF Remembered, Tick, mcache
  <2>1. /\ id \in Ids /\ seen[id] > (MaxLate - late) + Wait(i) /\ seen[id] \in Int
        /\ late \in Nat /\ seen[id] > 0
    BY RememberedImplies DEF Remembered, SeenOutlivesCache, TypeOK, Absent
  <2>2. seen'[id] = seen[id] - 1
    BY <1>6, <2>1 DEF Tick, Aged, TypeOK
  <2>. QED  BY <2>1, <2>2, WaitFacts, DeliveryAssumption
<1>7. UNCHANGED <<seen, history, late>> \/
      (\E m \in Msgs, p \in Peers, b \in BOOLEAN, t \in SUBSET Peers : Received(m, p, b, t)) \/
      (\E m \in Msgs : Publish(m)) \/ OtherReceived \/ OtherPublished \/
      (\E ids \in SUBSET Ids : Heartbeat(ids)) \/ Tick
  BY DEF Next, ReceivedBefore, Duplicate, HandleIWant, Accept, Reject, TooLate, Blacklist,
         vars, caches, mcache
<1>. QED  BY <1>1, <1>2, <1>3, <1>4, <1>5, <1>6, <1>7

(* Whoever sends what and however late heartbeats are within MaxLate, an   *)
(* id is remembered as a duplicate as long as the message cache lists it:  *)
(* a message that counts as new is never still cached.                     *)
THEOREM DuplicatesOutliveCache == Spec => []SeenOutlivesCache
<1>1. Init => Remembered
  BY DEF Init, Remembered
<1>2. TypeOK /\ Remembered /\ [Next]_vars => TypeOK' /\ Remembered'
  BY TypeStep, RememberedStep
<1>. QED  BY <1>1, <1>2, TypeInit, RememberedImplies, PTL DEF Spec

(***************************************************************************)
(* Nothing stays in the message cache for ever.                            *)
(***************************************************************************)

Listed == \A id \in DOMAIN msgs : \E i \in 1..HistoryLength : id \in history[i]
CountsCached == \A id \in Ids : ~Cached(id) => iwantCounts[id] = [p \in Peers |-> 0]

(* The two parts of the invariant say what NoLeak says.                    *)
LEMMA NoLeakParts == TypeOK /\ Listed /\ CountsCached => NoLeak
<1>. SUFFICES ASSUME TypeOK, Listed, CountsCached, NEW id \in Ids
              PROVE  /\ Cached(id) => \E i \in 1..HistoryLength : id \in history[i]
                     /\ (\E p \in Peers : iwantCounts[id][p] > 0) => Cached(id)
  BY DEF NoLeak
<1>1. Cached(id) => \E i \in 1..HistoryLength : id \in history[i]
  BY DEF Listed, Cached
<1>2. ASSUME ~Cached(id), NEW p \in Peers PROVE ~(iwantCounts[id][p] > 0)
  BY <1>2 DEF CountsCached
<1>. QED  BY <1>1, <1>2

(* Putting a message lists it.                                             *)
LEMMA ListedPut ==
  ASSUME TypeOK, Listed, CountsCached, NEW m \in Msgs, NEW validated,
         Put(m, validated), iwantCounts' = iwantCounts
  PROVE  Listed' /\ CountsCached'
<1>1. 1 \in 1..HistoryLength /\ MsgId[m] \in Ids
  BY DeliveryAssumption
<1>2. DOMAIN msgs' = DOMAIN msgs \cup {MsgId[m]}
  BY DEF Put, Inserted
<1>3. \A i \in 1..HistoryLength : history[i] \subseteq history'[i]
  BY DEF Put, TypeOK
<1>4. \E i \in 1..HistoryLength : MsgId[m] \in history'[i]
  <2>1. CASE Cached(MsgId[m])
    BY <1>3, <2>1 DEF Listed, Cached
  <2>2. CASE ~Cached(MsgId[m])
    BY <1>1, <2>2 DEF Put, TypeOK
  <2>. QED  BY <2>1, <2>2
<1>. QED  BY <1>2, <1>3, <1>4 DEF Listed, CountsCached, Cached

(* Forgetting ids forgets their messages and counters together.            *)
LEMMA ListedForget ==
  ASSUME TypeOK, Listed, CountsCached, NEW ids, Forget(ids),
         \A i \in 1..HistoryLength : \A id \in history[i] :
           id \in ids \/ \E j \in 1..HistoryLength : id \in history'[j]
  PROVE  Listed' /\ CountsCached'
BY DEF Listed, CountsCached, Cached, Forget

(* Every step keeps messages listed and counts with cached messages.       *)
LEMMA ListedStep == TypeOK /\ Listed /\ CountsCached /\ [Next]_vars => Listed' /\ CountsCached'
<1>. SUFFICES ASSUME TypeOK, Listed, CountsCached, [Next]_vars PROVE Listed' /\ CountsCached'
  OBVIOUS
<1>1. CASE DOMAIN msgs' = DOMAIN msgs /\ UNCHANGED <<history, iwantCounts>>
  BY <1>1 DEF Listed, CountsCached, Cached
<1>2. ASSUME NEW id, NEW p, Duplicate(id, p) PROVE Listed' /\ CountsCached'
  BY <1>1, <1>2 DEF Duplicate, ObserveDuplicate
<1>3. ASSUME NEW m \in Msgs, NEW p \in Peers, NEW subscribed, NEW targets,
             Received(m, p, subscribed, targets)
      PROVE  Listed' /\ CountsCached'
  BY <1>2, <1>3, ListedPut DEF Received, Fresh
<1>4. ASSUME NEW m \in Msgs, Publish(m) PROVE Listed' /\ CountsCached'
  BY <1>4, ListedPut DEF Publish
<1>5. ASSUME NEW p \in Peers, NEW id \in Ids, NEW n, HandleIWant(p, id, n)
      PROVE  Listed' /\ CountsCached'
  <2>1. Cached(id) /\ UNCHANGED <<msgs, history>>
    BY <1>5 DEF HandleIWant, Validated
  <2>2. \A x \in Ids : x # id => iwantCounts'[x] = iwantCounts[x]
    BY <1>5 DEF HandleIWant, TypeOK
  <2>. QED  BY <2>1, <2>2 DEF Listed, CountsCached, Cached
<1>6. ASSUME NEW v \in pending, NEW targets, Accept(v, targets) PROVE Listed' /\ CountsCached'
  BY <1>1, <1>6 DEF Accept, Validate
<1>7. ASSUME NEW v \in pending, Reject(v) PROVE Listed' /\ CountsCached'
  BY <1>7, ListedForget DEF Reject
<1>8. ASSUME NEW ids, Heartbeat(ids) PROVE Listed' /\ CountsCached'
  <2>1. Forget(Popped) /\ history' = Shifted
    BY <1>8 DEF Heartbeat, Shift
  <2>2. ASSUME NEW i \in 1..HistoryLength, NEW id \in history[i], id \notin Popped
        PROVE  \E j \in 1..HistoryLength : id \in history'[j]
    <3>1. i # HistoryLength /\ HistoryLength \in Nat
      BY <2>2, DeliveryAssumption DEF Popped
    <3>2. i + 1 \in 1..HistoryLength /\ i + 1 # 1 /\ (i + 1) - 1 = i
      BY <3>1
    <3>3. id \in history'[i + 1]
      BY <2>1, <3>2 DEF Shifted
    <3>. QED  BY <3>2, <3>3
  <2>. QED  BY <2>1, <2>2, ListedForget
<1>9. CASE UNCHANGED mcache
  BY <1>1, <1>9 DEF mcache
<1>. QED  BY <1>2, <1>3, <1>4, <1>5, <1>6, <1>7, <1>8, <1>9
          DEF Next, ReceivedBefore, OtherReceived, OtherPublished, TooLate, Blacklist,
              Tick, vars

(* A cached message is always listed for a coming shift to drop, and       *)
(* requests are counted only for cached messages, however received,        *)
(* rejected and expired messages alternate.                                *)
THEOREM CacheDoesNotLeak == Spec => []NoLeak
<1>1. Init => Listed /\ CountsCached
  BY DEF Init, Listed, CountsCached
<1>2. TypeOK /\ Listed /\ CountsCached /\ [Next]_vars => TypeOK' /\ Listed' /\ CountsCached'
  BY TypeStep, ListedStep
<1>. QED  BY <1>1, <1>2, TypeInit, NoLeakParts, PTL DEF Spec

(***************************************************************************)
(* An id is handed over once.                                              *)
(***************************************************************************)

(* As long as an id was handed over less than duplicate_cache_time ago,    *)
(* the duplicate cache holds it for the rest of that time.                 *)
StillSeen ==
  \A id \in Ids : quiet[id] < DuplicateCacheTime =>
    seen[id] >= DuplicateCacheTime - quiet[id]

(* An id is handed over only when it is vacant in the duplicate cache.     *)
HandsOver(id) ==
  /\ seen[id] <= 0
  /\ seen' = Insert(seen, id, DuplicateCacheTime)
  /\ quiet' \in {quiet, [quiet EXCEPT ![id] = 0]}

(* What a step may do to the duplicate cache, and what it hands over.      *)
LEMMA StepEffect ==
  ASSUME TypeOK, [Next]_vars
  PROVE  \/ UNCHANGED <<seen, quiet>>
         \/ seen' = RemoveExpired(seen) /\ UNCHANGED quiet
         \/ \E id \in Ids : seen' = Insert(seen, id, DuplicateCacheTime) /\ UNCHANGED quiet
         \/ \E id \in Ids : HandsOver(id)
         \/ Tick
<1>1. ASSUME NEW id \in Ids
      PROVE  seen[id] \in Int /\ (Vacant(seen, id) <=> seen[id] <= 0)
  <2>1. seen \in [Ids -> Absent..DuplicateCacheTime] /\ seen[id] \in Absent..DuplicateCacheTime
    BY DEF TypeOK
  <2>2. Vacant(seen, id) <=> seen[id] = 0 \/ seen[id] = Absent
    BY <2>1 DEF Vacant, Contains, RemoveExpired
  <2>. QED  BY <2>1, <2>2, DeliveryAssumption DEF Absent
<1>2. ASSUME NEW m \in Msgs, NEW p \in Peers, NEW subscribed, NEW targets,
             Received(m, p, subscribed, targets)
      PROVE  \E id \in Ids : \/ seen' = Insert(seen, id, DuplicateCacheTime) /\ UNCHANGED quiet
                             \/ HandsOver(id)
  <2>1. MsgId[m] \in Ids
    BY DeliveryAssumption
  <2>2. CASE Vacant(seen, MsgId[m])
    <3>1. quiet' \in {quiet, [quiet EXCEPT ![MsgId[m]] = 0]}
      BY <1>2, <2>1, <2>2 DEF Received, Fresh, TypeOK
    <3>. QED  BY <1>1, <1>2, <2>1, <2>2, <3>1 DEF Received, HandsOver
  <2>3. CASE ~Vacant(seen, MsgId[m])
    BY <1>2, <2>1, <2>3 DEF Received, Duplicate
  <2>. QED  BY <2>2, <2>3
<1>3. ASSUME NEW m \in Msgs, Publish(m) PROVE \E id \in Ids : HandsOver(id)
  <2>1. MsgId[m] \in Ids /\ seen[MsgId[m]] = Absent
    BY <1>3, DeliveryAssumption DEF Publish, Contains
  <2>2. HandsOver(MsgId[m])
    BY <1>3, <2>1 DEF Publish, HandsOver, Absent
  <2>. QED  BY <2>1, <2>2
<1>. QED  BY <1>2, <1>3
          DEF Next, ReceivedBefore, Duplicate, OtherReceived, OtherPublished, HandleIWant,
              Accept, Reject, TooLate, Blacklist, Heartbeat, vars, caches, past

(* Every step keeps the ids that were handed over lately in the cache.     *)
LEMMA StillSeenStep == TypeOK /\ StillSeen /\ [Next]_vars => StillSeen'
<1>. SUFFICES ASSUME TypeOK, StillSeen, [Next]_vars, NEW x \in Ids,
                     quiet'[x] < DuplicateCacheTime
              PROVE  seen'[x] >= DuplicateCacheTime - quiet'[x]
  BY DEF StillSeen
<1>. DuplicateCacheTime \in Nat
  BY DeliveryAssumption
<1>1. /\ seen \in [Ids -> Absent..DuplicateCacheTime] /\ seen[x] \in Int
      /\ quiet \in [Ids -> 0..DuplicateCacheTime] /\ quiet[x] \in 0..DuplicateCacheTime
  BY DEF TypeOK, Absent
<1>2. quiet[x] < DuplicateCacheTime => seen[x] >= DuplicateCacheTime - quiet[x] /\ seen[x] > 0
  BY <1>1 DEF StillSeen
<1>3. CASE UNCHANGED <<seen, quiet>>
  BY <1>2, <1>3
<1>4. CASE seen' = RemoveExpired(seen) /\ UNCHANGED quiet
  BY <1>1, <1>2, <1>4 DEF RemoveExpired
<1>5. ASSUME NEW id \in Ids, seen' = Insert(seen, id, DuplicateCacheTime), UNCHANGED quiet
      PROVE  seen'[x] >= DuplicateCacheTime - quiet'[x]
  BY <1>1, <1>2, <1>5 DEF Insert, RemoveExpired, Vacant, Contains, Absent
<1>6. ASSUME NEW id \in Ids, HandsOver(id)
      PROVE  seen'[x] >= DuplicateCacheTime - quiet'[x]
  <2>1. CASE x = id
    <3>1. seen'[x] = DuplicateCacheTime
      BY <1>1, <1>6, <2>1 DEF HandsOver, Insert, RemoveExpired, Vacant, Contains, Absent
    <3>2. quiet'[x] \in 0..DuplicateCacheTime
      BY <1>1, <1>6 DEF HandsOver
    <3>. QED  BY <3>1, <3>2
  <2>2. CASE x # id
    <3>1. quiet'[x] = quiet[x]
      BY <1>1, <1>6, <2>2 DEF HandsOver
    <3>2. seen'[x] = seen[x]
      BY <1>1, <1>2, <1>6, <2>2, <3>1
      DEF HandsOver, Insert, RemoveExpired, Vacant, Contains, Absent
    <3>. QED  BY <1>2, <3>1, <3>2
  <2>. QED  BY <2>1, <2>2
<1>7. CASE Tick
  <2>1. quiet[x] < DuplicateCacheTime /\ quiet'[x] = quiet[x] + 1
    BY <1>1, <1>7 DEF Tick
  <2>2. seen'[x] = seen[x] - 1
    BY <1>1, <1>2, <1>7, <2>1 DEF Tick, Aged
  <2>. QED  BY <1>1, <1>2, <2>1, <2>2
<1>. QED  BY <1>3, <1>4, <1>5, <1>6, <1>7, StepEffect

(* An id is handed over, as received or as published, at most once within  *)
(* duplicate_cache_time, whichever peers send it in whatever encodings.    *)
THEOREM AtMostOnce == Spec => HandedOverOnce
<1>1. Init => StillSeen
  BY DeliveryAssumption DEF Init, StillSeen
<1>2. TypeOK /\ StillSeen /\ [Next]_vars => TypeOK' /\ StillSeen'
  BY TypeStep, StillSeenStep
<1>3. ASSUME TypeOK, StillSeen, [Next]_vars, NEW x \in Ids, quiet'[x] < quiet[x]
      PROVE  quiet[x] = DuplicateCacheTime
  <2>1. /\ DuplicateCacheTime \in Nat /\ quiet \in [Ids -> 0..DuplicateCacheTime]
        /\ quiet[x] \in 0..DuplicateCacheTime /\ seen[x] \in Int
    BY <1>3, DeliveryAssumption DEF TypeOK, Absent
  <2>2. PICK id \in Ids : HandsOver(id)
    BY <1>3, <2>1, StepEffect DEF Tick
  <2>3. x = id
    BY <1>3, <2>1, <2>2 DEF HandsOver
  <2>4. ~(seen[x] > 0)
    BY <2>1, <2>2, <2>3 DEF HandsOver
  <2>. QED  BY <1>3, <2>1, <2>4 DEF StillSeen
<1>4. TypeOK /\ StillSeen /\ [Next]_vars =>
        [\A id \in Ids : quiet'[id] < quiet[id] => quiet[id] = DuplicateCacheTime]_vars
  BY <1>3
<1>. QED  BY <1>1, <1>2, <1>4, TypeInit, PTL DEF Spec, HandedOverOnce

(***************************************************************************)
(* Only accepted messages leave the node.                                  *)
(***************************************************************************)

(* What may leave later is accepted too: the messages tagged as validated. *)
TaggedAccepted == \A id \in DOMAIN msgs : msgs[id].validated => id \in accepted
Vetted == OnlyAcceptedLeaves /\ TaggedAccepted

(* Putting a message tags it as validated only if it is accepted.          *)
LEMMA VettedPut ==
  ASSUME TypeOK, TaggedAccepted, NEW m \in Msgs, NEW validated \in BOOLEAN,
         Put(m, validated), accepted \subseteq accepted',
         validated => MsgId[m] \in accepted'
  PROVE  TaggedAccepted'
<1>. SUFFICES ASSUME NEW x \in DOMAIN msgs', msgs'[x].validated PROVE x \in accepted'
  BY DEF TaggedAccepted
<1>1. msgs' = Inserted(m, validated)
  BY DEF Put
<1>2. CASE x \in DOMAIN msgs
  <2>1. msgs'[x] = msgs[x]
    BY <1>1, <1>2 DEF Inserted
  <2>. QED  BY <1>2, <2>1 DEF TaggedAccepted
<1>3. CASE x \notin DOMAIN msgs
  <2>1. x = MsgId[m] /\ msgs'[x] = Entry(m, validated, {})
    BY <1>1, <1>3 DEF Inserted
  <2>2. msgs'[x].validated = validated
    BY <2>1 DEF Entry
  <2>. QED  BY <2>1, <2>2
<1>. QED  BY <1>2, <1>3

(* Every step keeps tags and what has left within what was accepted.       *)
LEMMA VettedStep == TypeOK /\ Vetted /\ [Next]_vars => Vetted'
<1>. SUFFICES ASSUME TypeOK, Vetted, [Next]_vars PROVE Vetted'
  OBVIOUS
<1>1. CASE UNCHANGED <<msgs, accepted, sent>>
  BY <1>1 DEF Vetted, OnlyAcceptedLeaves, TaggedAccepted
<1>2. ASSUME NEW id \in Ids, NEW p \in Peers, Duplicate(id, p) PROVE Vetted'
  <2>1. UNCHANGED <<accepted, sent>> /\ ObserveDuplicate(id, p)
    BY <1>2 DEF Duplicate, app
  <2>2. CASE msgs' = msgs
    BY <1>1, <2>1, <2>2
  <2>3. CASE /\ id \in DOMAIN msgs
             /\ msgs' = [msgs EXCEPT ![id] = Entry(msgs[id].msg, FALSE, msgs[id].origins \cup {p})]
    <3>1. DOMAIN msgs' = DOMAIN msgs /\ ~msgs'[id].validated
      BY <2>3 DEF Entry
    <3>2. \A x \in DOMAIN msgs : x # id => msgs'[x] = msgs[x]
      BY <2>3
    <3>. QED  BY <2>1, <3>1, <3>2 DEF Vetted, OnlyAcceptedLeaves, TaggedAccepted
  <2>. QED  BY <2>1, <2>2, <2>3 DEF ObserveDuplicate, Cached
<1>3. ASSUME NEW m \in Msgs, NEW p \in Peers, NEW subscribed, NEW targets,
             Received(m, p, subscribed, targets)
      PROVE  Vetted'
  <2>1. CASE Fresh(m, p, subscribed, targets)
    <3>1. TaggedAccepted'
      BY <2>1, VettedPut DEF Vetted, Fresh
    <3>2. OnlyAcceptedLeaves'
      BY <2>1 DEF Vetted, Fresh, OnlyAcceptedLeaves
    <3>. QED  BY <3>1, <3>2 DEF Vetted
  <2>2. CASE Duplicate(MsgId[m], p)
    BY <1>2, <2>2, DeliveryAssumption
  <2>. QED  BY <1>3, <2>1, <2>2 DEF Received
<1>4. ASSUME NEW m \in Msgs, Publish(m) PROVE Vetted'
  BY <1>4, VettedPut DEF Vetted, Publish, OnlyAcceptedLeaves
<1>5. ASSUME NEW p \in Peers, NEW id \in Ids, NEW n, HandleIWant(p, id, n) PROVE Vetted'
  BY <1>5 DEF Vetted, OnlyAcceptedLeaves, TaggedAccepted, HandleIWant, Validated, Cached, app
<1>6. ASSUME NEW v \in pending, NEW targets, Accept(v, targets) PROVE Vetted'
  <2>1. \A x \in DOMAIN msgs : x # v.id => msgs'[x] = msgs[x]
    BY <1>6 DEF Accept, Validate
  <2>. QED  BY <1>6, <2>1 DEF Vetted, OnlyAcceptedLeaves, TaggedAccepted, Accept, Validate
<1>7. ASSUME NEW ids, Forget(ids), accepted' = accepted PROVE TaggedAccepted'
  BY <1>7 DEF Vetted, TaggedAccepted, Forget
<1>8. ASSUME NEW v \in pending, Reject(v) PROVE Vetted'
  BY <1>7, <1>8 DEF Vetted, OnlyAcceptedLeaves, Reject
<1>9. ASSUME NEW ids, Heartbeat(ids) PROVE Vetted'
  <2>1. ids \subseteq accepted
    BY <1>9 DEF Heartbeat, EmitGossip, GossipIds, Validated, Cached, Vetted, TaggedAccepted
  <2>. QED  BY <1>7, <1>9, <2>1 DEF Vetted, OnlyAcceptedLeaves, Heartbeat, EmitGossip, Shift
<1>10. ASSUME NEW m \in Msgs, NEW p \in Peers, ReceivedBefore(m, p) PROVE Vetted'
  BY <1>2, <1>10, DeliveryAssumption DEF ReceivedBefore
<1>. QED  BY <1>1, <1>3, <1>4, <1>5, <1>6, <1>8, <1>9, <1>10
          DEF Next, OtherReceived, OtherPublished, TooLate, Blacklist, Tick,
              vars, mcache, app, past

(* Only a message that the application has accepted, published or does not *)
(* validate is ever forwarded, offered in an IHAVE or sent for an IWANT.   *)
THEOREM OnlyAccepted == Spec => []OnlyAcceptedLeaves
<1>1. Init => Vetted
  BY DEF Init, Vetted, OnlyAcceptedLeaves, TaggedAccepted
<1>2. TypeOK /\ Vetted /\ [Next]_vars => TypeOK' /\ Vetted'
  BY TypeStep, VettedStep
<1>3. Vetted => OnlyAcceptedLeaves
  BY DEF Vetted
<1>. QED  BY <1>1, <1>2, <1>3, TypeInit, PTL DEF Spec

(***************************************************************************)
(* The requests that are served.                                           *)
(***************************************************************************)

(* As long as a message is cached its counter covers what was served.      *)
Counted ==
  /\ ServedBounded
  /\ \A id \in Ids, p \in Peers : Cached(id) => served[id][p] <= iwantCounts[id][p]

(* A message that is new starts with nothing served.                       *)
LEMMA CountedPut ==
  ASSUME TypeOK, Counted, NEW m \in Msgs, NEW validated, Put(m, validated),
         iwantCounts' = iwantCounts,
         served' = [served EXCEPT ![MsgId[m]] = [q \in Peers |-> 0]]
  PROVE  Counted'
<1>. SUFFICES ASSUME NEW x \in Ids, NEW p \in Peers
              PROVE  /\ served'[x][p] <= GossipRetransmission
                     /\ Cached(x)' => served'[x][p] <= iwantCounts[x][p]
  BY DEF Counted, ServedBounded, Cached
<1>1. GossipRetransmission \in Nat /\ iwantCounts[x][p] \in Nat
  BY DeliveryAssumption DEF TypeOK
<1>2. CASE x = MsgId[m]
  <2>1. served'[x][p] = 0
    BY <1>2 DEF TypeOK
  <2>. QED  BY <1>1, <2>1
<1>3. CASE x # MsgId[m]
  <2>1. served'[x] = served[x] /\ (Cached(x)' => Cached(x))
    BY <1>3 DEF Put, Inserted, Cached, TypeOK
  <2>. QED  BY <2>1 DEF Counted, ServedBounded
<1>. QED  BY <1>2, <1>3

(* Every step keeps the counters at least as high as what was served.      *)
LEMMA CountedStep == TypeOK /\ Counted /\ [Next]_vars => Counted'
<1>. SUFFICES ASSUME TypeOK, Counted, [Next]_vars PROVE Counted'
  OBVIOUS
<1>1. CASE DOMAIN msgs' = DOMAIN msgs /\ UNCHANGED <<iwantCounts, served>>
  BY <1>1 DEF Counted, ServedBounded, Cached
<1>2. ASSUME NEW id, NEW p, Duplicate(id, p) PROVE Counted'
  BY <1>1, <1>2 DEF Duplicate, ObserveDuplicate
<1>3. ASSUME NEW m \in Msgs, NEW p \in Peers, NEW subscribed, NEW targets,
             Received(m, p, subscribed, targets)
      PROVE  Counted'
  BY <1>2, <1>3, CountedPut DEF Received, Fresh
<1>4. ASSUME NEW m \in Msgs, Publish(m) PROVE Counted'
  BY <1>4, CountedPut DEF Publish
<1>5. ASSUME NEW p \in Peers, NEW id \in Ids, NEW n \in 1..MaxTimes, HandleIWant(p, id, n)
      PROVE  Counted'
  <2>. SUFFICES ASSUME NEW x \in Ids, NEW q \in Peers
                PROVE  /\ served'[x][q] <= GossipRetransmission
                       /\ Cached(x) => served'[x][q] <= iwantCounts'[x][q]
    BY <1>5 DEF Counted, ServedBounded, Cached, HandleIWant
  <2>1. /\ GossipRetransmission \in Nat /\ n \in Nat \ {0} /\ Cached(id)
        /\ iwantCounts[x][q] \in Nat /\ served[x][q] \in Nat
        /\ served[x][q] <= GossipRetransmission
        /\ Cached(x) => served[x][q] <= iwantCounts[x][q]
    <3>1. GossipRetransmission \in Nat /\ n \in Nat \ {0}
      BY DeliveryAssumption DEF MaxTimes
    <3>2. Cached(id)
      BY <1>5 DEF HandleIWant, Validated
    <3>3. iwantCounts[x][q] \in Nat /\ served[x][q] \in Nat
      BY <3>1 DEF TypeOK
    <3>. QED  BY <3>1, <3>2, <3>3 DEF Counted, ServedBounded
  <2>2. CASE x # id \/ q # p
    <3>1. iwantCounts'[x][q] = iwantCounts[x][q]
      BY <1>5, <2>2 DEF HandleIWant, TypeOK
    <3>2. served'[x][q] = served[x][q]
      <4>1. CASE served' = served
        BY <4>1
      <4>2. CASE served' = [served EXCEPT ![id][p] =
                              IF @ > GossipRetransmission THEN @ ELSE @ + 1]
        BY <2>2, <4>2 DEF TypeOK
      <4>. QED  BY <1>5, <4>1, <4>2 DEF HandleIWant
    <3>. QED  BY <2>1, <3>1, <3>2
  <2>3. CASE x = id /\ q = p
    <3>1. iwantCounts'[x][q] =
            IF iwantCounts[x][q] + n - 1 + 1 > GossipRetransmission
            THEN GossipRetransmission + 1 ELSE iwantCounts[x][q] + n
      BY <1>5, <2>3 DEF HandleIWant, TypeOK, TooMany
    <3>2. CASE iwantCounts[x][q] + 1 > GossipRetransmission
      <4>1. served' = served
        BY <1>5, <2>3, <3>2 DEF HandleIWant, TooMany
      <4>. QED  BY <2>1, <2>3, <3>1, <4>1
    <3>3. CASE ~(iwantCounts[x][q] + 1 > GossipRetransmission)
      <4>1. served'[x][q] = served[x][q] + 1
        BY <1>5, <2>1, <2>3, <3>3 DEF HandleIWant, TooMany, TypeOK
      <4>. QED  BY <2>1, <2>3, <3>1, <3>3, <4>1
    <3>. QED  BY <3>2, <3>3
  <2>. QED  BY <2>2, <2>3
<1>6. ASSUME NEW v \in pending, NEW targets, Accept(v, targets) PROVE Counted'
  BY <1>1, <1>6 DEF Accept, Validate
<1>7. ASSUME NEW ids, Forget(ids), served' = served PROVE Counted'
  BY <1>7 DEF Counted, ServedBounded, Forget, Cached
<1>8. ASSUME NEW v \in pending, Reject(v) PROVE Counted'
  BY <1>7, <1>8 DEF Reject
<1>9. ASSUME NEW ids, Heartbeat(ids) PROVE Counted'
  BY <1>7, <1>9 DEF Heartbeat, Shift
<1>10. CASE UNCHANGED mcache /\ UNCHANGED served
  BY <1>1, <1>10 DEF mcache
<1>. QED  BY <1>2, <1>3, <1>4, <1>5, <1>6, <1>8, <1>9, <1>10
          DEF Next, ReceivedBefore, OtherReceived, OtherPublished, TooLate, Blacklist,
              Tick, vars, past

(* From one time that a message is new to the next, no peer gets it more   *)
(* than gossip_retransimission times for its IWANTs.                       *)
THEOREM RetransmissionsBounded == Spec => []ServedBounded
<1>1. Init => Counted
  BY DeliveryAssumption DEF Init, Counted, ServedBounded, Cached
<1>2. TypeOK /\ Counted /\ [Next]_vars => TypeOK' /\ Counted'
  BY TypeStep, CountedStep
<1>3. Counted => ServedBounded
  BY DEF Counted
<1>. QED  BY <1>1, <1>2, <1>3, TypeInit, PTL DEF Spec

(***************************************************************************)
(* What is offered can be had.                                             *)
(***************************************************************************)

InHistory(id) == \E i \in 1..HistoryLength : id \in history[i]

(* An id is listed once: the duplicate cache keeps it from being put again *)
(* while it is.                                                            *)
ListedOnce ==
  \A id \in Ids : \A i, j \in 1..HistoryLength :
    id \in history[i] /\ id \in history[j] => i = j

(* An id that an IHAVE offered, not too many heartbeats ago, is validated  *)
(* and has not moved further than the heartbeats since then moved it.      *)
Servable ==
  \A id \in Ids : offered[id] < HistoryLength - HistoryGossip =>
    /\ Validated(id)
    /\ \A i \in 1..HistoryLength : id \in history[i] => i <= HistoryGossip + 1 + offered[id]

(* A message that counts as new is neither listed nor cached.              *)
LEMMA NewIsUnlisted ==
  ASSUME TypeOK, SeenOutlivesCache, Listed, NEW id \in Ids,
         Vacant(seen, id) \/ ~Contains(seen, id)
  PROVE  ~InHistory(id) /\ ~Cached(id)
<1>1. seen[id] \in {Absent, 0}
  BY DEF TypeOK, Vacant, Contains, RemoveExpired
<1>2. ~InHistory(id)
  BY <1>1 DEF SeenOutlivesCache, InHistory, Absent
<1>. QED  BY <1>2 DEF Listed, InHistory, Cached

(* Putting a message that is new.                                          *)
LEMMA ServablePut ==
  ASSUME TypeOK, ListedOnce, Servable, NEW m \in Msgs, NEW validated,
         Put(m, validated), offered' = offered,
         ~InHistory(MsgId[m]), ~Cached(MsgId[m])
  PROVE  ListedOnce' /\ Servable'
<1>1. MsgId[m] \in Ids /\ HistoryLength \in Nat
  BY DeliveryAssumption
<1>2. \A x \in Ids \ {MsgId[m]} : \A i \in 1..HistoryLength :
        x \in history'[i] <=> x \in history[i]
  BY DEF Put, TypeOK
<1>3. \A i \in 1..HistoryLength : MsgId[m] \in history'[i] => i = 1
  BY DEF Put, TypeOK, InHistory
<1>4. ListedOnce'
  BY <1>2, <1>3 DEF ListedOnce
<1>5. ASSUME NEW x \in Ids, offered[x] < HistoryLength - HistoryGossip
      PROVE  /\ Validated(x)'
             /\ \A i \in 1..HistoryLength : x \in history'[i] => i <= HistoryGossip + 1 + offered[x]
  <2>1. /\ x \in DOMAIN msgs /\ msgs[x].validated
        /\ \A i \in 1..HistoryLength : x \in history[i] => i <= HistoryGossip + 1 + offered[x]
    BY <1>5 DEF Servable, Validated, Cached
  <2>2. x # MsgId[m]
    BY <2>1 DEF Cached
  <2>3. x \in DOMAIN msgs' /\ msgs'[x] = msgs[x]
    BY <2>1 DEF Put, Inserted
  <2>. QED  BY <1>2, <2>1, <2>2, <2>3 DEF Validated, Cached
<1>. QED  BY <1>4, <1>5 DEF Servable

(* A step that keeps the history and the tags of validated messages.       *)
LEMMA ServableFrame ==
  ASSUME ListedOnce, Servable, UNCHANGED <<history, offered>>,
         \A x \in Ids : Validated(x) => Validated(x)'
  PROVE  ListedOnce' /\ Servable'
BY DEF ListedOnce, Servable

(* A heartbeat: what it offers is in one of the first slots, and what it   *)
(* drops was offered too long ago.                                         *)
LEMMA ServableHeartbeat ==
  ASSUME TypeOK, ListedOnce, Servable, NEW ids \in SUBSET Ids, Heartbeat(ids)
  PROVE  ListedOnce' /\ Servable'
<1>1. /\ HistoryLength \in Nat \ {0} /\ HistoryGossip \in Nat \ {0}
      /\ HistoryGossip <= HistoryLength
  BY DeliveryAssumption
<1>2. /\ history' = Shifted /\ Forget(Popped) /\ ids \subseteq GossipIds
      /\ offered' = [id \in Ids |-> IF id \in ids THEN 0
                                    ELSE IF offered[id] < HistoryLength THEN offered[id] + 1
                                    ELSE offered[id]]
  BY DEF Heartbeat, Shift, EmitGossip
<1>3. ASSUME NEW x, NEW i \in 1..HistoryLength, x \in history'[i]
      PROVE  i # 1 /\ i - 1 \in 1..HistoryLength /\ x \in history[i - 1]
  BY <1>1, <1>2, <1>3 DEF Shifted
<1>4. ListedOnce'
  <2>. SUFFICES ASSUME NEW x \in Ids, NEW i \in 1..HistoryLength, NEW j \in 1..HistoryLength,
                       x \in history'[i], x \in history'[j]
                PROVE  i = j
    BY DEF ListedOnce
  <2>1. i - 1 = j - 1
    BY <1>3 DEF ListedOnce
  <2>. QED  BY <1>1, <2>1
<1>5. ASSUME NEW x \in Ids, offered'[x] < HistoryLength - HistoryGossip
      PROVE  /\ Validated(x)'
             /\ \A i \in 1..HistoryLength : x \in history'[i] => i <= HistoryGossip + 1 + offered'[x]
  <2>1. offered[x] \in 0..HistoryLength /\ offered'[x] \in Nat
    BY <1>1, <1>2 DEF TypeOK
  <2>2. /\ Validated(x)
        /\ \A i \in 1..HistoryLength : x \in history[i] => i <= HistoryGossip + offered'[x]
    <3>1. CASE x \in ids
      <4>1. PICK k \in 1..HistoryGossip : x \in history[k]
        BY <1>2, <3>1 DEF GossipIds
      <4>2. k \in 1..HistoryLength
        BY <1>1
      <4>3. \A i \in 1..HistoryLength : x \in history[i] => i = k
        BY <4>1, <4>2 DEF ListedOnce
      <4>4. Validated(x)
        BY <1>2, <3>1 DEF GossipIds
      <4>. QED  BY <1>1, <2>1, <4>3, <4>4
    <3>2. CASE x \notin ids
      <4>1. offered[x] < HistoryLength /\ offered'[x] = offered[x] + 1
        BY <1>1, <1>2, <1>5, <2>1, <3>2
      <4>2. offered[x] < HistoryLength - HistoryGossip
        BY <1>1, <1>5, <2>1, <4>1
      <4>3. /\ Validated(x)
            /\ \A i \in 1..HistoryLength : x \in history[i] => i <= HistoryGossip + 1 + offered[x]
        BY <4>2 DEF Servable
      <4>. QED  BY <1>1, <2>1, <4>1, <4>3
    <3>. QED  BY <3>1, <3>2
  <2>3. x \notin Popped
    <3>1. HistoryLength \in 1..HistoryLength /\ ~(HistoryLength <= HistoryGossip + offered'[x])
      BY <1>1, <1>5, <2>1
    <3>. QED  BY <2>2, <3>1 DEF Popped
  <2>4. Validated(x)'
    BY <1>2, <2>2, <2>3 DEF Validated, Cached, Forget
  <2>5. ASSUME NEW i \in 1..HistoryLength, x \in history'[i]
        PROVE  i <= HistoryGossip + 1 + offered'[x]
    <3>1. i - 1 <= HistoryGossip + offered'[x]
      BY <1>3, <2>2, <2>5
    <3>. QED  BY <1>1, <2>1, <3>1
  <2>. QED  BY <2>4, <2>5
<1>. QED  BY <1>4, <1>5 DEF Servable

(* Every step keeps what was offered servable.                             *)
LEMMA ServableStep ==
  TypeOK /\ SeenOutlivesCache /\ Listed /\ ListedOnce /\ Servable /\ [Next]_vars
    => ListedOnce' /\ Servable'
<1>. SUFFICES ASSUME TypeOK, SeenOutlivesCache, Listed, ListedOnce, Servable, [Next]_vars
              PROVE  ListedOnce' /\ Servable'
  OBVIOUS
<1>1. CASE UNCHANGED <<msgs, history, offered>>
  BY <1>1, ServableFrame DEF Validated, Cached
<1>2. ASSUME NEW id \in Ids, NEW p \in Peers, Duplicate(id, p)
      PROVE  ListedOnce' /\ Servable'
  <2>1. UNCHANGED <<history, offered>> /\ ObserveDuplicate(id, p)
    BY <1>2 DEF Duplicate
  <2>2. \A x \in Ids : Validated(x) => Validated(x)'
    BY <2>1 DEF ObserveDuplicate, Validated, Cached
  <2>. QED  BY <2>1, <2>2, ServableFrame
<1>3. ASSUME NEW m \in Msgs, NEW p \in Peers, NEW subscribed, NEW targets,
             Received(m, p, subscribed, targets)
      PROVE  ListedOnce' /\ Servable'
  <2>1. MsgId[m] \in Ids
    BY DeliveryAssumption
  <2>2. CASE Vacant(seen, MsgId[m])
    <3>1. Fresh(m, p, subscribed, targets) /\ ~InHistory(MsgId[m]) /\ ~Cached(MsgId[m])
      BY <1>3, <2>1, <2>2, NewIsUnlisted DEF Received
    <3>2. Put(m, ~config.validateMessages) /\ offered' = offered
      BY <3>1 DEF Fresh
    <3>. QED  BY <3>1, <3>2, ServablePut
  <2>3. CASE ~Vacant(seen, MsgId[m])
    BY <1>2, <1>3, <2>1, <2>3 DEF Received
  <2>. QED  BY <2>2, <2>3
<1>4. ASSUME NEW m \in Msgs, Publish(m) PROVE ListedOnce' /\ Servable'
  <2>1. MsgId[m] \in Ids /\ ~Contains(seen, MsgId[m]) /\ Put(m, TRUE) /\ offered' = offered
    BY <1>4, DeliveryAssumption DEF Publish
  <2>2. ~InHistory(MsgId[m]) /\ ~Cached(MsgId[m])
    BY <2>1, NewIsUnlisted
  <2>. QED  BY <2>1, <2>2, ServablePut
<1>5. ASSUME NEW v \in pending, NEW targets, Accept(v, targets)
      PROVE  ListedOnce' /\ Servable'
  <2>1. UNCHANGED <<history, offered>> /\ Cached(v.id) /\ Validate(v.id)
    BY <1>5 DEF Accept
  <2>2. \A x \in Ids : Validated(x) => Validated(x)'
    BY <2>1 DEF Validate, Validated, Cached, Entry
  <2>. QED  BY <2>1, <2>2, ServableFrame
<1>6. ASSUME NEW v \in pending, Reject(v) PROVE ListedOnce' /\ Servable'
  <2>1. /\ history' = history /\ Forget({v.id}) /\ v.id \in Ids
        /\ offered' = [offered EXCEPT ![v.id] = HistoryLength]
    BY <1>6 DEF Reject, TypeOK, Verdicts
  <2>2. ASSUME NEW x \in Ids, offered'[x] < HistoryLength - HistoryGossip
        PROVE  x # v.id /\ offered'[x] = offered[x] /\ (Validated(x) => Validated(x)')
    <3>1. x # v.id
      BY <2>1, <2>2, DeliveryAssumption DEF TypeOK
    <3>2. offered'[x] = offered[x]
      BY <2>1, <3>1 DEF TypeOK
    <3>3. Validated(x) => Validated(x)'
      BY <2>1, <3>1 DEF Validated, Cached, Forget
    <3>. QED  BY <3>1, <3>2, <3>3
  <2>. QED  BY <2>1, <2>2 DEF ListedOnce, Servable
<1>7. ASSUME NEW m \in Msgs, NEW p \in Peers, ReceivedBefore(m, p)
      PROVE  ListedOnce' /\ Servable'
  BY <1>2, <1>7, DeliveryAssumption DEF ReceivedBefore
<1>. QED  BY <1>1, <1>3, <1>4, <1>5, <1>6, <1>7, ServableHeartbeat
          DEF Next, OtherReceived, OtherPublished, HandleIWant, TooLate, Blacklist, Tick,
              vars, mcache, past

(* The parts of the invariant that the rest of the module rests on.        *)
LEMMA CacheStep ==
  TypeOK /\ Remembered /\ Listed /\ CountsCached /\ [Next]_vars
    => TypeOK' /\ Remembered' /\ Listed' /\ CountsCached'
BY TypeStep, RememberedStep, ListedStep

(* They hold at the start.                                                 *)
LEMMA CacheInit == Init => TypeOK /\ Remembered /\ Listed /\ CountsCached
<1>1. Init => Remembered /\ Listed /\ CountsCached
  BY DEF Init, Remembered, Listed, CountsCached
<1>. QED  BY <1>1, TypeInit

(* An id that was offered in an IHAVE is served to whoever asks for it,    *)
(* for history_length - history_gossip heartbeats, unless it is rejected:  *)
(* no shift and no new message takes it away earlier.                      *)
THEOREM OffersAreGood == Spec => []OfferedIsServable
<1>1. Init => ListedOnce /\ Servable
  BY DeliveryAssumption DEF Init, ListedOnce, Servable
<1>2. Servable => OfferedIsServable
  BY DEF Servable, OfferedIsServable
<1>. QED  BY <1>1, <1>2, CacheInit, CacheStep, RememberedImplies, ServableStep, PTL DEF Spec

(***************************************************************************)
(* No verdict sends a message back to where it came from.                  *)
(***************************************************************************)

(* A verdict is current only as long as its message is cached, a message   *)
(* that is not cached has no senders, and the senders of one that is not   *)
(* yet validated are the one that every current verdict is about and those *)
(* noted as its origins.                                                   *)
CurrentCached == \A v \in pending : v.status = "current" => Cached(v.id)
SendersCached == \A id \in Ids : ~Cached(id) => senders[id] = {}
SendersNoted ==
  \A v \in pending : v.status = "current" /\ Cached(v.id) /\ ~Validated(v.id) =>
    senders[v.id] \subseteq msgs[v.id].origins \cup {v.from}
EchoInv == CurrentCached /\ SendersCached /\ SendersNoted

(* It implies the property.                                                *)
LEMMA EchoImplies == EchoInv => NoEcho
BY DEF EchoInv, SendersNoted, NoEcho, Recipients

(* A duplicate of a message that is not validated is noted.                *)
LEMMA EchoDuplicate ==
  ASSUME TypeOK, EchoInv, NEW id \in Ids, NEW p \in Peers, Duplicate(id, p)
  PROVE  EchoInv'
<1>1. /\ pending' = pending /\ ObserveDuplicate(id, p)
      /\ senders' = [senders EXCEPT ![id] = IF Cached(id) THEN @ \cup {p} ELSE @]
  BY DEF Duplicate, app
<1>2. /\ DOMAIN msgs' = DOMAIN msgs
      /\ \A x \in DOMAIN msgs : x # id => msgs'[x] = msgs[x]
      /\ \A x \in DOMAIN msgs : msgs'[x].validated <=> msgs[x].validated
      /\ id \in DOMAIN msgs /\ ~msgs[id].validated => msgs'[id].origins = msgs[id].origins \cup {p}
  BY <1>1 DEF ObserveDuplicate, Cached, Entry
<1>3. CurrentCached'
  BY <1>1, <1>2 DEF EchoInv, CurrentCached, Cached
<1>4. SendersCached'
  BY <1>1, <1>2 DEF EchoInv, SendersCached, Cached, TypeOK
<1>5. SendersNoted'
  <2>. SUFFICES ASSUME NEW v \in pending, v.status = "current", v.id \in DOMAIN msgs,
                       ~msgs[v.id].validated
                PROVE  senders'[v.id] \subseteq msgs'[v.id].origins \cup {v.from}
    BY <1>1, <1>2 DEF SendersNoted, Cached, Validated
  <2>1. senders[v.id] \subseteq msgs[v.id].origins \cup {v.from} /\ v.id \in Ids
    BY DEF EchoInv, SendersNoted, Cached, Validated, TypeOK, Verdicts
  <2>2. CASE v.id = id
    BY <1>1, <1>2, <2>1, <2>2 DEF TypeOK, Cached
  <2>3. CASE v.id # id
    BY <1>1, <1>2, <2>1, <2>3 DEF TypeOK
  <2>. QED  BY <2>2, <2>3
<1>. QED  BY <1>3, <1>4, <1>5 DEF EchoInv

(* A message that is new has one sender, and no verdict on it is current   *)
(* yet.                                                                    *)
LEMMA EchoPut ==
  ASSUME TypeOK, EchoInv, NEW m \in Msgs, NEW validated, Put(m, validated), ~Cached(MsgId[m]),
         \/ validated = TRUE /\ pending' = pending /\ senders' = senders
         \/ \E p \in Peers :
              /\ pending' \in {pending, pending \cup {Owed(MsgId[m], p, "current")}}
              /\ senders' = [senders EXCEPT ![MsgId[m]] = @ \cup {p}]
  PROVE  EchoInv'
<1>. DEFINE id == MsgId[m]
<1>1. /\ id \in Ids /\ senders[id] = {}
      /\ \A v \in pending : v.status = "current" => v.id # id
  BY DeliveryAssumption DEF EchoInv, SendersCached, CurrentCached
<1>2. /\ DOMAIN msgs' = DOMAIN msgs \cup {id}
      /\ \A x \in DOMAIN msgs : x # id /\ msgs'[x] = msgs[x]
      /\ msgs'[id] = Entry(m, validated, {})
  BY DEF Put, Inserted, Cached
<1>3. \A x \in Ids \ {id} : senders'[x] = senders[x]
  BY DEF TypeOK
<1>4. \A v \in pending' : v \in pending \/ v.id = id
  BY DEF Owed
<1>5. CurrentCached'
  BY <1>2, <1>4 DEF EchoInv, CurrentCached, Cached
<1>6. SendersCached'
  BY <1>2, <1>3 DEF EchoInv, SendersCached, Cached
<1>7. SendersNoted'
  <2>. SUFFICES ASSUME NEW v \in pending', v.status = "current", Cached(v.id)', ~Validated(v.id)'
                PROVE  senders'[v.id] \subseteq msgs'[v.id].origins \cup {v.from}
    BY DEF SendersNoted
  <2>1. CASE v \in pending
    <3>1. Cached(v.id) /\ v.id # id /\ v.id \in Ids
      BY <1>1, <2>1 DEF EchoInv, CurrentCached, TypeOK, Verdicts
    <3>2. msgs'[v.id] = msgs[v.id] /\ senders'[v.id] = senders[v.id] /\ ~Validated(v.id)
      BY <1>2, <1>3, <3>1 DEF Cached, Validated
    <3>. QED  BY <2>1, <3>1, <3>2 DEF EchoInv, SendersNoted
  <2>2. CASE v \notin pending
    <3>1. PICK p \in Peers : /\ pending' = pending \cup {Owed(id, p, "current")}
                             /\ senders' = [senders EXCEPT ![id] = @ \cup {p}]
      BY <2>2
    <3>2. v.id = id /\ v.from = p
      BY <2>2, <3>1 DEF Owed
    <3>3. senders'[id] = {p}
      BY <1>1, <3>1 DEF TypeOK
    <3>. QED  BY <3>2, <3>3
  <2>. QED  BY <2>1, <2>2
<1>. QED  BY <1>5, <1>6, <1>7 DEF EchoInv

(* Messages that are forgotten take their senders with them and make their *)
(* verdicts overdue.                                                       *)
LEMMA EchoForget ==
  ASSUME TypeOK, EchoInv, NEW ids, Forget(ids), NEW V \in SUBSET pending,
         pending' = Overdue(V, ids)
  PROVE  EchoInv'
<1>1. ASSUME NEW w \in pending', w.status = "current"
      PROVE  \E v \in pending : v.id = w.id /\ v.from = w.from /\ v.status = "current"
                                /\ v.id \notin ids
  BY <1>1 DEF Overdue, Owed
<1>2. /\ DOMAIN msgs' = DOMAIN msgs \ ids
      /\ \A x \in DOMAIN msgs' : msgs'[x] = msgs[x]
      /\ \A x \in Ids : senders'[x] = IF x \in ids THEN {} ELSE senders[x]
  BY DEF Forget
<1>3. CurrentCached'
  BY <1>1, <1>2 DEF EchoInv, CurrentCached, Cached
<1>4. SendersCached'
  BY <1>2 DEF EchoInv, SendersCached, Cached
<1>5. SendersNoted'
  <2>. SUFFICES ASSUME NEW w \in pending', w.status = "current", Cached(w.id)', ~Validated(w.id)'
                PROVE  senders'[w.id] \subseteq msgs'[w.id].origins \cup {w.from}
    BY DEF SendersNoted
  <2>1. PICK v \in pending : /\ v.id = w.id /\ v.from = w.from /\ v.status = "current"
                             /\ v.id \notin ids
    BY <1>1
  <2>2. v.id \in Ids /\ Cached(v.id) /\ ~Validated(v.id)
    BY <1>2, <2>1 DEF Cached, Validated, TypeOK, Verdicts
  <2>3. senders[v.id] \subseteq msgs[v.id].origins \cup {v.from}
    BY <2>1, <2>2 DEF EchoInv, SendersNoted
  <2>. QED  BY <1>2, <2>1, <2>2, <2>3 DEF Cached
<1>. QED  BY <1>3, <1>4, <1>5 DEF EchoInv

(* Every step keeps the origins complete.                                  *)
LEMMA EchoStep ==
  TypeOK /\ SeenOutlivesCache /\ Listed /\ EchoInv /\ [Next]_vars => EchoInv'
<1>. SUFFICES ASSUME TypeOK, SeenOutlivesCache, Listed, EchoInv, [Next]_vars PROVE EchoInv'
  OBVIOUS
<1>1. ASSUME UNCHANGED <<msgs, senders>>, pending' \subseteq pending PROVE EchoInv'
  BY <1>1 DEF EchoInv, CurrentCached, SendersCached, SendersNoted, Cached, Validated
<1>2. ASSUME NEW m \in Msgs, NEW p \in Peers, NEW subscribed, NEW targets,
             Received(m, p, subscribed, targets)
      PROVE  EchoInv'
  <2>1. MsgId[m] \in Ids
    BY DeliveryAssumption
  <2>2. CASE Vacant(seen, MsgId[m])
    <3>1. Fresh(m, p, subscribed, targets) /\ ~Cached(MsgId[m])
      BY <1>2, <2>1, <2>2, NewIsUnlisted DEF Received
    <3>2. /\ Put(m, ~config.validateMessages)
          /\ pending' \in {pending, pending \cup {Owed(MsgId[m], p, "current")}}
          /\ senders' = [senders EXCEPT ![MsgId[m]] = @ \cup {p}]
      BY <3>1 DEF Fresh
    <3>. QED  BY <3>1, <3>2, EchoPut
  <2>3. CASE ~Vacant(seen, MsgId[m])
    BY <1>2, <2>1, <2>3, EchoDuplicate DEF Received
  <2>. QED  BY <2>2, <2>3
<1>3. ASSUME NEW m \in Msgs, Publish(m) PROVE EchoInv'
  <2>1. /\ MsgId[m] \in Ids /\ ~Contains(seen, MsgId[m]) /\ Put(m, TRUE)
        /\ pending' = pending /\ senders' = senders
    BY <1>3, DeliveryAssumption DEF Publish
  <2>2. ~Cached(MsgId[m])
    BY <2>1, NewIsUnlisted
  <2>. QED  BY <2>1, <2>2, EchoPut
<1>4. ASSUME NEW v \in pending, NEW targets, Accept(v, targets) PROVE EchoInv'
  <2>1. /\ Cached(v.id) /\ pending' \subseteq pending /\ senders' = senders
        /\ msgs' = [msgs EXCEPT ![v.id] = Entry(@.msg, TRUE, {})]
    BY <1>4 DEF Accept, Verdict, Validate
  <2>2. /\ DOMAIN msgs' = DOMAIN msgs /\ msgs'[v.id].validated
        /\ \A x \in DOMAIN msgs : x # v.id => msgs'[x] = msgs[x]
    BY <2>1 DEF Cached, Entry
  <2>. QED  BY <2>1, <2>2
            DEF EchoInv, CurrentCached, SendersCached, SendersNoted, Cached, Validated
<1>5. ASSUME NEW v \in pending, Reject(v) PROVE EchoInv'
  BY <1>5, EchoForget DEF Reject
<1>6. ASSUME NEW ids, Heartbeat(ids) PROVE EchoInv'
  BY <1>6, EchoForget DEF Heartbeat, Shift
<1>7. ASSUME NEW m \in Msgs, NEW p \in Peers, ReceivedBefore(m, p) PROVE EchoInv'
  BY <1>7, EchoDuplicate, DeliveryAssumption DEF ReceivedBefore
<1>8. ASSUME NEW v \in pending, TooLate(v) PROVE EchoInv'
  BY <1>1, <1>8 DEF TooLate, Verdict, mcache, past
<1>. QED  BY <1>1, <1>2, <1>3, <1>4, <1>5, <1>6, <1>7, <1>8
          DEF Next, OtherReceived, OtherPublished, HandleIWant, Blacklist, Tick,
              vars, mcache, app, past

(* An acceptance does not send a message back to a peer that it came from, *)
(* whether that peer was the first to send it or sent it while it was      *)
(* being validated.                                                        *)
THEOREM NothingEchoes == Spec => []NoEcho
<1>1. Init => EchoInv
  BY DEF Init, EchoInv, CurrentCached, SendersCached, SendersNoted
<1>. QED  BY <1>1, CacheInit, CacheStep, RememberedImplies, EchoStep, EchoImplies, PTL DEF Spec
=============================================================================
