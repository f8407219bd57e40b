-------------------------- MODULE AcceptanceProofs --------------------------
(***************************************************************************)
(* Theorems about what a node lets in: the messages that its validator     *)
(* accepts (Signing), for all keys, peer ids and contents, and the         *)
(* subscriptions that its filter accepts (Announce), for all filters,      *)
(* topics and connections.  And about what reaches it: announcements that  *)
(* fit their RPCs, and that leave it with the truth.                       *)
(***************************************************************************)
EXTENDS Signing, Announce, FiniteSetTheorems, SequenceTheorems,
        WellFoundedInduction, TLAPS

(***************************************************************************)
(* Messages.                                                               *)
(***************************************************************************)

Modes == {"Strict", "Permissive", "Anonymous", "None"}
Authenticities == {"Signed", "Author", "RandomAuthor", "Anonymous"}

(* No configuration that validate_config accepts rejects what it publishes *)
(* itself: the promise of its comment, across the signers, the sequence    *)
(* numbers, the normalisation and the four validators, whether or not the  *)
(* key is inlined in the peer id.                                          *)
THEOREM PublishedAccepted ==
  ASSUME SignaturesWork,
         NEW authenticity \in Authenticities, NEW mode \in Modes,
         ValidConfig(authenticity, mode),
         NEW k \in Keys, NEW id \in PeerIds, NEW seqno \in SeqNos,
         NEW data, NEW topic, topic # EmptyBytes
  PROVE  Accepts(mode, Published(authenticity, k, id, seqno, data, topic))
<1> DEFINE m == Published(authenticity, k, id, seqno, data, topic)
<1>1. PeerIdOf[k] \in PeerIds
  BY DEF SignaturesWork
<1>2. CASE authenticity = "Signed"
  <2> DEFINE c == [from |-> {PeerIdOf[k]}, seqno |-> {seqno},
                   data |-> {data}, topic |-> topic]
  <2>1. m = [from |-> {PeerIdOf[k]}, seqno |-> {seqno}, data |-> {data},
             topic |-> topic, signature |-> {Sign(k, c)},
             key |-> IF k \in Inlined THEN {} ELSE {k}]
    BY <1>2 DEF Published, Signed, Unsigned, Content
  <2>2. Content(m) = c
    BY <2>1 DEF Content
  <2>3. /\ m.from = {PeerIdOf[k]} /\ m.seqno = {seqno} /\ m.data = {data}
        /\ m.topic = topic /\ m.signature = {Sign(k, c)}
        /\ m.key = IF k \in Inlined THEN {} ELSE {k}
    BY <2>1
  <2> HIDE DEF m, c
  <2>4. Sanitised(m) = m
    <3>1. PeerIdOf[k] # EmptyBytes /\ seqno # EmptyBytes /\ k # EmptyBytes
          /\ Sign(k, c) # EmptyBytes
      BY <1>1 DEF SignaturesWork
    <3>2. m.data # {} /\ {PeerIdOf[k]} \ {EmptyBytes} = {PeerIdOf[k]}
          /\ {seqno} \ {EmptyBytes} = {seqno}
          /\ {Sign(k, c)} \ {EmptyBytes} = {Sign(k, c)}
          /\ {k} \ {EmptyBytes} = {k} /\ {} \ {EmptyBytes} = {}
      BY <2>3, <3>1
    <3>3. /\ m.from \ {EmptyBytes} = m.from /\ m.seqno \ {EmptyBytes} = m.seqno
          /\ m.signature \ {EmptyBytes} = m.signature
          /\ m.key \ {EmptyBytes} = m.key
      BY <2>3, <3>2
    <3>4. Sanitised(m) = [from |-> m.from, seqno |-> m.seqno,
                          data |-> m.data, topic |-> m.topic,
                          signature |-> m.signature, key |-> m.key]
      BY <3>2, <3>3 DEF Sanitised
    <3> QED  BY <2>1, <2>3, <3>4
  <2>5. k \in ExtractKey(m)
    <3>1. CASE k \in Inlined
      BY <2>3, <3>1 DEF ExtractKey
    <3>2. CASE k \notin Inlined
      BY <2>3, <3>2 DEF ExtractKey
    <3> QED  BY <3>1, <3>2
  <2>6. Verifies(k, c, Sign(k, c))
    BY DEF SignaturesWork
  <2>7. SignatureHolds(m)
    BY <2>3, <2>5, <2>2, <2>6 DEF SignatureHolds
  <2>8. ValidProto(m)
    BY <2>3, <1>1 DEF ValidProto
  <2>9. mode # "Anonymous"
    BY <1>2 DEF ValidConfig
  <2>10. Validate(mode, m)
    <3>1. Strict(m) /\ Permissive(m)
      BY <2>3, <2>7 DEF Strict, Permissive
    <3> QED  BY <3>1, <2>9 DEF Validate, Modes
  <2> QED  BY <2>4, <2>8, <2>10 DEF Accepts, m
<1>3. CASE authenticity \in {"Author", "RandomAuthor"}
  <2>1. m = [from |-> {id}, seqno |-> {seqno}, data |-> {data},
             topic |-> topic, signature |-> {}, key |-> {}]
    BY <1>3 DEF Published, Unsigned
  <2>2. mode \notin {"Anonymous", "Strict"}
    BY <1>3 DEF ValidConfig
  <2>3. Sanitised(m).signature = {}
    BY <2>1 DEF Sanitised
  <2>4. Permissive(Sanitised(m))
    BY <2>3 DEF Permissive, SignatureHolds
  <2>5. Validate(mode, Sanitised(m))
    BY <2>2, <2>4 DEF Validate, Modes
  <2>6. ValidProto(m)
    BY <2>1 DEF ValidProto
  <2> QED  BY <2>5, <2>6 DEF Accepts
<1>4. CASE authenticity = "Anonymous"
  <2>1. m = [from |-> {}, seqno |-> {}, data |-> {data}, topic |-> topic,
             signature |-> {}, key |-> {}]
    BY <1>4 DEF Published, Unsigned
  <2>2. mode # "Strict"
    BY <1>4 DEF ValidConfig
  <2>3. /\ Sanitised(m).signature = {} /\ Sanitised(m).key = {}
        /\ Sanitised(m).from = {} /\ Sanitised(m).seqno = {}
    BY <2>1 DEF Sanitised
  <2>4. Permissive(Sanitised(m)) /\ Anonymous(Sanitised(m))
    BY <2>3 DEF Permissive, Anonymous, SignatureHolds
  <2>5. Validate(mode, Sanitised(m))
    BY <2>2, <2>4 DEF Validate, Modes
  <2>6. ValidProto(m)
    BY <2>1 DEF ValidProto
  <2> QED  BY <2>5, <2>6 DEF Accepts
<1> QED  BY <1>2, <1>3, <1>4 DEF Authenticities

(* What a node accepts and forwards, the next one with the same validation *)
(* mode accepts too: the normalisation and the conversions on the way do   *)
(* not invalidate a signature that was checked after them.                 *)
THEOREM ForwardedAccepted ==
  ASSUME NEW mode \in Modes, NEW m, Accepts(mode, m),
         EmptyBytes \notin PeerIds \cup SeqNos
  PROVE  Accepts(mode, Forwarded(m))
<1> DEFINE n == Sanitised(m)
<1>1. /\ n.from = m.from \ {EmptyBytes} /\ n.seqno = m.seqno \ {EmptyBytes}
      /\ n.topic = m.topic
      /\ n.data = IF m.data = {} THEN {EmptyBytes} ELSE m.data
      /\ n.signature = m.signature \ {EmptyBytes}
      /\ n.key = m.key \ {EmptyBytes}
  BY DEF Sanitised
<1>2. ValidProto(n)
  BY <1>1 DEF Accepts, ValidProto
<1>3. Sanitised(n) = n
  <2>1. /\ n.from \ {EmptyBytes} = n.from /\ n.seqno \ {EmptyBytes} = n.seqno
        /\ n.signature \ {EmptyBytes} = n.signature
        /\ n.key \ {EmptyBytes} = n.key /\ n.data # {}
    BY <1>1
  <2>2. Sanitised(n) = [from |-> n.from, seqno |-> n.seqno, data |-> n.data,
                        topic |-> n.topic, signature |-> n.signature,
                        key |-> n.key]
    BY <2>1 DEF Sanitised
  <2>3. n = [from |-> n.from, seqno |-> n.seqno, data |-> n.data,
             topic |-> n.topic, signature |-> n.signature, key |-> n.key]
    BY DEF Sanitised
  <2> QED  BY <2>2, <2>3
<1>4. Validate(mode, n)
  BY DEF Accepts
<1> QED  BY <1>2, <1>3, <1>4 DEF Accepts, Forwarded

(* In strict mode every accepted message has an author, a sequence number  *)
(* and a signature over its normalised content that verifies with a key of *)
(* that author, wherever the key came from.                                *)
THEOREM StrictIsAuthentic ==
  ASSUME SignaturesWork, NEW m, Accepts("Strict", m)
  PROVE  \E k \in Keys, s \in m.signature :
           /\ Sanitised(m).from = {PeerIdOf[k]}
           /\ Sanitised(m).seqno # {}
           /\ Verifies(k, Content(Sanitised(m)), s)
<1> DEFINE n == Sanitised(m)
<1>1. Strict(n)
  BY DEF Accepts, Validate
<1>2. PICK s \in n.signature : TRUE
  BY <1>1 DEF Strict
<1>3. PICK k \in ExtractKey(n) :
        n.from \subseteq {PeerIdOf[k]} /\ Verifies(k, Content(n), s)
  BY <1>1, <1>2 DEF Strict, SignatureHolds
<1>4. k \in Keys
  BY <1>3 DEF ExtractKey, SignaturesWork
<1>5. n.from = {PeerIdOf[k]} /\ n.seqno # {}
  BY <1>1, <1>3 DEF Strict
<1>6. s \in m.signature
  BY <1>2 DEF Sanitised
<1> QED  BY <1>3, <1>4, <1>5, <1>6

(***************************************************************************)
(* Subscriptions.                                                          *)
(***************************************************************************)

(* A request leaves a peer within the limits of the filter, if it was: the *)
(* topics that the same request gives up make room for those it adds.      *)
LEMMA TopicsAfterWithin ==
  ASSUME NEW f \in Filters, NEW request, NEW current,
         Cardinality(current) <= f.maxTopics, current \subseteq f.allowed
  PROVE  LET after == TopicsAfter(f, request, current)
         IN Cardinality(after) <= f.maxTopics /\ after \subseteq f.allowed
<1> DEFINE kept  == AllowedSubscriptions(f, Deduplicate(request))
           subs1 == {s.topic : s \in {k \in kept : k.action = "Subscribe"}}
           gone  == {s.topic : s \in {k \in kept : k.action = "Unsubscribe"}}
           left  == {t \in current : Unsubscribed(t) \in kept}
           new   == subs1 \ current
           after == (current \cup subs1) \ gone
<1>1. CASE ~Acceptable(f, request, current)
  BY <1>1 DEF TopicsAfter
<1>2. CASE Acceptable(f, request, current)
  <2>1. TopicsAfter(f, request, current) = after
    BY <1>2 DEF TopicsAfter
  <2>2. Cardinality(new) + Cardinality(current)
          <= f.maxTopics + Cardinality(left)
    BY <1>2 DEF Acceptable
  <2>3. subs1 \subseteq f.allowed
    BY DEF AllowedSubscriptions
  <2>4. left \subseteq gone /\ left \subseteq current
    <3> SUFFICES ASSUME NEW t \in left PROVE t \in gone
      OBVIOUS
    <3>1. /\ Unsubscribed(t) \in kept
          /\ Unsubscribed(t).action = "Unsubscribe"
          /\ Unsubscribed(t).topic = t
      BY DEF Unsubscribed
    <3> HIDE DEF kept
    <3>. QED  BY <3>1
  <2> HIDE DEF kept, subs1, gone, left
  <2>5. IsFiniteSet(f.allowed) /\ f.maxTopics \in Nat
    <3>1. f.allowed \in SUBSET Topics /\ f.maxTopics \in Nat
      BY FiltersAssumption
    <3>. QED  BY <3>1, SizesAssumption, FS_Subset
  <2>6. /\ IsFiniteSet(current) /\ Cardinality(current) \in Nat
        /\ IsFiniteSet(new) /\ Cardinality(new) \in Nat
    <3>1. current \in SUBSET f.allowed /\ new \in SUBSET f.allowed
      BY <2>3
    <3>. QED  BY <3>1, <2>5, FS_Subset, FS_CardinalityType
  <2>7. IsFiniteSet(left) /\ Cardinality(left) \in Nat
    BY <2>4, <2>6, FS_Subset, FS_CardinalityType
  <2> DEFINE all == current \cup new
  <2>8. /\ IsFiniteSet(all)
        /\ Cardinality(all) = Cardinality(current) + Cardinality(new)
    <3>1. current \cap new = {}
      OBVIOUS
    <3> HIDE DEF new
    <3>2. /\ IsFiniteSet(all)
          /\ Cardinality(all) = Cardinality(current) + Cardinality(new)
                                  - Cardinality(current \cap new)
      BY <2>6, FS_Union
    <3>3. Cardinality(current \cap new) = 0
      BY <3>1, FS_EmptySet
    <3>. QED  BY <2>6, <3>2, <3>3
  <2>9. after \in SUBSET (all \ left) /\ all \cap left = left
    BY <2>4
  <2> HIDE DEF all, new, after
  <2>10. /\ IsFiniteSet(all \ left)
         /\ Cardinality(all \ left) = Cardinality(all) - Cardinality(all \cap left)
    BY <2>8, FS_Difference
  <2>11. /\ Cardinality(after) <= Cardinality(all \ left)
         /\ Cardinality(after) \in Nat
    BY <2>9, <2>10, FS_Subset, FS_CardinalityType
  <2>12. Cardinality(after) <= f.maxTopics
    <3> DEFINE cur  == Cardinality(current)
               add  == Cardinality(new)
               drop == Cardinality(left)
               rest == Cardinality(all \ left)
               end  == Cardinality(after)
               max  == f.maxTopics
    <3>1. cur \in Nat /\ add \in Nat /\ drop \in Nat /\ end \in Nat /\ max \in Nat
      BY <2>5, <2>6, <2>7, <2>11
    <3>2. Cardinality(all \cap left) = drop
      BY <2>9
    <3>3. rest = cur + add - drop
      <4>1. rest = Cardinality(all) - Cardinality(all \cap left)
        BY <2>10
      <4>2. Cardinality(all) = cur + add
        BY <2>8
      <4> HIDE DEF cur, add, drop, rest
      <4>. QED  BY <3>1, <3>2, <4>1, <4>2
    <3>4. add + cur <= max + drop /\ end <= rest
      BY <2>2, <2>11
    <3> HIDE DEF cur, add, drop, rest, end, max
    <3>5. end <= max
      BY <3>1, <3>3, <3>4
    <3>. QED  BY <3>5 DEF end, max
  <2>13. after \subseteq f.allowed
    BY <2>3 DEF after
  <2>. QED  BY <2>1, <2>12, <2>13
<1>. QED  BY <1>1, <1>2

(* However requests are fragmented, reordered, lost or cut off, and over   *)
(* however many connections they come, the remote peer never has us        *)
(* subscribed to more topics than its filter admits, or to one that it     *)
(* does not allow.                                                         *)
THEOREM FilterHolds == Spec => []ViewWithinFilter
<1> DEFINE FilterInv == filter \in Filters /\ ViewWithinFilter
<1>0. \A f \in Filters : /\ Cardinality({}) <= f.maxTopics
                         /\ {} \subseteq f.allowed
  BY FiltersAssumption, FS_EmptySet
<1>1. Init => FilterInv
  BY <1>0 DEF Init, ViewWithinFilter
<1>2. FilterInv /\ [Next]_vars => FilterInv'
  <2> SUFFICES ASSUME FilterInv, [Next]_vars PROVE FilterInv'
    OBVIOUS
  <2>1. filter' = filter
    BY DEF Next, Subscribe, Unsubscribe, Blacklist, ConnectionEstablished,
           ConnectionClosed, RemoteClosed, Negotiated, Transmit,
           SubstreamFails, HandlerDisabled, Receive, vars
  <2>2. CASE view' = view
    BY <2>1, <2>2 DEF ViewWithinFilter
  <2>3. ASSUME NEW c \in Conns, RemoteClosed(c) PROVE FilterInv'
    <3>1. CASE view' = {}
      BY <2>1, <3>1, <1>0 DEF ViewWithinFilter
    <3>. QED  BY <2>2, <2>3, <3>1 DEF RemoteClosed
  <2>4. ASSUME NEW c \in Conns, Receive(c) PROVE FilterInv'
    <3>1. PICK request : view' = TopicsAfter(filter, request, view)
      BY <2>4 DEF Receive
    <3>2. /\ Cardinality(view') <= filter.maxTopics
          /\ view' \subseteq filter.allowed
      BY <3>1, TopicsAfterWithin DEF ViewWithinFilter
    <3>. QED  BY <2>1, <3>2 DEF ViewWithinFilter
  <2>. QED  BY <2>2, <2>3, <2>4
            DEF Next, Subscribe, Unsubscribe, Blacklist,
                ConnectionEstablished, ConnectionClosed, Negotiated,
                Transmit, SubstreamFails, HandlerDisabled, vars
<1>. QED  BY <1>1, <1>2, PTL DEF Spec

(***************************************************************************)
(* Induction.                                                              *)
(***************************************************************************)

(* A set of naturals that is not empty has a least element.                *)
LEMMA LeastNat ==
  ASSUME NEW T \in SUBSET Nat, T # {}
  PROVE  \E x \in T : \A y \in T : x <= y
<1>1. PICK x \in T : \A y \in T : ~(<<y, x>> \in OpToRel(<, Nat))
  BY NatLessThanWellFounded, WFMin
<1>2. \A y \in T : ~(y < x)
  BY <1>1 DEF OpToRel
<1>. QED  BY <1>2

(* Induction up to n, over a set instead of a predicate.                   *)
LEMMA Induction ==
  ASSUME NEW n \in Nat, NEW S, 0 \in S,
         \A k \in 1..n : k - 1 \in S => k \in S
  PROVE  \A k \in 0..n : k \in S
<1> DEFINE T == {k \in 0..n : k \notin S}
<1>1. CASE T = {}
  BY <1>1
<1>2. CASE T # {}
  <2>1. T \in SUBSET Nat
    OBVIOUS
  <2> HIDE DEF T
  <2>2. PICK k \in T : \A j \in T : k <= j
    BY <1>2, <2>1, LeastNat
  <2>3. k \in 0..n /\ k \notin S
    BY <2>2 DEF T
  <2>4. k \in 1..n /\ k - 1 \in 0..n
    BY <2>3
  <2>5. k - 1 \notin T
    BY <2>1, <2>2, <2>4
  <2>6. k - 1 \in S
    BY <2>4, <2>5 DEF T
  <2>. QED  BY <2>3, <2>4, <2>6
<1>. QED  BY <1>1, <1>2

(* The maximum of a set of positions.                                      *)
LEMMA MaxOf ==
  ASSUME NEW n \in Nat, NEW T \in SUBSET (1..n), T # {}
  PROVE  Max(T) \in T /\ \A y \in T : y <= Max(T)
<1> DEFINE B == {b \in Nat : \A y \in T : y <= b}
<1>1. B \in SUBSET Nat /\ n \in B
  OBVIOUS
<1>2. PICK b \in B : \A a \in B : b <= a
  BY <1>1, LeastNat
<1>3. b \in T
  <2> SUFFICES ASSUME b \notin T PROVE FALSE
    OBVIOUS
  <2>1. PICK y \in T : TRUE
    OBVIOUS
  <2>2. b \in Nat /\ y \in 1..n /\ y <= b
    BY <1>2, <2>1
  <2>3. b - 1 \in Nat
    BY <2>2
  <2>4. \A z \in T : z <= b - 1
    <3> SUFFICES ASSUME NEW z \in T PROVE z <= b - 1
      OBVIOUS
    <3>1. z \in Nat /\ z <= b /\ z # b
      BY <1>2
    <3>. QED  BY <2>2, <3>1
  <2>5. b - 1 \in B
    BY <2>3, <2>4
  <2>. QED  BY <1>2, <2>2, <2>5
<1>4. \E x \in T : \A y \in T : x >= y
  BY <1>2, <1>3
<1>5. Max(T) \in T /\ \A y \in T : Max(T) >= y
  BY <1>4, Zenon DEF Max
<1>. QED  BY <1>5

(* What the folds pick from a prefix of a sequence.                        *)
LEMMA PrefixMax ==
  ASSUME NEW n \in Nat, NEW k \in 1..n
  PROVE  /\ 1..k \in SUBSET (1..n) /\ 1..k # {}
         /\ Max(1..k) = k /\ (1..k) \ {Max(1..k)} = 1..(k - 1)
         /\ 1..(k - 1) \in SUBSET (1..n)
<1>1. 1..k \in SUBSET (1..n) /\ k \in 1..k /\ 1..k # {} /\ 1..(k - 1) \in SUBSET (1..n)
  OBVIOUS
<1>2. Max(1..k) \in 1..k /\ k <= Max(1..k)
  BY <1>1, MaxOf
<1>3. Max(1..k) = k
  BY <1>2
<1>4. (1..k) \ {k} = 1..(k - 1)
  OBVIOUS
<1>. QED  BY <1>1, <1>3, <1>4

(* A fold over a sequence of n elements: it starts from base, and step     *)
(* makes a value of each value.  F is the function that defines it.        *)
Foldable(n, V, base, step) ==
  n \in Nat /\ base \in V /\ \A i \in 1..n : \A v \in V : step[i][v] \in V

IsFold(n, base, step, F) ==
  /\ F[{}] = base
  /\ \A T \in SUBSET (1..n) : T # {} => F[T] = step[Max(T)][F[T \ {Max(T)}]]

(* There is such a function.                                               *)
LEMMA FoldExists ==
  ASSUME NEW n, NEW V, NEW base, NEW step, Foldable(n, V, base, step)
  PROVE  \E F \in [SUBSET (1..n) -> V] : IsFold(n, base, step, F)
<1> USE DEF Foldable, IsFold
<1> DEFINE Eq(m, F) == IsFold(m, base, step, F)
    S == {m \in 0..n : \E F \in [SUBSET (1..m) -> V] : Eq(m, F)}
<1>1. 0 \in S
  <2> DEFINE F == [T \in SUBSET (1..0) |-> base]
  <2>1. F \in [SUBSET (1..0) -> V]
    OBVIOUS
  <2>2. \A T \in SUBSET (1..0) : T = {}
    OBVIOUS
  <2>3. Eq(0, F)
    BY <2>2
  <2> HIDE DEF F, Eq, IsFold
  <2>4. 0 \in 0..n
    OBVIOUS
  <2>. QED  BY <2>1, <2>3, <2>4
<1>2. ASSUME NEW m \in 1..n, m - 1 \in S PROVE m \in S
  <2>0. PICK F \in [SUBSET (1..(m - 1)) -> V] : Eq(m - 1, F)
    BY <1>2
  <2> DEFINE G == [T \in SUBSET (1..m) |->
                     IF m \in T THEN step[m][F[T \ {m}]] ELSE F[T]]
  <2>1. ASSUME NEW T \in SUBSET (1..m), m \in T
        PROVE  /\ T \ {m} \in SUBSET (1..(m - 1)) /\ Max(T) = m
               /\ G[T \ {m}] = F[T \ {m}]
    <3>1. T \ {m} \in SUBSET (1..(m - 1))
      OBVIOUS
    <3>2. m \in Nat /\ T # {}
      BY <2>1
    <3>3. Max(T) \in T /\ m <= Max(T)
      BY <2>1, <3>2, MaxOf
    <3>4. Max(T) \in 1..m
      BY <3>3
    <3>5. T \ {m} \in SUBSET (1..m) /\ m \notin T \ {m}
      OBVIOUS
    <3>. QED  BY <3>1, <3>3, <3>4, <3>5
  <2>2. ASSUME NEW T \in SUBSET (1..m), m \notin T
        PROVE  /\ T \in SUBSET (1..(m - 1))
               /\ T # {} => /\ T \ {Max(T)} \in SUBSET (1..(m - 1))
                            /\ G[T \ {Max(T)}] = F[T \ {Max(T)}]
    <3>1. T \in SUBSET (1..(m - 1))
      BY <2>2
    <3>2. T \ {Max(T)} \in SUBSET (1..(m - 1)) /\ T \ {Max(T)} \in SUBSET (1..m)
      BY <3>1
    <3>3. m \notin T \ {Max(T)}
      BY <2>2
    <3>. QED  BY <3>1, <3>2, <3>3
  <2>3. G \in [SUBSET (1..m) -> V]
    <3>1. ASSUME NEW T \in SUBSET (1..m)
          PROVE  (IF m \in T THEN step[m][F[T \ {m}]] ELSE F[T]) \in V
      BY <2>0, <2>1, <2>2
    <3>. QED  BY <3>1
  <2>4. ASSUME NEW T \in SUBSET (1..m)
        PROVE  G[T] = IF T = {} THEN base ELSE step[Max(T)][G[T \ {Max(T)}]]
    <3>1. CASE m \in T
      BY <2>1, <3>1
    <3>2. CASE m \notin T
      <4>1. G[T] = F[T]
        BY <3>2
      <4>2. F[T] = IF T = {} THEN base ELSE step[Max(T)][F[T \ {Max(T)}]]
        BY <2>0, <2>2, <3>2
      <4> HIDE DEF G
      <4>. QED  BY <4>1, <4>2, <2>2, <3>2
    <3>. QED  BY <3>1, <3>2
  <2>5. Eq(m, G)
    <3> HIDE DEF G
    <3>. QED  BY <2>4
  <2> HIDE DEF G, Eq
  <2>6. m \in 0..n
    OBVIOUS
  <2>. QED  BY <2>3, <2>5, <2>6
<1>3. n \in S
  <2> HIDE DEF S
  <2>1. \A k \in 0..n : k \in S
    BY <1>1, <1>2, Induction
  <2>. QED  BY <2>1
<1>. QED  BY <1>3

(***************************************************************************)
(* Lengths.                                                                *)
(***************************************************************************)

(* The RPCs that announce subscriptions, and lists of them.                *)
Announcements ==
  [topic : Topics, action : {"Subscribe", "Unsubscribe"}, size : Nat]
Plains == Seq(Announcements)
Rpcs   == [plain : Plains, control : {<<>>, <<<<>>>>}]
Lists  == Seq(Rpcs)

(* An element of such an RPC.                                              *)
LEMMA ElementFields ==
  ASSUME NEW o \in Announcements
  PROVE  /\ o.size \in Nat /\ o.topic \in Topics
         /\ o.action \in {"Subscribe", "Unsubscribe"}
BY DEF Announcements

(* The length of a field: two bytes more than its content, or a few more   *)
(* for contents of 128 bytes or more.                                      *)
LEMMA FieldLength ==
  ASSUME NEW n \in Nat
  PROVE  /\ Field(n) \in Nat
         /\ n < 128 => Field(n) = n + 2
         /\ Field(n) <= n + 6
         /\ n >= 40 => Field(n) <= (n * 105) \div 100
         /\ Field(n) <= (n * 105) \div 100 + 2
<1>1. (n * 105) \div 100 \in Nat /\ n <= (n * 105) \div 100
  OBVIOUS
<1>2. n >= 40 => (n * 105) \div 100 >= n + 2
  OBVIOUS
<1>3. n >= 128 => (n * 105) \div 100 >= n + 6
  OBVIOUS
<1>. QED  BY <1>1, <1>2, <1>3 DEF Field, Varint

(* The sums that the fold of Fields goes through.                          *)
LEMMA FieldsChain ==
  ASSUME NEW s \in Plains
  PROVE  \E g : /\ g[0] = 0 /\ Fields(s) = g[Len(s)]
                /\ \A k \in 1..Len(s) : g[k] = g[k - 1] + Field(s[k].size)
<1> DEFINE n == Len(s)
           P == SUBSET (1..n)
           step == [i \in 1..n |-> [v \in Nat |-> v + Field(s[i].size)]]
           Eq(F) == F = [T \in P |-> IF T = {} THEN 0
                          ELSE F[T \ {Max(T)}] + Field(s[Max(T)].size)]
<1>0. n \in Nat /\ DOMAIN s = 1..n
  BY LenProperties DEF Plains
<1>1. \A i \in 1..n : s[i].size \in Nat /\ Field(s[i].size) \in Nat
  <2> SUFFICES ASSUME NEW i \in 1..n PROVE s[i].size \in Nat /\ Field(s[i].size) \in Nat
    OBVIOUS
  <2>1. s[i] \in Announcements
    BY ElementOfSeq DEF Plains
  <2>. QED  BY <2>1, ElementFields, FieldLength
<1>2. \A i \in 1..n : \A v \in Nat : step[i][v] \in Nat
  BY <1>1
<1> HIDE DEF n
<1>3. PICK F \in [P -> Nat] :
        IsFold(n, 0, step, F)
  <2> HIDE DEF step
  <2>1. Foldable(n, Nat, 0, step)
    BY <1>0, <1>2 DEF Foldable
  <2>. QED  BY <2>1, FoldExists
<1>4. F = [T \in P |-> F[T]]
  OBVIOUS
<1>5. ASSUME NEW T \in P, T # {}
      PROVE  step[Max(T)][F[T \ {Max(T)}]] = F[T \ {Max(T)}] + Field(s[Max(T)].size)
  <2>1. Max(T) \in 1..n /\ T \ {Max(T)} \in P
    BY <1>0, <1>5, MaxOf
  <2>2. F[T \ {Max(T)}] \in Nat
    BY <2>1
  <2>. QED  BY <2>1, <2>2
<1> HIDE DEF step
<1>6. Eq(F)
  BY <1>3, <1>4, <1>5 DEF IsFold
<1> DEFINE G == CHOOSE H : Eq(H)
<1>7. Eq(G)
  <2> HIDE DEF Eq
  <2>. QED  BY <1>6, Zenon
<1>8. Fields(s) = G[1..n]
  BY <1>0 DEF Fields, FoldLeft, MapThenFoldSet
<1> HIDE DEF G
<1> DEFINE g == [k \in 0..n |-> G[1..k]]
<1>9. g[0] = 0
  <2>1. 1..0 = {} /\ {} \in P /\ 0 \in 0..n
    BY <1>0
  <2>. QED  BY <2>1, <1>7
<1>10. g[n] = G[1..n]
  BY <1>0
<1>11. ASSUME NEW k \in 1..n PROVE g[k] = g[k - 1] + Field(s[k].size)
  <2>1. k \in 0..n /\ k - 1 \in 0..n
    BY <1>0
  <2>2. /\ 1..k \in P /\ 1..k # {} /\ Max(1..k) = k
        /\ (1..k) \ {Max(1..k)} = 1..(k - 1)
    BY <1>0, PrefixMax
  <2>3. G[1..k] = G[1..(k - 1)] + Field(s[k].size)
    BY <1>7, <2>2
  <2>. QED  BY <2>1, <2>3
<1> HIDE DEF g
<1>12. /\ g[0] = 0 /\ Fields(s) = g[Len(s)]
       /\ \A k \in 1..Len(s) : g[k] = g[k - 1] + Field(s[k].size)
  BY <1>8, <1>9, <1>10, <1>11 DEF n
<1>. QED  BY <1>12

(* The fields of a sequence that is extended.                              *)
LEMMA FieldsAppend ==
  ASSUME NEW s \in Plains, NEW o \in Announcements
  PROVE  /\ Fields(s) \in Nat
         /\ Fields(Append(s, o)) = Fields(s) + Field(o.size)
<1> DEFINE n == Len(s)
           s2 == Append(s, o)
<1>0. /\ n \in Nat /\ s2 \in Plains /\ Len(s2) = n + 1 /\ s2[n + 1] = o
      /\ \A k \in 1..n : s2[k] = s[k]
  BY AppendProperties, LenProperties DEF Plains
<1>1. \A i \in 1..n : Field(s[i].size) \in Nat
  <2> SUFFICES ASSUME NEW i \in 1..n PROVE Field(s[i].size) \in Nat
    OBVIOUS
  <2>1. s[i] \in Announcements
    BY ElementOfSeq DEF Plains
  <2>. QED  BY <2>1, ElementFields, FieldLength
<1>2. PICK g : /\ g[0] = 0 /\ Fields(s) = g[n]
               /\ \A k \in 1..n : g[k] = g[k - 1] + Field(s[k].size)
  BY FieldsChain
<1>3. PICK h : /\ h[0] = 0 /\ Fields(s2) = h[n + 1]
               /\ \A k \in 1..(n + 1) : h[k] = h[k - 1] + Field(s2[k].size)
  <2>1. \E h : /\ h[0] = 0 /\ Fields(s2) = h[Len(s2)]
               /\ \A k \in 1..Len(s2) : h[k] = h[k - 1] + Field(s2[k].size)
    BY <1>0, FieldsChain
  <2>. QED  BY <2>1, <1>0
<1> HIDE DEF s2, n
<1> DEFINE S == {k \in 0..n : g[k] \in Nat /\ h[k] = g[k]}
<1>4. 0 \in S
  BY <1>0, <1>2, <1>3
<1>5. ASSUME NEW k \in 1..n, k - 1 \in S PROVE k \in S
  <2>1. k \in 1..(n + 1) /\ k \in 0..n
    BY <1>0
  <2>2. g[k] = g[k - 1] + Field(s[k].size) /\ h[k] = h[k - 1] + Field(s[k].size)
    BY <2>1, <1>2, <1>3, <1>0
  <2>3. g[k - 1] \in Nat /\ h[k - 1] = g[k - 1]
    BY <1>5
  <2>. QED  BY <2>1, <2>2, <2>3, <1>1
<1>6. n \in S
  <2> HIDE DEF S
  <2>1. \A k \in 0..n : k \in S
    BY <1>0, <1>4, <1>5, Induction
  <2>. QED  BY <1>0, <2>1
<1>7. g[n] \in Nat /\ h[n] = g[n]
  BY <1>6
<1>8. n + 1 \in 1..(n + 1) /\ (n + 1) - 1 = n
  BY <1>0
<1>9. h[n + 1] = h[n] + Field(o.size)
  BY <1>0, <1>3, <1>8
<1>. QED  BY <1>2, <1>3, <1>7, <1>9 DEF s2

(* Nothing has no fields.                                                  *)
LEMMA NoFields == Fields(<<>>) = 0
<1>1. <<>> \in Plains /\ Len(<<>>) = 0
  BY DEF Plains
<1>. QED  BY <1>1, FieldsChain

(* The length of such an RPC: that of its fields, and of an empty control  *)
(* field.                                                                  *)
LEMMA RpcLength ==
  ASSUME NEW r \in Rpcs
  PROVE  /\ r.plain \in Plains /\ Fields(r.plain) \in Nat
         /\ r = [plain |-> r.plain, control |-> r.control]
         /\ r.control \in {<<>>, <<<<>>>>}
         /\ r.control = <<>> => EncodedLen(r) = Fields(r.plain)
         /\ r.control # <<>> => EncodedLen(r) = Fields(r.plain) + 2
<1> DEFINE s == r.plain
<1>1. /\ s \in Plains /\ r.control \in {<<>>, <<<<>>>>}
      /\ r = [plain |-> s, control |-> r.control]
  BY DEF Rpcs
<1>2. Fields(s) \in Nat
  <2> HIDE DEF s
  <2>0. Len(s) \in Nat
    BY <1>1, LenProperties DEF Plains
  <2>1. CASE Announcements = {}
    <3>1. s = <<>>
      BY <2>0, <2>1, <1>1, ElementOfSeq, EmptySeq DEF Plains
    <3>2. PICK g : g[0] = 0 /\ Fields(s) = g[Len(s)]
      BY <1>1, FieldsChain
    <3>. QED  BY <3>1, <3>2, EmptySeq
  <2>2. CASE Announcements # {}
    BY <1>1, <2>2, FieldsAppend
  <2>. QED  BY <2>1, <2>2
<1>3. Fields(<<>>) = 0
  BY NoFields
<1>4. Field(0) = 2
  BY FieldLength
<1> HIDE DEF s
<1>5. r.control = <<>> => EncodedLen(r) = Fields(s)
  BY <1>2 DEF EncodedLen, s
<1>6. r.control # <<>> => EncodedLen(r) = Fields(s) + 2
  <2> SUFFICES ASSUME r.control # <<>> PROVE EncodedLen(r) = Fields(s) + 2
    OBVIOUS
  <2>1. r.control[1] = <<>>
    BY <1>1
  <2>. QED  BY <2>1, <1>3, <1>4 DEF EncodedLen, s
<1>. QED  BY <1>1, <1>2, <1>5, <1>6 DEF s

(* The RPC that fragments begin with.                                      *)
LEMMA NewRpcIsEmpty ==
  /\ NewRpc \in Rpcs /\ NewRpc.plain = <<>> /\ NewRpc.control = <<>>
  /\ Len(NewRpc.plain) = 0 /\ EncodedLen(NewRpc) = 0
<1>1. NewRpc \in Rpcs /\ NewRpc.plain = <<>> /\ NewRpc.control = <<>>
  BY DEF NewRpc, Rpcs, Plains
<1>2. Fields(NewRpc.plain) = 0
  BY <1>1, NoFields
<1>3. EncodedLen(NewRpc) = 0
  BY <1>1, <1>2, RpcLength
<1>. QED  BY <1>1, <1>3

(***************************************************************************)
(* Fragments.                                                              *)
(***************************************************************************)

(* Position j of RPC i of a list, and what is there.                       *)
At(list, i, j) == i \in 1..Len(list) /\ j \in 1..Len(list[i].plain)
Entry(list, i, j) == list[i].plain[j]

(* The last RPC of a list.                                                 *)
LEMMA LastOf ==
  ASSUME NEW list \in Lists, list # <<>>
  PROVE  /\ Len(list) \in Nat /\ Len(list) >= 1 /\ DOMAIN list = 1..Len(list)
         /\ Len(list) \in 1..Len(list)
         /\ list[Len(list)] \in Rpcs /\ Last(list) = list[Len(list)]
<1>1. Len(list) \in Nat /\ Len(list) # 0 /\ DOMAIN list = 1..Len(list)
  BY LenProperties, EmptySeq DEF Lists
<1>2. Len(list) \in 1..Len(list)
  BY <1>1
<1>3. list[Len(list)] \in Rpcs
  BY <1>2, ElementOfSeq DEF Lists
<1>. QED  BY <1>1, <1>2, <1>3 DEF Last

(* The list that is ready for another object.                              *)
LEMMA LastForEffect ==
  ASSUME NEW list \in Lists, list # <<>>, NEW size, NEW max
  PROVE  LET l == LastFor(list, size, max)
             n == Len(list)
         IN /\ l \in Lists /\ l # <<>>
            /\ \/ /\ MustBegin(list[n], size, max)
                  /\ Len(l) = n + 1 /\ l[n + 1] = NewRpc
                  /\ \A i \in 1..n : l[i] = list[i]
               \/ /\ ~MustBegin(list[n], size, max)
                  /\ l = list
<1> DEFINE n == Len(list)
           l == LastFor(list, size, max)
<1>1. n \in Nat /\ Last(list) = list[n]
  BY LastOf
<1>2. CASE MustBegin(list[n], size, max)
  <2>1. l = Append(list, NewRpc)
    BY <1>1, <1>2 DEF LastFor
  <2>2. NewRpc \in Rpcs
    BY NewRpcIsEmpty
  <2>3. /\ Append(list, NewRpc) \in Lists /\ Len(Append(list, NewRpc)) = n + 1
        /\ Append(list, NewRpc)[n + 1] = NewRpc
        /\ \A i \in 1..n : Append(list, NewRpc)[i] = list[i]
    BY <2>2, AppendProperties DEF Lists
  <2> HIDE DEF l, n
  <2>4. l # <<>>
    BY <2>1, <2>3, <1>1, EmptySeq
  <2>. QED  BY <1>2, <2>1, <2>3, <2>4 DEF l, n
<1>3. CASE ~MustBegin(list[n], size, max)
  BY <1>1, <1>3 DEF LastFor
<1>. QED  BY <1>2, <1>3

(* A list with another RPC at its end.                                     *)
LEMMA ReplaceLast ==
  ASSUME NEW list \in Lists, list # <<>>, NEW r \in Rpcs
  PROVE  LET l2 == [list EXCEPT ![Len(list)] = r]
             n  == Len(list)
         IN /\ l2 \in Lists /\ l2 # <<>> /\ Len(l2) = n /\ l2[n] = r
            /\ \A i \in 1..(n - 1) : l2[i] = list[i]
<1> DEFINE n == Len(list)
           l2 == [list EXCEPT ![n] = r]
<1>1. n \in Nat /\ n \in 1..n /\ DOMAIN list = 1..n
  BY LastOf
<1>2. l2 \in Lists /\ Len(l2) = n
  BY <1>1, ExceptSeq DEF Lists
<1>3. l2[n] = r /\ \A i \in 1..(n - 1) : l2[i] = list[i]
  <2> HIDE DEF n
  <2>1. l2[n] = r
    BY <1>1
  <2>2. \A i \in 1..(n - 1) : i \in 1..n /\ i # n
    BY <1>1
  <2>. QED  BY <1>1, <2>1, <2>2
<1> HIDE DEF l2, n
<1>4. l2 # <<>>
  BY <1>1, <1>2, EmptySeq
<1>. QED  BY <1>2, <1>3, <1>4 DEF l2, n

(* An RPC with more in it.                                                 *)
WithObject(r, o) == [plain |-> Append(r.plain, o), control |-> r.control]
WithControl(r)   == [plain |-> r.plain, control |-> <<<<>>>>]

(* They are RPCs; and what they hold.                                      *)
LEMMA WithMore ==
  ASSUME NEW r \in Rpcs
  PROVE  /\ WithControl(r) \in Rpcs /\ WithControl(r).plain = r.plain
         /\ WithControl(r).control = <<<<>>>>
         /\ \A o \in Announcements :
              /\ WithObject(r, o) \in Rpcs
              /\ WithObject(r, o).plain = Append(r.plain, o)
              /\ WithObject(r, o).control = r.control
<1>1. r.plain \in Plains /\ r.control \in {<<>>, <<<<>>>>}
  BY RpcLength
<1>2. \A o \in Announcements : Append(r.plain, o) \in Plains
  BY <1>1, AppendProperties DEF Plains
<1>. QED  BY <1>1, <1>2 DEF WithControl, WithObject, Rpcs

(* Adding an object to a list: to its last RPC, or to a new one; the       *)
(* others stay as they are.                                                *)
LEMMA AddObjectEffect ==
  ASSUME NEW list \in Lists, list # <<>>, NEW o \in Announcements, NEW max
  PROVE  LET l2 == AddObject(list, o, max)
             n  == Len(list)
         IN /\ l2 \in Lists /\ l2 # <<>>
            /\ \/ /\ MustBegin(list[n], o.size, max)
                  /\ Len(l2) = n + 1 /\ l2[n + 1] = WithObject(NewRpc, o)
                  /\ \A i \in 1..n : l2[i] = list[i]
               \/ /\ ~MustBegin(list[n], o.size, max)
                  /\ Len(l2) = n /\ l2[n] = WithObject(list[n], o)
                  /\ \A i \in 1..(n - 1) : l2[i] = list[i]
<1> DEFINE n == Len(list)
           l == LastFor(list, o.size, max)
           k == Len(l)
           r == WithObject(l[k], o)
           l2 == AddObject(list, o, max)
<1>1. /\ l \in Lists /\ l # <<>>
      /\ \/ /\ MustBegin(list[n], o.size, max)
            /\ Len(l) = n + 1 /\ l[n + 1] = NewRpc
            /\ \A i \in 1..n : l[i] = list[i]
         \/ /\ ~MustBegin(list[n], o.size, max)
            /\ l = list
  BY LastForEffect
<1>2. k \in 1..k /\ l[k] \in Rpcs /\ DOMAIN l = 1..k
  BY <1>1, LastOf
<1>3. r \in Rpcs
  BY <1>2, WithMore
<1>4. l2 = [l EXCEPT ![k] = r]
  <2>1. l2 = [l EXCEPT ![k].plain = Append(@, o)]
    BY DEF AddObject
  <2>2. [l[k] EXCEPT !.plain = Append(@, o)] = r
    <3> DEFINE q == l[k]
    <3>1. q = [plain |-> q.plain, control |-> q.control]
      BY <1>2, RpcLength
    <3> HIDE DEF q, l
    <3>2. [q EXCEPT !.plain = Append(@, o)] = WithObject(q, o)
      BY <3>1 DEF WithObject
    <3>. QED  BY <3>2 DEF q
  <2>. QED  BY <2>1, <2>2
<1>5. /\ l2 \in Lists /\ l2 # <<>> /\ Len(l2) = k /\ l2[k] = r
      /\ \A i \in 1..(k - 1) : l2[i] = l[i]
  <2> HIDE DEF l2, l, r, k
  <2>1. LET m == [l EXCEPT ![Len(l)] = r]
        IN /\ m \in Lists /\ m # <<>> /\ Len(m) = Len(l) /\ m[Len(l)] = r
           /\ \A i \in 1..(Len(l) - 1) : m[i] = l[i]
    BY <1>1, <1>3, ReplaceLast
  <2>2. l2 = [l EXCEPT ![Len(l)] = r]
    BY <1>4 DEF k
  <2>. QED  BY <2>1, <2>2 DEF k
<1>6. n \in Nat
  BY LastOf
<1> HIDE DEF l2, l, n
<1>7. CASE MustBegin(list[n], o.size, max)
  <2>1. k = n + 1 /\ l[k] = NewRpc /\ k - 1 = n /\ \A i \in 1..n : l[i] = list[i]
    BY <1>1, <1>6, <1>7
  <2>2. r = WithObject(NewRpc, o)
    BY <2>1
  <2> HIDE DEF r, k
  <2>. QED  BY <1>5, <1>7, <2>1, <2>2 DEF l2, n
<1>8. CASE ~MustBegin(list[n], o.size, max)
  <2>1. l = list /\ k = n
    BY <1>1, <1>8 DEF n
  <2>2. r = WithObject(list[n], o)
    BY <2>1
  <2> HIDE DEF r, k
  <2>. QED  BY <1>5, <1>8, <2>1, <2>2 DEF l2, n
<1>. QED  BY <1>7, <1>8

(* The same, of the positions: exactly one is new.                         *)
LEMMA AddObjectPlaces ==
  ASSUME NEW list \in Lists, list # <<>>, NEW o \in Announcements, NEW max
  PROVE  LET l2 == AddObject(list, o, max)
         IN \E a, b :
              /\ At(l2, a, b) /\ ~At(list, a, b) /\ Entry(l2, a, b) = o
              /\ \A i, j : At(list, i, j) => At(l2, i, j) /\ Entry(l2, i, j) = Entry(list, i, j)
              /\ \A i, j : At(l2, i, j) => At(list, i, j) \/ (i = a /\ j = b)
<1> DEFINE n == Len(list)
           l2 == AddObject(list, o, max)
<1>1. /\ n \in Nat /\ n >= 1 /\ list[n] \in Rpcs
      /\ list[n].plain \in Plains /\ Len(list[n].plain) \in Nat
  <2>1. n \in Nat /\ n >= 1 /\ list[n] \in Rpcs
    BY LastOf
  <2>2. list[n].plain \in Plains
    BY <2>1, RpcLength
  <2>. QED  BY <2>1, <2>2, LenProperties DEF Plains
<1>2. CASE /\ Len(l2) = n + 1 /\ l2[n + 1] = WithObject(NewRpc, o)
           /\ \A i \in 1..n : l2[i] = list[i]
  <2> DEFINE r == WithObject(NewRpc, o)
  <2>1. Len(r.plain) = 1 /\ r.plain[1] = o /\ l2[n + 1] = r
    <3>1. r.plain = Append(<<>>, o)
      BY NewRpcIsEmpty, WithMore
    <3>2. Append(<<>>, o) = <<o>> /\ Len(<<o>>) = 1 /\ <<o>>[1] = o
      OBVIOUS
    <3>. QED  BY <1>2, <3>1, <3>2
  <2> HIDE DEF l2, n, r
  <2>2. At(l2, n + 1, 1) /\ ~At(list, n + 1, 1) /\ Entry(l2, n + 1, 1) = o
    BY <1>1, <1>2, <2>1 DEF At, Entry, n
  <2>3. ASSUME NEW i, NEW j, At(list, i, j)
        PROVE  At(l2, i, j) /\ Entry(l2, i, j) = Entry(list, i, j)
    BY <1>1, <1>2, <2>3 DEF At, Entry, n
  <2>4. ASSUME NEW i, NEW j, At(l2, i, j)
        PROVE  At(list, i, j) \/ (i = n + 1 /\ j = 1)
    <3>1. CASE i = n + 1
      <4>1. l2[i] = r /\ j \in 1..Len(l2[i].plain)
        BY <3>1, <2>1, <2>4 DEF At
      <4>2. j \in 1..1
        BY <4>1, <2>1
      <4>. QED  BY <3>1, <4>2
    <3>2. CASE i # n + 1
      BY <3>2, <1>1, <1>2, <2>4 DEF At, n
    <3>. QED  BY <3>1, <3>2
  <2>. QED  BY <2>2, <2>3, <2>4 DEF l2
<1>3. CASE /\ Len(l2) = n /\ l2[n] = WithObject(list[n], o)
           /\ \A i \in 1..(n - 1) : l2[i] = list[i]
  <2> DEFINE m == Len(list[n].plain)
             r == WithObject(list[n], o)
  <2>1. /\ Len(r.plain) = m + 1 /\ r.plain[m + 1] = o
        /\ \A j \in 1..m : r.plain[j] = list[n].plain[j]
    <3>1. r.plain = Append(list[n].plain, o)
      BY <1>1, WithMore
    <3> HIDE DEF r
    <3>. QED  BY <1>1, <3>1, AppendProperties DEF Plains
  <2>2. Len(l2) = n /\ l2[n] = r /\ \A i \in 1..(n - 1) : l2[i] = list[i]
    BY <1>3
  <2>3. m \in Nat
    BY <1>1
  <2> HIDE DEF l2, n, r, m
  <2>4. At(l2, n, m + 1) /\ ~At(list, n, m + 1) /\ Entry(l2, n, m + 1) = o
    BY <1>1, <2>1, <2>2, <2>3 DEF At, Entry, n, m
  <2>5. ASSUME NEW i, NEW j, At(list, i, j)
        PROVE  At(l2, i, j) /\ Entry(l2, i, j) = Entry(list, i, j)
    <3>1. CASE i = n
      BY <3>1, <1>1, <2>1, <2>2, <2>3, <2>5 DEF At, Entry, n, m
    <3>2. CASE i # n
      BY <3>2, <1>1, <2>2, <2>5 DEF At, Entry, n
    <3>. QED  BY <3>1, <3>2
  <2>6. ASSUME NEW i, NEW j, At(l2, i, j)
        PROVE  At(list, i, j) \/ (i = n /\ j = m + 1)
    <3>1. CASE i = n
      BY <3>1, <1>1, <2>1, <2>2, <2>3, <2>6 DEF At, n, m
    <3>2. CASE i # n
      BY <3>2, <1>1, <2>2, <2>6 DEF At, n
    <3>. QED  BY <3>1, <3>2
  <2>. QED  BY <2>4, <2>5, <2>6 DEF l2
<1>. QED  BY <1>2, <1>3, AddObjectEffect

(* The lists that the fold of AddObjects goes through.                     *)
LEMMA AddObjectsChain ==
  ASSUME NEW s \in Plains, NEW max
  PROVE  \E l : /\ l[0] = <<NewRpc>> /\ AddObjects(<<NewRpc>>, s, max) = l[Len(s)]
                /\ \A k \in 1..Len(s) : l[k] = AddObject(l[k - 1], s[k], max)
<1> DEFINE n == Len(s)
           P == SUBSET (1..n)
           V == Lists \ {<<>>}
           step == [i \in 1..n |-> [v \in V |-> AddObject(v, s[i], max)]]
           Eq(F) == F = [T \in P |-> IF T = {} THEN <<NewRpc>>
                          ELSE AddObject(F[T \ {Max(T)}], s[Max(T)], max)]
<1>0. n \in Nat /\ DOMAIN s = 1..n
  BY LenProperties DEF Plains
<1>1. \A i \in 1..n : s[i] \in Announcements
  BY ElementOfSeq DEF Plains
<1>2. \A i \in 1..n : \A v \in V : AddObject(v, s[i], max) \in V
  BY <1>1, AddObjectEffect
<1>3. <<NewRpc>> \in V
  <2>1. <<NewRpc>> \in Lists
    BY NewRpcIsEmpty DEF Lists
  <2>. QED  BY <2>1
<1> HIDE DEF n, V
<1>4. PICK F \in [P -> V] : IsFold(n, <<NewRpc>>, step, F)
  <2>1. \A i \in 1..n : \A v \in V : step[i][v] \in V
    BY <1>2
  <2> HIDE DEF step
  <2>2. Foldable(n, V, <<NewRpc>>, step)
    BY <1>0, <1>3, <2>1 DEF Foldable
  <2>. QED  BY <2>2, FoldExists
<1>5. ASSUME NEW T \in P, T # {}
      PROVE  step[Max(T)][F[T \ {Max(T)}]] = AddObject(F[T \ {Max(T)}], s[Max(T)], max)
  <2>1. Max(T) \in 1..n /\ T \ {Max(T)} \in P
    BY <1>0, <1>5, MaxOf
  <2>2. F[T \ {Max(T)}] \in V
    BY <2>1
  <2>. QED  BY <2>1, <2>2
<1> HIDE DEF step
<1>6. Eq(F)
  <2>1. F = [T \in P |-> F[T]]
    OBVIOUS
  <2>. QED  BY <1>4, <1>5, <2>1 DEF IsFold
<1> DEFINE G == CHOOSE H : Eq(H)
<1>7. Eq(G)
  <2> HIDE DEF Eq
  <2>. QED  BY <1>6, Zenon
<1>8. AddObjects(<<NewRpc>>, s, max) = G[1..n]
  BY <1>0 DEF AddObjects, FoldLeft, MapThenFoldSet
<1> HIDE DEF G
<1> DEFINE l == [k \in 0..n |-> G[1..k]]
<1>9. l[0] = <<NewRpc>>
  <2>1. 1..0 = {} /\ {} \in P /\ 0 \in 0..n
    BY <1>0
  <2>. QED  BY <2>1, <1>7
<1>10. l[n] = G[1..n]
  BY <1>0
<1>11. ASSUME NEW k \in 1..n PROVE l[k] = AddObject(l[k - 1], s[k], max)
  <2>1. k \in 0..n /\ k - 1 \in 0..n
    BY <1>0
  <2>2. /\ 1..k \in P /\ 1..k # {} /\ Max(1..k) = k
        /\ (1..k) \ {Max(1..k)} = 1..(k - 1)
    BY <1>0, PrefixMax
  <2>3. G[1..k] = AddObject(G[1..(k - 1)], s[k], max)
    BY <1>7, <2>2
  <2>. QED  BY <2>1, <2>3
<1> HIDE DEF l
<1>12. /\ l[0] = <<NewRpc>> /\ AddObjects(<<NewRpc>>, s, max) = l[Len(s)]
       /\ \A k \in 1..Len(s) : l[k] = AddObject(l[k - 1], s[k], max)
  BY <1>8, <1>9, <1>10, <1>11 DEF n
<1>. QED  BY <1>12

(***************************************************************************)
(* Lists of RPCs: what they announce of a topic.                           *)
(***************************************************************************)

(* Does the list announce anything about t?                                *)
Mentions(list, t) == \E i, j : At(list, i, j) /\ Entry(list, i, j).topic = t

(* It does at most once, and says that we do what action a says.           *)
Tidy(list, t, a) ==
  /\ \A i, j, k, m : At(list, i, j) /\ At(list, k, m)
                     /\ Entry(list, i, j).topic = t /\ Entry(list, k, m).topic = t
                     => i = k /\ j = m
  /\ \A i, j : At(list, i, j) /\ Entry(list, i, j).topic = t => Entry(list, i, j).action = a

(* An RPC that is too long for the codec is so for one of three reasons.   *)
Fit(rpc) ==
  EncodedLen(rpc) > MaxTransmit =>
    IF rpc.control # <<>> THEN EncodedLen(rpc) <= MaxTransmit + 2
    ELSE /\ EncodedLen(rpc) <= MaxTransmit + 4
         /\ \/ Last(rpc.plain).size < 40
            \/ Len(rpc.plain) = 1 /\ Last(rpc.plain).size >= 128

AllFit(list) == \A i \in DOMAIN list : Fit(list[i])

(* No RPC of the list has a control field yet.                             *)
Bare(list) == \A i \in DOMAIN list : list[i].control = <<>>

(* Positions are natural numbers, and hold announcements.                  *)
LEMMA PositionTypes ==
  ASSUME NEW list \in Lists
  PROVE  /\ Len(list) \in Nat /\ DOMAIN list = 1..Len(list)
         /\ \A i, j : At(list, i, j) =>
              /\ i \in Nat /\ j \in Nat /\ list[i] \in Rpcs
              /\ Entry(list, i, j) \in Announcements
<1>1. Len(list) \in Nat /\ DOMAIN list = 1..Len(list)
  BY LenProperties DEF Lists
<1>2. ASSUME NEW i, NEW j, At(list, i, j)
      PROVE  /\ i \in Nat /\ j \in Nat /\ list[i] \in Rpcs
             /\ Entry(list, i, j) \in Announcements
  <2>1. i \in 1..Len(list) /\ j \in 1..Len(list[i].plain)
    BY <1>2 DEF At
  <2>2. list[i] \in Rpcs
    BY <2>1, ElementOfSeq DEF Lists
  <2>3. list[i].plain \in Plains
    BY <2>2, RpcLength
  <2>4. Len(list[i].plain) \in Nat
    BY <2>3, LenProperties DEF Plains
  <2>5. list[i].plain[j] \in Announcements
    BY <2>1, <2>3, ElementOfSeq DEF Plains
  <2>. QED  BY <1>1, <2>1, <2>2, <2>4, <2>5 DEF Entry
<1>. QED  BY <1>1, <1>2

(* Mentions is what the model calls Mentioned.                             *)
LEMMA MentionedMeans ==
  ASSUME NEW list \in Lists, NEW t
  PROVE  t \in Mentioned(list) <=> Mentions(list, t)
<1>1. DOMAIN list = 1..Len(list)
  BY PositionTypes
<1>2. \A i \in 1..Len(list) : DOMAIN list[i].plain = 1..Len(list[i].plain)
  <2> SUFFICES ASSUME NEW i \in 1..Len(list)
               PROVE  DOMAIN list[i].plain = 1..Len(list[i].plain)
    OBVIOUS
  <2>1. list[i] \in Rpcs
    BY ElementOfSeq DEF Lists
  <2>2. list[i].plain \in Plains
    BY <2>1, RpcLength
  <2>. QED  BY <2>2, LenProperties DEF Plains
<1>3. t \in Mentioned(list) <=>
        \E i \in DOMAIN list : \E j \in DOMAIN list[i].plain :
          list[i].plain[j].topic = t
  BY DEF Mentioned
<1>. QED  BY <1>1, <1>2, <1>3 DEF Mentions, At, Entry

(* The positions of two lists one after the other.                         *)
LEMMA ConcatPlaces ==
  ASSUME NEW a \in Lists, NEW b \in Lists
  PROVE  LET ab == a \o b
             n  == Len(a)
         IN /\ ab \in Lists
            /\ \A i, j : At(a, i, j) => At(ab, i, j) /\ Entry(ab, i, j) = Entry(a, i, j)
            /\ \A i, j : At(b, i, j) =>
                 At(ab, n + i, j) /\ Entry(ab, n + i, j) = Entry(b, i, j)
            /\ \A i, j : At(ab, i, j) => At(a, i, j) \/ At(b, i - n, j)
<1> DEFINE ab == a \o b
           n  == Len(a)
           m  == Len(b)
<1>1. n \in Nat /\ m \in Nat
  BY LenProperties DEF Lists
<1>2. /\ ab \in Lists /\ Len(ab) = n + m
      /\ \A i \in 1..n : ab[i] = a[i]
      /\ \A i \in (n + 1)..(n + m) : ab[i] = b[i - n]
  <2>1. ab \in Lists /\ Len(ab) = n + m
    BY ConcatProperties DEF Lists
  <2>2. \A i \in 1..(n + m) : ab[i] = IF i <= n THEN a[i] ELSE b[i - n]
    BY ConcatProperties DEF Lists
  <2> HIDE DEF ab, n, m
  <2>. QED  BY <1>1, <2>1, <2>2
<1> HIDE DEF ab, n, m
<1>3. ASSUME NEW i, NEW j, At(a, i, j)
      PROVE  At(ab, i, j) /\ Entry(ab, i, j) = Entry(a, i, j)
  BY <1>1, <1>2, <1>3 DEF At, Entry, n
<1>4. ASSUME NEW i, NEW j, At(b, i, j)
      PROVE  At(ab, n + i, j) /\ Entry(ab, n + i, j) = Entry(b, i, j)
  <2>1. i \in 1..m /\ j \in 1..Len(b[i].plain)
    BY <1>4 DEF At, m
  <2>2. n + i \in (n + 1)..(n + m) /\ n + i \in 1..(n + m) /\ (n + i) - n = i
    BY <1>1, <2>1
  <2>3. ab[n + i] = b[i]
    BY <1>2, <2>2
  <2>. QED  BY <1>2, <2>1, <2>2, <2>3 DEF At, Entry
<1>5. ASSUME NEW i, NEW j, At(ab, i, j)
      PROVE  At(a, i, j) \/ At(b, i - n, j)
  <2>1. i \in 1..(n + m) /\ j \in 1..Len(ab[i].plain)
    BY <1>2, <1>5 DEF At
  <2>2. CASE i \in 1..n
    BY <1>2, <2>1, <2>2 DEF At, n
  <2>3. CASE i \notin 1..n
    <3>1. i \in (n + 1)..(n + m) /\ i - n \in 1..m
      BY <1>1, <2>1, <2>3
    <3>2. ab[i] = b[i - n]
      BY <1>2, <3>1
    <3>. QED  BY <2>1, <3>1, <3>2 DEF At, m
  <2>. QED  BY <2>2, <2>3
<1>. QED  BY <1>2, <1>3, <1>4, <1>5 DEF ab, n

(* Two lists one after the other announce what each announces.             *)
LEMMA ConcatMentions ==
  ASSUME NEW a \in Lists, NEW b \in Lists, NEW t
  PROVE  /\ a \o b \in Lists
         /\ Mentions(a \o b, t) <=> Mentions(a, t) \/ Mentions(b, t)
<1> DEFINE ab == a \o b
           n  == Len(a)
<1>1. /\ ab \in Lists
      /\ \A i, j : At(a, i, j) => At(ab, i, j) /\ Entry(ab, i, j) = Entry(a, i, j)
      /\ \A i, j : At(b, i, j) => At(ab, n + i, j) /\ Entry(ab, n + i, j) = Entry(b, i, j)
      /\ \A i, j : At(ab, i, j) => At(a, i, j) \/ At(b, i - n, j)
  BY ConcatPlaces
<1>2. n \in Nat
  BY PositionTypes
<1> HIDE DEF ab, n
<1>3. ASSUME NEW i, NEW j, At(ab, i, j), Entry(ab, i, j).topic = t
      PROVE  Mentions(a, t) \/ Mentions(b, t)
  <2>1. CASE At(a, i, j)
    BY <1>1, <1>3, <2>1 DEF Mentions
  <2>2. CASE At(b, i - n, j)
    <3>1. i \in Nat
      BY <1>1, <1>3, PositionTypes
    <3>2. n + (i - n) = i
      BY <1>2, <3>1
    <3>3. Entry(ab, i, j) = Entry(b, i - n, j)
      BY <1>1, <2>2, <3>2
    <3>. QED  BY <1>3, <2>2, <3>3 DEF Mentions
  <2>. QED  BY <1>1, <1>3, <2>1, <2>2
<1>4. Mentions(a, t) \/ Mentions(b, t) => Mentions(ab, t)
  BY <1>1 DEF Mentions
<1>. QED  BY <1>1, <1>3, <1>4 DEF ab, Mentions

(* They are tidy together if they are tidy, and not both about t.          *)
LEMMA ConcatTidy ==
  ASSUME NEW a \in Lists, NEW b \in Lists, NEW t, NEW x
  PROVE  Tidy(a \o b, t, x) <=>
           /\ Tidy(a, t, x) /\ Tidy(b, t, x)
           /\ ~(Mentions(a, t) /\ Mentions(b, t))
<1> DEFINE ab == a \o b
           n  == Len(a)
<1>1. /\ ab \in Lists
      /\ \A i, j : At(a, i, j) => At(ab, i, j) /\ Entry(ab, i, j) = Entry(a, i, j)
      /\ \A i, j : At(b, i, j) => At(ab, n + i, j) /\ Entry(ab, n + i, j) = Entry(b, i, j)
      /\ \A i, j : At(ab, i, j) => At(a, i, j) \/ At(b, i - n, j)
  BY ConcatPlaces
<1>2. n \in Nat
  BY PositionTypes
<1>3. /\ \A i, j : At(a, i, j) => i \in 1..n
      /\ \A i, j : At(b, i, j) => i \in Nat /\ i >= 1
      /\ \A i, j : At(ab, i, j) => i \in Nat
  BY <1>1, PositionTypes DEF At
<1> HIDE DEF ab, n
<1>4. ASSUME NEW i, NEW j, At(ab, i, j), ~At(a, i, j)
      PROVE  At(b, i - n, j) /\ Entry(ab, i, j) = Entry(b, i - n, j) /\ i - n \in Nat
  <2>1. At(b, i - n, j) /\ i \in Nat
    BY <1>1, <1>3, <1>4
  <2>2. n + (i - n) = i
    BY <1>2, <2>1
  <2>. QED  BY <1>1, <1>3, <2>1, <2>2
<1>5. ASSUME Tidy(ab, t, x)
      PROVE  /\ Tidy(a, t, x) /\ Tidy(b, t, x)
             /\ ~(Mentions(a, t) /\ Mentions(b, t))
  <2>1. Tidy(a, t, x)
    BY <1>1, <1>5 DEF Tidy
  <2>2. Tidy(b, t, x)
    <3>1. ASSUME NEW i, NEW j, NEW k, NEW m, At(b, i, j), At(b, k, m),
                 Entry(b, i, j).topic = t, Entry(b, k, m).topic = t
          PROVE  i = k /\ j = m
      <4>1. n + i = n + k /\ j = m
        BY <1>1, <1>5, <3>1 DEF Tidy
      <4>2. i \in Nat /\ k \in Nat
        BY <1>3, <3>1
      <4>. QED  BY <1>2, <4>1, <4>2
    <3>2. ASSUME NEW i, NEW j, At(b, i, j), Entry(b, i, j).topic = t
          PROVE  Entry(b, i, j).action = x
      BY <1>1, <1>5, <3>2 DEF Tidy
    <3>. QED  BY <3>1, <3>2 DEF Tidy
  <2>3. ASSUME Mentions(a, t), Mentions(b, t) PROVE FALSE
    <3>1. PICK i, j : At(a, i, j) /\ Entry(a, i, j).topic = t
      BY <2>3 DEF Mentions
    <3>2. PICK k, m : At(b, k, m) /\ Entry(b, k, m).topic = t
      BY <2>3 DEF Mentions
    <3>3. i = n + k
      BY <1>1, <1>5, <3>1, <3>2 DEF Tidy
    <3>4. i \in 1..n /\ k \in Nat /\ k >= 1
      BY <1>3, <3>1, <3>2
    <3>. QED  BY <1>2, <3>3, <3>4
  <2>. QED  BY <2>1, <2>2, <2>3
<1>6. ASSUME Tidy(a, t, x), Tidy(b, t, x), ~(Mentions(a, t) /\ Mentions(b, t))
      PROVE  Tidy(ab, t, x)
  <2>1. ASSUME NEW i, NEW j, NEW k, NEW m, At(ab, i, j), At(ab, k, m),
               Entry(ab, i, j).topic = t, Entry(ab, k, m).topic = t
        PROVE  i = k /\ j = m
    <3>1. CASE At(a, i, j) /\ At(a, k, m)
      BY <1>1, <1>6, <2>1, <3>1 DEF Tidy
    <3>2. CASE At(a, i, j) /\ ~At(a, k, m)
      BY <1>1, <1>4, <1>6, <2>1, <3>2 DEF Mentions
    <3>3. CASE ~At(a, i, j) /\ At(a, k, m)
      BY <1>1, <1>4, <1>6, <2>1, <3>3 DEF Mentions
    <3>4. CASE ~At(a, i, j) /\ ~At(a, k, m)
      <4>1. i - n = k - n /\ j = m
        BY <1>4, <1>6, <2>1, <3>4 DEF Tidy
      <4>2. i \in Nat /\ k \in Nat
        BY <1>3, <2>1
      <4>. QED  BY <1>2, <4>1, <4>2
    <3>. QED  BY <3>1, <3>2, <3>3, <3>4
  <2>2. ASSUME NEW i, NEW j, At(ab, i, j), Entry(ab, i, j).topic = t
        PROVE  Entry(ab, i, j).action = x
    <3>1. CASE At(a, i, j)
      BY <1>1, <1>6, <2>2, <3>1 DEF Tidy
    <3>2. CASE ~At(a, i, j)
      BY <1>4, <1>6, <2>2, <3>2 DEF Tidy
    <3>. QED  BY <3>1, <3>2
  <2>. QED  BY <2>1, <2>2 DEF Tidy
<1>. QED  BY <1>5, <1>6 DEF ab

(* The RPCs of two lists one after the other fit if those of each do.      *)
LEMMA ConcatFit ==
  ASSUME NEW a \in Lists, NEW b \in Lists
  PROVE  AllFit(a \o b) <=> AllFit(a) /\ AllFit(b)
<1> DEFINE ab == a \o b
           n  == Len(a)
           m  == Len(b)
<1>1. n \in Nat /\ m \in Nat /\ DOMAIN a = 1..n /\ DOMAIN b = 1..m
  BY PositionTypes
<1>2. /\ DOMAIN ab = 1..(n + m)
      /\ \A i \in 1..n : ab[i] = a[i]
      /\ \A i \in (n + 1)..(n + m) : ab[i] = b[i - n]
  <2>1. ab \in Lists /\ Len(ab) = n + m
    BY ConcatProperties DEF Lists
  <2>2. \A i \in 1..(n + m) : ab[i] = IF i <= n THEN a[i] ELSE b[i - n]
    BY ConcatProperties DEF Lists
  <2>3. DOMAIN ab = 1..Len(ab)
    BY <2>1, PositionTypes
  <2> HIDE DEF ab, n, m
  <2>. QED  BY <1>1, <2>1, <2>2, <2>3
<1> HIDE DEF ab, n, m
<1>3. ASSUME AllFit(ab) PROVE AllFit(a) /\ AllFit(b)
  <2>1. \A i \in 1..n : Fit(a[i])
    BY <1>1, <1>2, <1>3 DEF AllFit
  <2>2. ASSUME NEW i \in 1..m PROVE Fit(b[i])
    <3>1. n + i \in (n + 1)..(n + m) /\ n + i \in 1..(n + m) /\ (n + i) - n = i
      BY <1>1
    <3>2. ab[n + i] = b[i]
      BY <1>2, <3>1
    <3>. QED  BY <1>2, <1>3, <3>1, <3>2 DEF AllFit
  <2>. QED  BY <1>1, <2>1, <2>2 DEF AllFit
<1>4. ASSUME AllFit(a), AllFit(b), NEW i \in 1..(n + m) PROVE Fit(ab[i])
  <2>1. CASE i \in 1..n
    BY <1>1, <1>2, <1>4, <2>1 DEF AllFit
  <2>2. CASE i \notin 1..n
    <3>1. i \in (n + 1)..(n + m) /\ i - n \in 1..m
      BY <1>1, <2>2
    <3>. QED  BY <1>1, <1>2, <1>4, <3>1 DEF AllFit
  <2>. QED  BY <2>1, <2>2
<1>5. AllFit(a) /\ AllFit(b) => AllFit(ab)
  BY <1>2, <1>4 DEF AllFit
<1>. QED  BY <1>3, <1>5 DEF ab

(* An RPC of one object that passes the check of its size fits.            *)
LEMMA SingleFits ==
  ASSUME NEW o \in Announcements, o.size + 2 <= MaxTransmit
  PROVE  Fit(WithObject(NewRpc, o))
<1> DEFINE r == WithObject(NewRpc, o)
<1>1. r \in Rpcs /\ r.plain = <<o>> /\ r.control = <<>>
  <2>1. Append(<<>>, o) = <<o>>
    OBVIOUS
  <2>. QED  BY <2>1, NewRpcIsEmpty, WithMore
<1>2. Len(<<o>>) = 1 /\ Last(<<o>>) = o
  BY DEF Last
<1>3. Fields(<<o>>) = Field(o.size)
  <2>1. <<>> \in Plains /\ Append(<<>>, o) = <<o>>
    BY DEF Plains
  <2>2. Fields(Append(<<>>, o)) = Fields(<<>>) + Field(o.size)
    BY <2>1, FieldsAppend
  <2>3. Field(o.size) \in Nat
    BY ElementFields, FieldLength
  <2>. QED  BY <2>1, <2>2, <2>3, NoFields
<1> HIDE DEF r
<1>4. EncodedLen(r) = Field(o.size)
  BY <1>1, <1>3, RpcLength
<1>5. o.size \in Nat /\ MaxTransmit \in Nat
  BY ElementFields, SizesAssumption
<1>6. o.size < 128 => Field(o.size) = o.size + 2
  BY <1>5, FieldLength
<1>7. Field(o.size) \in Nat /\ Field(o.size) <= o.size + 6
  BY <1>5, FieldLength
<1>8. EncodedLen(r) > MaxTransmit =>
        /\ EncodedLen(r) <= MaxTransmit + 4 /\ o.size >= 128
  BY <1>4, <1>5, <1>6, <1>7
<1>9. Fit(r)
  BY <1>1, <1>2, <1>8 DEF Fit
<1>. QED  BY <1>9 DEF r

(* So does an RPC that need not be followed by a new one.                  *)
LEMMA LongerFits ==
  ASSUME NEW r \in Rpcs, r # NewRpc, r.control = <<>>, NEW o \in Announcements,
         ~MustBegin(r, o.size, MaxTransmit)
  PROVE  Fit(WithObject(r, o))
<1> DEFINE r2 == WithObject(r, o)
           add == (o.size * 105) \div 100
<1>1. /\ r2 \in Rpcs /\ r2.plain = Append(r.plain, o) /\ r2.control = <<>>
      /\ r.plain \in Plains
  BY WithMore, RpcLength
<1> HIDE DEF r2
<1>2. Last(r2.plain) = o
  <2>1. /\ Len(r2.plain) = Len(r.plain) + 1
        /\ r2.plain[Len(r.plain) + 1] = o
    BY <1>1, AppendProperties DEF Plains
  <2>. QED  BY <2>1 DEF Last
<1>3. EncodedLen(r) \in Nat /\ EncodedLen(r2) = EncodedLen(r) + Field(o.size)
  <2>1. EncodedLen(r) = Fields(r.plain) /\ EncodedLen(r2) = Fields(r2.plain)
    BY <1>1, RpcLength
  <2>2. Fields(r.plain) \in Nat /\ Fields(r2.plain) = Fields(r.plain) + Field(o.size)
    BY <1>1, FieldsAppend
  <2>. QED  BY <2>1, <2>2
<1>4. o.size \in Nat /\ MaxTransmit \in Nat
  BY ElementFields, SizesAssumption
<1>5. /\ Field(o.size) \in Nat /\ (o.size >= 40 => Field(o.size) <= add)
      /\ Field(o.size) <= add + 2
  BY <1>4, FieldLength
<1>6. add \in Nat
  BY <1>4
<1>7. EncodedLen(r) + add <= MaxTransmit
  <2>1. ~(EncodedLen(r) + add > MaxTransmit)
    BY DEF MustBegin
  <2> HIDE DEF add
  <2>. QED  BY <2>1, <1>3, <1>4, <1>6
<1> HIDE DEF add
<1>8. EncodedLen(r2) <= MaxTransmit + 4
  BY <1>3, <1>4, <1>5, <1>6, <1>7
<1>9. EncodedLen(r2) > MaxTransmit => o.size < 40
  BY <1>3, <1>4, <1>5, <1>6, <1>7
<1>10. Fit(r2)
  BY <1>1, <1>2, <1>8, <1>9 DEF Fit
<1>. QED  BY <1>10 DEF r2

(* Adding an object keeps all RPCs within their lengths.                   *)
LEMMA AddObjectFits ==
  ASSUME NEW list \in Lists, list # <<>>, AllFit(list), Bare(list),
         NEW o \in Announcements, o.size + 2 <= MaxTransmit
  PROVE  /\ AllFit(AddObject(list, o, MaxTransmit))
         /\ Bare(AddObject(list, o, MaxTransmit))
<1> DEFINE n == Len(list)
           l2 == AddObject(list, o, MaxTransmit)
           new == WithObject(NewRpc, o)
           longer == WithObject(list[n], o)
<1>1. /\ l2 \in Lists
      /\ \/ /\ MustBegin(list[n], o.size, MaxTransmit)
            /\ Len(l2) = n + 1 /\ l2[n + 1] = new
            /\ \A i \in 1..n : l2[i] = list[i]
         \/ /\ ~MustBegin(list[n], o.size, MaxTransmit)
            /\ Len(l2) = n /\ l2[n] = longer
            /\ \A i \in 1..(n - 1) : l2[i] = list[i]
  BY AddObjectEffect
<1>2. n \in Nat /\ DOMAIN list = 1..n /\ DOMAIN l2 = 1..Len(l2)
  BY <1>1, PositionTypes
<1>3. n >= 1 /\ n \in 1..n /\ list[n] \in Rpcs
  BY LastOf
<1>4. Fit(new) /\ new.control = <<>>
  <2>1. new.control = <<>>
    BY NewRpcIsEmpty, WithMore
  <2>. QED  BY <2>1, SingleFits
<1>5. list[n].control = <<>> /\ longer.control = <<>>
  <2>1. list[n].control = <<>>
    BY <1>2, <1>3 DEF Bare
  <2>. QED  BY <1>3, <2>1, WithMore
<1>6. ~MustBegin(list[n], o.size, MaxTransmit) => Fit(longer)
  <2>1. CASE list[n] = NewRpc
    BY <1>4, <2>1
  <2>2. CASE list[n] # NewRpc
    BY <1>3, <1>5, <2>2, LongerFits
  <2>. QED  BY <2>1, <2>2
<1> DEFINE Good(r) == Fit(r) /\ r.control = <<>>
<1>7. \A i \in 1..n : Good(list[i])
  BY <1>2 DEF AllFit, Bare
<1>8. Good(new) /\ (~MustBegin(list[n], o.size, MaxTransmit) => Good(longer))
  BY <1>4, <1>5, <1>6
<1>9. \A i \in DOMAIN l2 : Good(l2[i])
  <2> HIDE DEF Good, new, longer, l2, n
  <2>1. CASE /\ Len(l2) = n + 1 /\ l2[n + 1] = new
             /\ \A i \in 1..n : l2[i] = list[i]
    <3>1. \A i \in 1..(n + 1) : i \in 1..n \/ i = n + 1
      BY <1>2
    <3>. QED  BY <1>2, <1>7, <1>8, <2>1, <3>1
  <2>2. CASE /\ ~MustBegin(list[n], o.size, MaxTransmit)
             /\ Len(l2) = n /\ l2[n] = longer
             /\ \A i \in 1..(n - 1) : l2[i] = list[i]
    <3>1. \A i \in 1..n : i \in 1..(n - 1) \/ i = n
      BY <1>2
    <3>. QED  BY <1>2, <1>7, <1>8, <2>2, <3>1
  <2>. QED  BY <1>1, <2>1, <2>2
<1> HIDE DEF l2
<1>10. AllFit(l2) /\ Bare(l2)
  BY <1>9 DEF AllFit, Bare
<1>. QED  BY <1>10 DEF l2

(* The empty control field goes to the last RPC, if that is not too long   *)
(* already, and else to one of its own: nothing else moves, and all RPCs   *)
(* still fit.                                                              *)
LEMMA AddControlEffect ==
  ASSUME NEW list \in Lists, list # <<>>, AllFit(list), Bare(list)
  PROVE  LET l2 == AddControl(list, <<>>, MaxTransmit)
         IN /\ l2 \in Lists /\ l2 # <<>> /\ AllFit(l2)
            /\ \A i, j : At(l2, i, j) <=> At(list, i, j)
            /\ \A i, j : At(list, i, j) => Entry(l2, i, j) = Entry(list, i, j)
<1> DEFINE n == Len(list)
           l == LastFor(list, 0, MaxTransmit)
           k == Len(l)
           r == WithControl(l[k])
           l2 == AddControl(list, <<>>, MaxTransmit)
<1>0. MaxTransmit \in Nat /\ MaxTransmit >= 100 /\ Fields(<<>>) = 0
  BY SizesAssumption, NoFields
<1>1. /\ l \in Lists /\ l # <<>>
      /\ \/ /\ MustBegin(list[n], 0, MaxTransmit)
            /\ Len(l) = n + 1 /\ l[n + 1] = NewRpc
            /\ \A i \in 1..n : l[i] = list[i]
         \/ /\ ~MustBegin(list[n], 0, MaxTransmit)
            /\ l = list
  BY LastForEffect
<1>2. k \in 1..k /\ l[k] \in Rpcs /\ DOMAIN l = 1..k
  BY <1>1, LastOf
<1>3. r \in Rpcs /\ r.plain = l[k].plain /\ r.control = <<<<>>>>
  BY <1>2, WithMore
<1>4. l2 = [l EXCEPT ![k] = r]
  <2>1. l2 = [l EXCEPT ![k].control = <<<<>>>>]
    <3>1. ~(Fields(<<>>) + 2 > MaxTransmit)
      BY <1>0
    <3>. QED  BY <1>0, <3>1 DEF AddControl
  <2>2. [l[k] EXCEPT !.control = <<<<>>>>] = r
    <3> DEFINE q == l[k]
    <3>1. q = [plain |-> q.plain, control |-> q.control]
      BY <1>2, RpcLength
    <3> HIDE DEF q, l
    <3>2. [q EXCEPT !.control = <<<<>>>>] = WithControl(q)
      BY <3>1 DEF WithControl
    <3>. QED  BY <3>2 DEF q
  <2>. QED  BY <2>1, <2>2
<1>5. /\ l2 \in Lists /\ l2 # <<>> /\ Len(l2) = k /\ l2[k] = r
      /\ \A i \in 1..(k - 1) : l2[i] = l[i]
  <2> HIDE DEF l2, l, r, k
  <2>1. LET m == [l EXCEPT ![Len(l)] = r]
        IN /\ m \in Lists /\ m # <<>> /\ Len(m) = Len(l) /\ m[Len(l)] = r
           /\ \A i \in 1..(Len(l) - 1) : m[i] = l[i]
    BY <1>1, <1>3, ReplaceLast
  <2>2. l2 = [l EXCEPT ![Len(l)] = r]
    BY <1>4 DEF k
  <2>. QED  BY <2>1, <2>2 DEF k
<1>6. /\ n \in Nat /\ n >= 1 /\ n \in 1..n /\ list[n] \in Rpcs
      /\ DOMAIN list = 1..n /\ DOMAIN l2 = 1..k
  BY <1>5, LastOf, PositionTypes
<1>7. EncodedLen(r) <= MaxTransmit + 2
  <2>1. EncodedLen(r) = Fields(l[k].plain) + 2 /\ Fields(l[k].plain) \in Nat
    <3> HIDE DEF r
    <3>1. <<<<>>>> # <<>>
      OBVIOUS
    <3>. QED  BY <1>2, <1>3, <3>1, RpcLength
  <2>2. Fields(l[k].plain) <= MaxTransmit
    <3>1. CASE l[k] = NewRpc
      BY <3>1, <1>0, NewRpcIsEmpty
    <3>2. CASE l[k] # NewRpc
      <4> HIDE DEF l
      <4>1. l = list /\ k = n /\ ~MustBegin(list[n], 0, MaxTransmit)
        BY <1>1, <3>2
      <4>2. ~(EncodedLen(list[n]) + (0 * 105) \div 100 > MaxTransmit)
        BY <3>2, <4>1 DEF MustBegin
      <4>3. (0 * 105) \div 100 = 0
        OBVIOUS
      <4>4. list[n].control = <<>>
        BY <1>6 DEF Bare
      <4>5. EncodedLen(list[n]) = Fields(list[n].plain) /\ Fields(list[n].plain) \in Nat
        BY <1>6, <4>4, RpcLength
      <4> HIDE DEF n
      <4>6. Fields(list[n].plain) <= MaxTransmit
        BY <1>0, <4>2, <4>3, <4>5
      <4>. QED  BY <4>1, <4>6
    <3>. QED  BY <3>1, <3>2
  <2>. QED  BY <1>0, <2>1, <2>2
<1>8. Fit(r)
  <2> HIDE DEF r
  <2>1. r.control # <<>>
    BY <1>3
  <2>. QED  BY <1>7, <2>1 DEF Fit
<1> HIDE DEF l2, l, n, r, k
<1>9. CASE /\ k = n + 1 /\ l[n + 1] = NewRpc
           /\ \A i \in 1..n : l[i] = list[i]
  <2>1. \A i \in 1..n : l2[i] = list[i]
    BY <1>5, <1>6, <1>9
  <2>2. l2[n + 1] = r /\ r.plain = <<>> /\ Len(r.plain) = 0
    BY <1>3, <1>5, <1>9, NewRpcIsEmpty
  <2>3. \A i \in 1..k : i \in 1..n \/ i = n + 1
    BY <1>6, <1>9
  <2>4. AllFit(l2)
    BY <1>6, <1>8, <2>1, <2>2, <2>3 DEF AllFit
  <2>5. ASSUME NEW i, NEW j PROVE At(l2, i, j) <=> At(list, i, j)
    <3>1. CASE i = n + 1
      BY <1>5, <1>6, <1>9, <2>2, <3>1 DEF At, n
    <3>2. CASE i # n + 1
      BY <1>5, <1>6, <1>9, <2>1, <3>2 DEF At, n
    <3>. QED  BY <3>1, <3>2
  <2>6. ASSUME NEW i, NEW j, At(list, i, j) PROVE Entry(l2, i, j) = Entry(list, i, j)
    BY <2>1, <2>6 DEF At, Entry, n
  <2>. QED  BY <1>5, <2>4, <2>5, <2>6 DEF l2
<1>10. CASE l = list /\ k = n
  <2>1. \A i \in 1..n : l2[i].plain = list[i].plain /\ (i # n => l2[i] = list[i])
    BY <1>3, <1>5, <1>6, <1>10
  <2>2. AllFit(l2)
    BY <1>5, <1>6, <1>8, <1>10, <2>1 DEF AllFit
  <2>3. ASSUME NEW i, NEW j PROVE At(l2, i, j) <=> At(list, i, j)
    BY <1>5, <1>10, <2>1 DEF At, n
  <2>4. ASSUME NEW i, NEW j, At(list, i, j) PROVE Entry(l2, i, j) = Entry(list, i, j)
    BY <2>1, <2>4 DEF At, Entry, n
  <2>. QED  BY <1>5, <2>2, <2>3, <2>4 DEF l2
<1>11. \/ /\ k = n + 1 /\ l[n + 1] = NewRpc
          /\ \A i \in 1..n : l[i] = list[i]
       \/ l = list /\ k = n
  BY <1>1 DEF k, n
<1>. QED  BY <1>9, <1>10, <1>11

(* Every topic is announced once.                                          *)
Distinct(plain) ==
  \A i, j \in 1..Len(plain) : plain[i].topic = plain[j].topic => i = j

(* What fragments the first k objects of an RPC are to make up.            *)
Holds(list, plain, k) ==
  /\ list \in Lists /\ list # <<>> /\ AllFit(list)
  /\ \A i, j : At(list, i, j) => \E m \in 1..k : Entry(list, i, j) = plain[m]
  /\ \A m \in 1..k : \E i, j : At(list, i, j) /\ Entry(list, i, j) = plain[m]
  /\ \A i, j, p, q : At(list, i, j) /\ At(list, p, q)
                     /\ Entry(list, i, j).topic = Entry(list, p, q).topic => i = p /\ j = q

(* The list that the fold begins with.                                     *)
LEMMA HoldsNothing ==
  ASSUME NEW plain \in Plains
  PROVE  Holds(<<NewRpc>>, plain, 0) /\ Bare(<<NewRpc>>)
<1> DEFINE list == <<NewRpc>>
<1>1. /\ list \in Lists /\ list # <<>> /\ Len(list) = 1 /\ list[1] = NewRpc
      /\ DOMAIN list = {1}
  BY NewRpcIsEmpty DEF Lists
<1>2. Fit(NewRpc)
  BY NewRpcIsEmpty, SizesAssumption DEF Fit
<1> HIDE DEF list
<1>3. AllFit(list) /\ Bare(list)
  BY <1>1, <1>2, NewRpcIsEmpty DEF AllFit, Bare
<1>4. \A i, j : ~At(list, i, j)
  <2> SUFFICES ASSUME NEW i, NEW j, At(list, i, j) PROVE FALSE
    OBVIOUS
  <2>1. i \in 1..1 /\ j \in 1..Len(list[i].plain)
    BY <1>1 DEF At
  <2>2. i = 1
    BY <2>1
  <2>3. Len(list[i].plain) = 0
    BY <1>1, <2>2, NewRpcIsEmpty
  <2>. QED  BY <2>1, <2>3
<1>. QED  BY <1>1, <1>3, <1>4 DEF Holds, list

(* A step of the fold.                                                     *)
LEMMA HoldsMore ==
  ASSUME NEW plain \in Plains, Distinct(plain), NEW k \in 1..Len(plain),
         plain[k].size + 2 <= MaxTransmit,
         NEW list, Holds(list, plain, k - 1), Bare(list)
  PROVE  /\ Holds(AddObject(list, plain[k], MaxTransmit), plain, k)
         /\ Bare(AddObject(list, plain[k], MaxTransmit))
<1> DEFINE o == plain[k]
           l2 == AddObject(list, o, MaxTransmit)
<1>0. Len(plain) \in Nat /\ k - 1 \in Nat /\ k \in Nat
  BY LenProperties DEF Plains
<1>1. o \in Announcements
  BY ElementOfSeq DEF Plains
<1>2. list \in Lists /\ list # <<>> /\ AllFit(list)
  BY DEF Holds
<1>3. l2 \in Lists /\ l2 # <<>>
  BY <1>1, <1>2, AddObjectEffect
<1>4. AllFit(l2) /\ Bare(l2)
  BY <1>1, <1>2, AddObjectFits
<1>5. PICK a, b :
        /\ At(l2, a, b) /\ ~At(list, a, b) /\ Entry(l2, a, b) = o
        /\ \A i, j : At(list, i, j) => At(l2, i, j) /\ Entry(l2, i, j) = Entry(list, i, j)
        /\ \A i, j : At(l2, i, j) => At(list, i, j) \/ (i = a /\ j = b)
  BY <1>1, <1>2, AddObjectPlaces
<1> HIDE DEF o, l2
<1>6. ASSUME NEW i, NEW j, At(l2, i, j) PROVE \E m \in 1..k : Entry(l2, i, j) = plain[m]
  <2>1. CASE At(list, i, j)
    <3>1. PICK m \in 1..(k - 1) : Entry(list, i, j) = plain[m]
      BY <2>1 DEF Holds
    <3>2. m \in 1..k
      BY <1>0
    <3>. QED  BY <1>5, <2>1, <3>1, <3>2
  <2>2. CASE i = a /\ j = b
    <3>1. k \in 1..k
      BY <1>0
    <3>. QED  BY <1>5, <2>2, <3>1 DEF o
  <2>. QED  BY <1>5, <1>6, <2>1, <2>2
<1>7. ASSUME NEW m \in 1..k PROVE \E i, j : At(l2, i, j) /\ Entry(l2, i, j) = plain[m]
  <2>1. CASE m = k
    BY <1>5, <2>1 DEF o
  <2>2. CASE m # k
    <3>1. m \in 1..(k - 1)
      BY <1>0, <2>2
    <3>2. PICK i, j : At(list, i, j) /\ Entry(list, i, j) = plain[m]
      BY <3>1 DEF Holds
    <3>. QED  BY <1>5, <3>2
  <2>. QED  BY <2>1, <2>2
<1>8. ASSUME NEW i, NEW j, At(list, i, j) PROVE Entry(list, i, j).topic # o.topic
  <2>1. PICK m \in 1..(k - 1) : Entry(list, i, j) = plain[m]
    BY <1>8 DEF Holds
  <2>2. m \in 1..Len(plain) /\ m # k
    BY <1>0
  <2>. QED  BY <2>1, <2>2 DEF Distinct, o
<1>9. ASSUME NEW i, NEW j, NEW p, NEW q, At(l2, i, j), At(l2, p, q),
             Entry(l2, i, j).topic = Entry(l2, p, q).topic
      PROVE  i = p /\ j = q
  <2>1. CASE At(list, i, j) /\ At(list, p, q)
    <3>1. Entry(list, i, j).topic = Entry(list, p, q).topic
      BY <1>5, <1>9, <2>1
    <3>. QED  BY <2>1, <3>1 DEF Holds
  <2>2. CASE ~At(list, i, j) /\ At(list, p, q)
    <3>1. Entry(l2, i, j) = o
      BY <1>5, <1>9, <2>2
    <3>2. Entry(l2, p, q) = Entry(list, p, q) /\ Entry(list, p, q).topic # o.topic
      BY <1>5, <1>8, <2>2
    <3>. QED  BY <1>9, <3>1, <3>2
  <2>3. CASE At(list, i, j) /\ ~At(list, p, q)
    <3>1. Entry(l2, p, q) = o
      BY <1>5, <1>9, <2>3
    <3>2. Entry(l2, i, j) = Entry(list, i, j) /\ Entry(list, i, j).topic # o.topic
      BY <1>5, <1>8, <2>3
    <3>. QED  BY <1>9, <3>1, <3>2
  <2>4. CASE ~At(list, i, j) /\ ~At(list, p, q)
    <3>1. i = a /\ j = b
      BY <1>5, <1>9, <2>4
    <3>2. p = a /\ q = b
      BY <1>5, <1>9, <2>4
    <3>. QED  BY <3>1, <3>2
  <2>. QED  BY <2>1, <2>2, <2>3, <2>4
<1>. QED  BY <1>3, <1>4, <1>6, <1>7, <1>9 DEF Holds, l2, o

(* The fragments of an RPC fit, and hold its announcements and no others,  *)
(* each once: whether it goes as it is, or is divided and the empty        *)
(* control field of the conversion added at the end.                       *)
LEMMA FragmentsHold ==
  ASSUME NEW plain \in Plains, Distinct(plain),
         ~TooLarge(IntoProto(plain, <<>>), MaxTransmit)
  PROVE  Holds(Fragments(IntoProto(plain, <<>>), MaxTransmit), plain, Len(plain))
<1> DEFINE n == Len(plain)
           rpc == IntoProto(plain, <<>>)
<1>0. n \in Nat /\ DOMAIN plain = 1..n /\ MaxTransmit \in Nat
  BY LenProperties, SizesAssumption DEF Plains
<1>1. /\ rpc \in Rpcs /\ rpc.plain = plain /\ rpc.control # <<>>
      /\ rpc.control[1] = <<>>
  <2>1. <<<<>>>> # <<>> /\ <<<<>>>>[1] = <<>>
    OBVIOUS
  <2>. QED  BY <2>1 DEF IntoProto, Rpcs
<1> HIDE DEF rpc
<1>2. EncodedLen(rpc) \in Nat
  <2>1. Fields(rpc.plain) \in Nat /\ EncodedLen(rpc) = Fields(rpc.plain) + 2
    BY <1>1, RpcLength
  <2>. QED  BY <2>1
<1>3. CASE EncodedLen(rpc) < MaxTransmit
  <2> DEFINE list == <<rpc>>
  <2>1. Fragments(rpc, MaxTransmit) = list
    BY <1>3 DEF Fragments
  <2>2. list \in Lists /\ list # <<>> /\ Len(list) = 1 /\ list[1] = rpc /\ DOMAIN list = {1}
    BY <1>1 DEF Lists
  <2>3. Fit(rpc)
    BY <1>0, <1>2, <1>3 DEF Fit
  <2> HIDE DEF list, n
  <2>4. AllFit(list)
    BY <2>2, <2>3 DEF AllFit
  <2>5. /\ \A i, j : At(list, i, j) <=> i = 1 /\ j \in 1..n
        /\ \A i, j : i = 1 => Entry(list, i, j) = plain[j]
    <3>1. \A i : i \in 1..1 <=> i = 1
      OBVIOUS
    <3>2. list[1].plain = plain
      BY <1>1, <2>2
    <3>. QED  BY <2>2, <3>1, <3>2 DEF At, Entry, n
  <2>6. \A i, j, p, q : At(list, i, j) /\ At(list, p, q)
                     /\ Entry(list, i, j).topic = Entry(list, p, q).topic => i = p /\ j = q
    BY <2>5 DEF Distinct, n
  <2>7. /\ \A i, j : At(list, i, j) => \E m \in 1..n : Entry(list, i, j) = plain[m]
        /\ \A m \in 1..n : \E i, j : At(list, i, j) /\ Entry(list, i, j) = plain[m]
    BY <2>5
  <2>. QED  BY <2>1, <2>2, <2>4, <2>6, <2>7 DEF Holds, n, rpc
<1>4. CASE ~(EncodedLen(rpc) < MaxTransmit)
  <2> DEFINE list == AddObjects(<<NewRpc>>, plain, MaxTransmit)
             l2 == AddControl(list, <<>>, MaxTransmit)
  <2>1. Fragments(rpc, MaxTransmit) = l2
    BY <1>1, <1>4 DEF Fragments
  <2>2. EncodedLen(rpc) >= MaxTransmit
    BY <1>0, <1>2, <1>4
  <2>3. ASSUME NEW k \in 1..n PROVE plain[k].size + 2 <= MaxTransmit
    <3>1. plain[k] \in Announcements
      BY ElementOfSeq DEF Plains
    <3>2. plain[k].size \in Nat
      BY <3>1, ElementFields
    <3>3. ~(plain[k].size + 2 > MaxTransmit)
      BY <1>0, <1>1, <2>2 DEF TooLarge, rpc
    <3>. QED  BY <1>0, <3>2, <3>3
  <2>4. PICK l : /\ l[0] = <<NewRpc>> /\ list = l[n]
                 /\ \A k \in 1..n : l[k] = AddObject(l[k - 1], plain[k], MaxTransmit)
    BY AddObjectsChain
  <2> HIDE DEF list, l2
  <2> DEFINE S == {k \in 0..n : Holds(l[k], plain, k) /\ Bare(l[k])}
  <2>5. 0 \in S
    <3>1. 0 \in 0..n
      BY <1>0
    <3>. QED  BY <2>4, <3>1, HoldsNothing
  <2>6. ASSUME NEW k \in 1..n, k - 1 \in S PROVE k \in S
    <3>1. k \in 0..n
      BY <1>0
    <3>2. Holds(l[k - 1], plain, k - 1) /\ Bare(l[k - 1])
      BY <2>6
    <3>3. /\ Holds(AddObject(l[k - 1], plain[k], MaxTransmit), plain, k)
          /\ Bare(AddObject(l[k - 1], plain[k], MaxTransmit))
      BY <2>3, <3>2, HoldsMore
    <3>. QED  BY <2>4, <3>1, <3>3
  <2>7. Holds(list, plain, n) /\ Bare(list)
    <3> HIDE DEF S, n
    <3>1. \A k \in 0..n : k \in S
      BY <1>0, <2>5, <2>6, Induction
    <3>2. n \in S
      BY <1>0, <3>1
    <3>. QED  BY <2>4, <3>2 DEF S
  <2>8. list \in Lists /\ list # <<>> /\ AllFit(list)
    BY <2>7 DEF Holds
  <2>9. /\ l2 \in Lists /\ l2 # <<>> /\ AllFit(l2)
        /\ \A i, j : At(l2, i, j) <=> At(list, i, j)
        /\ \A i, j : At(list, i, j) => Entry(l2, i, j) = Entry(list, i, j)
    BY <2>7, <2>8, AddControlEffect DEF l2
  <2> HIDE DEF n
  <2>10. \A i, j : At(l2, i, j) => \E m \in 1..n : Entry(l2, i, j) = plain[m]
    BY <2>7, <2>9 DEF Holds
  <2>11. ASSUME NEW m \in 1..n
         PROVE  \E i, j : At(l2, i, j) /\ Entry(l2, i, j) = plain[m]
    <3>1. PICK i, j : At(list, i, j) /\ Entry(list, i, j) = plain[m]
      BY <2>7 DEF Holds
    <3>. QED  BY <2>9, <3>1
  <2>12. ASSUME NEW i, NEW j, NEW p, NEW q, At(l2, i, j), At(l2, p, q),
                Entry(l2, i, j).topic = Entry(l2, p, q).topic
         PROVE  i = p /\ j = q
    <3>1. /\ At(list, i, j) /\ At(list, p, q)
          /\ Entry(list, i, j).topic = Entry(list, p, q).topic
      BY <2>9, <2>12
    <3>. QED  BY <2>7, <3>1 DEF Holds
  <2>13. Holds(l2, plain, n)
    BY <2>9, <2>10, <2>11, <2>12 DEF Holds
  <2>. QED  BY <2>1, <2>13 DEF n, rpc
<1>. QED  BY <1>3, <1>4

(* What the fragments announce about one topic.                            *)
LEMMA FragmentsMention ==
  ASSUME NEW plain \in Plains, NEW list, Holds(list, plain, Len(plain)), NEW t
  PROVE  Mentions(list, t) <=> \E m \in 1..Len(plain) : plain[m].topic = t
<1>1. /\ \A i, j : At(list, i, j) => \E m \in 1..Len(plain) : Entry(list, i, j) = plain[m]
      /\ \A m \in 1..Len(plain) : \E i, j : At(list, i, j) /\ Entry(list, i, j) = plain[m]
  BY DEF Holds
<1>2. Mentions(list, t) => \E m \in 1..Len(plain) : plain[m].topic = t
  BY <1>1 DEF Mentions
<1>3. ASSUME NEW m \in 1..Len(plain), plain[m].topic = t PROVE Mentions(list, t)
  BY <1>1, <1>3 DEF Mentions
<1>. QED  BY <1>2, <1>3

(* They say it once, and as the RPC does.                                  *)
LEMMA FragmentsSay ==
  ASSUME NEW plain \in Plains, NEW list, Holds(list, plain, Len(plain)), NEW t, NEW a,
         \A m \in 1..Len(plain) : plain[m].topic = t => plain[m].action = a
  PROVE  Tidy(list, t, a)
<1>1. /\ \A i, j : At(list, i, j) => \E m \in 1..Len(plain) : Entry(list, i, j) = plain[m]
      /\ \A i, j, p, q : At(list, i, j) /\ At(list, p, q)
                     /\ Entry(list, i, j).topic = Entry(list, p, q).topic => i = p /\ j = q
  BY DEF Holds
<1>2. ASSUME NEW i, NEW j, At(list, i, j), Entry(list, i, j).topic = t
      PROVE  Entry(list, i, j).action = a
  BY <1>1, <1>2
<1>3. ASSUME NEW i, NEW j, NEW p, NEW q, At(list, i, j), At(list, p, q),
             Entry(list, i, j).topic = t, Entry(list, p, q).topic = t
      PROVE  i = p /\ j = q
  <2>1. Entry(list, i, j).topic = Entry(list, p, q).topic
    BY <1>3
  <2>. QED  BY <1>1, <1>3, <2>1
<1>. QED  BY <1>2, <1>3 DEF Tidy

(* The announcement of a change.                                           *)
LEMMA ChangeAnnounced ==
  ASSUME NEW t \in Topics, NEW a \in {"Subscribe", "Unsubscribe"},
         NEW s, s = [topic |-> t, action |-> a],
         ~TooLarge(Change(s), MaxTransmit)
  PROVE  LET list == Fragments(Change(s), MaxTransmit)
         IN /\ list \in Lists /\ AllFit(list)
            /\ \A u : Mentions(list, u) <=> u = t
            /\ Tidy(list, t, a)
<1> DEFINE o == Object(s)
           plain == <<o>>
           list == Fragments(IntoProto(plain, <<>>), MaxTransmit)
<1>1. o = [topic |-> t, action |-> a, size |-> SizeOf[t]]
  BY DEF Object
<1>2. SizeOf[t] \in Nat
  BY SizesAssumption
<1>3. o \in Announcements /\ o.topic = t /\ o.action = a
  <2> DEFINE size == SizeOf[t]
  <2> HIDE DEF size, o
  <2>1. o = [topic |-> t, action |-> a, size |-> size]
    BY <1>1 DEF size
  <2>2. size \in Nat
    BY <1>2 DEF size
  <2>3. o.topic = t /\ o.action = a
    BY <2>1
  <2>. QED  BY <2>1, <2>2, <2>3 DEF Announcements
<1> HIDE DEF o
<1>4. plain \in Plains /\ Len(plain) = 1 /\ plain[1] = o
  BY <1>3 DEF Plains
<1>5. /\ ~TooLarge(IntoProto(plain, <<>>), MaxTransmit)
      /\ Fragments(Change(s), MaxTransmit) = list
  BY DEF Change, o
<1> HIDE DEF plain
<1>6. \A m : m \in 1..Len(plain) <=> m = 1
  BY <1>4
<1>7. Distinct(plain)
  BY <1>6 DEF Distinct
<1>8. Holds(list, plain, Len(plain))
  BY <1>4, <1>5, <1>7, FragmentsHold
<1> HIDE DEF list
<1>9. \A u : \A m \in 1..Len(plain) : plain[m].topic = u => plain[m].action = a
  BY <1>3, <1>4, <1>6
<1>10. \A u : Mentions(list, u) <=> \E m \in 1..Len(plain) : plain[m].topic = u
  BY <1>4, <1>8, FragmentsMention
<1>11. \A u : Mentions(list, u) <=> u = t
  BY <1>3, <1>4, <1>6, <1>10
<1>12. Tidy(list, t, a)
  BY <1>4, <1>8, <1>9, FragmentsSay
<1>13. list \in Lists /\ AllFit(list)
  BY <1>8 DEF Holds
<1>. QED  BY <1>5, <1>11, <1>12, <1>13

(* The greeting announces exactly our topics, each once.                   *)
LEMMA GreetingAnnounced ==
  ASSUME NEW T \in SUBSET Topics, NEW order \in SetToSeqs(T),
         ~TooLarge(Greeting(order), MaxTransmit)
  PROVE  LET list == Fragments(Greeting(order), MaxTransmit)
         IN /\ list \in Lists /\ AllFit(list)
            /\ \A u : Mentions(list, u) <=> u \in T
            /\ \A u : Tidy(list, u, "Subscribe")
<1> DEFINE n == Cardinality(T)
           plain == [i \in DOMAIN order |-> Object(Subscribed(order[i]))]
           list == Fragments(IntoProto(plain, <<>>), MaxTransmit)
<1>1. IsFiniteSet(T) /\ n \in Nat
  BY SizesAssumption, FS_Subset, FS_CardinalityType
<1>2. order \in [1..n -> T] /\ \A i, j \in 1..n : i # j => order[i] # order[j]
  BY DEF SetToSeqs
<1>3. order \in Surjection(1..n, T)
  <2>1. order \in Injection(1..n, T)
    BY <1>2 DEF Injection, IsInjective
  <2>2. Cardinality(1..n) = n
    BY <1>1, FS_Interval
  <2>3. Cardinality(1..n) = Cardinality(T) <=> order \in Surjection(1..n, T)
    BY <1>1, <2>1, FS_Injection
  <2>. QED  BY <2>2, <2>3
<1>4. \A u \in T : \E i \in 1..n : order[i] = u
  BY <1>3 DEF Surjection
<1> HIDE DEF n
<1>0. Greeting(order) = IntoProto(plain, <<>>)
  BY DEF Greeting
<1>5. plain = [i \in 1..n |-> Object(Subscribed(order[i]))]
  BY <1>2
<1>6. ASSUME NEW i \in 1..n
      PROVE  /\ plain[i] \in Announcements /\ plain[i].topic = order[i]
             /\ plain[i].action = "Subscribe"
  <2>1. order[i] \in Topics /\ SizeOf[order[i]] \in Nat
    BY <1>2, SizesAssumption
  <2>2. plain[i] = [topic |-> order[i], action |-> "Subscribe",
                  size |-> SizeOf[order[i]]]
    BY <1>5 DEF Object, Subscribed
  <2>. QED  BY <2>1, <2>2 DEF Announcements
<1> HIDE DEF plain
<1>7. plain \in Plains /\ Len(plain) = n
  <2>1. plain \in [1..n -> Announcements]
    BY <1>5, <1>6
  <2>. QED  BY <1>1, <2>1 DEF Plains
<1>8. Distinct(plain)
  <2> SUFFICES ASSUME NEW i \in 1..n, NEW j \in 1..n, plain[i].topic = plain[j].topic
               PROVE  i = j
    BY <1>7 DEF Distinct
  <2>. QED  BY <1>2, <1>6
<1>9. Holds(list, plain, Len(plain))
  BY <1>0, <1>7, <1>8, FragmentsHold
<1> HIDE DEF list
<1>10. \A u : \A m \in 1..Len(plain) : plain[m].topic = u => plain[m].action = "Subscribe"
  BY <1>6, <1>7
<1>11. \A u : Mentions(list, u) <=> \E m \in 1..Len(plain) : plain[m].topic = u
  BY <1>7, <1>9, FragmentsMention
<1>12. \A u : Mentions(list, u) <=> u \in T
  <2>1. \A i \in 1..n : order[i] \in T
    BY <1>2
  <2>. QED  BY <1>4, <1>6, <1>7, <1>11, <2>1
<1>13. \A u : Tidy(list, u, "Subscribe")
  BY <1>7, <1>9, <1>10, FragmentsSay
<1>14. list \in Lists /\ AllFit(list)
  BY <1>9 DEF Holds
<1>. QED  BY <1>0, <1>12, <1>13, <1>14 DEF list

(***************************************************************************)
(* The remote peer's view.                                                 *)
(***************************************************************************)

Subscriptions == [topic : Topics, action : {"Subscribe", "Unsubscribe"}]

(* One step of Deduplicate.                                                *)
Entered(kept, s) ==
  LET old == {k \in kept : k.topic = s.topic} IN
  IF old = {} THEN kept \cup {s} ELSE IF s \in old THEN kept ELSE kept \ old

(* The sets that the fold of Deduplicate goes through.                     *)
LEMMA DeduplicateChain ==
  ASSUME NEW s \in Seq(Subscriptions)
  PROVE  \E g : /\ g[0] = {} /\ Deduplicate(s) = g[Len(s)]
                /\ \A k \in 1..Len(s) : g[k] = Entered(g[k - 1], s[k])
<1> DEFINE n == Len(s)
           P == SUBSET (1..n)
           V == SUBSET Subscriptions
           step == [i \in 1..n |-> [v \in V |-> Entered(v, s[i])]]
           Eq(F) == F = [T \in P |-> IF T = {} THEN {}
                          ELSE Entered(F[T \ {Max(T)}], s[Max(T)])]
<1>0. n \in Nat /\ DOMAIN s = 1..n
  BY LenProperties
<1>1. \A i \in 1..n : s[i] \in Subscriptions
  BY ElementOfSeq
<1>2. \A i \in 1..n : \A v \in V : Entered(v, s[i]) \in V
  BY <1>1 DEF Entered
<1>3. {} \in V
  OBVIOUS
<1> HIDE DEF n, V
<1>4. PICK F \in [P -> V] : IsFold(n, {}, step, F)
  <2>1. \A i \in 1..n : \A v \in V : step[i][v] \in V
    BY <1>2
  <2> HIDE DEF step
  <2>2. Foldable(n, V, {}, step)
    BY <1>0, <1>3, <2>1 DEF Foldable
  <2>. QED  BY <2>2, FoldExists
<1>5. ASSUME NEW T \in P, T # {}
      PROVE  step[Max(T)][F[T \ {Max(T)}]] = Entered(F[T \ {Max(T)}], s[Max(T)])
  <2>1. Max(T) \in 1..n /\ T \ {Max(T)} \in P
    BY <1>0, <1>5, MaxOf
  <2>2. F[T \ {Max(T)}] \in V
    BY <2>1
  <2>. QED  BY <2>1, <2>2
<1> HIDE DEF step
<1>6. Eq(F)
  <2>1. F = [T \in P |-> F[T]]
    OBVIOUS
  <2>. QED  BY <1>4, <1>5, <2>1 DEF IsFold
<1> DEFINE G == CHOOSE H : Eq(H)
<1>7. Eq(G)
  <2> HIDE DEF Eq
  <2>. QED  BY <1>6, Zenon
<1>8. Deduplicate(s) = G[1..n]
  BY <1>0 DEF Deduplicate, FoldLeft, MapThenFoldSet, Entered
<1> HIDE DEF G
<1> DEFINE g == [k \in 0..n |-> G[1..k]]
<1>9. g[0] = {}
  <2>1. 1..0 = {} /\ {} \in P /\ 0 \in 0..n
    BY <1>0
  <2>. QED  BY <2>1, <1>7
<1>10. g[n] = G[1..n]
  BY <1>0
<1>11. ASSUME NEW k \in 1..n PROVE g[k] = Entered(g[k - 1], s[k])
  <2>1. k \in 0..n /\ k - 1 \in 0..n
    BY <1>0
  <2>2. /\ 1..k \in P /\ 1..k # {} /\ Max(1..k) = k
        /\ (1..k) \ {Max(1..k)} = 1..(k - 1)
    BY <1>0, PrefixMax
  <2>3. G[1..k] = Entered(G[1..(k - 1)], s[k])
    BY <1>7, <2>2
  <2>. QED  BY <2>1, <2>3
<1> HIDE DEF g
<1>12. /\ g[0] = {} /\ Deduplicate(s) = g[Len(s)]
       /\ \A k \in 1..Len(s) : g[k] = Entered(g[k - 1], s[k])
  BY <1>8, <1>9, <1>10, <1>11 DEF n
<1>. QED  BY <1>12

(* Of a topic that a request names once at most, Deduplicate keeps what it *)
(* says.                                                                   *)
LEMMA DeduplicateKeeps ==
  ASSUME NEW s \in Seq(Subscriptions), NEW t,
         \A i, j \in 1..Len(s) : s[i].topic = t /\ s[j].topic = t => i = j
  PROVE  \A x : x \in Deduplicate(s) /\ x.topic = t <=>
                  x.topic = t /\ \E m \in 1..Len(s) : s[m] = x
<1> DEFINE n == Len(s)
           About(k, x) == x.topic = t /\ \E m \in 1..k : s[m] = x
<1>0. n \in Nat
  BY LenProperties
<1>1. PICK g : /\ g[0] = {} /\ Deduplicate(s) = g[n]
               /\ \A k \in 1..n : g[k] = Entered(g[k - 1], s[k])
  BY DeduplicateChain
<1> HIDE DEF n
<1> DEFINE Right(k) == \A x : x \in g[k] /\ x.topic = t <=> About(k, x)
           S == {k \in 0..n : Right(k)}
<1>2. 0 \in S
  <2>1. 0 \in 0..n
    BY <1>0
  <2>2. 1..0 = {}
    OBVIOUS
  <2>3. Right(0)
    BY <1>1, <2>2
  <2>. QED  BY <2>1, <2>3
<1>3. ASSUME NEW k \in 1..n, k - 1 \in S PROVE k \in S
  <2>1. k \in 0..n /\ k \in Nat /\ k - 1 \in Nat
    BY <1>0
  <2>2. Right(k - 1)
    BY <1>3
  <2>3. g[k] = Entered(g[k - 1], s[k])
    BY <1>1
  <2> DEFINE o == s[k]
             old == {x \in g[k - 1] : x.topic = o.topic}
  <2>4. g[k] = IF old = {} THEN g[k - 1] \cup {o}
               ELSE IF o \in old THEN g[k - 1] ELSE g[k - 1] \ old
    BY <2>3 DEF Entered
  <2>5. \A m : m \in 1..k <=> m \in 1..(k - 1) \/ m = k
    BY <2>1
  <2>6. CASE o.topic = t
    <3>1. \A m \in 1..(k - 1) : s[m].topic # t
      <4> SUFFICES ASSUME NEW m \in 1..(k - 1), s[m].topic = t PROVE FALSE
        OBVIOUS
      <4>1. m \in 1..n /\ m # k
        BY <1>0
      <4>. QED  BY <2>6, <4>1 DEF n
    <3>2. \A x : ~(x \in g[k - 1] /\ x.topic = t)
      BY <2>2, <3>1
    <3>3. old = {}
      BY <2>6, <3>2
    <3>4. g[k] = g[k - 1] \cup {o}
      BY <2>4, <3>3
    <3> HIDE DEF old
    <3>5. ASSUME NEW x PROVE x \in g[k] /\ x.topic = t <=> About(k, x)
      <4>1. x \in g[k] /\ x.topic = t <=> x = o /\ x.topic = t
        BY <2>6, <3>2, <3>4
      <4>2. About(k, x) <=> x = o /\ x.topic = t
        BY <2>5, <2>6, <3>1
      <4>. QED  BY <4>1, <4>2
    <3>. QED  BY <2>1, <3>5
  <2>7. CASE o.topic # t
    <3>1. ASSUME NEW x PROVE x \in g[k] /\ x.topic = t <=> x \in g[k - 1] /\ x.topic = t
      BY <2>4, <2>7
    <3>2. ASSUME NEW x PROVE About(k, x) <=> About(k - 1, x)
      BY <2>5, <2>7
    <3> HIDE DEF About
    <3>3. Right(k)
      BY <2>2, <3>1, <3>2
    <3>. QED  BY <2>1, <3>3
  <2>. QED  BY <2>6, <2>7
<1>4. n \in S
  <2> HIDE DEF S
  <2>1. \A k \in 0..n : k \in S
    BY <1>0, <1>2, <1>3, Induction
  <2>. QED  BY <1>0, <2>1
<1>. QED  BY <1>1, <1>4 DEF n

(* A list of one RPC.                                                      *)
LEMMA SingleList ==
  ASSUME NEW rpc \in Rpcs
  PROVE  /\ <<rpc>> \in Lists /\ <<rpc>>[1] = rpc
         /\ \A i, j : At(<<rpc>>, i, j) <=> i = 1 /\ j \in 1..Len(rpc.plain)
         /\ \A j : Entry(<<rpc>>, 1, j) = rpc.plain[j]
<1> DEFINE list == <<rpc>>
<1>1. list \in Lists /\ Len(list) = 1 /\ list[1] = rpc
  BY DEF Lists
<1>2. \A i : i \in 1..1 <=> i = 1
  OBVIOUS
<1> HIDE DEF list
<1>3. /\ \A i, j : At(list, i, j) <=> i = 1 /\ j \in 1..Len(rpc.plain)
      /\ \A j : Entry(list, 1, j) = rpc.plain[j]
  BY <1>1, <1>2 DEF At, Entry
<1>. QED  BY <1>1, <1>3 DEF list

(* What becomes of an allowed topic when a request is accepted that is     *)
(* tidy about it: the peer is taken at its word.                           *)
LEMMA ReceivedTopic ==
  ASSUME NEW rpc \in Rpcs, NEW f, NEW current, NEW t, t \in f.allowed,
         NEW a \in {"Subscribe", "Unsubscribe"}, Tidy(<<rpc>>, t, a),
         Acceptable(f, SubscriptionsOf(rpc), current)
  PROVE  t \in TopicsAfter(f, SubscriptionsOf(rpc), current) <=>
           IF Mentions(<<rpc>>, t) THEN a = "Subscribe" ELSE t \in current
<1> DEFINE req == SubscriptionsOf(rpc)
           plain == rpc.plain
           n == Len(plain)
           D == Deduplicate(req)
           kept == AllowedSubscriptions(f, D)
<1>0. plain \in Plains /\ n \in Nat /\ DOMAIN plain = 1..n
  <2>1. plain \in Plains
    BY RpcLength
  <2>. QED  BY <2>1, LenProperties DEF Plains
<1>1. /\ req \in Seq(Subscriptions) /\ Len(req) = n
      /\ \A i \in 1..n : req[i].topic = plain[i].topic /\ req[i].action = plain[i].action
  <2>1. req = [i \in 1..n |-> [topic |-> plain[i].topic, action |-> plain[i].action]]
    BY <1>0 DEF SubscriptionsOf
  <2>2. ASSUME NEW i \in 1..n
        PROVE  /\ req[i] \in Subscriptions
               /\ req[i].topic = plain[i].topic /\ req[i].action = plain[i].action
    <3>1. plain[i] \in Announcements
      BY <1>0, ElementOfSeq DEF Plains
    <3>2. plain[i].topic \in Topics /\ plain[i].action \in {"Subscribe", "Unsubscribe"}
      BY <3>1, ElementFields
    <3>3. req[i] = [topic |-> plain[i].topic, action |-> plain[i].action]
      BY <2>1
    <3>. QED  BY <3>2, <3>3 DEF Subscriptions
  <2> HIDE DEF req, n, plain
  <2>3. req \in [1..n -> Subscriptions]
    BY <2>1, <2>2
  <2>. QED  BY <1>0, <2>2, <2>3
<1> HIDE DEF req, n, D, plain
<1>2. /\ \A i, j \in 1..n : plain[i].topic = t /\ plain[j].topic = t => i = j
      /\ \A i \in 1..n : plain[i].topic = t => plain[i].action = a
      /\ Mentions(<<rpc>>, t) <=> \E i \in 1..n : plain[i].topic = t
  <2> DEFINE list == <<rpc>>
  <2>1. /\ \A i, j : At(list, i, j) <=> i = 1 /\ j \in 1..n
        /\ \A j : Entry(list, 1, j) = plain[j]
    BY SingleList DEF n, plain
  <2>2. Tidy(list, t, a)
    OBVIOUS
  <2> HIDE DEF list
  <2>3. \A i \in 1..n : At(list, 1, i) /\ Entry(list, 1, i) = plain[i]
    BY <2>1
  <2>4. \A i, j \in 1..n : plain[i].topic = t /\ plain[j].topic = t => i = j
    BY <2>2, <2>3 DEF Tidy
  <2>5. \A i \in 1..n : plain[i].topic = t => plain[i].action = a
    BY <2>2, <2>3 DEF Tidy
  <2>6. Mentions(list, t) <=> \E i \in 1..n : plain[i].topic = t
    BY <2>1 DEF Mentions
  <2>. QED  BY <2>4, <2>5, <2>6 DEF list
<1>3. \A x : x \in D /\ x.topic = t <=> x.topic = t /\ \E m \in 1..n : req[m] = x
  <2>1. \A i, j \in 1..Len(req) : req[i].topic = t /\ req[j].topic = t => i = j
    BY <1>1, <1>2
  <2>2. \A x : x \in Deduplicate(req) /\ x.topic = t <=>
                  x.topic = t /\ \E m \in 1..Len(req) : req[m] = x
    BY <1>1, <2>1, DeduplicateKeeps
  <2>. QED  BY <1>1, <2>2 DEF D
<1>4. \A x : x \in kept /\ x.topic = t <=> x \in D /\ x.topic = t
  BY DEF AllowedSubscriptions
<1>5. TopicsAfter(f, req, current) =
        (current \cup {s.topic : s \in {k \in kept : k.action = "Subscribe"}})
          \ {s.topic : s \in {k \in kept : k.action = "Unsubscribe"}}
  BY DEF TopicsAfter, req, D
<1> HIDE DEF kept
<1>6. t \in TopicsAfter(f, req, current) <=>
        /\ t \in current \/ \E x \in kept : x.action = "Subscribe" /\ x.topic = t
        /\ ~\E x \in kept : x.action = "Unsubscribe" /\ x.topic = t
  BY <1>5
<1>7. CASE Mentions(<<rpc>>, t)
  <2>1. PICK i \in 1..n : plain[i].topic = t
    BY <1>2, <1>7
  <2>2. req[i].topic = t /\ req[i].action = a
    BY <1>1, <1>2, <2>1
  <2>3. req[i] \in kept
    BY <1>3, <1>4, <2>2
  <2>4. ASSUME NEW x \in kept, x.topic = t PROVE x = req[i]
    <3>1. PICK m \in 1..n : req[m] = x
      BY <1>3, <1>4, <2>4
    <3>2. plain[m].topic = t
      BY <1>1, <2>4, <3>1
    <3>3. m = i
      BY <1>2, <2>1, <3>2
    <3>. QED  BY <3>1, <3>3
  <2>5. (\E x \in kept : x.action = "Subscribe" /\ x.topic = t) <=> a = "Subscribe"
    BY <2>2, <2>3, <2>4
  <2>6. (\E x \in kept : x.action = "Unsubscribe" /\ x.topic = t) <=> a = "Unsubscribe"
    BY <2>2, <2>3, <2>4
  <2>7. "Subscribe" # "Unsubscribe"
    OBVIOUS
  <2>. QED  BY <1>6, <1>7, <2>5, <2>6, <2>7 DEF req
<1>8. CASE ~Mentions(<<rpc>>, t)
  <2>1. \A x \in kept : x.topic # t
    <3> SUFFICES ASSUME NEW x \in kept, x.topic = t PROVE FALSE
      OBVIOUS
    <3>1. PICK m \in 1..n : req[m] = x
      BY <1>3, <1>4
    <3>2. plain[m].topic = t
      BY <1>1, <3>1
    <3>. QED  BY <1>2, <1>8, <3>2
  <2>. QED  BY <1>6, <1>8, <2>1 DEF req
<1>. QED  BY <1>7, <1>8

(* A list without RPCs.                                                    *)
LEMMA EmptyList ==
  /\ <<>> \in Lists /\ AllFit(<<>>)
  /\ \A t : ~Mentions(<<>>, t)
  /\ \A t, a : Tidy(<<>>, t, a)
<1>1. <<>> \in Lists /\ DOMAIN <<>> = {}
  BY DEF Lists
<1>2. AllFit(<<>>)
  BY <1>1 DEF AllFit
<1>3. \A i, j : ~At(<<>>, i, j)
  BY DEF At
<1>. QED  BY <1>1, <1>2, <1>3 DEF Mentions, Tidy

(* The ends of a list.                                                     *)
LEMMA SplitLast ==
  ASSUME NEW list \in Lists, list # <<>>
  PROVE  /\ Front(list) \in Lists /\ Last(list) \in Rpcs
         /\ <<Last(list)>> \in Lists
         /\ list = Front(list) \o <<Last(list)>>
<1>1. PICK s \in Lists, r \in Rpcs : list = Append(s, r)
  BY SequenceEmptyOrAppend DEF Lists
<1>2. Len(s) \in Nat /\ Len(list) = Len(s) + 1 /\ list[Len(s) + 1] = r
  BY <1>1, AppendProperties, LenProperties DEF Lists
<1>3. Last(list) = r
  BY <1>2 DEF Last
<1>4. Front(list) = s
  <2>1. Len(list) - 1 = Len(s)
    BY <1>2
  <2>2. SubSeq(list, 1, Len(s)) = s
    BY <1>1 DEF Lists
  <2>. QED  BY <2>1, <2>2 DEF Front
<1>5. list = s \o <<r>>
  BY <1>1, AppendIsConcat DEF Lists
<1>. QED  BY <1>3, <1>4, <1>5, SingleList

(* The same, from its head.                                                *)
LEMMA SplitHead ==
  ASSUME NEW list \in Lists, list # <<>>
  PROVE  /\ Tail(list) \in Lists /\ Head(list) \in Rpcs
         /\ <<Head(list)>> \in Lists
         /\ list = <<Head(list)>> \o Tail(list)
<1>1. Tail(list) \in Lists /\ Head(list) \in Rpcs
  BY HeadTailProperties DEF Lists
<1>2. list = <<Head(list)>> \o Tail(list)
  BY DEF Lists
<1>. QED  BY <1>1, <1>2, SingleList

(***************************************************************************)
(* The state, and the lengths of what is queued.                           *)
(***************************************************************************)

(* Types; and what is queued fits, and is queued for open connections.     *)
AnnounceTypes ==
  /\ subs \in SUBSET Topics /\ conns \in SUBSET Conns /\ remote \in SUBSET Conns
  /\ queue \in [Conns -> Lists] /\ wire \in [Conns -> Lists]
  /\ filter \in Filters

QueuesFit ==
  \A c \in Conns : AllFit(queue[c]) /\ (c \notin conns => queue[c] = <<>>)

(* Queues that change at one connection.                                   *)
LEMMA QueueChanged ==
  ASSUME AnnounceTypes, QueuesFit, NEW c \in Conns,
         NEW list \in Lists, AllFit(list), queue' = [queue EXCEPT ![c] = list],
         conns' \in SUBSET Conns, \A d \in Conns : d # c /\ d \notin conns' => d \notin conns,
         c \notin conns' => list = <<>>
  PROVE  queue' \in [Conns -> Lists] /\ QueuesFit'
<1>1. queue' \in [Conns -> Lists]
  BY DEF AnnounceTypes
<1>2. queue'[c] = list /\ \A d \in Conns : d # c => queue'[d] = queue[d]
  BY DEF AnnounceTypes
<1>. QED  BY <1>1, <1>2 DEF QueuesFit

(* The fragments of a change, as Send leaves them.                         *)
LEMMA ChangeFits ==
  ASSUME AnnounceTypes, QueuesFit, NEW t \in Topics,
         NEW a \in {"Subscribe", "Unsubscribe"},
         NEW s, s = [topic |-> t, action |-> a], NEW topics \in SUBSET Topics,
         AnnounceChange(s, topics),
         UNCHANGED <<conns, remote, wire, filter>>
  PROVE  AnnounceTypes' /\ QueuesFit'
<1>1. CASE conns = {} /\ subs' = topics /\ UNCHANGED <<queue, unsure>>
  BY <1>1 DEF AnnounceTypes, QueuesFit
<1>2. ASSUME NEW c \in conns,
             ~TooLarge(Change(s), MaxTransmit), subs' = topics,
             Send(c, Fragments(Change(s), MaxTransmit))
      PROVE  AnnounceTypes' /\ QueuesFit'
  <2> DEFINE new == Fragments(Change(s), MaxTransmit)
  <2>1. new \in Lists /\ AllFit(new)
    BY <1>2, ChangeAnnounced
  <2> HIDE DEF new
  <2>2. c \in Conns /\ queue[c] \in Lists /\ AllFit(queue[c])
    BY DEF AnnounceTypes, QueuesFit
  <2>3. CASE queue' = queue
    BY <1>2, <2>3 DEF AnnounceTypes, QueuesFit
  <2>4. CASE queue' = [queue EXCEPT ![c] = @ \o new]
    <3> DEFINE list == queue[c] \o new
    <3>1. list \in Lists
      BY <2>1, <2>2, ConcatMentions
    <3>2. AllFit(list)
      BY <2>1, <2>2, ConcatFit
    <3> HIDE DEF list
    <3>3. queue' = [queue EXCEPT ![c] = list]
      BY <2>4 DEF list
    <3>4. conns' = conns /\ conns' \in SUBSET Conns
      BY DEF AnnounceTypes
    <3>5. queue' \in [Conns -> Lists] /\ QueuesFit'
      BY <2>2, <3>1, <3>2, <3>3, <3>4, QueueChanged
    <3>. QED  BY <1>2, <3>4, <3>5 DEF AnnounceTypes
  <2>. QED  BY <1>2, <2>3, <2>4 DEF Send, new
<1>. QED  BY <1>1, <1>2 DEF AnnounceChange

(* Every step preserves both.                                              *)
LEMMA FitStep ==
  ASSUME AnnounceTypes, QueuesFit, [Next]_vars
  PROVE  AnnounceTypes' /\ QueuesFit'
<1>1. ASSUME NEW t \in Topics, Subscribe(t) PROVE AnnounceTypes' /\ QueuesFit'
  <2>1. /\ AnnounceChange(Subscribed(t), subs \cup {t})
        /\ UNCHANGED <<conns, remote, wire, filter>>
    BY <1>1 DEF Subscribe
  <2>2. subs \cup {t} \in SUBSET Topics
    BY DEF AnnounceTypes
  <2>3. Subscribed(t) = [topic |-> t, action |-> "Subscribe"]
    BY DEF Subscribed
  <2>. QED  BY <2>1, <2>2, <2>3, ChangeFits
<1>2. ASSUME NEW t \in Topics, Unsubscribe(t) PROVE AnnounceTypes' /\ QueuesFit'
  <2>1. /\ AnnounceChange(Unsubscribed(t), subs \ {t})
        /\ UNCHANGED <<conns, remote, wire, filter>>
    BY <1>2 DEF Unsubscribe
  <2>2. subs \ {t} \in SUBSET Topics
    BY DEF AnnounceTypes
  <2>3. Unsubscribed(t) = [topic |-> t, action |-> "Unsubscribe"]
    BY DEF Unsubscribed
  <2>. QED  BY <2>1, <2>2, <2>3, ChangeFits
<1>3. CASE Blacklist
  BY <1>3 DEF Blacklist, connVars, AnnounceTypes, QueuesFit
<1>4. ASSUME NEW c \in Conns, ConnectionEstablished(c)
      PROVE  AnnounceTypes' /\ QueuesFit'
  <2>1. /\ conns' = conns \cup {c} /\ remote' = remote \cup {c}
        /\ UNCHANGED <<subs, wire, filter>>
    BY <1>4 DEF ConnectionEstablished
  <2>2. \E order \in SetToSeqs(subs) :
          \/ /\ ~TooLarge(Greeting(order), MaxTransmit)
             /\ queue' = [queue EXCEPT ![c] = Fragments(Greeting(order), MaxTransmit)]
          \/ queue' = [queue EXCEPT ![c] = <<>>]
    BY <1>4 DEF ConnectionEstablished
  <2>3. PICK list \in Lists : AllFit(list) /\ queue' = [queue EXCEPT ![c] = list]
    <3>1. PICK order \in SetToSeqs(subs) :
            \/ /\ ~TooLarge(Greeting(order), MaxTransmit)
               /\ queue' = [queue EXCEPT ![c] = Fragments(Greeting(order), MaxTransmit)]
            \/ queue' = [queue EXCEPT ![c] = <<>>]
      BY <2>2
    <3>2. CASE queue' = [queue EXCEPT ![c] = <<>>]
      BY <3>2, EmptyList
    <3>3. CASE /\ ~TooLarge(Greeting(order), MaxTransmit)
               /\ queue' = [queue EXCEPT ![c] = Fragments(Greeting(order), MaxTransmit)]
      <4>1. subs \in SUBSET Topics
        BY DEF AnnounceTypes
      <4>2. /\ Fragments(Greeting(order), MaxTransmit) \in Lists
            /\ AllFit(Fragments(Greeting(order), MaxTransmit))
        BY <3>3, <4>1, GreetingAnnounced
      <4>. QED  BY <3>3, <4>2
    <3>. QED  BY <3>1, <3>2, <3>3
  <2>4. conns' \in SUBSET Conns /\ remote' \in SUBSET Conns /\ c \in conns'
    BY <2>1 DEF AnnounceTypes
  <2>5. queue' \in [Conns -> Lists] /\ QueuesFit'
    BY <2>1, <2>3, <2>4, QueueChanged
  <2>. QED  BY <2>1, <2>4, <2>5 DEF AnnounceTypes
<1>5. ASSUME NEW c \in Conns, ConnectionClosed(c) PROVE AnnounceTypes' /\ QueuesFit'
  <2>1. /\ conns' = conns \ {c} /\ queue' = [queue EXCEPT ![c] = <<>>]
        /\ UNCHANGED <<subs, remote, wire, filter>>
    BY <1>5 DEF ConnectionClosed
  <2>2. conns' \in SUBSET Conns
    BY <2>1 DEF AnnounceTypes
  <2>3. queue' \in [Conns -> Lists] /\ QueuesFit'
    BY <2>1, <2>2, QueueChanged, EmptyList
  <2>. QED  BY <2>1, <2>2, <2>3 DEF AnnounceTypes
<1>6. ASSUME NEW c \in Conns, RemoteClosed(c) PROVE AnnounceTypes' /\ QueuesFit'
  <2>1. /\ remote' = remote \ {c} /\ wire' = [wire EXCEPT ![c] = <<>>]
        /\ UNCHANGED <<subs, conns, queue, filter>>
    BY <1>6 DEF RemoteClosed
  <2>2. wire' \in [Conns -> Lists]
    BY <2>1, EmptyList DEF AnnounceTypes
  <2>. QED  BY <2>1, <2>2 DEF AnnounceTypes, QueuesFit
<1>7. ASSUME NEW c \in Conns, Negotiated(c) PROVE AnnounceTypes' /\ QueuesFit'
  BY <1>7 DEF Negotiated, AnnounceTypes, QueuesFit
<1>8. ASSUME NEW c \in Conns, Transmit(c) PROVE AnnounceTypes' /\ QueuesFit'
  <2> DEFINE rpc == Last(queue[c])
             list == Front(queue[c])
  <2>1. queue[c] \in Lists /\ queue[c] # <<>> /\ c \in conns /\ AllFit(queue[c])
    BY <1>8 DEF Transmit, AnnounceTypes, QueuesFit
  <2>2. list \in Lists /\ rpc \in Rpcs /\ <<rpc>> \in Lists /\ queue[c] = list \o <<rpc>>
    BY <2>1, SplitLast
  <2>3. /\ queue' = [queue EXCEPT ![c] = list]
        /\ wire' = wire \/ wire' = [wire EXCEPT ![c] = Append(@, rpc)]
        /\ UNCHANGED <<subs, conns, remote, filter>>
    BY <1>8 DEF Transmit
  <2> HIDE DEF list, rpc
  <2>4. AllFit(list)
    BY <2>1, <2>2, ConcatFit
  <2>5. wire' \in [Conns -> Lists]
    <3>1. wire[c] \in Lists
      BY DEF AnnounceTypes
    <3>2. Append(wire[c], rpc) \in Lists
      BY <2>2, <3>1, AppendProperties DEF Lists
    <3>. QED  BY <2>3, <3>2 DEF AnnounceTypes
  <2>6. conns' = conns /\ conns' \in SUBSET Conns
    BY <2>3 DEF AnnounceTypes
  <2>7. queue' \in [Conns -> Lists] /\ QueuesFit'
    BY <2>1, <2>2, <2>3, <2>4, <2>6, QueueChanged
  <2>. QED  BY <2>3, <2>5, <2>6, <2>7 DEF AnnounceTypes
<1>9. ASSUME NEW c \in Conns, SubstreamFails(c) PROVE AnnounceTypes' /\ QueuesFit'
  <2>1. /\ wire' = [wire EXCEPT ![c] = <<>>]
        /\ UNCHANGED <<subs, conns, remote, queue, filter>>
    BY <1>9 DEF SubstreamFails
  <2>2. wire' \in [Conns -> Lists]
    BY <2>1, EmptyList DEF AnnounceTypes
  <2>. QED  BY <2>1, <2>2 DEF AnnounceTypes, QueuesFit
<1>10. ASSUME NEW c \in Conns, HandlerDisabled(c) PROVE AnnounceTypes' /\ QueuesFit'
  <2>1. /\ queue' = [queue EXCEPT ![c] = <<>>] /\ c \in conns
        /\ UNCHANGED <<subs, conns, remote, wire, filter>>
    BY <1>10 DEF HandlerDisabled
  <2>2. conns' = conns /\ conns' \in SUBSET Conns
    BY <2>1 DEF AnnounceTypes
  <2>3. queue' \in [Conns -> Lists] /\ QueuesFit'
    BY <2>1, <2>2, QueueChanged, EmptyList
  <2>. QED  BY <2>1, <2>2, <2>3 DEF AnnounceTypes
<1>11. ASSUME NEW c \in Conns, Receive(c) PROVE AnnounceTypes' /\ QueuesFit'
  <2>1. /\ wire[c] # <<>> /\ wire' = [wire EXCEPT ![c] = Tail(@)]
        /\ UNCHANGED <<subs, conns, remote, queue, filter>>
    BY <1>11 DEF Receive
  <2>2. Tail(wire[c]) \in Lists
    BY <2>1, SplitHead DEF AnnounceTypes
  <2>3. wire' \in [Conns -> Lists]
    BY <2>1, <2>2 DEF AnnounceTypes
  <2>. QED  BY <2>1, <2>3 DEF AnnounceTypes, QueuesFit
<1>12. CASE UNCHANGED vars
  BY <1>12 DEF vars, connVars, AnnounceTypes, QueuesFit
<1>. QED  BY <1>1, <1>2, <1>3, <1>4, <1>5, <1>6, <1>7, <1>8, <1>9, <1>10, <1>11,
             <1>12 DEF Next

(* Initially nothing is queued.                                            *)
LEMMA FitInit == Init => AnnounceTypes /\ QueuesFit
BY EmptyList DEF Init, AnnounceTypes, QueuesFit

(* No RPC that is queued is too long for the codec, except in the three    *)
(* cases of RpcsFit and then by four bytes at most: for all sizes, limits  *)
(* and orders of subscriptions, however create_or_add_rpc divides them,    *)
(* and wherever the empty control field of the conversion ends up.         *)
THEOREM QueuedRpcsFit == Spec => []RpcsFit
<1>1. AnnounceTypes /\ QueuesFit => RpcsFit
  <2> SUFFICES ASSUME AnnounceTypes, QueuesFit, NEW c \in conns,
                      NEW i \in DOMAIN queue[c]
               PROVE  Fit(queue[c][i])
    BY DEF RpcsFit, Fit
  <2>1. c \in Conns
    BY DEF AnnounceTypes
  <2>. QED  BY <2>1 DEF QueuesFit, AllFit
<1>. QED  BY <1>1, FitInit, FitStep, PTL DEF Spec

(***************************************************************************)
(* What is under way, and what the remote peer knows.                      *)
(***************************************************************************)

(* The announcement that is true of a topic, for the topics S.             *)
Word(S, t) == IF t \in S THEN "Subscribe" ELSE "Unsubscribe"

(* Is anything about t under way over connection c, with queues q and      *)
(* wires w?                                                                *)
Travels(q, w, c, t) == Mentions(q[c], t) \/ Mentions(w[c], t)

(* The one announcement of t that is under way, if any, is the truth; if   *)
(* none is, the remote peer knows it.                                      *)
SettledIn(q, w, f, v, S, t) ==
  /\ \A c \in Conns : /\ Tidy(q[c], t, Word(S, t)) /\ Tidy(w[c], t, Word(S, t))
                      /\ ~(Mentions(q[c], t) /\ Mentions(w[c], t))
  /\ \A c, d \in Conns : Travels(q, w, c, t) /\ Travels(q, w, d, t) => c = d
  /\ t \in f.allowed /\ (\A c \in Conns : ~Travels(q, w, c, t)) =>
       (t \in v <=> t \in S)

(* So it is for every topic that is not unsure, while we are connected.    *)
AllSettled ==
  conns # {} => \A t \in Topics \ unsure :
                  SettledIn(queue, wire, filter, view, subs, t)

(* The topics under way, as Travels has them.                              *)
LEMMA UnderWayMeans ==
  ASSUME AnnounceTypes, NEW t
  PROVE  t \in UnderWay <=> \E c \in Conns : Travels(queue, wire, c, t)
<1>1. \A c \in Conns : queue[c] \in Lists /\ wire[c] \in Lists
  BY DEF AnnounceTypes
<1>2. \A c \in Conns : /\ t \in Mentioned(queue[c]) <=> Mentions(queue[c], t)
                       /\ t \in Mentioned(wire[c]) <=> Mentions(wire[c], t)
  BY <1>1, MentionedMeans
<1>3. t \in UnderWay <=> \E c \in Conns : t \in Mentioned(queue[c]) \cup Mentioned(wire[c])
  BY DEF UnderWay
<1>. QED  BY <1>2, <1>3 DEF Travels

(* A change at one connection that adds nothing about t.  If something     *)
(* about t goes, or the remote peer's topics change, the remote peer knows *)
(* the truth.                                                              *)
LEMMA SettledFrame ==
  ASSUME NEW q, NEW w, NEW f, NEW v, NEW S, NEW t, SettledIn(q, w, f, v, S, t),
         NEW q2, NEW w2, NEW v2, NEW S2, NEW c \in Conns,
         \A d \in Conns : d # c => q2[d] = q[d] /\ w2[d] = w[d],
         Tidy(q2[c], t, Word(S, t)), Tidy(w2[c], t, Word(S, t)),
         ~(Mentions(q2[c], t) /\ Mentions(w2[c], t)),
         Travels(q2, w2, c, t) => Travels(q, w, c, t),
         t \in S2 <=> t \in S,
         \/ t \in f.allowed => (t \in v2 <=> t \in S)
         \/ /\ t \in v2 <=> t \in v
            /\ Travels(q, w, c, t) => Travels(q2, w2, c, t)
  PROVE  SettledIn(q2, w2, f, v2, S2, t)
<1>0. Word(S2, t) = Word(S, t)
  BY DEF Word
<1>1. \A d \in Conns : d # c => (Travels(q2, w2, d, t) <=> Travels(q, w, d, t))
  BY DEF Travels
<1>2. ASSUME NEW d \in Conns
      PROVE  /\ Tidy(q2[d], t, Word(S2, t)) /\ Tidy(w2[d], t, Word(S2, t))
             /\ ~(Mentions(q2[d], t) /\ Mentions(w2[d], t))
  BY <1>0 DEF SettledIn
<1>3. \A d \in Conns : Travels(q2, w2, d, t) => Travels(q, w, d, t)
  BY <1>1
<1>4. \A d, e \in Conns : Travels(q2, w2, d, t) /\ Travels(q2, w2, e, t) => d = e
  BY <1>3 DEF SettledIn
<1>5. ASSUME t \in f.allowed, \A d \in Conns : ~Travels(q2, w2, d, t)
      PROVE  t \in v2 <=> t \in S2
  <2>1. CASE t \in f.allowed => (t \in v2 <=> t \in S)
    BY <1>5, <2>1
  <2>2. CASE /\ t \in v2 <=> t \in v
             /\ Travels(q, w, c, t) => Travels(q2, w2, c, t)
    <3>1. \A d \in Conns : ~Travels(q, w, d, t)
      BY <1>1, <1>5, <2>2
    <3>2. t \in v <=> t \in S
      BY <1>5, <3>1 DEF SettledIn
    <3>. QED  BY <2>2, <3>2
  <2>. QED  BY <2>1, <2>2
<1>. QED  BY <1>2, <1>4, <1>5 DEF SettledIn

(* The first announcement of t on its way, or nothing to announce.         *)
LEMMA SettledFresh ==
  ASSUME NEW q, NEW w, NEW f, NEW v, NEW S, NEW t,
         \A d \in Conns : ~Travels(q, w, d, t),
         NEW q2, NEW c \in Conns, \A d \in Conns : d # c => q2[d] = q[d],
         \A d \in Conns : /\ Tidy(q[d], t, Word(S, t))
                          /\ Tidy(w[d], t, Word(S, t)),
         Tidy(q2[c], t, Word(S, t)),
         Mentions(q2[c], t) \/ (t \in v <=> t \in S)
  PROVE  SettledIn(q2, w, f, v, S, t)
<1>1. \A d \in Conns : ~Mentions(w[d], t)
  BY DEF Travels
<1>2. \A d \in Conns : d # c => ~Travels(q2, w, d, t)
  BY DEF Travels
<1>3. \A d \in Conns : /\ Tidy(q2[d], t, Word(S, t)) /\ Tidy(w[d], t, Word(S, t))
                       /\ ~(Mentions(q2[d], t) /\ Mentions(w[d], t))
  BY <1>1
<1>4. \A d, e \in Conns : Travels(q2, w, d, t) /\ Travels(q2, w, e, t) => d = e
  BY <1>2
<1>5. Travels(q2, w, c, t) \/ (t \in v <=> t \in S)
  BY DEF Travels
<1>. QED  BY <1>3, <1>4, <1>5 DEF SettledIn

(* A list that does not mention a topic is tidy about it.                  *)
LEMMA SilentIsTidy ==
  ASSUME NEW list, NEW t, NEW a, ~Mentions(list, t)
  PROVE  Tidy(list, t, a)
BY DEF Mentions, Tidy

(* The announcement of a change.                                           *)
LEMMA ChangeSettled ==
  ASSUME AnnounceTypes, QueuesFit, AllSettled, NEW t \in Topics,
         NEW a \in {"Subscribe", "Unsubscribe"},
         NEW s, s = [topic |-> t, action |-> a], NEW topics \in SUBSET Topics,
         \A u : u # t => (u \in topics <=> u \in subs), a = Word(topics, t),
         AnnounceChange(s, topics),
         UNCHANGED <<conns, remote, wire, filter, view>>
  PROVE  AllSettled'
<1>1. CASE conns = {} /\ subs' = topics /\ UNCHANGED <<queue, unsure>>
  BY <1>1 DEF AllSettled
<1>2. ASSUME NEW c \in conns,
             ~TooLarge(Change(s), MaxTransmit), subs' = topics,
             Send(c, Fragments(Change(s), MaxTransmit)),
             unsure' = IF s.topic \in UnderWay \/ substream[c] = "Disabled"
                       THEN unsure \cup {s.topic} ELSE unsure \ {s.topic}
      PROVE  AllSettled'
  <2> DEFINE new == Fragments(Change(s), MaxTransmit)
  <2>1. /\ new \in Lists /\ \A u : Mentions(new, u) <=> u = t
        /\ Tidy(new, t, a)
    BY <1>2, ChangeAnnounced
  <2>2. queue' = IF substream[c] = "Disabled" THEN queue
                 ELSE [queue EXCEPT ![c] = queue[c] \o new]
    BY <1>2 DEF Send
  <2> HIDE DEF new
  <2>3. s.topic = t
    OBVIOUS
  <2>4. c \in Conns /\ \A d \in Conns : queue[d] \in Lists /\ wire[d] \in Lists
    BY DEF AnnounceTypes
  <2>5. \A d \in Conns : d # c => queue'[d] = queue[d]
    BY <2>2 DEF AnnounceTypes
  <2>6. \A d \in Conns : wire'[d] = wire[d]
    OBVIOUS
  <2>7. ASSUME NEW u \in Topics, u # t, u \notin unsure'
        PROVE  SettledIn(queue', wire', filter', view', subs', u)
    <3>1. u \notin unsure
      BY <1>2, <2>3, <2>7
    <3>2. SettledIn(queue, wire, filter, view, subs, u)
      BY <3>1 DEF AllSettled
    <3>3. /\ Tidy(queue[c], u, Word(subs, u)) /\ Tidy(wire[c], u, Word(subs, u))
          /\ ~(Mentions(queue[c], u) /\ Mentions(wire[c], u))
      BY <2>4, <3>2 DEF SettledIn
    <3>4. /\ Tidy(queue'[c], u, Word(subs, u))
          /\ Mentions(queue'[c], u) <=> Mentions(queue[c], u)
      <4>1. CASE queue' = queue
        BY <3>3, <4>1
      <4>2. CASE queue' = [queue EXCEPT ![c] = queue[c] \o new]
        <5>1. queue'[c] = queue[c] \o new
          BY <2>4, <4>2 DEF AnnounceTypes
        <5>2. ~Mentions(new, u)
          BY <2>1, <2>7
        <5>3. Tidy(new, u, Word(subs, u))
          BY <5>2, SilentIsTidy
        <5>4. Mentions(queue[c] \o new, u) <=> Mentions(queue[c], u)
          BY <2>1, <2>4, <5>2, ConcatMentions
        <5>5. Tidy(queue[c] \o new, u, Word(subs, u))
          BY <2>1, <2>4, <3>3, <5>2, <5>3, ConcatTidy
        <5>. QED  BY <5>1, <5>4, <5>5
      <4>. QED  BY <2>2, <4>1, <4>2
    <3>5. Travels(queue', wire', c, u) <=> Travels(queue, wire, c, u)
      BY <2>4, <2>6, <3>4 DEF Travels
    <3>6. u \in subs' <=> u \in subs
      BY <1>2, <2>7
    <3>7. SettledIn(queue', wire', filter, view', subs', u)
      BY <2>4, <2>5, <2>6, <3>2, <3>3, <3>4, <3>5, <3>6, SettledFrame
    <3>. QED  BY <3>7
  <2>8. ASSUME t \notin unsure'
        PROVE  SettledIn(queue', wire', filter', view', subs', t)
    <3>1. t \notin UnderWay /\ substream[c] # "Disabled"
      BY <1>2, <2>3, <2>8
    <3>2. \A d \in Conns : ~Travels(queue, wire, d, t)
      BY <3>1, UnderWayMeans
    <3>3. \A d \in Conns : ~Mentions(queue[d], t) /\ ~Mentions(wire[d], t)
      BY <3>2 DEF Travels
    <3>4. \A d \in Conns : Tidy(queue[d], t, a) /\ Tidy(wire[d], t, a)
      BY <3>3, SilentIsTidy
    <3>5. queue'[c] = queue[c] \o new
      BY <2>2, <2>4, <3>1 DEF AnnounceTypes
    <3>6. Mentions(queue'[c], t)
      BY <2>1, <2>4, <3>5, ConcatMentions
    <3>7. Tidy(queue'[c], t, a)
      BY <2>1, <2>4, <3>3, <3>4, <3>5, ConcatTidy
    <3>8. a = Word(subs', t)
      BY <1>2
    <3> HIDE DEF Word
    <3>9. SettledIn(queue', wire, filter, view, subs', t)
      BY <2>4, <2>5, <3>2, <3>4, <3>6, <3>7, <3>8, SettledFresh
    <3>. QED  BY <3>9
  <2>. QED  BY <2>7, <2>8 DEF AllSettled
<1>. QED  BY <1>1, <1>2 DEF AnnounceChange

(* A new connection: of the topics that are not unsure, nothing is under   *)
(* way yet but the greeting.                                               *)
LEMMA EstablishedSettled ==
  ASSUME AnnounceTypes, QueuesFit, AllSettled, NEW c \in Conns,
         ConnectionEstablished(c)
  PROVE  AllSettled'
<1>0. c \notin conns /\ UNCHANGED <<subs, wire, filter, view>>
  BY DEF ConnectionEstablished
<1>1. PICK order \in SetToSeqs(subs) :
        LET rpc   == Greeting(order)
            greet == /\ conns = {} /\ ~blacklisted /\ subs # {}
                     /\ ~TooLarge(rpc, MaxTransmit)
        IN /\ queue' = [queue EXCEPT ![c] = IF greet
                          THEN Fragments(rpc, MaxTransmit) ELSE <<>>]
           /\ unsure' = IF conns # {} THEN unsure
                        ELSE UnderWay \cup IF greet THEN view \ subs
                                           ELSE view \cup subs
  BY DEF ConnectionEstablished
<1> DEFINE rpc   == Greeting(order)
           greet == /\ conns = {} /\ ~blacklisted /\ subs # {}
                    /\ ~TooLarge(rpc, MaxTransmit)
           new == IF greet THEN Fragments(rpc, MaxTransmit) ELSE <<>>
<1>2. queue' = [queue EXCEPT ![c] = new]
  BY <1>1
<1>3. queue[c] = <<>>
  BY <1>0 DEF QueuesFit
<1>4. CASE conns # {}
  <2>1. queue' = queue
    <3>1. new = <<>>
      BY <1>4
    <3>. QED  BY <1>2, <1>3, <3>1 DEF AnnounceTypes
  <2>2. unsure' = unsure
    BY <1>1, <1>4
  <2>. QED  BY <1>0, <1>4, <2>1, <2>2 DEF AllSettled
<1>5. CASE conns = {}
  <2>1. unsure' = UnderWay \cup IF greet THEN view \ subs ELSE view \cup subs
    BY <1>1, <1>5
  <2>2. \A u : Tidy(new, u, "Subscribe")
    <3>1. CASE greet
      <4>1. ~TooLarge(rpc, MaxTransmit) /\ subs \in SUBSET Topics
        BY <3>1 DEF AnnounceTypes
      <4>. QED  BY <3>1, <4>1, GreetingAnnounced
    <3>2. CASE ~greet
      BY <3>2, EmptyList
    <3>. QED  BY <3>1, <3>2
  <2>3. \A u : Mentions(new, u) <=> greet /\ u \in subs
    <3>1. CASE greet
      <4>1. ~TooLarge(rpc, MaxTransmit) /\ subs \in SUBSET Topics
        BY <3>1 DEF AnnounceTypes
      <4>2. \A u : Mentions(Fragments(rpc, MaxTransmit), u) <=> u \in subs
        BY <4>1, GreetingAnnounced
      <4>. QED  BY <3>1, <4>2
    <3>2. CASE ~greet
      BY <3>2, EmptyList
    <3>. QED  BY <3>1, <3>2
  <2> HIDE DEF new, greet
  <2> SUFFICES ASSUME NEW u \in Topics, u \notin unsure'
               PROVE  SettledIn(queue', wire', filter', view', subs', u)
    BY DEF AllSettled
  <2> DEFINE a == Word(subs, u)
  <2>4. u \notin UnderWay
    BY <2>1
  <2>5. \A d \in Conns : ~Travels(queue, wire, d, u)
    BY <2>4, UnderWayMeans
  <2>6. \A d \in Conns : ~Mentions(queue[d], u) /\ ~Mentions(wire[d], u)
    BY <2>5 DEF Travels
  <2>7. \A d \in Conns : Tidy(queue[d], u, a) /\ Tidy(wire[d], u, a)
    BY <2>6, SilentIsTidy
  <2>8. queue'[c] = new /\ \A d \in Conns : d # c => queue'[d] = queue[d]
    BY <1>2 DEF AnnounceTypes
  <2>9. Tidy(queue'[c], u, a)
    <3>1. CASE u \in subs
      BY <2>2, <2>8, <3>1 DEF Word
    <3>2. CASE u \notin subs
      BY <2>3, <2>8, <3>2, SilentIsTidy
    <3>. QED  BY <3>1, <3>2
  <2>10. Mentions(queue'[c], u) \/ (u \in view <=> u \in subs)
    BY <2>1, <2>3, <2>8
  <2>11. SettledIn(queue', wire, filter, view, subs, u)
    BY <2>5, <2>7, <2>8, <2>9, <2>10, SettledFresh
  <2>. QED  BY <1>0, <2>11
<1>. QED  BY <1>4, <1>5

(* What is queued for a connection is lost.                                *)
QueueLost(c) ==
  /\ queue' = [queue EXCEPT ![c] = <<>>]
  /\ unsure' = unsure \cup Mentioned(queue[c])
  /\ UNCHANGED <<subs, wire, filter, view>>

(* It leaves every topic that is not unsure settled.                       *)
LEMMA QueueLostSettled ==
  ASSUME AnnounceTypes, AllSettled, NEW c \in Conns, conns # {}, QueueLost(c)
  PROVE  AllSettled'
<1> SUFFICES ASSUME NEW t \in Topics, t \notin unsure'
             PROVE  SettledIn(queue', wire', filter', view', subs', t)
  BY DEF AllSettled
<1>1. SettledIn(queue, wire, filter, view, subs, t)
  BY DEF AllSettled, QueueLost
<1>2. ~Mentions(queue[c], t)
  <2>1. queue[c] \in Lists
    BY DEF AnnounceTypes
  <2>. QED  BY <2>1, MentionedMeans DEF QueueLost
<1>3. queue'[c] = <<>> /\ \A d \in Conns : d # c => queue'[d] = queue[d]
  BY DEF AnnounceTypes, QueueLost
<1>4. Tidy(queue'[c], t, Word(subs, t)) /\ ~Mentions(queue'[c], t)
  BY <1>3, EmptyList
<1>5. Tidy(wire'[c], t, Word(subs, t)) /\ \A d \in Conns : wire'[d] = wire[d]
  BY <1>1 DEF SettledIn, QueueLost
<1>6. Travels(queue', wire', c, t) <=> Travels(queue, wire, c, t)
  BY <1>2, <1>4, <1>5 DEF Travels
<1>7. SettledIn(queue', wire', filter, view', subs', t)
  <2>1. (t \in subs' <=> t \in subs) /\ (t \in view' <=> t \in view)
    BY DEF QueueLost
  <2>2. ~(Mentions(queue'[c], t) /\ Mentions(wire'[c], t))
    BY <1>4
  <2>3. \A d \in Conns : d # c => queue'[d] = queue[d] /\ wire'[d] = wire[d]
    BY <1>3, <1>5
  <2>. QED  BY <1>1, <1>4, <1>5, <1>6, <2>1, <2>2, <2>3, SettledFrame
<1>. QED  BY <1>7 DEF QueueLost

(* What is on the wire of a connection is lost; the remote peer may        *)
(* forget our topics.                                                      *)
WireLost(c) ==
  /\ wire' = [wire EXCEPT ![c] = <<>>]
  /\ unsure \cup Mentioned(wire[c]) \subseteq unsure'
  /\ view' = view \/ (view' = {} /\ subs \subseteq unsure')
  /\ UNCHANGED <<subs, queue, filter>>

(* So does that.                                                           *)
LEMMA WireLostSettled ==
  ASSUME AnnounceTypes, AllSettled, NEW c \in Conns, conns # {}, WireLost(c)
  PROVE  AllSettled'
<1> SUFFICES ASSUME NEW t \in Topics, t \notin unsure'
             PROVE  SettledIn(queue', wire', filter', view', subs', t)
  BY DEF AllSettled
<1>1. SettledIn(queue, wire, filter, view, subs, t)
  BY DEF AllSettled, WireLost
<1>2. ~Mentions(wire[c], t)
  <2>1. wire[c] \in Lists
    BY DEF AnnounceTypes
  <2>. QED  BY <2>1, MentionedMeans DEF WireLost
<1>3. wire'[c] = <<>> /\ \A d \in Conns : d # c => wire'[d] = wire[d]
  BY DEF AnnounceTypes, WireLost
<1>4. Tidy(wire'[c], t, Word(subs, t)) /\ ~Mentions(wire'[c], t)
  BY <1>3, EmptyList
<1>5. Tidy(queue'[c], t, Word(subs, t)) /\ \A d \in Conns : queue'[d] = queue[d]
  BY <1>1 DEF SettledIn, WireLost
<1>6. Travels(queue', wire', c, t) <=> Travels(queue, wire, c, t)
  BY <1>2, <1>4, <1>5 DEF Travels
<1>7. \/ t \in filter.allowed => (t \in view' <=> t \in subs)
      \/ t \in view' <=> t \in view
  BY DEF WireLost
<1>8. SettledIn(queue', wire', filter, view', subs', t)
  <2>1. t \in subs' <=> t \in subs
    BY DEF WireLost
  <2>2. ~(Mentions(queue'[c], t) /\ Mentions(wire'[c], t))
    BY <1>4
  <2>3. \A d \in Conns : d # c => queue'[d] = queue[d] /\ wire'[d] = wire[d]
    BY <1>3, <1>5
  <2>. QED  BY <1>1, <1>4, <1>5, <1>6, <1>7, <2>1, <2>2, <2>3, SettledFrame
<1>. QED  BY <1>8 DEF WireLost

(* A message leaves the end of a queue, for the wire or for nowhere.       *)
LEMMA TransmitSettled ==
  ASSUME AnnounceTypes, AllSettled, NEW c \in Conns, Transmit(c)
  PROVE  AllSettled'
<1> DEFINE rpc  == Last(queue[c])
           list == Front(queue[c])
<1>1. queue[c] \in Lists /\ queue[c] # <<>> /\ c \in conns /\ wire[c] \in Lists
  BY DEF Transmit, AnnounceTypes
<1>2. list \in Lists /\ rpc \in Rpcs /\ <<rpc>> \in Lists /\ queue[c] = list \o <<rpc>>
  BY <1>1, SplitLast
<1>3. /\ queue' = [queue EXCEPT ![c] = list]
      /\ \/ wire' = [wire EXCEPT ![c] = Append(@, rpc)] /\ unsure' = unsure
         \/ wire' = wire /\ unsure' = unsure \cup Mentioned(<<rpc>>)
      /\ UNCHANGED <<subs, conns, filter, view>>
  BY DEF Transmit
<1> HIDE DEF list, rpc
<1> SUFFICES ASSUME NEW t \in Topics, t \notin unsure'
             PROVE  SettledIn(queue', wire', filter', view', subs', t)
  BY DEF AllSettled
<1> DEFINE a == Word(subs, t)
<1>4. SettledIn(queue, wire, filter, view, subs, t)
  BY <1>1, <1>3 DEF AllSettled
<1>5. /\ Tidy(queue[c], t, a) /\ Tidy(wire[c], t, a)
      /\ ~(Mentions(queue[c], t) /\ Mentions(wire[c], t))
  BY <1>4 DEF SettledIn
<1>6. /\ Tidy(list, t, a) /\ Tidy(<<rpc>>, t, a)
      /\ ~(Mentions(list, t) /\ Mentions(<<rpc>>, t))
  BY <1>2, <1>5, ConcatTidy
<1>7. Mentions(queue[c], t) <=> Mentions(list, t) \/ Mentions(<<rpc>>, t)
  BY <1>2, ConcatMentions
<1>8. queue'[c] = list /\ \A d \in Conns : d # c => queue'[d] = queue[d]
  BY <1>3 DEF AnnounceTypes
<1> HIDE DEF a
<1>9. /\ \A d \in Conns : d # c => wire'[d] = wire[d]
      /\ Tidy(wire'[c], t, a)
      /\ Mentions(wire'[c], t) <=> Mentions(wire[c], t) \/ Mentions(<<rpc>>, t)
  <2>1. CASE wire' = [wire EXCEPT ![c] = Append(@, rpc)]
    <3>1. wire'[c] = Append(wire[c], rpc) /\ \A d \in Conns : d # c => wire'[d] = wire[d]
      BY <2>1 DEF AnnounceTypes
    <3>2. Append(wire[c], rpc) = wire[c] \o <<rpc>>
      BY <1>1, <1>2, AppendIsConcat DEF Lists
    <3>3. Mentions(wire'[c], t) <=> Mentions(wire[c], t) \/ Mentions(<<rpc>>, t)
      BY <1>1, <1>2, <3>1, <3>2, ConcatMentions
    <3>4. Tidy(wire'[c], t, a)
      BY <1>1, <1>2, <1>5, <1>6, <1>7, <3>1, <3>2, ConcatTidy
    <3>. QED  BY <3>1, <3>3, <3>4
  <2>2. CASE wire' = wire /\ unsure' = unsure \cup Mentioned(<<rpc>>)
    <3>1. ~Mentions(<<rpc>>, t)
      BY <1>2, <2>2, MentionedMeans
    <3>. QED  BY <1>5, <2>2, <3>1
  <2>. QED  BY <1>3, <2>1, <2>2
<1>10. ~(Mentions(queue'[c], t) /\ Mentions(wire'[c], t))
  BY <1>5, <1>6, <1>7, <1>8, <1>9
<1>11. Travels(queue', wire', c, t) <=> Travels(queue, wire, c, t)
  BY <1>7, <1>8, <1>9 DEF Travels
<1>12. Tidy(queue'[c], t, Word(subs, t)) /\ Tidy(wire'[c], t, Word(subs, t))
  BY <1>6, <1>8, <1>9 DEF a
<1>13. SettledIn(queue', wire', filter, view, subs, t)
  BY <1>4, <1>8, <1>9, <1>10, <1>11, <1>12, SettledFrame
<1>. QED  BY <1>3, <1>13

(* The remote peer receives an RPC, and believes it if it accepts it.      *)
LEMMA ReceiveSettled ==
  ASSUME AnnounceTypes, AllSettled, NEW c \in Conns, conns # {}, Receive(c)
  PROVE  AllSettled'
<1> DEFINE rpc  == Head(wire[c])
           rest == Tail(wire[c])
           request == SubscriptionsOf(rpc)
<1>1. wire[c] \in Lists /\ wire[c] # <<>>
  BY DEF Receive, AnnounceTypes
<1>2. rest \in Lists /\ rpc \in Rpcs /\ <<rpc>> \in Lists /\ wire[c] = <<rpc>> \o rest
  BY <1>1, SplitHead
<1>3. /\ wire' = [wire EXCEPT ![c] = rest]
      /\ view' = TopicsAfter(filter, request, view)
      /\ unsure' = IF Acceptable(filter, request, view) THEN unsure
                   ELSE unsure \cup Mentioned(<<rpc>>)
      /\ UNCHANGED <<subs, conns, queue, filter>>
  BY DEF Receive
<1> HIDE DEF rest, rpc
<1> SUFFICES ASSUME NEW t \in Topics, t \notin unsure'
             PROVE  SettledIn(queue', wire', filter', view', subs', t)
  BY DEF AllSettled
<1> DEFINE a == Word(subs, t)
<1>4. SettledIn(queue, wire, filter, view, subs, t)
  BY <1>3 DEF AllSettled
<1>5. /\ Tidy(queue[c], t, a) /\ Tidy(wire[c], t, a)
      /\ ~(Mentions(queue[c], t) /\ Mentions(wire[c], t))
  BY <1>4 DEF SettledIn
<1>6. /\ Tidy(<<rpc>>, t, a) /\ Tidy(rest, t, a)
      /\ ~(Mentions(<<rpc>>, t) /\ Mentions(rest, t))
  BY <1>2, <1>5, ConcatTidy
<1>7. Mentions(wire[c], t) <=> Mentions(<<rpc>>, t) \/ Mentions(rest, t)
  BY <1>2, ConcatMentions
<1>8. wire'[c] = rest /\ \A d \in Conns : d # c => wire'[d] = wire[d]
  BY <1>3 DEF AnnounceTypes
<1>9. ~(Mentions(queue[c], t) /\ Mentions(wire'[c], t))
  BY <1>5, <1>7, <1>8
<1>10. Travels(queue, wire', c, t) => Travels(queue, wire, c, t)
  BY <1>7, <1>8 DEF Travels
<1>11. \/ t \in filter.allowed => (t \in view' <=> t \in subs)
       \/ /\ t \in view' <=> t \in view
          /\ Travels(queue, wire, c, t) => Travels(queue, wire', c, t)
  <2>1. CASE ~Acceptable(filter, request, view)
    <3>1. view' = view
      BY <1>3, <2>1 DEF TopicsAfter
    <3>2. ~Mentions(<<rpc>>, t)
      BY <1>2, <1>3, <2>1, MentionedMeans
    <3>. QED  BY <1>7, <1>8, <3>1, <3>2 DEF Travels
  <2>2. CASE Acceptable(filter, request, view) /\ t \in filter.allowed
    <3>1. a \in {"Subscribe", "Unsubscribe"} /\ (a = "Subscribe" <=> t \in subs)
      BY DEF Word
    <3> HIDE DEF a
    <3>2. t \in TopicsAfter(filter, SubscriptionsOf(rpc), view) <=>
            IF Mentions(<<rpc>>, t) THEN a = "Subscribe" ELSE t \in view
      BY <1>2, <1>6, <2>2, <3>1, ReceivedTopic
    <3>3. t \in view' <=> IF Mentions(<<rpc>>, t) THEN t \in subs ELSE t \in view
      BY <1>3, <3>1, <3>2
    <3>4. CASE Mentions(<<rpc>>, t)
      BY <3>3, <3>4
    <3>5. CASE ~Mentions(<<rpc>>, t)
      BY <1>7, <1>8, <3>3, <3>5 DEF Travels
    <3>. QED  BY <3>4, <3>5
  <2>. QED  BY <2>1, <2>2
<1>12. Tidy(wire'[c], t, a)
  BY <1>6, <1>8
<1>13. SettledIn(queue, wire', filter, view', subs, t)
  BY <1>4, <1>5, <1>8, <1>9, <1>10, <1>11, <1>12, SettledFrame
<1>. QED  BY <1>3, <1>13

(* Every step preserves it.                                                *)
LEMMA SettledStep ==
  ASSUME AnnounceTypes, QueuesFit, AllSettled, [Next]_vars
  PROVE  AllSettled'
<1>0. ASSUME conns' = {} PROVE AllSettled'
  BY <1>0 DEF AllSettled
<1>1. ASSUME NEW t \in Topics, Subscribe(t) PROVE AllSettled'
  <2>1. /\ AnnounceChange(Subscribed(t), subs \cup {t})
        /\ UNCHANGED <<conns, remote, wire, filter, view>>
    BY <1>1 DEF Subscribe
  <2>2. subs \cup {t} \in SUBSET Topics
    BY DEF AnnounceTypes
  <2>3. Subscribed(t) = [topic |-> t, action |-> "Subscribe"]
    BY DEF Subscribed
  <2>4. "Subscribe" = Word(subs \cup {t}, t)
    BY DEF Word
  <2>. QED  BY <2>1, <2>2, <2>3, <2>4, ChangeSettled
<1>2. ASSUME NEW t \in Topics, Unsubscribe(t) PROVE AllSettled'
  <2>1. /\ AnnounceChange(Unsubscribed(t), subs \ {t})
        /\ UNCHANGED <<conns, remote, wire, filter, view>>
    BY <1>2 DEF Unsubscribe
  <2>2. subs \ {t} \in SUBSET Topics
    BY DEF AnnounceTypes
  <2>3. Unsubscribed(t) = [topic |-> t, action |-> "Unsubscribe"]
    BY DEF Unsubscribed
  <2>4. "Unsubscribe" = Word(subs \ {t}, t)
    BY DEF Word
  <2>. QED  BY <2>1, <2>2, <2>3, <2>4, ChangeSettled
<1>3. CASE Blacklist
  BY <1>3 DEF Blacklist, connVars, AllSettled
<1>4. ASSUME NEW c \in Conns, ConnectionEstablished(c) PROVE AllSettled'
  BY <1>4, EstablishedSettled
<1>5. ASSUME NEW c \in Conns, ConnectionClosed(c) PROVE AllSettled'
  <2>1. QueueLost(c) /\ conns # {}
    BY <1>5 DEF ConnectionClosed, QueueLost
  <2>. QED  BY <2>1, QueueLostSettled
<1>6. ASSUME NEW c \in Conns, RemoteClosed(c) PROVE AllSettled'
  <2>1. WireLost(c) /\ conns' = conns
    BY <1>6 DEF RemoteClosed, WireLost
  <2>. QED  BY <1>0, <2>1, WireLostSettled
<1>7. ASSUME NEW c \in Conns, Negotiated(c) PROVE AllSettled'
  BY <1>7 DEF Negotiated, AllSettled
<1>8. ASSUME NEW c \in Conns, Transmit(c) PROVE AllSettled'
  BY <1>8, TransmitSettled
<1>9. ASSUME NEW c \in Conns, SubstreamFails(c) PROVE AllSettled'
  <2>1. WireLost(c) /\ conns # {}
    BY <1>9 DEF SubstreamFails, WireLost
  <2>. QED  BY <2>1, WireLostSettled
<1>10. ASSUME NEW c \in Conns, HandlerDisabled(c) PROVE AllSettled'
  <2>1. QueueLost(c) /\ conns # {}
    BY <1>10 DEF HandlerDisabled, QueueLost
  <2>. QED  BY <2>1, QueueLostSettled
<1>11. ASSUME NEW c \in Conns, Receive(c) PROVE AllSettled'
  <2>1. conns' = conns
    BY <1>11 DEF Receive
  <2>. QED  BY <1>0, <1>11, <2>1, ReceiveSettled
<1>12. CASE UNCHANGED vars
  BY <1>12 DEF vars, connVars, AllSettled
<1>. QED  BY <1>1, <1>2, <1>3, <1>4, <1>5, <1>6, <1>7, <1>8, <1>9, <1>10, <1>11,
             <1>12 DEF Next

(* The remote peer knows our subscriptions, except to topics of which      *)
(* announcements are under way, overtook one another or were lost: for any *)
(* number of topics and connections, all sizes, limits and filters, and    *)
(* whatever fragments the greeting is divided into.                        *)
THEOREM RemoteViewAgrees == Spec => []ViewsAgree
<1>1. Init => AllSettled
  BY DEF Init, AllSettled
<1>2. AnnounceTypes /\ QueuesFit /\ AllSettled /\ [Next]_vars => AllSettled'
  BY SettledStep
<1>3. AnnounceTypes /\ AllSettled => ViewsAgree
  <2> SUFFICES ASSUME AnnounceTypes, AllSettled, conns # {},
                      NEW t \in filter.allowed, t \notin unsure, t \notin UnderWay
               PROVE  t \in view <=> t \in subs
    BY DEF ViewsAgree
  <2>1. t \in Topics
    BY FiltersAssumption DEF AnnounceTypes
  <2>2. SettledIn(queue, wire, filter, view, subs, t)
    BY <2>1 DEF AllSettled
  <2>3. \A c \in Conns : ~Travels(queue, wire, c, t)
    BY UnderWayMeans
  <2>. QED  BY <2>2, <2>3 DEF SettledIn
<1>. QED  BY <1>1, <1>2, <1>3, FitInit, FitStep, PTL DEF Spec
=============================================================================
